---- MODULE MCUserQuota ----
(* UserQuota for TLC: a user with two devices, calls that overlap, and an    *)
(* administrator who also sends ratios outside 0.0 .. 1.0.                   *)
EXTENDS UserQuota
CONSTANTS u1, url1, url2, c1, c2, idle
OneUser == {u1}
OneUrl == {url1}
TwoUrls == {url1, url2}
TwoCalls == {c1, c2}
RatiosSent == {-1, 1, 3}
====
