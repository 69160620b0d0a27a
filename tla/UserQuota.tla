---- MODULE UserQuota ----
(***************************************************************************)
(* What a user of the TokenPool service may still ask for.                  *)
(*                                                                         *)
(* /v1/chat/completions checks a user twice before it serves a call        *)
(* (routes/proxy.py): _check_quota against the rows of the                 *)
(* user_shared_keys table, _check_user_rl against sliding windows in       *)
(* memory.  It then awaits the body and the provider, and only a call that *)
(* is answered and is not a stream is recorded, in both.  Between check    *)
(* and record any number of other calls, heartbeats, ratio changes and a   *)
(* restart may come.                                                        *)
(*                                                                         *)
(* Time is relative: a window holds the ages of its entries, a step of the *)
(* clock makes them older.  Calls without a user code pass every check and *)
(* are never recorded; they touch nothing here.  The token window (_tpd)   *)
(* is left out: its check is only reached with tokens > 0 and the proxy    *)
(* passes none.                                                             *)
(***************************************************************************)
EXTENDS Integers, Sequences, FiniteSets

CONSTANTS Users,     \* user codes
          Urls,      \* base URLs of the keys users share
          Calls,     \* calls the service handles at once
          Idle,      \* what a free call slot holds
          RPM, RPD,  \* default_rpm, default_rpd
          Minute,    \* MINUTE and DAY in ticks of the clock
          Day,
          Usages,    \* values of yesterday_usage a device reports
          Tokens,    \* total_tokens of an answer
          Whole,     \* the ratio 1.0; a ratio r stands for r / Whole
          Ratios,    \* ratios an administrator sends, also out of range
          MaxRows,   \* bound: rows of the table
          Cap        \* bound: borrowed_today is counted up to Cap

ASSUME CallsAreFinite == IsFiniteSet(Calls) /\ Cardinality(Calls) > 0
ASSUME IdleIsNoUser == Idle \notin Users
ASSUME LimitsArePositive == RPM \in Nat \ {0} /\ RPD \in Nat \ {0}
ASSUME WindowsAreOrdered == Minute \in Nat /\ Day \in Nat /\ Minute <= Day
ASSUME AmountsAreNatural ==
    Usages \subseteq Nat /\ Tokens \subseteq Nat /\ Whole \in Nat \ {0} /\ Ratios \subseteq Int
ASSUME CapIsNatural == Cap \in Nat /\ MaxRows \in Nat
\* No quota exceeds Cap, so that counting no further changes no comparison.
ASSUME CapIsAboveQuotas == \A n \in Usages : n <= Cap

VARIABLES rows,   \* the table user_shared_keys, in the order of its ids
          rpm,    \* UserRateLimiter._rpm: per user the ages, oldest first
          rpd,    \* UserRateLimiter._rpd
          calls,  \* per slot the user whose call is past its checks, or Idle
          over    \* history: calls recorded since the quota is exhausted
vars == <<rows, rpm, rpd, calls, over>>

Row == [user : Users, url : Urls, usage : Nat, max : Nat, borrowed : 0..Cap]
Ages == 0..(Day + 1)

TypeOK ==
    /\ rows \in Seq(Row)
    /\ rpm \in [Users -> Seq(Ages)]
    /\ rpd \in [Users -> Seq(Ages)]
    /\ calls \in [Calls -> Users \union {Idle}]
    /\ over \in [Users -> Nat]

Least(a, b) == IF a <= b THEN a ELSE b

\* set_ratio: max(0.0, min(1.0, ratio)).
Clamp(r) == IF r < 0 THEN 0 ELSE Least(r, Whole)

RowsOf(u) == {i \in DOMAIN rows : rows[i].user = u}
InFlight(u) == {c \in Calls : calls[c] = u}

----
(* The checks. *)

\* _check_quota: a row with a quota whose borrowing has reached it.  A row
\* without one (max_borrowable = 0) never refuses.
Exhausted(u) == \E i \in RowsOf(u) : rows[i].max > 0 /\ rows[i].borrowed >= rows[i].max

\* _purge: the entries at the front that are older than the window go.
Expired(q, window) == {i \in 1..Len(q) : \A j \in 1..i : q[j] > window}

\* MUTANT: nothing is ever dropped from a window.
PurgeNothing(q, window) == q

Purge(q, window) == SubSeq(q, Cardinality(Expired(q, window)) + 1, Len(q))

\* MUTANT: one call too many is let through.
WithinRateAt(u) == Len(rpm'[u]) <= RPM /\ Len(rpd'[u]) <= RPD

\* UserRateLimiter.check, after its purges.
WithinRate(u) == Len(rpm'[u]) < RPM /\ Len(rpd'[u]) < RPD

\* MUTANT: the quota is not looked at.
AskUnchecked(c, u) ==
    /\ calls[c] = Idle
    /\ rpm' = [rpm EXCEPT ![u] = Purge(@, Minute)]
    /\ rpd' = [rpd EXCEPT ![u] = Purge(@, Day)]
    /\ calls' = IF WithinRate(u) THEN [calls EXCEPT ![c] = u] ELSE calls
    /\ UNCHANGED <<rows, over>>

\* A call arrives and passes both checks, or is refused with 429.
Ask(c, u) ==
    /\ calls[c] = Idle
    /\ ~Exhausted(u)
    /\ rpm' = [rpm EXCEPT ![u] = Purge(@, Minute)]
    /\ rpd' = [rpd EXCEPT ![u] = Purge(@, Day)]
    /\ calls' = IF WithinRate(u) THEN [calls EXCEPT ![c] = u] ELSE calls
    /\ UNCHANGED <<rows, over>>

----
(* The end of a call. *)

\* increment_borrowed: every row of the user counts the tokens.
Charge(u, t) ==
    rows' = [i \in DOMAIN rows |->
               IF rows[i].user = u THEN [rows[i] EXCEPT !.borrowed = Least(Cap, @ + t)] ELSE rows[i]]

\* The provider has answered: _record_usage.
Served(c, t) ==
    /\ calls[c] # Idle
    /\ LET u == calls[c] IN
         /\ rpm' = [rpm EXCEPT ![u] = Append(@, 0)]
         /\ rpd' = [rpd EXCEPT ![u] = Append(@, 0)]
         /\ Charge(u, t)
         /\ over' = [over EXCEPT ![u] = IF Exhausted(u) THEN @ + 1 ELSE 0]
    /\ calls' = [calls EXCEPT ![c] = Idle]

\* The body is no JSON, every key has failed, or the call is a stream: the
\* handler returns and nothing is recorded.
Unrecorded(c) ==
    /\ calls[c] # Idle
    /\ calls' = [calls EXCEPT ![c] = Idle]
    /\ UNCHANGED <<rows, rpm, rpd, over>>

----
(* The table. *)

Existing(u, url) == {i \in RowsOf(u) : rows[i].url = url}
NewRow(u, url, n) == [user |-> u, url |-> url, usage |-> n, max |-> 0, borrowed |-> 0]

\* MUTANT: the row is written anew, as INSERT OR REPLACE would.
UpsertReplaces(u, url, n) ==
    \/ \E i \in Existing(u, url) : rows' = [rows EXCEPT ![i] = NewRow(u, url, n)]
    \/ /\ Existing(u, url) = {} /\ Len(rows) < MaxRows
       /\ rows' = Append(rows, NewRow(u, url, n))

\* upsert_shared_key: a row known by user and URL takes the new usage and
\* keeps quota and borrowing; the quota is not computed again.  After a
\* set_url several rows may match: the query names no order and takes one.
Upsert(u, url, n) ==
    \/ \E i \in Existing(u, url) : rows' = [rows EXCEPT ![i].usage = n]
    \/ /\ Existing(u, url) = {} /\ Len(rows) < MaxRows
       /\ rows' = Append(rows, NewRow(u, url, n))

Heartbeat(u, url, n) == Upsert(u, url, n) /\ UNCHANGED <<rpm, rpd, calls, over>>

\* max_borrowable = yesterday_usage * allowed_ratio, a real number.  It is
\* compared with 0 and with whole tokens only, so its ceiling stands for it.
Quota(n, r) == (n * r + Whole - 1) \div Whole

\* set_ratio: the ratio is clamped and every quota of the user computed anew.
SetRatio(u, r) ==
    /\ rows' = [i \in DOMAIN rows |->
                  IF rows[i].user = u
                    THEN [rows[i] EXCEPT !.max = Quota(rows[i].usage, Clamp(r))]
                    ELSE rows[i]]
    /\ over' = [over EXCEPT ![u] = 0]
    /\ UNCHANGED <<rpm, rpd, calls>>

\* set_url: all rows of the user get the same URL.
SetUrl(u, url) ==
    /\ rows' = [i \in DOMAIN rows |->
                  IF rows[i].user = u THEN [rows[i] EXCEPT !.url = url] ELSE rows[i]]
    /\ UNCHANGED <<rpm, rpd, calls, over>>

----
(* Time and restarts. *)

Older(q) == [i \in DOMAIN q |-> Least(q[i] + 1, Day + 1)]
Tick ==
    /\ rpm' = [u \in Users |-> Older(rpm[u])]
    /\ rpd' = [u \in Users |-> Older(rpd[u])]
    /\ UNCHANGED <<rows, calls, over>>

Empty == [u \in Users |-> <<>>]

\* The windows and the calls live in memory, the table on disk.
Restart ==
    /\ rpm' = Empty
    /\ rpd' = Empty
    /\ calls' = [c \in Calls |-> Idle]
    /\ UNCHANGED <<rows, over>>

Init ==
    /\ rows = <<>>
    /\ rpm = Empty
    /\ rpd = Empty
    /\ calls = [c \in Calls |-> Idle]
    /\ over = [u \in Users |-> 0]

Asking == \E c \in Calls, u \in Users : Ask(c, u)
Serving == \E c \in Calls, t \in Tokens : Served(c, t)
Ending == \E c \in Calls : Unrecorded(c)
Beating == \E u \in Users, url \in Urls, n \in Usages : Heartbeat(u, url, n)
Administering ==
    \E u \in Users : (\E r \in Ratios : SetRatio(u, r)) \/ (\E url \in Urls : SetUrl(u, url))

Next == Asking \/ Serving \/ Ending \/ Beating \/ Administering \/ Tick \/ Restart
Spec == Init /\ [][Next]_vars

\* Time passes, a user who is refused asks again, and a call in flight ends:
\* httpx gives up after 120 s and there are at most three requests.  Asking
\* is strongly fair because the service has no limit on calls: that a slot
\* is free only now and then is the model's bound.
FairSpec ==
    /\ Spec
    /\ WF_vars(Tick)
    /\ \A u \in Users : SF_vars(\E c \in Calls : Ask(c, u))
    /\ \A c \in Calls : WF_vars(Unrecorded(c) \/ \E t \in Tokens : Served(c, t))

----
(* Properties. *)

\* The windows are checked before and filled after the provider is awaited,
\* so calls that overlap pass on the same count.  The excess is bounded: what
\* a window holds and what is still on its way never exceed the limit by more
\* than the calls the service handles at once.
RateOvershoot ==
    \A u \in Users :
        /\ Len(rpm[u]) + Cardinality(InFlight(u)) < RPM + Cardinality(Calls)
        /\ Len(rpd[u]) + Cardinality(InFlight(u)) < RPD + Cardinality(Calls)

\* The quota is looked at in one step and charged in a later one.  However
\* heartbeats, ratio changes, URL changes and answers interleave, a user whose
\* quota is exhausted is served at most the calls already in flight then.
QuotaOvershoot ==
    \A u \in Users : Exhausted(u) => over[u] + Cardinality(InFlight(u)) <= Cardinality(Calls)

\* Nothing a device, an administrator, the clock or a restart does gives back
\* what a user has borrowed: a row stays its user's and its borrowed_today
\* never falls.
BorrowingIsKept ==
    [][\A i \in DOMAIN rows :
          i \in DOMAIN rows' /\ rows'[i].user = rows[i].user /\ rows'[i].borrowed >= rows[i].borrowed]_vars

\* The sliding windows open again: a user whose quota lasts and who keeps
\* asking is let through again and again, whatever others ask meanwhile.
WindowReopens ==
    \A u \in Users : <>[](~Exhausted(u)) => []<>(InFlight(u) # {})
====
