------------------------------ MODULE MCKeyPool ------------------------------
(* Instances of KeyPool for TLC. *)
EXTENDS KeyPool

CONSTANTS k1, k2, c1, c2

OneKey     == <<k1>>
OneOrder   == {<<k1>>}
TwoKeys    == <<k1, k2>>
BothOrders == {<<k1, k2>>, <<k2, k1>>}

ShortLadder == <<1, 2>>
LongLadder  == <<1, 3, 6>>
=============================================================================
