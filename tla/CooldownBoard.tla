---------------------------- MODULE CooldownBoard ----------------------------
(***************************************************************************)
(* What the TokenPool promises about cooldowns: one entry per key, set by  *)
(* a failure, cleared by a success or an administrator, running down with  *)
(* time, and untouched by anything else, a restart of the process          *)
(* included.  KeyPool implements it with a cache and a table.              *)
(***************************************************************************)
EXTENDS Integers, Sequences

CONSTANTS
  Keys,      \* the API keys of the pool
  Ladder,    \* COOLDOWN_LADDER: the cooldown after the n-th failure in a day
  Day        \* DAY_MS, in ticks

VARIABLE board     \* the cooldown in force for each key

NoCooldown == [left |-> 0, status |-> 0]

\* Unpaid (402) and forbidden (403) answers cool a key for a day.
DayLong == {402, 403}

\* The cooldowns set_cooldown can write.
Cooldowns ==
  [left : {Day}, status : DayLong]
    \cup [left : {Ladder[i] : i \in 1..Len(Ladder)}, status : {429}]

\* A cooldown one tick later: an expired one is no cooldown.
Age(c) == IF c.left <= 1 THEN NoCooldown ELSE [c EXCEPT !.left = @ - 1]

Init == board \in [Keys -> {NoCooldown}]

Cool(k)  == \E c \in Cooldowns : board' = [board EXCEPT ![k] = c]
Clear(k) == board' = [board EXCEPT ![k] = NoCooldown]
Tick     == board' = [k \in Keys |-> Age(board[k])]

Next == Tick \/ \E k \in Keys : Cool(k) \/ Clear(k)

Spec == Init /\ [][Next]_board
=============================================================================
