------------------------------- MODULE MCPool -------------------------------
(***************************************************************************)
(* Three components of the token pool for TLC: the MiClaw accounts, the    *)
(* tables of keys and what is known of one key when it is chosen.  They    *)
(* share no row and no variable, so the run explores each of them from its *)
(* own initial state: a behaviour is one of the component `part`, and the  *)
(* states are the sum of theirs.                                           *)
(***************************************************************************)
EXTENDS Naturals

CONSTANTS ClawUsers, ClawThreads, ClawForms, MaxRows, MaxIssued, MaxSids, MaxBoots, MaxOps
VARIABLES rows, bridge, forms, sids, work, form, spent
Claw == INSTANCE Miclaw

CONSTANTS KeyThreads, Names, MaxKeyOps, MaxKeyBoots
VARIABLES area, table, durable, default, doing, ops, promised, vault
Keys == INSTANCE PoolKeys

CONSTANTS Providers, LogLimit, MaxSamples, Latencies, Amounts, MaxCalls, MaxDays, MaxRestarts
VARIABLES provider, log, day, percent, counts, samples, hub, limiter, boots
ASSUME LimitsAreNumbers == LogLimit \in Nat /\ Amounts \subseteq Nat
\* A model of middling ability, and a request that suits it.
Able == [intelligence |-> 4, reasoning |-> 3, coding |-> 0, vision |-> 2, search |-> 0,
         tool_use |-> 1, planning |-> 0, context |-> 100]
Asked == [model |-> "", chars |-> 40, type |-> "code", max |-> 20, images |-> TRUE, tools |-> FALSE]
Route == INSTANCE Routing WITH Profile <- Able, Requests <- {Asked},
                               Key <- [model |-> "m", secret |-> TRUE]

VARIABLE part
clawVars == <<rows, bridge, forms, sids, work, form, spent>>
keyVars == <<area, table, durable, default, doing, ops, promised, vault>>
routeVars == <<provider, log, day, percent, counts, samples, hub, limiter, boots>>
vars == <<clawVars, keyVars, routeVars, part>>

Init == /\ part \in {"claw", "keys", "route"}
        /\ Claw!ClawInit /\ Keys!KeysInit /\ Route!RouteInit
        /\ part # "keys" => area = "free"
        /\ part # "route" => provider = "openai"

ClawMoves == part = "claw" /\ Claw!ClawNext /\ UNCHANGED <<keyVars, routeVars, part>>
KeysMove == part = "keys" /\ Keys!KeysNext /\ UNCHANGED <<clawVars, routeVars, part>>
RouteMoves == part = "route" /\ Route!RouteNext /\ UNCHANGED <<clawVars, keyVars, part>>
Next == ClawMoves \/ KeysMove \/ RouteMoves

\* The operations of the accounts go on, in a behaviour that is one of theirs.
Fairness == part = "claw" => Claw!ClawStep
Spec == Init /\ [][Next]_vars /\ Fairness
-----------------------------------------------------------------------------
\* The health loop takes dead accounts out (Miclaw).
DeadAccountsLeave == Claw!DeadAccountsLeave
\* Keys stay as they were issued (PoolKeys).
IssuedKeys == Keys!IssuedKeys
\* The guard of shared keys errs on the owner's side (Routing).
GuardIsStrict == Route!GuardIsStrict
\* A failure does not raise the score of a key that mostly works (Routing).
FailureCosts == Route!FailureCosts
=============================================================================
