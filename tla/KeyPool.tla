------------------------------- MODULE KeyPool -------------------------------
(***************************************************************************)
(* The key pool of the TokenPool service: chat and stream calls fail over  *)
(* from key to key (pool/caller.py, routes/proxy.py), failures put a key   *)
(* on a cooldown kept in memory and in SQLite (pool/ratelimit.py), the     *)
(* guards skip keys on cooldown (pool/scheduler.py), and a background loop *)
(* probes every key and sets or clears cooldowns (pool/health.py).         *)
(*                                                                         *)
(* All of it runs on one event loop: what lies between two awaits is one   *)
(* step.  An upstream answer is fixed when the request is sent and acted   *)
(* on when it arrives, so answers are delayed and overtake one another.    *)
(* Times are kept as what is left of a cooldown and as the age of a        *)
(* failure, and run down together in Tick.                                 *)
(***************************************************************************)
EXTENDS Integers, Sequences, FiniteSets, SequencesExt

CONSTANTS
  Keys,           \* the enabled keys of the registry
  RegistryOrder,  \* a sequence: the order in which check_all probes them
  TaskOrders,     \* sequences: the orders in which tasks prefer them
  Calls,          \* HTTP requests being handled
  Kinds,          \* "chat", "bad" (a chat the provider rejects), "stream", "probe"
  Answers,        \* 200, 402, 403, 429, or 0: no answer (timeout, refused)
  Ladder,         \* COOLDOWN_LADDER, in ticks
  Day,            \* DAY_MS, in ticks
  Interval,       \* HEALTH_INTERVAL, in ticks
  MaxTries,       \* max_retries: keys one call may try
  MaxCrashes      \* bound: restarts of the process

ASSUME TimesAssumption ==
  /\ Day \in Nat \ {0}
  /\ Interval \in Nat
  /\ Ladder \in Seq(1..Day) /\ Len(Ladder) > 0

ASSUME PoolAssumption ==
  /\ RegistryOrder \in Seq(Keys)
  /\ TaskOrders \subseteq Seq(Keys)
  /\ Kinds \subseteq {"chat", "bad", "stream", "probe"}
  /\ Answers \subseteq {0, 200, 402, 403, 429}
  /\ MaxTries \in Nat \ {0}
  /\ MaxCrashes \in Nat

VARIABLES
  upstream,   \* what each key's provider answers now
  mem,        \* RateLimiter._cooldowns
  db,         \* the table cooldowns
  hits,       \* RateLimiter._cooldown_hits: ages of 429 failures, oldest first
  call,       \* the handler of each request
  round,      \* check_all: the keys left to probe and the answer under way
  rested,     \* ticks since check_all last ended
  crashes     \* restarts so far

vars == <<upstream, mem, db, hits, call, round, rested, crashes>>

NoCooldown == [left |-> 0, status |-> 0]
DayLong    == {402, 403}
Idle       == [pc |-> "idle", kind |-> "chat", todo |-> <<>>, reply |-> 0]
NoRound    == [todo |-> <<>>, reply |-> 0]

-----------------------------------------------------------------------------
(* Cooldowns *)

\* _get_cooldown: the entry in memory if it is running, else the row.
Cooldown(k) == IF mem[k].left > 0 THEN mem[k] ELSE db[k]
OnCooldown(k) == Cooldown(k).left > 0

\* Looking a key up also brings its row into memory.
Looked(S) == [k \in Keys |-> IF k \in S THEN Cooldown(k) ELSE mem[k]]

\* The failures of a key that the ladder counts, with the one of this moment.
\* The failures that are too old come first in the list; only the last
\* Len(Ladder) of it can make a difference.
TooOld(k) == {i \in 1..Len(hits[k]) : hits[k][i] >= Day}
Recent(k) == SubSeq(hits[k], Cardinality(TooOld(k)) + 1, Len(hits[k]))
Failures(k) ==
  LET all == Append(Recent(k), 0)
  IN  IF Len(all) > Len(Ladder) THEN Tail(all) ELSE all

\* a mutant: the ladder is never climbed
FirstRung(n) == Ladder[1]

\* The rung of the ladder that n failures reach.
Rung(n) == Ladder[n]

\* a mutant: the failure of this moment is not counted
EntryOneLate(k, status) ==
  [left |-> IF status \in DayLong THEN Day
            ELSE Rung(IF Recent(k) = <<>> THEN 1 ELSE Len(Recent(k))),
   status |-> status]

\* set_cooldown(status): a day, or the rung of the failures counted.
Entry(k, status) ==
  [left |-> IF status \in DayLong THEN Day ELSE Rung(Len(Failures(k))),
   status |-> status]

\* a mutant: the cooldown is kept in memory only
PersistNothing(k, entry) == UNCHANGED db

\* _persist_cooldown and _clear_cooldown: the row of the key.
Persist(k, entry) == db' = [db EXCEPT ![k] = entry]
ClearRow(k)       == db' = [db EXCEPT ![k] = NoCooldown]

SetCooldown(k, status) ==
  /\ hits' = IF status \in DayLong THEN hits ELSE [hits EXCEPT ![k] = Failures(k)]
  /\ mem' = [mem EXCEPT ![k] = Entry(k, status)]
  /\ Persist(k, Entry(k, status))

ClearCooldown(k) ==
  /\ mem' = [mem EXCEPT ![k] = NoCooldown]
  /\ hits' = [hits EXCEPT ![k] = <<>>]
  /\ ClearRow(k)

-----------------------------------------------------------------------------
(* Calls *)

\* The answer a request sent now will get: a provider that works rejects a
\* bad request with 400.
Reply(kind, k) == IF kind = "bad" /\ upstream[k] = 200 THEN 400 ELSE upstream[k]

\* mutants: a chat takes every response for a success (no raise_for_status); a
\* probe does not accept a 200
WorksIfAnswered(kind, reply) == IF kind = "probe" THEN reply \in {200, 400} ELSE reply # 0
WorksButProbes(kind, reply) == IF kind = "probe" THEN reply = 400 ELSE reply = 200

\* What the handler takes for success: a chat a 200, a probe a 400 as well, a
\* stream every response, whatever its status.
Works(kind, reply) ==
  CASE kind = "stream" -> reply # 0
    [] kind = "probe"  -> reply \in {200, 400}
    [] OTHER           -> reply = 200

\* _extract_status for a chat; streams and probes always report 429.
Status(kind, reply) ==
  IF kind \in {"chat", "bad"} /\ reply \in DayLong THEN reply ELSE 429

Sent(kind, todo) ==
  [pc |-> "sent", kind |-> kind, todo |-> todo, reply |-> Reply(kind, Head(todo))]

Ended(c, pc, todo) == [call[c] EXCEPT !.pc = pc, !.todo = todo, !.reply = 0]

\* The keys at some places of an order, in that order, MaxTries at most.
InOrder(order, places) ==
  LET nth(n) == CHOOSE i \in places : Cardinality({j \in places : j <= i}) = n
      tries  == IF Cardinality(places) > MaxTries THEN MaxTries ELSE Cardinality(places)
  IN  [n \in 1..tries |-> order[nth(n)]]

\* a mutant: the guard reads the memory only
CandidatesInMemory(order, offered, fit) ==
  InOrder(order, {i \in DOMAIN order : order[i] \in offered \cap fit /\ mem[order[i]].left = 0})

\* filter_candidates and pick_all: the offered keys that are not on cooldown,
\* in the order of the task; MaxTries of those that fit the request.
Candidates(order, offered, fit) ==
  InOrder(order, {i \in DOMAIN order : order[i] \in offered \cap fit /\ ~OnCooldown(order[i])})

\* The keys are chosen and the first request goes out.  A stream checks no
\* model capabilities: all offered keys fit.
Pick(c, kind) ==
  /\ call[c].pc # "sent"
  /\ kind \in Kinds \ {"probe"}
  /\ \E order \in TaskOrders, offered \in SUBSET Keys :
       \E fit \in IF kind = "stream" THEN {offered} ELSE SUBSET offered :
         LET todo == Candidates(order, offered, fit)
         IN  /\ mem' = Looked(offered)
             /\ call' = [call EXCEPT ![c] =
                  IF todo = <<>> THEN [Idle EXCEPT !.pc = "refused", !.kind = kind]
                  ELSE Sent(kind, todo)]
  /\ UNCHANGED <<upstream, db, hits, round, rested, crashes>>

\* The probe and probe_all routes: one key, or all of them.
Probe(c) ==
  /\ call[c].pc # "sent"
  /\ "probe" \in Kinds
  /\ \E todo \in {<<k>> : k \in Keys} \cup {RegistryOrder} :
       todo # <<>> /\ call' = [call EXCEPT ![c] = Sent("probe", todo)]
  /\ UNCHANGED <<upstream, mem, db, hits, round, rested, crashes>>

\* What follows an answer that is no success: the next key, or the end.  A
\* stream has returned its response already and cannot try another key; a
\* probe goes on whatever the answer.
AfterFailure(c) ==
  LET left == Tail(call[c].todo)
  IN  IF left # <<>> /\ call[c].kind # "stream" THEN Sent(call[c].kind, left)
      ELSE Ended(c, "failed", left)

AfterSuccess(c) ==
  LET left == Tail(call[c].todo)
  IN  IF left # <<>> /\ call[c].kind = "probe" THEN Sent("probe", left)
      ELSE Ended(c, "served", left)

Success(c) ==
  /\ call[c].pc = "sent"
  /\ Works(call[c].kind, call[c].reply)
  /\ ClearCooldown(Head(call[c].todo))
  /\ call' = [call EXCEPT ![c] = AfterSuccess(c)]
  /\ UNCHANGED <<upstream, round, rested, crashes>>

Failure(c) ==
  /\ call[c].pc = "sent"
  /\ ~Works(call[c].kind, call[c].reply)
  /\ SetCooldown(Head(call[c].todo), Status(call[c].kind, call[c].reply))
  /\ call' = [call EXCEPT ![c] = AfterFailure(c)]
  /\ UNCHANGED <<upstream, round, rested, crashes>>

\* a mutant: an error is not caught
AnswerIfWorks(c) == Success(c)

Answer(c) == Success(c) \/ Failure(c)

\* The client of a stream goes away: the generator is closed, no handler runs.
Disconnect(c) ==
  /\ call[c].pc = "sent" /\ call[c].kind = "stream"
  /\ call' = [call EXCEPT ![c] = Idle]
  /\ UNCHANGED <<upstream, mem, db, hits, round, rested, crashes>>

\* reset_circuit, by an administrator, who also sends the probes.
Reset(k) ==
  /\ "probe" \in Kinds
  /\ ClearCooldown(k)
  /\ UNCHANGED <<upstream, call, round, rested, crashes>>

-----------------------------------------------------------------------------
(* The health loop *)

Probing(todo) ==
  IF todo = <<>> THEN NoRound
  ELSE [todo |-> todo, reply |-> Reply("probe", Head(todo))]

\* run_forever: check_all as soon as the loop has slept its interval.
StartRound ==
  /\ round = NoRound /\ rested = Interval
  /\ RegistryOrder # <<>>
  /\ round' = Probing(RegistryOrder)
  /\ UNCHANGED <<upstream, mem, db, hits, call, rested, crashes>>

ProbeAnswer ==
  /\ round # NoRound
  /\ IF Works("probe", round.reply)
     THEN ClearCooldown(Head(round.todo))
     ELSE SetCooldown(Head(round.todo), 429)
  /\ round' = Probing(Tail(round.todo))
  /\ rested' = IF Tail(round.todo) = <<>> THEN 0 ELSE rested
  /\ UNCHANGED <<upstream, call, crashes>>

-----------------------------------------------------------------------------
(* Time, providers, restarts *)

Age(e) == IF e.left <= 1 THEN NoCooldown ELSE [e EXCEPT !.left = @ - 1]
Older(age) == IF age < Day THEN age + 1 ELSE Day

\* A round is far shorter than a tick (HEALTH_TIMEOUT per key, against the two
\* minutes of the first rung), and the loop sleeps no longer than Interval.
Tick ==
  /\ round = NoRound /\ rested < Interval
  /\ rested' = rested + 1
  /\ mem' = [k \in Keys |-> Age(mem[k])]
  /\ db' = [k \in Keys |-> Age(db[k])]
  /\ hits' = [k \in Keys |-> [i \in 1..Len(hits[k]) |-> Older(hits[k][i])]]
  /\ UNCHANGED <<upstream, call, round, crashes>>

Turn(k) ==
  /\ \E a \in Answers : upstream' = [upstream EXCEPT ![k] = a]
  /\ UNCHANGED <<mem, db, hits, call, round, rested, crashes>>

\* The process dies and is started again: only the table survives.
Restart ==
  /\ crashes < MaxCrashes
  /\ crashes' = crashes + 1
  /\ mem' = [k \in Keys |-> NoCooldown]
  /\ hits' = [k \in Keys |-> <<>>]
  /\ call' = [c \in Calls |-> Idle]
  /\ round' = NoRound
  /\ rested' = Interval
  /\ UNCHANGED <<upstream, db>>

Init ==
  /\ upstream \in [Keys -> Answers]
  /\ mem = [k \in Keys |-> NoCooldown]
  /\ db = [k \in Keys |-> NoCooldown]
  /\ hits = [k \in Keys |-> <<>>]
  /\ call = [c \in Calls |-> Idle]
  /\ round = NoRound
  /\ rested = Interval
  /\ crashes = 0

Next ==
  \/ \E c \in Calls : (\E kind \in Kinds : Pick(c, kind)) \/ Probe(c) \/ Answer(c) \/ Disconnect(c)
  \/ \E k \in Keys : Reset(k) \/ Turn(k)
  \/ StartRound \/ ProbeAnswer \/ Tick \/ Restart

Spec == Init /\ [][Next]_vars

\* Handlers and the health loop are scheduled, their requests time out, and
\* time goes on.  Nothing makes a client call or a provider change.
FairSpec ==
  /\ Spec
  /\ \A c \in Calls : WF_vars(Answer(c))
  /\ WF_vars(StartRound) /\ WF_vars(ProbeAnswer) /\ WF_vars(Tick)

-----------------------------------------------------------------------------
(* Properties *)

Entries == [left : 0..Day, status : {0, 429} \cup DayLong]

\* The type invariant.
TypeOK ==
  /\ upstream \in [Keys -> Answers]
  /\ mem \in [Keys -> Entries] /\ db \in [Keys -> Entries]
  /\ hits \in [Keys -> Seq(0..Day)]
  /\ \A k \in Keys : Len(hits[k]) <= Len(Ladder)
  /\ call \in [Calls -> [pc : {"idle", "sent", "served", "failed", "refused"},
                         kind : Kinds \cup {"chat"}, todo : Seq(Keys),
                         reply : Answers \cup {0, 400}]]
  /\ \A c \in Calls : call[c].pc = "sent" => call[c].todo # <<>>
  /\ round \in [todo : Seq(Keys), reply : Answers \cup {0}]
  /\ rested \in 0..Interval /\ crashes \in 0..MaxCrashes

\* The ladder explains the cooldown: whatever was set, cleared, loaded back or
\* aged, a key cooling after a 429 has been cooling since the last failure
\* remembered, for the rung that the failures remembered reach.
LadderExplains ==
  \A k \in Keys : hits[k] # <<>> /\ Cooldown(k).status = 429 =>
    Cooldown(k).left + Last(hits[k]) = Rung(Len(hits[k]))

\* A call never starts with a key on cooldown, also when the cooldown was set
\* before a restart and is known to the table only.
FirstKeyIsFree ==
  [][\A c \in Calls :
       call[c].pc # "sent" /\ call'[c].pc = "sent" /\ call'[c].kind # "probe"
         => ~OnCooldown(Head(call'[c].todo))]_vars

\* "Cleared after a successful call" (clear_cooldown): an answer ends a cooldown
\* only if the provider accepted the key (400: the key was fine, the probe not).
ClearedBySuccess ==
  [][\A c \in Calls, k \in Keys :
       call[c].pc = "sent" /\ call'[c] # call[c] /\ k = Head(call[c].todo)
       /\ OnCooldown(k) /\ ~OnCooldown(k)'
         => call[c].reply \in {200, 400}]_vars

\* KeyPool keeps the promise of CooldownBoard: what the guards see of a key is
\* one register per key, which restarts, look-ups and reloads leave alone.
Board == INSTANCE CooldownBoard WITH board <- [k \in Keys |-> Cooldown(k)]
BoardSpec == Board!Spec

\* Every call that is sent comes to an end.
CallsEnd == \A c \in Calls : call[c].pc = "sent" ~> call[c].pc # "sent"

\* A key whose provider works for good is at some point free for good: late
\* failures are forgotten and the health loop lifts its cooldown.
KeyRecovers ==
  \A k \in Keys : <>[](upstream[k] = 200) => <>[]~OnCooldown(k)

\* A key that is dead for good is at some point on cooldown for good: probes
\* keep it on the last rung, so no call starts with it any more.
DeadKeyRetired ==
  \A k \in Keys : <>[](upstream[k] \notin {200}) => <>[]OnCooldown(k)
=============================================================================
