---------------------------- MODULE KeyPoolProofs ----------------------------
(***************************************************************************)
(* KeyPool implements CooldownBoard, its ladder explains every cooldown    *)
(* and no call begins with a key on cooldown, for every pool of keys,      *)
(* ladder, set of calls and number of restarts.                            *)
(***************************************************************************)
EXTENDS KeyPool, FiniteSetTheorems, WellFoundedInduction, TLAPS

\* The variables that make up the cooldowns, and their types.
CooldownTypeOK ==
  /\ mem \in [Keys -> Entries] /\ db \in [Keys -> Entries]
  /\ hits \in [Keys -> Seq(0..Day)]
  /\ \A k \in Keys : Len(hits[k]) <= Len(Ladder)

\* A running entry in memory is the row of its key.
CacheMatchesRow == \A k \in Keys : mem[k].left > 0 => db[k] = mem[k]

BoardInv == CooldownTypeOK /\ CacheMatchesRow /\ LadderExplains

\* The board that the guards see.
Seen == [k \in Keys |-> Cooldown(k)]

-----------------------------------------------------------------------------
(* Sequences *)

\* A part of the positions of a sequence is no larger than the sequence.
LEMMA PositionsOfSeq ==
  ASSUME NEW m \in Nat, NEW P \in SUBSET (1..m)
  PROVE  Cardinality(P) \in 0..m
<1>1. IsFiniteSet(1..m) /\ Cardinality(1..m) = m
  BY FS_Interval
<1>2. IsFiniteSet(P) /\ Cardinality(P) <= m
  BY <1>1, FS_Subset
<1> QED
  BY <1>2, FS_CardinalityType

\* What is left of a sequence without its first n elements.
LEMMA SuffixOfSeq ==
  ASSUME NEW S, NEW s \in Seq(S), NEW n \in 0..Len(s)
  PROVE  SubSeq(s, n + 1, Len(s)) \in Seq(S) /\ Len(SubSeq(s, n + 1, Len(s))) = Len(s) - n
  OBVIOUS

\* The elements of a sequence.
LEMMA ElementOfSeq ==
  ASSUME NEW S, NEW s \in Seq(S), NEW i \in 1..Len(s)
  PROVE  s[i] \in S
  OBVIOUS

-----------------------------------------------------------------------------
(* The ladder *)

\* The failures counted are one to Len(Ladder), the last of them is new.
LEMMA FailuresCounted ==
  ASSUME CooldownTypeOK, NEW k \in Keys
  PROVE  /\ Failures(k) \in Seq(0..Day)
         /\ Len(Failures(k)) \in 1..Len(Ladder)
         /\ Last(Failures(k)) = 0
<1> DEFINE n == Cardinality(TooOld(k))
<1> DEFINE all == Append(Recent(k), 0)
<1>1. hits[k] \in Seq(0..Day) /\ Len(hits[k]) \in Nat /\ Len(hits[k]) <= Len(Ladder)
  BY DEF CooldownTypeOK
<1>2. n \in 0..Len(hits[k])
  BY <1>1, PositionsOfSeq DEF TooOld
<1>3. Recent(k) \in Seq(0..Day) /\ Len(Recent(k)) = Len(hits[k]) - n
  BY <1>1, <1>2, SuffixOfSeq DEF Recent
<1>4. 0 \in 0..Day /\ Len(Ladder) \in Nat \ {0}
  BY TimesAssumption
<1>5. all \in Seq(0..Day) /\ Len(all) = Len(Recent(k)) + 1 /\ all[Len(all)] = 0
  BY <1>3, <1>4
<1>6. Len(all) \in 1..(Len(Ladder) + 1)
  BY <1>1, <1>2, <1>3, <1>4, <1>5
<1>7. CASE Len(all) <= Len(Ladder)
  <2>1. Failures(k) = all
    BY <1>4, <1>6, <1>7 DEF Failures
  <2>2. Last(all) = 0
    BY <1>5 DEF Last
  <2> QED
    BY <1>4, <1>5, <1>6, <1>7, <2>1, <2>2
<1>8. CASE Len(all) > Len(Ladder)
  <2>1. Failures(k) = Tail(all)
    BY <1>8 DEF Failures
  <2>2. Len(Tail(all)) = Len(all) - 1 /\ Tail(all) \in Seq(0..Day)
    BY <1>5, <1>6
  <2>3. Len(all) = Len(Ladder) + 1 /\ Len(all) > 1
    BY <1>4, <1>6, <1>8
  <2>4. Tail(all)[Len(all) - 1] = all[Len(all)]
    BY <1>5, <2>3
  <2> QED
    BY <1>4, <1>5, <2>1, <2>2, <2>3, <2>4 DEF Last
<1> QED
  BY <1>4, <1>6, <1>7, <1>8

\* What set_cooldown writes runs at least one tick and is one of the board's
\* cooldowns.
LEMMA EntryIsCooldown ==
  ASSUME CooldownTypeOK, NEW k \in Keys, NEW status \in {402, 403, 429}
  PROVE  /\ Entry(k, status) \in Board!Cooldowns
         /\ Entry(k, status) \in Entries
         /\ Entry(k, status).left > 0
<1>1. Len(Failures(k)) \in 1..Len(Ladder)
  BY FailuresCounted
<1>2. Rung(Len(Failures(k))) \in 1..Day
  BY <1>1, TimesAssumption DEF Rung
<1>3. CASE status \in DayLong
  BY <1>3, TimesAssumption DEF Entry, Entries, Board!Cooldowns, Board!DayLong, DayLong
<1>4. CASE status \notin DayLong
  <2>1. status = 429
    BY <1>4 DEF DayLong
  <2>2. Entry(k, status) = [left |-> Rung(Len(Failures(k))), status |-> 429]
    BY <1>4, <2>1 DEF Entry
  <2>3. Rung(Len(Failures(k))) \in {Ladder[i] : i \in 1..Len(Ladder)}
    BY <1>1 DEF Rung
  <2> QED
    BY <1>2, <2>2, <2>3, TimesAssumption DEF Entries, Board!Cooldowns
<1> QED
  BY <1>3, <1>4

-----------------------------------------------------------------------------
(* Steps of the cooldowns *)

\* An entry one tick later is an entry, and both modules age it alike.
LEMMA Ageing ==
  ASSUME NEW e \in Entries
  PROVE  /\ Age(e) \in Entries
         /\ Age(e) = Board!Age(e)
         /\ e.left <= 1 => Age(e).left = 0
         /\ e.left > 1 => Age(e).left = e.left - 1 /\ Age(e).status = e.status
<1>1. NoCooldown \in Entries /\ NoCooldown = Board!NoCooldown
  BY TimesAssumption DEF NoCooldown, Entries, Board!NoCooldown
<1>2. CASE e.left <= 1
  BY <1>1, <1>2 DEF Age, Board!Age, NoCooldown, Entries
<1>3. CASE ~(e.left <= 1)
  <2>1. e.left - 1 \in 0..Day
    BY <1>3, TimesAssumption DEF Entries
  <2> QED
    BY <1>3, <2>1, TimesAssumption DEF Age, Board!Age, Entries
<1> QED
  BY <1>2, <1>3

\* A failure writes the same entry to the memory and to the table.
LEMMA SettingKeepsInv ==
  ASSUME BoardInv, NEW x, NEW status \in {402, 403, 429}, SetCooldown(x, status)
  PROVE  BoardInv' /\ [Board!Next]_Seen
<1> USE DEF BoardInv
<1>1. CASE x \in Keys
  <2> DEFINE e == Entry(x, status)
  <2>1. e \in Board!Cooldowns /\ e \in Entries /\ e.left > 0
    BY <1>1, EntryIsCooldown
  <2>2. mem' = [mem EXCEPT ![x] = e] /\ db' = [db EXCEPT ![x] = e]
    BY DEF SetCooldown, Persist
  <2>3. hits' = IF status \in DayLong THEN hits ELSE [hits EXCEPT ![x] = Failures(x)]
    BY DEF SetCooldown
  <2>4. /\ Failures(x) \in Seq(0..Day) /\ Len(Failures(x)) \in 1..Len(Ladder)
        /\ Last(Failures(x)) = 0
    BY <1>1, FailuresCounted
  <2> HIDE DEF e
  <2>5. mem' \in [Keys -> Entries] /\ db' \in [Keys -> Entries]
    BY <2>1, <2>2 DEF CooldownTypeOK
  <2>6. hits' \in [Keys -> Seq(0..Day)] /\ \A k \in Keys : Len(hits'[k]) <= Len(Ladder)
    <3>1. hits \in [Keys -> Seq(0..Day)] /\ \A k \in Keys : Len(hits[k]) <= Len(Ladder)
      BY DEF CooldownTypeOK
    <3>2. Len(Failures(x)) <= Len(Ladder)
      BY <2>4, TimesAssumption
    <3>3. hits' \in [Keys -> Seq(0..Day)]
      <4> DEFINE f == Failures(x)
      <4> HIDE DEF f
      <4>1. f \in Seq(0..Day) => [hits EXCEPT ![x] = f] \in [Keys -> Seq(0..Day)]
        BY <3>1
      <4> QED
        BY <2>3, <2>4, <3>1, <4>1 DEF f
    <3>4. \A k \in Keys : hits'[k] = hits[k] \/ hits'[k] = Failures(x)
      BY <2>3, <3>1
    <3> QED
      BY <3>1, <3>2, <3>3, <3>4
  <2>7. CacheMatchesRow'
    BY <2>2, <1>1 DEF CacheMatchesRow, CooldownTypeOK
  <2>8. \A k \in Keys : Cooldown(k)' = IF k = x THEN e ELSE Cooldown(k)
    BY <1>1, <2>1, <2>2 DEF Cooldown, CooldownTypeOK
  <2>9. LadderExplains'
    <3> SUFFICES ASSUME NEW k \in Keys, hits'[k] # <<>>, Cooldown(k)'.status = 429
                 PROVE  Cooldown(k)'.left + Last(hits'[k]) = Rung(Len(hits'[k]))
      BY DEF LadderExplains
    <3>1. CASE k # x
      BY <3>1, <2>3, <2>8 DEF LadderExplains, CooldownTypeOK
    <3>2. CASE k = x
      <4>1. e.status = status /\ e.status = 429
        BY <3>2, <2>8 DEF e, Entry
      <4>2. status \notin DayLong
        BY <4>1 DEF DayLong
      <4>3. e.left = Rung(Len(Failures(x)))
        BY <4>2 DEF e, Entry
      <4>4. hits'[k] = Failures(x)
        BY <3>2, <2>3, <4>2 DEF CooldownTypeOK
      <4>5. Rung(Len(Failures(x))) \in Int
        BY <2>4, TimesAssumption DEF Rung
      <4> QED
        BY <3>2, <2>4, <2>8, <4>3, <4>4, <4>5
    <3> QED
      BY <3>1, <3>2
  <2>10. Seen' = [Seen EXCEPT ![x] = e]
    <3>1. Seen' = [k \in Keys |-> IF k = x THEN e ELSE Cooldown(k)]
      BY <2>8 DEF Seen
    <3>2. [Seen EXCEPT ![x] = e] = [k \in Keys |-> IF k = x THEN e ELSE Cooldown(k)]
      BY <1>1 DEF Seen
    <3> QED
      BY <3>1, <3>2
  <2>11. Board!Cool(x)
    BY <2>1, <2>10 DEF Board!Cool, Seen
  <2> QED
    BY <1>1, <2>5, <2>6, <2>7, <2>9, <2>11 DEF Board!Next, CooldownTypeOK
<1>2. CASE x \notin Keys
  <2>1. mem' = mem /\ db' = db /\ hits' = hits
    BY <1>2 DEF SetCooldown, Persist, CooldownTypeOK
  <2> QED
    BY <2>1 DEF CooldownTypeOK, CacheMatchesRow, LadderExplains, Cooldown, Seen
<1> QED
  BY <1>1, <1>2

\* A success removes both, and the failures counted.
LEMMA ClearingKeepsInv ==
  ASSUME BoardInv, NEW x, ClearCooldown(x)
  PROVE  BoardInv' /\ [Board!Next]_Seen
<1> USE DEF BoardInv
<1>1. /\ mem' = [mem EXCEPT ![x] = NoCooldown] /\ db' = [db EXCEPT ![x] = NoCooldown]
      /\ hits' = [hits EXCEPT ![x] = <<>>]
  BY DEF ClearCooldown, ClearRow
<1>2. NoCooldown \in Entries /\ NoCooldown.left = 0 /\ NoCooldown = Board!NoCooldown
  BY TimesAssumption DEF NoCooldown, Entries, Board!NoCooldown
<1>3. CooldownTypeOK'
  <2>1. <<>> \in Seq(0..Day) /\ Len(<<>>) = 0
    OBVIOUS
  <2>2. mem' \in [Keys -> Entries] /\ db' \in [Keys -> Entries]
    BY <1>1, <1>2 DEF CooldownTypeOK
  <2>3. hits' \in [Keys -> Seq(0..Day)]
    BY <1>1, <2>1 DEF CooldownTypeOK
  <2>4. \A k \in Keys : hits'[k] = hits[k] \/ hits'[k] = <<>>
    BY <1>1 DEF CooldownTypeOK
  <2> QED
    BY <2>1, <2>2, <2>3, <2>4, TimesAssumption DEF CooldownTypeOK
<1>4. CacheMatchesRow'
  BY <1>1, <1>2 DEF CacheMatchesRow, CooldownTypeOK
<1>5. \A k \in Keys : Cooldown(k)' = IF k = x THEN NoCooldown ELSE Cooldown(k)
  BY <1>1, <1>2 DEF Cooldown, CooldownTypeOK
<1>6. LadderExplains'
  BY <1>1, <1>5 DEF LadderExplains, CooldownTypeOK
<1>7. x \in Keys => Board!Clear(x)
  BY <1>2, <1>5 DEF Board!Clear, Seen
<1>8. x \notin Keys => UNCHANGED Seen
  BY <1>5 DEF Seen
<1> QED
  BY <1>3, <1>4, <1>6, <1>7, <1>8 DEF Board!Next

\* A tick ages every entry, in memory and in the table, and every failure.
LEMMA TickKeepsInv ==
  ASSUME BoardInv, Tick
  PROVE  BoardInv' /\ [Board!Next]_Seen
<1> USE DEF BoardInv
<1>1. /\ mem' = [k \in Keys |-> Age(mem[k])] /\ db' = [k \in Keys |-> Age(db[k])]
      /\ hits' = [k \in Keys |-> [i \in 1..Len(hits[k]) |-> Older(hits[k][i])]]
  BY DEF Tick
<1>2. \A k \in Keys : mem[k] \in Entries /\ db[k] \in Entries
  BY DEF CooldownTypeOK
<1>3. \A k \in Keys : hits[k] \in Seq(0..Day) /\ Len(hits[k]) \in Nat
  BY DEF CooldownTypeOK
<1>4. \A a \in 0..Day : Older(a) \in 0..Day /\ (a < Day => Older(a) = a + 1)
  BY TimesAssumption DEF Older
<1>5. \A k \in Keys : /\ hits'[k] \in Seq(0..Day) /\ Len(hits'[k]) = Len(hits[k])
                      /\ hits[k] # <<>> => Last(hits'[k]) = Older(Last(hits[k]))
  <2> SUFFICES ASSUME NEW k \in Keys
               PROVE  /\ hits'[k] \in Seq(0..Day) /\ Len(hits'[k]) = Len(hits[k])
                      /\ hits[k] # <<>> => Last(hits'[k]) = Older(Last(hits[k]))
    OBVIOUS
  <2> DEFINE h == hits[k]
  <2>1. h \in Seq(0..Day) /\ Len(h) \in Nat /\ hits'[k] = [i \in 1..Len(h) |-> Older(h[i])]
    BY <1>1, <1>3
  <2> HIDE DEF h
  <2>2. \A i \in 1..Len(h) : h[i] \in 0..Day
    BY <2>1, ElementOfSeq
  <2>3. hits'[k] \in Seq(0..Day) /\ Len(hits'[k]) = Len(h)
    BY <1>4, <2>1, <2>2
  <2>4. h # <<>> => Len(h) \in 1..Len(h)
    BY <2>1
  <2> QED
    BY <2>1, <2>3, <2>4 DEF h, Last
<1>6. \A k \in Keys : /\ mem'[k] = Age(mem[k]) /\ db'[k] = Age(db[k])
                      /\ Age(mem[k]) \in Entries /\ Age(db[k]) \in Entries
  BY <1>1, <1>2, Ageing
<1>7. CooldownTypeOK'
  <2>1. mem' \in [Keys -> Entries] /\ db' \in [Keys -> Entries]
    BY <1>1, <1>6
  <2>2. hits' \in [Keys -> Seq(0..Day)]
    BY <1>1, <1>5
  <2> QED
    BY <1>5, <2>1, <2>2 DEF CooldownTypeOK
<1>8. CacheMatchesRow'
  <2> SUFFICES ASSUME NEW k \in Keys, mem'[k].left > 0
               PROVE  db'[k] = mem'[k]
    BY DEF CacheMatchesRow
  <2>1. ~(mem[k].left <= 1)
    BY <1>2, <1>6, Ageing
  <2>2. mem[k].left > 0
    BY <1>2, <2>1, TimesAssumption DEF Entries
  <2> QED
    BY <1>6, <2>2 DEF CacheMatchesRow
<1>9. \A k \in Keys : Cooldown(k)' = Age(Cooldown(k))
  <2> SUFFICES ASSUME NEW k \in Keys
               PROVE  Cooldown(k)' = Age(Cooldown(k))
    OBVIOUS
  <2>1. mem[k].left \in Nat /\ db[k].left \in Nat
    BY <1>2, TimesAssumption DEF Entries
  <2>2. CASE mem[k].left > 1
    <3>1. Age(mem[k]).left > 0
      BY <1>2, <2>1, <2>2, Ageing
    <3> QED
      BY <1>6, <2>1, <2>2, <3>1 DEF Cooldown
  <2>3. CASE mem[k].left <= 1
    <3>1. Age(mem[k]).left = 0
      BY <1>2, <2>3, Ageing
    <3>2. Cooldown(k)' = Age(db[k])
      BY <1>6, <3>1 DEF Cooldown
    <3>3. Cooldown(k) = db[k]
      BY <2>1 DEF Cooldown, CacheMatchesRow
    <3> QED
      BY <3>2, <3>3
  <2> QED
    BY <2>1, <2>2, <2>3
<1>10. LadderExplains'
  <2> SUFFICES ASSUME NEW k \in Keys, hits'[k] # <<>>, Cooldown(k)'.status = 429
               PROVE  Cooldown(k)'.left + Last(hits'[k]) = Rung(Len(hits'[k]))
    BY DEF LadderExplains
  <2> DEFINE e == Cooldown(k)
  <2>1. e \in Entries /\ Cooldown(k)' = Age(e)
    BY <1>2, <1>9 DEF Cooldown
  <2> HIDE DEF e
  <2>2. e.left > 1
    BY <2>1 DEF Age, NoCooldown, Entries
  <2>3. Age(e).left = e.left - 1 /\ e.status = 429
    BY <2>1, <2>2, Ageing
  <2>4. hits[k] # <<>> /\ Len(hits[k]) \in 1..Len(Ladder) /\ Last(hits[k]) \in 0..Day
    BY <1>3, <1>5, TimesAssumption DEF CooldownTypeOK, Last
  <2>5. e.left + Last(hits[k]) = Rung(Len(hits[k]))
    BY <2>3, <2>4 DEF LadderExplains, e
  <2>6. Rung(Len(hits[k])) \in 1..Day
    BY <2>4, TimesAssumption DEF Rung
  <2>7. Last(hits[k]) < Day /\ e.left \in Nat
    BY <2>1, <2>2, <2>4, <2>5, <2>6, TimesAssumption DEF Entries
  <2>8. Last(hits'[k]) = Last(hits[k]) + 1 /\ Len(hits'[k]) = Len(hits[k])
    BY <1>4, <1>5, <2>4, <2>7
  <2> QED
    BY <2>1, <2>3, <2>4, <2>5, <2>7, <2>8
<1>11. Board!Tick
  BY <1>2, <1>9, Ageing DEF Board!Tick, Seen, Cooldown
<1> QED
  BY <1>7, <1>8, <1>10, <1>11 DEF Board!Next

\* Choosing keys only brings rows into memory.
LEMMA LookingKeepsInv ==
  ASSUME BoardInv, NEW S, mem' = Looked(S), UNCHANGED <<db, hits>>
  PROVE  BoardInv' /\ UNCHANGED Seen
<1> USE DEF BoardInv
<1>1. \A k \in Keys : mem[k] \in Entries /\ db[k] \in Entries /\ Cooldown(k) \in Entries
  BY DEF CooldownTypeOK, Cooldown
<1>2. mem' \in [Keys -> Entries]
  BY <1>1 DEF Looked, CooldownTypeOK
<1>3. \A k \in Keys : mem'[k] = IF k \in S THEN Cooldown(k) ELSE mem[k]
  BY DEF Looked
<1>4. \A k \in Keys : Cooldown(k)' = Cooldown(k)
  BY <1>1, <1>3 DEF Cooldown, CacheMatchesRow
<1>5. CacheMatchesRow'
  BY <1>1, <1>3 DEF CacheMatchesRow, Cooldown
<1> QED
  BY <1>2, <1>4, <1>5 DEF CooldownTypeOK, LadderExplains, Seen

\* A restart leaves the table, which is what the guards saw.
LEMMA RestartKeepsInv ==
  ASSUME BoardInv, Restart
  PROVE  BoardInv' /\ UNCHANGED Seen
<1> USE DEF BoardInv
<1>1. /\ mem' = [k \in Keys |-> NoCooldown] /\ hits' = [k \in Keys |-> <<>>] /\ db' = db
  BY DEF Restart
<1>2. NoCooldown \in Entries /\ NoCooldown.left = 0
  BY TimesAssumption DEF NoCooldown, Entries
<1>3. CooldownTypeOK'
  <2>1. <<>> \in Seq(0..Day) /\ Len(<<>>) = 0
    OBVIOUS
  <2> QED
    BY <1>1, <1>2, <2>1, TimesAssumption DEF CooldownTypeOK
<1>4. CacheMatchesRow' /\ LadderExplains'
  BY <1>1, <1>2 DEF CacheMatchesRow, LadderExplains
<1>5. \A k \in Keys : Cooldown(k)' = Cooldown(k)
  BY <1>1, <1>2 DEF Cooldown, CacheMatchesRow
<1> QED
  BY <1>3, <1>4, <1>5 DEF Seen

LEMMA InitBoardInv == Init => BoardInv /\ Board!Init
<1> SUFFICES ASSUME Init PROVE BoardInv /\ Board!Init
  OBVIOUS
<1>1. NoCooldown \in Entries /\ NoCooldown.left = 0 /\ NoCooldown = Board!NoCooldown
  BY TimesAssumption DEF NoCooldown, Entries, Board!NoCooldown
<1>2. <<>> \in Seq(0..Day) /\ Len(<<>>) = 0
  OBVIOUS
<1>3. CooldownTypeOK /\ CacheMatchesRow /\ LadderExplains
  BY <1>1, <1>2, TimesAssumption DEF Init, CooldownTypeOK, CacheMatchesRow, LadderExplains
<1>4. \A k \in Keys : Cooldown(k) = Board!NoCooldown
  BY <1>1 DEF Init, Cooldown
<1> QED
  BY <1>3, <1>4 DEF BoardInv, Board!Init

-----------------------------------------------------------------------------
(* The theorems *)

\* Every step keeps the invariant and is a step of the board, or none.
LEMMA StepOfBoard ==
  ASSUME BoardInv, [Next]_vars
  PROVE  BoardInv' /\ [Board!Next]_Seen
<1>1. ASSUME UNCHANGED <<mem, db, hits>>
      PROVE  BoardInv' /\ UNCHANGED Seen
  BY <1>1 DEF BoardInv, CooldownTypeOK, CacheMatchesRow, LadderExplains, Cooldown, Seen
<1>2. ASSUME NEW c \in Calls, NEW kind \in Kinds, Pick(c, kind)
      PROVE  BoardInv' /\ [Board!Next]_Seen
  <2>1. PICK S : mem' = Looked(S)
    BY <1>2 DEF Pick
  <2> QED
    BY <1>2, <2>1, LookingKeepsInv DEF Pick
<1>3. ASSUME NEW c \in Calls, Success(c)
      PROVE  BoardInv' /\ [Board!Next]_Seen
  BY <1>3, ClearingKeepsInv DEF Success
<1>4. ASSUME NEW c \in Calls, Failure(c)
      PROVE  BoardInv' /\ [Board!Next]_Seen
  <2>1. Status(call[c].kind, call[c].reply) \in {402, 403, 429}
    BY DEF Status, DayLong
  <2> QED
    BY <1>4, <2>1, SettingKeepsInv DEF Failure
<1>5. ASSUME NEW k \in Keys, Reset(k)
      PROVE  BoardInv' /\ [Board!Next]_Seen
  BY <1>5, ClearingKeepsInv DEF Reset
<1>6. ASSUME ProbeAnswer
      PROVE  BoardInv' /\ [Board!Next]_Seen
  BY <1>6, ClearingKeepsInv, SettingKeepsInv DEF ProbeAnswer
<1>7. ASSUME Tick
      PROVE  BoardInv' /\ [Board!Next]_Seen
  BY <1>7, TickKeepsInv
<1>8. ASSUME Restart
      PROVE  BoardInv' /\ [Board!Next]_Seen
  BY <1>8, RestartKeepsInv
<1>9. ASSUME NEW c \in Calls, Probe(c) \/ Disconnect(c)
      PROVE  BoardInv' /\ [Board!Next]_Seen
  BY <1>1, <1>9 DEF Probe, Disconnect
<1>10. ASSUME NEW k \in Keys, Turn(k)
       PROVE  BoardInv' /\ [Board!Next]_Seen
  BY <1>1, <1>10 DEF Turn
<1>11. ASSUME StartRound \/ UNCHANGED vars
       PROVE  BoardInv' /\ [Board!Next]_Seen
  BY <1>1, <1>11 DEF StartRound, vars
<1> QED
  BY <1>2, <1>3, <1>4, <1>5, <1>6, <1>7, <1>8, <1>9, <1>10, <1>11 DEF Next, Answer

\* Memory and table together are one register per key: look-ups, reloads and
\* restarts never change what the guards see.
THEOREM PoolImplementsBoard == Spec => BoardSpec
<1>1. Init => BoardInv /\ Board!Init
  BY InitBoardInv
<1>2. BoardInv /\ [Next]_vars => BoardInv' /\ [Board!Next]_Seen
  BY StepOfBoard
<1> QED
  BY <1>1, <1>2, PTL DEF Spec, BoardSpec, Board!Spec, Seen

\* A key cooling after a 429 has been cooling since its last failure, for the
\* rung its remembered failures reach.
THEOREM LadderExplained == Spec => []LadderExplains
<1>1. Init => BoardInv
  BY InitBoardInv
<1>2. BoardInv /\ [Next]_vars => BoardInv'
  BY StepOfBoard
<1>3. BoardInv => LadderExplains
  BY DEF BoardInv
<1> QED
  BY <1>1, <1>2, <1>3, PTL DEF Spec

-----------------------------------------------------------------------------
(* The choice of keys *)

\* The least of some numbers.
LEMMA LeastNat == ASSUME NEW S \in SUBSET Nat, S # {} PROVE \E n \in S : \A m \in S : n <= m
<1> DEFINE R == OpToRel(<, Nat)
<1>1. IsWellFoundedOn(R, Nat)
  BY NatLessThanWellFounded
<1>2. R = {ss \in Nat \X Nat : ss[1] < ss[2]}
  BY DEF OpToRel
<1> HIDE DEF R
<1>3. PICK n \in S : \A m \in S : ~(<<m, n>> \in R)
  BY <1>1, WFMin
<1>4. \A m \in S : n <= m
  <2> SUFFICES ASSUME NEW m \in S PROVE n <= m
    OBVIOUS
  <2>1. <<m, n>> \in Nat \X Nat /\ <<m, n>>[1] = m /\ <<m, n>>[2] = n
    OBVIOUS
  <2>2. ~(m < n)
    BY <1>2, <1>3, <2>1
  <2> QED
    BY <2>2
<1> QED
  BY <1>4

\* Of some positions, there is a first, a second, and so on up to their number.
LEMMA NthExists ==
  ASSUME NEW m \in Nat, NEW P \in SUBSET (1..m), NEW n \in 1..Cardinality(P)
  PROVE  \E i \in P : Cardinality({j \in P : j <= i}) = n
<1> DEFINE Upto(i) == {j \in P : j <= i}
<1>1. \A j \in P : j \in Int /\ 1 <= j /\ j <= m
  OBVIOUS
<1>2. \A i \in 0..m : IsFiniteSet(Upto(i)) /\ Cardinality(Upto(i)) \in Nat
  <2> SUFFICES ASSUME NEW i \in 0..m PROVE IsFiniteSet(Upto(i)) /\ Cardinality(Upto(i)) \in Nat
    OBVIOUS
  <2>1. PICK U \in SUBSET (1..m) : U = Upto(i)
    OBVIOUS
  <2>2. PICK T : T = 1..m /\ IsFiniteSet(T)
    BY FS_Interval
  <2>3. IsFiniteSet(U)
    BY <2>1, <2>2, FS_Subset
  <2>4. Cardinality(U) \in Nat
    BY <2>3, FS_CardinalityType
  <2> QED BY <2>1, <2>3, <2>4
<1>3. Upto(0) = {} /\ Upto(m) = P
  <2>1. ASSUME NEW j \in Upto(0) PROVE FALSE
    BY <1>1, <2>1
  <2>2. \A j \in P : j \in Upto(m)
    BY <1>1
  <2>3. \A j \in Upto(m) : j \in P
    OBVIOUS
  <2> HIDE DEF Upto
  <2> QED BY <2>1, <2>2, <2>3
<1>4. \A i \in 1..m : Upto(i) = IF i \in P THEN Upto(i - 1) \cup {i} ELSE Upto(i - 1)
  <2> SUFFICES ASSUME NEW i \in 1..m PROVE Upto(i) = IF i \in P THEN Upto(i - 1) \cup {i} ELSE Upto(i - 1)
    OBVIOUS
  <2>1. \A j \in P : j <= i <=> j <= i - 1 \/ j = i
    BY <1>1
  <2> QED BY <2>1
<1>5. \A i \in 1..m : i - 1 \in 0..m /\ i \notin Upto(i - 1)
  OBVIOUS
<1>6. PICK c : c = [i \in 0..m |-> Cardinality(Upto(i))]
  OBVIOUS
<1> HIDE DEF Upto
<1>7. /\ \A i \in 0..m : c[i] = Cardinality(Upto(i)) /\ c[i] \in Nat
      /\ c[0] = 0 /\ c[m] = Cardinality(P) /\ 0 \in 0..m /\ m \in 0..m
  BY <1>2, <1>3, <1>6, FS_EmptySet
<1>8. ASSUME NEW i \in 1..m
      PROVE  c[i] = IF i \in P THEN c[i - 1] + 1 ELSE c[i - 1]
  <2>1. PICK U : U = Upto(i - 1)
    OBVIOUS
  <2>2. IsFiniteSet(U) /\ i \notin U /\ c[i - 1] = Cardinality(U)
    BY <1>2, <1>5, <1>7, <2>1
  <2>3. Cardinality(U \cup {i}) = Cardinality(U) + 1
    BY <2>2, FS_AddElement
  <2>4. c[i] = Cardinality(Upto(i))
    BY <1>7
  <2>5. Upto(i) = IF i \in P THEN U \cup {i} ELSE U
    BY <1>4, <2>1
  <2>6. CASE i \in P
    BY <2>2, <2>3, <2>4, <2>5, <2>6
  <2>7. CASE i \notin P
    BY <2>2, <2>4, <2>5, <2>7
  <2> QED BY <2>6, <2>7
<1>9. PICK S : S = {i \in 0..m : c[i] >= n}
  OBVIOUS
<1>10. PICK i \in S : \A k \in S : i <= k
  <2>1. S \in SUBSET Nat /\ m \in S
    BY <1>7, <1>9
  <2> QED BY <2>1, LeastNat
<1>11. i \in 1..m /\ i - 1 \notin S
  <2>1. i \in 0..m /\ i # 0
    BY <1>7, <1>9, <1>10
  <2>2. i \in 1..m /\ ~(i <= i - 1)
    BY <2>1
  <2> QED BY <1>10, <2>2
<1>12. c[i] >= n /\ c[i - 1] < n /\ c[i - 1] \in Nat
  BY <1>5, <1>7, <1>9, <1>10, <1>11
<1>13. i \in P /\ c[i] = n
  BY <1>8, <1>11, <1>12
<1>14. Cardinality(Upto(i)) = n
  BY <1>7, <1>11, <1>13
<1> QED BY <1>13, <1>14 DEF Upto

\* The keys at some places of an order: all from these places, and one at least if there is one.
LEMMA InOrderIs ==
  ASSUME NEW order \in Seq(Keys), NEW P \in SUBSET DOMAIN order
  PROVE  /\ InOrder(order, P) \in Seq(Keys)
         /\ \A n \in 1..Len(InOrder(order, P)) : \E i \in P : InOrder(order, P)[n] = order[i]
<1> DEFINE nth(n) == CHOOSE i \in P : Cardinality({j \in P : j <= i}) = n
           tries == IF Cardinality(P) > MaxTries THEN MaxTries ELSE Cardinality(P)
           keys == [n \in 1..tries |-> order[nth(n)]]
<1>1. PICK m \in Nat : m = Len(order) /\ DOMAIN order = 1..m
  OBVIOUS
<1>2. Cardinality(P) \in 0..m
  BY <1>1, PositionsOfSeq
<1>3. tries \in Nat /\ tries <= Cardinality(P)
  BY <1>2, PoolAssumption
<1>4. ASSUME NEW n \in 1..tries PROVE nth(n) \in P
  <2>1. n \in 1..Cardinality(P)
    BY <1>2, <1>3
  <2>2. P \in SUBSET (1..m)
    BY <1>1
  <2>3. \E i \in P : Cardinality({j \in P : j <= i}) = n
    BY <2>1, <2>2, NthExists
  <2> QED BY <2>3
<1> HIDE DEF nth, tries
<1>5. \A n \in 1..tries : keys[n] = order[nth(n)] /\ nth(n) \in P /\ order[nth(n)] \in Keys
  BY <1>1, <1>4
<1>6. keys \in Seq(Keys) /\ Len(keys) = tries
  BY <1>3, <1>5
<1>7. InOrder(order, P) = keys
  BY DEF InOrder, nth, tries
<1> QED BY <1>5, <1>6, <1>7

\* No candidate is on cooldown.
LEMMA CandidatesAreFree ==
  ASSUME NEW order \in TaskOrders, NEW offered, NEW fit
  PROVE  /\ Candidates(order, offered, fit) \in Seq(Keys)
         /\ \A n \in 1..Len(Candidates(order, offered, fit)) : ~OnCooldown(Candidates(order, offered, fit)[n])
<1>1. PICK P : P = {i \in DOMAIN order : order[i] \in offered \cap fit /\ ~OnCooldown(order[i])}
  OBVIOUS
<1>2. order \in Seq(Keys) /\ P \in SUBSET DOMAIN order /\ \A i \in P : ~OnCooldown(order[i])
  BY <1>1, PoolAssumption
<1>3. Candidates(order, offered, fit) = InOrder(order, P)
  BY <1>1 DEF Candidates
<1> QED BY <1>2, <1>3, InOrderIs

-----------------------------------------------------------------------------
(* Calls and rounds *)

CallRecords == [pc : {"idle", "sent", "served", "failed", "refused"}, kind : Kinds \cup {"chat"},
                todo : Seq(Keys), reply : Answers \cup {0, 400}]
CallsTyped == /\ upstream \in [Keys -> Answers]
              /\ call \in [Calls -> CallRecords]
              /\ \A c \in Calls : call[c].pc = "sent" => call[c].todo # <<>>
\* A round without keys left to probe is none.
RoundTyped == /\ round \in [todo : Seq(Keys), reply : Answers \cup {0}]
              /\ round.todo = <<>> => round = NoRound
              /\ rested \in 0..Interval /\ crashes \in 0..MaxCrashes
HandlersInv == CallsTyped /\ RoundTyped

LEMMA RestOf ==
  ASSUME NEW s \in Seq(Keys), s # <<>> PROVE Head(s) \in Keys /\ Tail(s) \in Seq(Keys)
  OBVIOUS

LEMMA NoKeys == <<>> \in Seq(Keys)
  OBVIOUS

LEMMA IdleIs == Idle \in CallRecords /\ Idle.pc = "idle"
  BY NoKeys DEF Idle, CallRecords

LEMMA SentIs ==
  ASSUME CallsTyped, NEW kind \in Kinds \cup {"chat"}, NEW todo \in Seq(Keys), todo # <<>>
  PROVE  Sent(kind, todo) \in CallRecords /\ Sent(kind, todo).todo = todo /\ Sent(kind, todo).kind = kind
<1>1. Head(todo) \in Keys
  BY RestOf
<1>2. Reply(kind, Head(todo)) \in Answers \cup {0, 400}
  BY <1>1 DEF Reply, CallsTyped
<1> QED BY <1>2 DEF Sent, CallRecords

\* One call moves on.
LEMMA OneCallMoves ==
  ASSUME CallsTyped, NEW c \in Calls, NEW r \in CallRecords, r.pc = "sent" => r.todo # <<>>,
         call' = [call EXCEPT ![c] = r], UNCHANGED upstream
  PROVE  CallsTyped'
  BY DEF CallsTyped

LEMMA EndedIs ==
  ASSUME CallsTyped, NEW c \in Calls, NEW pc \in {"served", "failed"}, NEW todo \in Seq(Keys)
  PROVE  Ended(c, pc, todo) \in CallRecords /\ Ended(c, pc, todo).pc = pc
<1>1. call[c] \in CallRecords
  BY DEF CallsTyped
<1>2. PICK r : r = [call[c] EXCEPT !.pc = pc]
  OBVIOUS
<1>3. r \in CallRecords /\ r.pc = pc
  BY <1>1, <1>2 DEF CallRecords
<1>4. PICK s : s = [r EXCEPT !.todo = todo]
  OBVIOUS
<1>5. s \in CallRecords /\ s.pc = pc
  BY <1>3, <1>4 DEF CallRecords
<1>6. Ended(c, pc, todo) = [s EXCEPT !.reply = 0]
  BY <1>2, <1>4 DEF Ended
<1> QED BY <1>5, <1>6 DEF CallRecords

LEMMA AnswersKeepCalls ==
  ASSUME CallsTyped, NEW c \in Calls, call[c].pc = "sent", UNCHANGED upstream,
         call' = [call EXCEPT ![c] = AfterSuccess(c)] \/ call' = [call EXCEPT ![c] = AfterFailure(c)]
  PROVE  CallsTyped'
<1>1. call[c] \in CallRecords /\ call[c].todo # <<>>
  BY DEF CallsTyped
<1>2. PICK left : left = Tail(call[c].todo)
  OBVIOUS
<1>3. left \in Seq(Keys) /\ call[c].kind \in Kinds \cup {"chat"}
  BY <1>1, <1>2, RestOf DEF CallRecords
<1>4. ASSUME NEW r, r \in {AfterSuccess(c), AfterFailure(c)}
      PROVE  r \in CallRecords /\ (r.pc = "sent" => r.todo # <<>>)
  <2>1. CASE left # <<>> /\ r = Sent(call[c].kind, left)
    BY <1>3, <2>1, SentIs
  <2>2. CASE r \in {Ended(c, "served", left), Ended(c, "failed", left)}
    BY <1>3, <2>2, EndedIs
  <2>3. (left # <<>> /\ r = Sent(call[c].kind, left)) \/ r \in {Ended(c, "served", left), Ended(c, "failed", left)}
    BY <1>2, <1>4 DEF AfterSuccess, AfterFailure
  <2> QED BY <2>1, <2>2, <2>3
<1> QED BY <1>4, OneCallMoves

\* What a call is made of the keys chosen for it.
LEMMA PickIs ==
  ASSUME CallsTyped, NEW c \in Calls, NEW kind \in Kinds, Pick(c, kind)
  PROVE  /\ CallsTyped' /\ (RoundTyped => RoundTyped')
         /\ call'[c].pc = "sent" => ~OnCooldown(Head(call'[c].todo))
         /\ \A d \in Calls \ {c} : call'[d] = call[d]
<1>1. PICK order \in TaskOrders, offered \in SUBSET Keys :
        \E fit \in IF kind = "stream" THEN {offered} ELSE SUBSET offered :
          call' = [call EXCEPT ![c] =
            IF Candidates(order, offered, fit) = <<>> THEN [Idle EXCEPT !.pc = "refused", !.kind = kind]
            ELSE Sent(kind, Candidates(order, offered, fit))]
  BY DEF Pick
<1>2. PICK fit : call' = [call EXCEPT ![c] =
            IF Candidates(order, offered, fit) = <<>> THEN [Idle EXCEPT !.pc = "refused", !.kind = kind]
            ELSE Sent(kind, Candidates(order, offered, fit))]
  BY <1>1
<1>3. PICK todo : todo = Candidates(order, offered, fit)
  OBVIOUS
<1>4. todo \in Seq(Keys) /\ \A n \in 1..Len(todo) : ~OnCooldown(todo[n])
  BY <1>3, CandidatesAreFree
<1>5. PICK r : r = IF todo = <<>> THEN [Idle EXCEPT !.pc = "refused", !.kind = kind] ELSE Sent(kind, todo)
  OBVIOUS
<1>6. call' = [call EXCEPT ![c] = r]
  BY <1>2, <1>3, <1>5
<1>7. CASE todo = <<>>
  <2>1. r = [pc |-> "refused", kind |-> kind, todo |-> <<>>, reply |-> 0]
    BY <1>5, <1>7 DEF Idle
  <2> QED
    BY <1>6, <2>1, NoKeys, OneCallMoves DEF CallRecords, CallsTyped, Pick, RoundTyped
<1>8. CASE todo # <<>>
  <2>1. r \in CallRecords /\ r.todo = todo
    BY <1>4, <1>5, <1>8, SentIs
  <2>2. ~OnCooldown(Head(todo))
    BY <1>4, <1>8
  <2>3. CallsTyped'
    BY <1>6, <1>8, <2>1, OneCallMoves DEF Pick
  <2> QED
    BY <1>6, <2>1, <2>2, <2>3 DEF CallsTyped, Pick, RoundTyped
<1> QED BY <1>7, <1>8

LEMMA ProbeIs ==
  ASSUME CallsTyped, NEW c \in Calls, Probe(c)
  PROVE  CallsTyped' /\ call'[c].kind = "probe" /\ \A d \in Calls \ {c} : call'[d] = call[d]
<1>1. PICK todo \in {<<k>> : k \in Keys} \cup {RegistryOrder} :
        todo # <<>> /\ call' = [call EXCEPT ![c] = Sent("probe", todo)]
  BY DEF Probe
<1>2. todo \in Seq(Keys) /\ "probe" \in Kinds
  <2>1. ASSUME NEW k \in Keys, todo = <<k>> PROVE todo \in Seq(Keys)
    BY <2>1
  <2>2. todo \in Seq(Keys)
    BY <2>1, PoolAssumption
  <2> QED BY <2>2 DEF Probe
<1>3. Sent("probe", todo) \in CallRecords /\ Sent("probe", todo).todo = todo /\ Sent("probe", todo).kind = "probe"
  BY <1>1, <1>2, SentIs
<1>4. CallsTyped'
  BY <1>1, <1>3, OneCallMoves DEF Probe
<1> QED BY <1>1, <1>3, <1>4 DEF CallsTyped

\* The health loop's next key.
LEMMA ProbingIs ==
  ASSUME CallsTyped, NEW todo \in Seq(Keys), round' = Probing(todo),
         rested' \in 0..Interval, crashes' \in 0..MaxCrashes
  PROVE  RoundTyped'
<1>1. CASE todo = <<>>
  BY <1>1, NoKeys DEF Probing, NoRound, RoundTyped
<1>2. CASE todo # <<>>
  <2>1. Head(todo) \in Keys
    BY <1>2, RestOf
  <2>2. Reply("probe", Head(todo)) \in Answers
    BY <2>1 DEF Reply, CallsTyped
  <2>3. round' = [todo |-> todo, reply |-> Reply("probe", Head(todo))]
    BY <1>2 DEF Probing
  <2> QED BY <1>2, <2>2, <2>3 DEF RoundTyped
<1> QED BY <1>1, <1>2

LEMMA HandlersStart == Init => HandlersInv
<1> SUFFICES ASSUME Init PROVE HandlersInv
  OBVIOUS
<1>1. CallsTyped
  BY IdleIs DEF Init, CallsTyped
<1>2. RoundTyped
  BY NoKeys, TimesAssumption, PoolAssumption DEF Init, RoundTyped, NoRound
<1> QED BY <1>1, <1>2 DEF HandlersInv

LEMMA HandlersKeep == HandlersInv /\ [Next]_vars => HandlersInv'
<1> SUFFICES ASSUME HandlersInv, [Next]_vars PROVE HandlersInv'
  OBVIOUS
<1>1. CallsTyped /\ RoundTyped
  BY DEF HandlersInv
<1>2. ASSUME NEW c \in Calls, NEW kind \in Kinds, Pick(c, kind) PROVE HandlersInv'
  BY <1>1, <1>2, PickIs DEF HandlersInv
<1>3. ASSUME NEW c \in Calls, Probe(c) PROVE HandlersInv'
  <2>1. UNCHANGED <<round, rested, crashes>>
    BY <1>3 DEF Probe
  <2>2. CallsTyped'
    BY <1>1, <1>3, ProbeIs
  <2> QED BY <1>1, <2>1, <2>2 DEF HandlersInv, RoundTyped
<1>4. ASSUME NEW c \in Calls, Answer(c) PROVE HandlersInv'
  <2>1. /\ UNCHANGED <<upstream, round, rested, crashes>> /\ call[c].pc = "sent"
        /\ call' = [call EXCEPT ![c] = AfterSuccess(c)] \/ call' = [call EXCEPT ![c] = AfterFailure(c)]
    BY <1>4 DEF Answer, Success, Failure
  <2>2. CallsTyped'
    BY <1>1, <2>1, AnswersKeepCalls
  <2> QED BY <1>1, <2>1, <2>2 DEF HandlersInv, RoundTyped
<1>5. ASSUME NEW c \in Calls, Disconnect(c) PROVE HandlersInv'
  <2>1. UNCHANGED <<upstream, round, rested, crashes>> /\ call' = [call EXCEPT ![c] = Idle]
    BY <1>5 DEF Disconnect
  <2>2. CallsTyped'
    BY <1>1, <2>1, IdleIs, OneCallMoves
  <2> QED BY <1>1, <2>1, <2>2 DEF HandlersInv, RoundTyped
<1>6. ASSUME NEW k \in Keys, Turn(k) PROVE HandlersInv'
  <2>1. UNCHANGED <<call, round, rested, crashes>> /\ \E a \in Answers : upstream' = [upstream EXCEPT ![k] = a]
    BY <1>6 DEF Turn
  <2>2. CallsTyped'
    BY <1>1, <2>1 DEF CallsTyped
  <2> QED BY <1>1, <2>1, <2>2 DEF HandlersInv, RoundTyped
<1>7. ASSUME StartRound \/ ProbeAnswer PROVE HandlersInv'
  <2>1. UNCHANGED <<upstream, call, crashes>>
    BY <1>7 DEF StartRound, ProbeAnswer
  <2>2. PICK todo \in Seq(Keys) : round' = Probing(todo) /\ rested' \in {rested, 0}
    <3>1. CASE StartRound
      BY <3>1, PoolAssumption DEF StartRound
    <3>2. CASE ProbeAnswer
      <4>1. round.todo \in Seq(Keys) /\ round.todo # <<>>
        BY <1>1, <3>2 DEF RoundTyped, ProbeAnswer
      <4> QED BY <3>2, <4>1, RestOf DEF ProbeAnswer
    <3> QED BY <1>7, <3>1, <3>2
  <2>3. rested' \in 0..Interval /\ crashes' \in 0..MaxCrashes
    BY <1>1, <2>1, <2>2, TimesAssumption DEF RoundTyped
  <2>4. RoundTyped'
    BY <1>1, <2>2, <2>3, ProbingIs
  <2> QED BY <1>1, <2>1, <2>4 DEF HandlersInv, CallsTyped
<1>8. ASSUME Tick PROVE HandlersInv'
  <2>1. UNCHANGED <<upstream, call, round, crashes>> /\ rested < Interval /\ rested' = rested + 1
    BY <1>8 DEF Tick
  <2>2. rested' \in 0..Interval
    BY <1>1, <2>1, TimesAssumption DEF RoundTyped
  <2> QED BY <1>1, <2>1, <2>2 DEF HandlersInv, CallsTyped, RoundTyped
<1>9. ASSUME Restart PROVE HandlersInv'
  <2>1. /\ UNCHANGED upstream /\ call' = [c \in Calls |-> Idle] /\ round' = NoRound /\ rested' = Interval
        /\ crashes < MaxCrashes /\ crashes' = crashes + 1
    BY <1>9 DEF Restart
  <2>2. CallsTyped'
    BY <1>1, <2>1, IdleIs DEF CallsTyped
  <2>3. rested' \in 0..Interval /\ crashes' \in 0..MaxCrashes
    BY <1>1, <2>1, TimesAssumption, PoolAssumption DEF RoundTyped
  <2>4. RoundTyped'
    BY <2>1, <2>3, NoKeys DEF RoundTyped, NoRound
  <2> QED BY <2>2, <2>4 DEF HandlersInv
<1>10. ASSUME NEW k \in Keys, Reset(k) PROVE HandlersInv'
  BY <1>1, <1>10 DEF Reset, HandlersInv, CallsTyped, RoundTyped
<1>11. CASE UNCHANGED vars
  BY <1>1, <1>11 DEF vars, HandlersInv, CallsTyped, RoundTyped
<1> QED
  BY <1>2, <1>3, <1>4, <1>5, <1>6, <1>7, <1>8, <1>9, <1>10, <1>11 DEF Next

\* The types: a call under way always has a key to wait for, a list of failures is never longer
\* than the ladder, and no cooldown lasts more than a day.
THEOREM TypeCorrect == Spec => []TypeOK
<1>1. Init => BoardInv /\ HandlersInv
  BY InitBoardInv, HandlersStart
<1>2. BoardInv /\ [Next]_vars => BoardInv'
  BY StepOfBoard
<1>3. BoardInv /\ HandlersInv => TypeOK
  BY DEF BoardInv, CooldownTypeOK, HandlersInv, CallsTyped, RoundTyped, CallRecords, TypeOK
<1> QED
  BY <1>1, <1>2, <1>3, HandlersKeep, PTL DEF Spec

\* No call begins with a key on cooldown, also if only the table knows of the cooldown.
THEOREM NoCallBeginsOnCooldown == Spec => FirstKeyIsFree
<1>1. ASSUME HandlersInv, [Next]_vars, NEW c \in Calls, call[c].pc # "sent", call'[c].pc = "sent", call'[c].kind # "probe"
      PROVE  ~OnCooldown(Head(call'[c].todo))
  <2>1. CallsTyped /\ call \in [Calls -> CallRecords]
    BY <1>1 DEF HandlersInv, CallsTyped
  <2>2. ASSUME NEW d \in Calls, NEW kind \in Kinds, Pick(d, kind) PROVE ~OnCooldown(Head(call'[c].todo))
    BY <1>1, <2>1, <2>2, PickIs
  <2>3. ASSUME NEW d \in Calls, Probe(d) PROVE FALSE
    BY <1>1, <2>1, <2>3, ProbeIs
  <2>4. ASSUME NEW d \in Calls, NEW r, call' = [call EXCEPT ![d] = r], call[d].pc = "sent" PROVE FALSE
    BY <1>1, <2>1, <2>4
  <2>5. ASSUME NEW d \in Calls, Answer(d) \/ Disconnect(d) PROVE FALSE
    BY <2>4, <2>5 DEF Answer, Success, Failure, Disconnect
  <2>6. ASSUME Restart PROVE FALSE
    BY <1>1, <2>6, IdleIs DEF Restart
  <2>7. ASSUME UNCHANGED call PROVE FALSE
    BY <1>1, <2>7
  <2>8. ASSUME (\E k \in Keys : Reset(k) \/ Turn(k)) \/ StartRound \/ ProbeAnswer \/ Tick \/ UNCHANGED vars PROVE FALSE
    BY <2>7, <2>8 DEF Reset, Turn, StartRound, ProbeAnswer, Tick, vars
  <2> QED
    BY <1>1, <2>2, <2>3, <2>5, <2>6, <2>8 DEF Next
<1>2. HandlersInv /\ [Next]_vars =>
        \A c \in Calls : call[c].pc # "sent" /\ call'[c].pc = "sent" /\ call'[c].kind # "probe"
                           => ~OnCooldown(Head(call'[c].todo))
  BY <1>1
<1> QED
  BY <1>2, HandlersStart, HandlersKeep, PTL DEF Spec, FirstKeyIsFree
=============================================================================
