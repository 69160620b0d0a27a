--------------------------- MODULE SessionsProofs ---------------------------
(***************************************************************************)
(* What Sessions promises, for any number of handlers, devices, sessions,  *)
(* experiences and restarts.                                               *)
(***************************************************************************)
EXTENDS Sessions, FiniteSetTheorems, TLAPS

\* Handlers about to insert a session: the bound on sessions counts them.
Inserting == {h \in Handlers : pc[h] \in {"replace", "new"}}
RoomLeft == created + Cardinality(Inserting) <= MaxSessions

\* The local variables of the handlers have their types.
LocalOK ==
  /\ pc \in [Handlers -> Places]
  /\ sid \in [Handlers -> 0..created]
  /\ \A h \in Handlers : sid[h] = 0 <=> pc[h] \in {"idle", "replace", "new"}
  /\ asked \in [Handlers -> Codes \union {NoCode}]
  /\ excess \in [Handlers -> Nat]
  /\ picked \in [Handlers -> SUBSET (1..made)]

Typed == TypeOK /\ RoomLeft

-----------------------------------------------------------------------------
(* How a handler goes on *)

LEMMA MoveOn ==
  ASSUME TypeOK, NEW h \in Handlers, NEW p \in Places \ {"idle", "replace", "new"},
         sid[h] # 0, Goto(h, p), made' \in Nat, made <= made', created' = created
  PROVE  LocalOK'
BY DEF TypeOK, LocalOK, Goto, local, Places, Storing, Evicting, Summing

LEMMA MoveBack ==
  ASSUME TypeOK, NEW h \in Handlers, Return(h), made' = made, created' = created
  PROVE  LocalOK'
BY DEF TypeOK, LocalOK, Return, Places, Storing, Evicting, Summing

LEMMA MoveWith ==
  ASSUME TypeOK, NEW h \in Handlers, NEW p \in Places \ {"idle", "replace", "new"},
         NEW s \in 1..created', created' \in Nat, created <= created',
         GotoWith(h, p, s), made' = made
  PROVE  LocalOK'
BY DEF TypeOK, LocalOK, GotoWith, Places, Storing, Evicting, Summing

LEMMA MoveTo ==
  ASSUME TypeOK, NEW h \in Handlers, NEW p \in Places \ {"idle", "replace", "new"},
         NEW s \in 1..created, GotoWith(h, p, s), UNCHANGED <<rows, spoken, memory, crashes>>
  PROVE  TypeOK'
BY DEF TypeOK, GotoWith, Places, Storing, Evicting, Summing, rows, memory

\* A handler that works on a session works on one that was inserted.
LEMMA AtSession ==
  ASSUME TypeOK, NEW h \in Handlers, pc[h] \notin {"idle", "replace", "new"}
  PROVE  sid[h] \in 1..created /\ sid[h] \in SessionIds /\ sid[h] # 0
<1>1. sid[h] \in 0..created /\ sid[h] # 0 /\ created \in 0..MaxSessions
  BY DEF TypeOK
<1> QED
  BY <1>1, LimitsAssumption DEF SessionIds

\* A session that has a status other than "none" has been inserted.
LEMMA Known ==
  ASSUME TypeOK, NEW s \in SessionIds, status[s] # "none"
  PROVE  s \in 1..created
BY LimitsAssumption DEF TypeOK, SessionIds

-----------------------------------------------------------------------------
(* Types *)

\* A new row.
LEMMA InsertType ==
  ASSUME TypeOK, created < MaxSessions, NEW h \in Handlers,
         NEW t \in Codes \union {NoCode}, NEW before \in {status, Closed(SessionIds)},
         Insert(h, t, before), GotoWith(h, "inject", created + 1) \/ GotoWith(h, "agent", created + 1)
  PROVE  TypeOK'
<1>1. created' \in 1..MaxSessions /\ created <= created' /\ created + 1 = created'
  BY LimitsAssumption DEF TypeOK, Insert
<1>2. LocalOK'
  BY <1>1, MoveWith DEF Places, Insert, memory
<1>3. before \in [SessionIds -> {"none", "active", "closed"}]
      /\ \A s \in SessionIds : before[s] = "none" <=> s > created
  BY DEF TypeOK, Closed, Active
<1>4. status' \in [SessionIds -> {"none", "active", "closed"}]
      /\ \A s \in SessionIds : status'[s] = "none" <=> s > created'
  BY <1>1, <1>3 DEF Insert, TypeOK, SessionIds
<1>5. title' \in [SessionIds -> Codes \union {NoCode}]
  BY <1>1 DEF Insert, TypeOK
<1> QED
  BY <1>1, <1>2, <1>4, <1>5 DEF TypeOK, LocalOK, Insert, memory

LEMMA StartType ==
  ASSUME Typed, NEW h \in Handlers, Start(h)
  PROVE  TypeOK'
<1>1. ASSUME Open(h) PROVE TypeOK'
  <2>1. created < MaxSessions
    <3>1. IsFiniteSet(Inserting)
      BY HandlersAssumption, FS_Subset DEF Inserting
    <3>2. Cardinality(Inserting) \in Nat
      BY <3>1, FS_CardinalityType
    <3> QED
      BY <1>1, <3>2, LimitsAssumption DEF Open, Room, Inserting, Typed, TypeOK
  <2> QED
    BY <1>1, <2>1, InsertType DEF Open, Typed
<1>2. ASSUME PickLatest(h) PROVE TypeOK'
  <2>1. PICK s \in Active : GotoWith(h, "agent", s)
    BY <1>2 DEF PickLatest
  <2>2. s \in 1..created
    BY <2>1, Known DEF Active, Typed
  <2> QED
    BY <1>2, <2>1, <2>2, MoveTo DEF PickLatest, Typed, Places
<1>3. ASSUME FindNone(h) PROVE TypeOK'
  BY <1>3 DEF FindNone, Goto, local, Typed, TypeOK, Places, rows, memory
<1>4. ASSUME NEW c \in Codes, LookUp(h, c) PROVE TypeOK'
  <2>1. CASE \E s \in Active : GotoWith(h, "reuse", s)
    <3>1. PICK s \in Active : GotoWith(h, "reuse", s)
      BY <2>1
    <3>2. s \in 1..created
      BY <3>1, Known DEF Active, Typed
    <3> QED
      BY <1>4, <3>1, <3>2, MoveTo DEF LookUp, Typed, Places
  <2>2. CASE ~ \E s \in Active : GotoWith(h, "reuse", s)
    BY <1>4, <2>2 DEF LookUp, Typed, TypeOK, Places, rows, memory
  <2> QED
    BY <2>1, <2>2
<1>5. ASSUME NEW s \in SessionIds, CheckPost(h, s) PROVE TypeOK'
  <2>1. s \in 1..created
    BY <1>5, Known DEF CheckPost, Typed
  <2> QED
    BY <1>5, <2>1, MoveTo DEF CheckPost, Typed, Places
<1>6. ASSUME NEW s \in SessionIds, LookClose(h, s) PROVE TypeOK'
  <2>1. CASE status[s] = "closed"
    BY <1>6, <2>1 DEF LookClose, Typed, TypeOK, local, rows, memory
  <2>2. CASE status[s] # "closed"
    <3>1. s \in 1..created
      BY <1>6, Known DEF LookClose, Typed
    <3> QED
      BY <1>6, <2>2, <3>1, MoveTo DEF LookClose, Typed, Places, Summing
  <2> QED
    BY <2>1, <2>2
<1> QED
  BY <1>1, <1>2, <1>3, <1>4, <1>5, <1>6 DEF Start

\* The steps that insert a session find room for it.
LEMMA InsertingFinite ==
  /\ IsFiniteSet(Inserting) /\ Cardinality(Inserting) \in Nat
  /\ \A h \in Inserting : Cardinality(Inserting) >= 1
                          /\ Cardinality(Inserting \ {h}) = Cardinality(Inserting) - 1
  /\ \A h \in Handlers \ Inserting :
       Cardinality(Inserting \union {h}) = Cardinality(Inserting) + 1
<1>1. IsFiniteSet(Inserting)
  BY HandlersAssumption, FS_Subset DEF Inserting
<1>2. Cardinality(Inserting) \in Nat
  BY <1>1, FS_CardinalityType
<1>3. ASSUME NEW h \in Inserting
      PROVE  Cardinality(Inserting) >= 1
             /\ Cardinality(Inserting \ {h}) = Cardinality(Inserting) - 1
  <2>1. Cardinality(Inserting \ {h}) \in Nat
        /\ Cardinality(Inserting \ {h}) = Cardinality(Inserting) - 1
    BY <1>1, FS_RemoveElement, FS_CardinalityType
  <2> QED
    BY <1>2, <2>1
<1>4. ASSUME NEW h \in Handlers \ Inserting
      PROVE  Cardinality(Inserting \union {h}) = Cardinality(Inserting) + 1
  BY <1>1, FS_AddElement
<1> QED
  BY <1>1, <1>2, <1>3, <1>4

LEMMA RoomFound ==
  ASSUME Typed, NEW h \in Inserting
  PROVE  created < MaxSessions
<1>1. Cardinality(Inserting) \in Nat /\ Cardinality(Inserting) >= 1
  BY InsertingFinite
<1> QED
  BY <1>1, LimitsAssumption DEF Typed, RoomLeft, TypeOK

LEMMA OpeningType ==
  ASSUME Typed, NEW h \in Handlers, Opening(h)
  PROVE  TypeOK'
<1>1. ASSUME Reuse(h) PROVE TypeOK'
  BY <1>1 DEF Reuse, Closed, Active, Goto, local, memory, Typed, TypeOK, Places
<1>2. ASSUME Replace(h) PROVE TypeOK'
  <2>1. created < MaxSessions
    <3>1. h \in Inserting
      BY <1>2 DEF Replace, Inserting
    <3> QED
      BY <3>1, RoomFound
  <2> QED
    BY <1>2, <2>1, InsertType DEF Replace, Typed, TypeOK
<1>3. ASSUME Inject(h) PROVE TypeOK'
  <2>1. LocalOK'
    BY <1>3, MoveBack DEF Inject, Typed, rows, memory
  <2>2. sid[h] \in SessionIds
    BY <1>3, AtSession DEF Inject, Typed
  <2> QED
    BY <1>3, <2>1, <2>2 DEF Inject, Typed, TypeOK, LocalOK, rows, memory
<1> QED
  BY <1>1, <1>2, <1>3 DEF Opening

LEMMA TalkingType ==
  ASSUME Typed, NEW h \in Handlers, Talking(h)
  PROVE  TypeOK'
<1>1. ASSUME Speak(h), pc[h] \in {"post", "say", "reply"}, Return(h) \/ Goto(h, "reply")
      PROVE  TypeOK'
  <2>1. sid[h] \in SessionIds /\ sid[h] # 0
    BY <1>1, AtSession DEF Typed
  <2>2. UNCHANGED <<rows, memory, crashes>> /\ spoken' \subseteq SessionIds
    BY <1>1, <2>1 DEF Speak, Typed, TypeOK
  <2>3. LocalOK'
    BY <1>1, <2>1, <2>2, MoveBack, MoveOn DEF Typed, TypeOK, Places, rows, memory
  <2> QED
    BY <2>2, <2>3 DEF Typed, TypeOK, LocalOK, rows, memory
<1>2. ASSUME OpenChat(h) PROVE TypeOK'
  <2>1. created < MaxSessions
    <3>1. h \in Inserting
      BY <1>2 DEF OpenChat, Inserting
    <3> QED
      BY <3>1, RoomFound
  <2> QED
    BY <1>2, <2>1, InsertType DEF OpenChat, Typed
<1>3. ASSUME CheckAgent(h) PROVE TypeOK'
  <2>1. sid[h] # 0 /\ UNCHANGED <<rows, spoken, memory, crashes>>
    BY <1>3 DEF CheckAgent, Typed, TypeOK
  <2>2. LocalOK'
    BY <1>3, <2>1, MoveBack, MoveOn DEF CheckAgent, Typed, TypeOK, Places, rows, memory
  <2> QED
    BY <2>1, <2>2 DEF Typed, TypeOK, LocalOK, rows, memory
<1> QED
  BY <1>1, <1>2, <1>3 DEF Talking, Post, Say, Reply

LEMMA ClosingType ==
  ASSUME Typed, NEW h \in Handlers, Closing(h)
  PROVE  TypeOK'
<1> TypeOK
  BY DEF Typed
<1>1. ASSUME UNCHANGED <<rows, spoken, memory, crashes>>, Return(h) \/ Goto(h, "ask") \/ Goto(h, "end"),
             pc[h] \notin {"idle", "replace", "new"}
      PROVE  TypeOK'
  <2>1. sid[h] # 0
    BY <1>1, AtSession
  <2>2. LocalOK'
    <3>1. created' = created /\ made' = made /\ made \in Nat
      BY <1>1 DEF TypeOK, rows, memory
    <3>2. CASE Return(h)
      BY <3>1, <3>2, MoveBack
    <3>3. CASE Goto(h, "ask")
      BY <2>1, <3>1, <3>3, MoveOn DEF Places, Summing
    <3>4. CASE Goto(h, "end")
      BY <2>1, <3>1, <3>4, MoveOn DEF Places, Storing
    <3> QED
      BY <1>1, <3>2, <3>3, <3>4
  <2>3. UNCHANGED <<rows, spoken, memory, crashes>>
    BY <1>1
  <2> QED
    BY <2>2, <2>3 DEF TypeOK, LocalOK, rows, memory
<1>2. ASSUME Write(h) PROVE TypeOK'
  <2>1. sid[h] # 0 /\ sid[h] \in SessionIds
    BY <1>2, AtSession DEF Write
  <2>2. made' \in 0..MaxLessons /\ made <= made' /\ table' \subseteq 1..made'
        /\ archive' \subseteq 1..made'
    BY <1>2, LimitsAssumption DEF Write, TypeOK
  <2>3. LocalOK'
    <3>1. Goto(h, "count") /\ created' = created /\ made' \in Nat
      BY <1>2, <2>2 DEF Write, rows
    <3> QED
      BY <2>1, <2>2, <3>1, MoveOn DEF Places, Storing, Evicting
  <2>4. summarised' \subseteq SessionIds /\ writes' \in [SessionIds -> Nat]
    BY <1>2, <2>1 DEF Write, TypeOK
  <2> QED
    BY <1>2, <2>2, <2>3, <2>4 DEF Write, TypeOK, LocalOK, rows
<1>3. table \subseteq Nat /\ IsFiniteSet(table) /\ Cardinality(table) \in Nat
  <2>1. IsFiniteSet(1..made)
    BY FS_Interval DEF TypeOK
  <2>2. IsFiniteSet(table)
    BY <2>1, FS_Subset DEF TypeOK
  <2> QED
    BY <2>2, FS_CardinalityType DEF TypeOK
<1>4. ASSUME Count(h) PROVE TypeOK'
  <2>1. CASE Cardinality(table) <= Limit
    BY <1>1, <1>4, <2>1 DEF Count, CountAbove
  <2>2. CASE ~ (Cardinality(table) <= Limit)
    <3>1. Cardinality(table) - Limit \in Nat
      BY <1>3, <2>2, LimitsAssumption
    <3> QED
      BY <1>4, <2>2, <3>1 DEF Count, CountAbove, TypeOK, Places, Storing, Evicting, rows, memory
  <2> QED
    BY <2>1, <2>2
<1>5. ASSUME Select(h) PROVE TypeOK'
  <2>1. Oldest(excess[h]) \subseteq 1..made
    BY DEF Oldest, TypeOK
  <2> QED
    BY <1>5, <2>1 DEF Select, TypeOK, Places, Storing, Evicting, rows, memory
<1>6. ASSUME Archive(h) PROVE TypeOK'
  BY <1>6 DEF Archive, TypeOK, Goto, local, Places, Storing, Evicting, rows
<1>7. ASSUME Delete(h) PROVE TypeOK'
  BY <1>7 DEF Delete, TypeOK, Places, Storing, Evicting, rows
<1>8. ASSUME End(h) PROVE TypeOK'
  <2>1. sid[h] \in 1..created /\ sid[h] \in SessionIds
    BY <1>8, AtSession DEF End
  <2>2. LocalOK'
    BY <1>8, MoveBack DEF End, memory
  <2>3. status' \in [SessionIds -> {"none", "active", "closed"}]
        /\ \A s \in SessionIds : status'[s] = "none" <=> s > created
    BY <1>8, <2>1, LimitsAssumption DEF End, TypeOK, SessionIds
  <2> QED
    BY <1>8, <2>1, <2>2, <2>3 DEF End, TypeOK, LocalOK, memory
<1> QED
  BY <1>1, <1>2, <1>4, <1>5, <1>6, <1>7, <1>8 DEF Closing, Evict, Load, ModelFails

LEMMA CrashType ==
  ASSUME Typed, Crash
  PROVE  TypeOK'
<1>1. archive' \subseteq 1..made
  <2>1. PICK part \in SUBSET UNION {picked[h] : h \in {g \in Handlers : pc[g] = "archive"}} :
          archive' = archive \union part
    BY DEF Crash
  <2> QED
    <3>1. \A h \in Handlers : picked[h] \subseteq 1..made
      BY DEF Typed, TypeOK
    <3>2. part \subseteq 1..made
      BY <3>1
    <3>3. archive \subseteq 1..made
      BY DEF Typed, TypeOK
    <3> QED
      BY <2>1, <3>2, <3>3
<1>2. crashes' \in 0..MaxCrashes
  BY LimitsAssumption DEF Crash, Typed, TypeOK
<1> QED
  BY <1>1, <1>2 DEF Crash, Typed, TypeOK, Places, rows

\* Room is left: only a request that found room goes on to insert.
LEMMA RoomStep == Typed /\ [Next]_vars => RoomLeft'
<1> SUFFICES ASSUME Typed, [Next]_vars PROVE RoomLeft'
  OBVIOUS
<1>1. /\ IsFiniteSet(Inserting) /\ Cardinality(Inserting) \in Nat
      /\ created \in Nat /\ created + Cardinality(Inserting) <= MaxSessions
  BY InsertingFinite, LimitsAssumption DEF Typed, RoomLeft, TypeOK
<1>2. ASSUME Inserting' \subseteq Inserting, created' = created PROVE RoomLeft'
  <2>1. Cardinality(Inserting') \in Nat /\ Cardinality(Inserting') <= Cardinality(Inserting)
    BY <1>1, <1>2, FS_Subset, FS_CardinalityType
  <2> QED
    BY <1>1, <1>2, <2>1, LimitsAssumption DEF RoomLeft
<1>3. ASSUME NEW h \in Handlers \ Inserting, Inserting' = Inserting \union {h},
             created' = created, Room
      PROVE  RoomLeft'
  BY <1>1, <1>3, InsertingFinite, LimitsAssumption DEF RoomLeft, Room, Inserting
<1>4. ASSUME NEW h \in Inserting, Inserting' = Inserting \ {h}, created' = created + 1
      PROVE  RoomLeft'
  <2>1. Cardinality(Inserting \ {h}) = Cardinality(Inserting) - 1
    BY InsertingFinite
  <2> QED
    BY <1>1, <1>4, <2>1, LimitsAssumption DEF RoomLeft
<1>5. ASSUME Inserting' = Inserting, created' = created + 1, Room PROVE RoomLeft'
  <2>1. created + Cardinality(Inserting) < MaxSessions
    BY <1>5 DEF Room, Inserting
  <2> QED
    BY <1>1, <1>5, <2>1, LimitsAssumption DEF RoomLeft
<1>6. pc \in [Handlers -> Places]
  BY DEF Typed, TypeOK
<1>7. ASSUME NEW h \in Handlers, Start(h) PROVE RoomLeft'
  <2>1. CASE Open(h)
    <3>1. Inserting' = Inserting /\ created' = created + 1 /\ Room
      BY <1>6, <2>1 DEF Open, Insert, GotoWith, Inserting
    <3> QED
      BY <1>5, <3>1
  <2>2. CASE PickLatest(h) \/ \E s \in SessionIds : CheckPost(h, s) \/ LookClose(h, s)
    <3>1. Inserting' \subseteq Inserting /\ created' = created
      BY <1>6, <2>2 DEF PickLatest, CheckPost, LookClose, GotoWith, Inserting, rows
    <3> QED
      BY <1>2, <3>1
  <2>3. CASE FindNone(h)
    <3>1. h \notin Inserting /\ Inserting' = Inserting \union {h} /\ created' = created /\ Room
      BY <1>6, <2>3 DEF FindNone, Goto, Inserting, rows
    <3> QED
      BY <1>3, <3>1
  <2>4. ASSUME NEW c \in Codes, LookUp(h, c) PROVE RoomLeft'
    <3>1. CASE pc' = [pc EXCEPT ![h] = "replace"]
      <4>1. h \notin Inserting /\ Inserting' = Inserting \union {h} /\ created' = created /\ Room
        BY <1>6, <2>4, <3>1 DEF LookUp, Inserting, rows
      <4> QED
        BY <1>3, <4>1
    <3>2. CASE pc' = [pc EXCEPT ![h] = "reuse"]
      <4>1. Inserting' \subseteq Inserting /\ created' = created
        BY <1>6, <2>4, <3>2 DEF LookUp, Inserting, rows
      <4> QED
        BY <1>2, <4>1
    <3> QED
      BY <2>4, <3>1, <3>2 DEF LookUp, GotoWith
  <2> QED
    BY <1>7, <2>1, <2>2, <2>3, <2>4 DEF Start
<1>8. ASSUME NEW h \in Handlers, Opening(h) PROVE RoomLeft'
  <2>1. CASE Reuse(h) \/ Inject(h)
    <3>1. Inserting' \subseteq Inserting /\ created' = created
      BY <1>6, <2>1 DEF Reuse, Inject, Goto, Return, Inserting, rows
    <3> QED
      BY <1>2, <3>1
  <2>2. CASE Replace(h)
    <3>1. h \in Inserting /\ Inserting' = Inserting \ {h} /\ created' = created + 1
      BY <1>6, <2>2 DEF Replace, Insert, GotoWith, Inserting
    <3> QED
      BY <1>4, <3>1
  <2> QED
    BY <1>8, <2>1, <2>2 DEF Opening
<1>9. ASSUME NEW h \in Handlers, Talking(h) PROVE RoomLeft'
  <2>1. CASE Post(h) \/ CheckAgent(h) \/ Say(h) \/ Reply(h)
    <3>1. Inserting' \subseteq Inserting /\ created' = created
      BY <1>6, <2>1 DEF Post, CheckAgent, Say, Reply, Speak, Goto, Return, Inserting, rows
    <3> QED
      BY <1>2, <3>1
  <2>2. CASE OpenChat(h)
    <3>1. h \in Inserting /\ Inserting' = Inserting \ {h} /\ created' = created + 1
      BY <1>6, <2>2 DEF OpenChat, Insert, GotoWith, Inserting
    <3> QED
      BY <1>4, <3>1
  <2> QED
    BY <1>9, <2>1, <2>2 DEF Talking
<1>10. ASSUME NEW h \in Handlers, Closing(h) PROVE RoomLeft'
  <2>1. created' = created
    BY <1>10 DEF Closing, Evict, Load, ModelFails, Write, Count, CountAbove, Select, Archive,
                 Delete, End, rows
  <2>2. \E p \in {"idle", "ask", "count", "select", "archive", "delete", "end"} :
          pc' = [pc EXCEPT ![h] = p]
    BY <1>10 DEF Closing, Evict, Load, ModelFails, Write, Count, CountAbove, Select, Archive,
                 Delete, End, Goto, Return
  <2>3. Inserting' \subseteq Inserting
    BY <1>6, <2>2 DEF Inserting
  <2> QED
    BY <1>2, <2>1, <2>3
<1>11. CASE Crash
  <2>1. Inserting' \subseteq Inserting /\ created' = created
    BY <1>11 DEF Crash, Inserting, rows
  <2> QED
    BY <1>2, <2>1
<1>12. CASE UNCHANGED vars
  <2>1. Inserting' = Inserting /\ created' = created
    BY <1>12 DEF vars, rows, Inserting
  <2> QED
    BY <1>2, <2>1
<1> QED
  BY <1>7, <1>8, <1>9, <1>10, <1>11, <1>12 DEF Next, Go

LEMMA TypeStep == Typed /\ [Next]_vars => Typed'
<1> SUFFICES ASSUME Typed, [Next]_vars PROVE Typed'
  OBVIOUS
<1>1. RoomLeft'
  BY RoomStep
<1>2. CASE UNCHANGED vars
  <2>1. TypeOK
    BY DEF Typed
  <2>2. TypeOK'
    BY <1>2, <2>1 DEF vars, rows, memory, local, TypeOK
  <2> QED
    BY <1>1, <2>2 DEF Typed
<1>3. CASE Next
  <2>1. TypeOK'
    BY <1>3, StartType, OpeningType, TalkingType, ClosingType, CrashType DEF Next, Go
  <2> QED
    BY <1>1, <2>1 DEF Typed
<1> QED
  BY <1>2, <1>3

LEMMA InitTyped == Init => Typed
<1> SUFFICES ASSUME Init PROVE Typed
  OBVIOUS
<1>1. TypeOK
  <2>1. created \in 0..MaxSessions /\ made \in 0..MaxLessons /\ crashes \in 0..MaxCrashes
    BY LimitsAssumption DEF Init
  <2>2. /\ status \in [SessionIds -> {"none", "active", "closed"}]
        /\ \A s \in SessionIds : status[s] = "none" <=> s > created
        /\ title \in [SessionIds -> Codes \union {NoCode}]
        /\ writes \in [SessionIds -> Nat]
    BY DEF Init, SessionIds
  <2>3. LocalOK
    BY <2>1 DEF Init, LocalOK, Places
  <2> QED
    BY <2>1, <2>2, <2>3 DEF Init, TypeOK, LocalOK
<1>2. Inserting = {}
  BY DEF Init, Inserting
<1> QED
  BY <1>1, <1>2, FS_EmptySet, LimitsAssumption DEF Init, Typed, RoomLeft

-----------------------------------------------------------------------------
(* What a step leaves alone *)

LEMMA OthersWait ==
  ASSUME Typed, NEW h \in Handlers, Start(h) \/ Go(h)
  PROVE  \A g \in Handlers \ {h} :
           /\ pc'[g] = pc[g] /\ sid'[g] = sid[g]
           /\ excess'[g] = excess[g] /\ picked'[g] = picked[g]
<1>1. pc \in [Handlers -> Places] /\ sid \in [Handlers -> 0..created]
      /\ excess \in [Handlers -> Nat] /\ picked \in [Handlers -> SUBSET (1..made)]
  BY DEF Typed, TypeOK
<1>2. CASE Start(h)
  BY <1>1, <1>2 DEF Start, Open, PickLatest, FindNone, LookUp, CheckPost, LookClose, Goto,
                    GotoWith, local
<1>3. CASE Opening(h) \/ Talking(h)
  BY <1>1, <1>3 DEF Opening, Talking, Reuse, Replace, Inject, Post, OpenChat, CheckAgent, Say,
                    Reply, Goto, GotoWith, Return, local
<1>4. CASE Closing(h)
  BY <1>1, <1>4 DEF Closing, Evict, Load, ModelFails, Write, Count, CountAbove, Select, Archive,
                    Delete, End, Goto, Return, local
<1> QED
  BY <1>2, <1>3, <1>4 DEF Go

\* Only closings touch the memory and mark a session ended.
LEMMA OnlyClosings ==
  ASSUME NEW h, Start(h) \/ Opening(h) \/ Talking(h)
  PROVE  UNCHANGED <<ended, memory>>
BY DEF Start, Opening, Talking, Open, PickLatest, FindNone, LookUp, CheckPost, LookClose, Reuse,
       Replace, Inject, Post, OpenChat, CheckAgent, Say, Reply, Speak, Insert, rows

\* And no other request gets into the middle of a closing.
LEMMA NoneStores ==
  ASSUME Typed, NEW h \in Handlers, Start(h) \/ Opening(h) \/ Talking(h)
  PROVE  pc[h] \notin Storing /\ pc'[h] \notin Storing
<1>1. pc \in [Handlers -> Places]
  BY DEF Typed, TypeOK
<1>2. pc[h] \notin Storing
  BY DEF Start, Opening, Talking, Open, PickLatest, FindNone, LookUp, CheckPost, LookClose, Reuse,
         Replace, Inject, Post, OpenChat, CheckAgent, Say, Reply, Storing, Evicting
<1>3. pc' = pc \/ \E p \in {"idle", "reuse", "replace", "inject", "post", "new", "agent", "say",
                            "reply", "load"} : pc' = [pc EXCEPT ![h] = p]
  BY DEF Start, Opening, Talking, Open, PickLatest, FindNone, LookUp, CheckPost, LookClose, Reuse,
         Replace, Inject, Post, OpenChat, CheckAgent, Say, Reply, Goto, GotoWith, Return
<1> QED
  BY <1>1, <1>2, <1>3 DEF Storing, Evicting

\* A session that is closed stays closed.
LEMMA ClosedStays ==
  ASSUME Typed, [Next]_vars, NEW s \in SessionIds, status[s] = "closed"
  PROVE  status'[s] = "closed"
<1>1. /\ status \in [SessionIds -> {"none", "active", "closed"}]
      /\ status[s] = "none" <=> s > created
      /\ created \in 0..MaxSessions /\ s # created + 1
  BY LimitsAssumption DEF Typed, TypeOK, SessionIds
<1>2. Closed(SessionIds) \in [SessionIds -> {"none", "active", "closed"}]
      /\ Closed(SessionIds)[s] = "closed"
  BY <1>1 DEF Closed, Active
<1>3. ASSUME NEW h, NEW t, Insert(h, t, status) \/ Insert(h, t, Closed(SessionIds))
      PROVE  status'[s] = "closed"
  BY <1>1, <1>2, <1>3 DEF Insert
<1>4. ASSUME NEW h \in Handlers, Start(h) PROVE status'[s] = "closed"
  BY <1>3, <1>4 DEF Start, Open, PickLatest, FindNone, LookUp, CheckPost, LookClose, rows
<1>5. ASSUME NEW h \in Handlers, Opening(h) \/ Talking(h) PROVE status'[s] = "closed"
  BY <1>1, <1>3, <1>5 DEF Opening, Talking, Reuse, Replace, Inject, Post, OpenChat, CheckAgent,
                          Say, Reply, Speak, Closed, Active, rows
<1>6. ASSUME NEW h \in Handlers, Closing(h) PROVE status'[s] = "closed"
  BY <1>1, <1>6 DEF Closing, Evict, Load, ModelFails, Write, Count, CountAbove, Select, Archive,
                    Delete, End, rows
<1> QED
  BY <1>4, <1>5, <1>6 DEF Next, Go, Crash, vars, rows

-----------------------------------------------------------------------------
(* Ended sessions are remembered *)

\* A closing that has written its memory works on a session that has one.
RememberInv ==
  /\ EndedIsRemembered
  /\ \A h \in Handlers : pc[h] \in Storing => sid[h] \in summarised

LEMMA RememberStep == Typed /\ RememberInv /\ [Next]_vars => RememberInv'
<1> SUFFICES ASSUME Typed, RememberInv, [Next]_vars PROVE RememberInv'
  OBVIOUS
<1>1. pc \in [Handlers -> Places] /\ sid \in [Handlers -> 0..created] /\ ended \subseteq SessionIds
  BY DEF Typed, TypeOK
<1>2. ASSUME ended' = ended, summarised \subseteq summarised' PROVE EndedIsRemembered'
  BY <1>1, <1>2, ClosedStays DEF EndedIsRemembered, RememberInv
<1>3. ASSUME NEW h \in Handlers, Start(h) \/ Opening(h) \/ Talking(h) PROVE RememberInv'
  <2>1. ended' = ended /\ summarised' = summarised
    BY <1>3, OnlyClosings DEF memory
  <2>2. \A g \in Handlers : pc'[g] \in Storing => sid'[g] \in summarised'
    BY <1>3, <2>1, OthersWait, NoneStores DEF Go, RememberInv
  <2> QED
    BY <1>2, <2>1, <2>2 DEF RememberInv
<1>4. ASSUME NEW h \in Handlers, Closing(h) PROVE RememberInv'
  <2>1. \A g \in Handlers \ {h} : pc'[g] = pc[g] /\ sid'[g] = sid[g]
    BY <1>4, OthersWait DEF Go
  <2>2. summarised \subseteq summarised'
    BY <1>4 DEF Closing, Evict, Load, ModelFails, Write, Count, CountAbove, Select, Archive,
                Delete, End, memory
  <2>3. pc'[h] \in Storing => sid'[h] \in summarised'
    <3>1. CASE Load(h) \/ ModelFails(h) \/ End(h)
      BY <1>1, <3>1 DEF Load, ModelFails, End, Goto, Return, Storing, Evicting
    <3>2. CASE Write(h)
      BY <1>1, <3>2 DEF Write, Goto, local
    <3>3. CASE Evict(h)
      <4>1. pc[h] \in Storing /\ sid' = sid
        BY <3>3 DEF Evict, Count, CountAbove, Select, Archive, Delete, Goto, local, Storing, Evicting
      <4> QED
        BY <2>2, <4>1 DEF RememberInv
    <3> QED
      BY <1>4, <3>1, <3>2, <3>3 DEF Closing
  <2>4. EndedIsRemembered'
    <3>1. CASE End(h)
      <4>1. sid[h] \in SessionIds /\ sid[h] \in summarised
        BY <3>1, AtSession DEF End, Typed, RememberInv, Storing
      <4>2. ended' = ended \union {sid[h]} /\ status'[sid[h]] = "closed"
        BY <3>1, <4>1 DEF End, Typed, TypeOK
      <4> QED
        BY <1>1, <2>2, <4>1, <4>2, ClosedStays DEF EndedIsRemembered, RememberInv
    <3>2. CASE ~End(h)
      <4>1. ended' = ended
        BY <1>4, <3>2 DEF Closing, Evict, Load, ModelFails, Write, Count, CountAbove, Select,
                          Archive, Delete, rows
      <4> QED
        BY <1>2, <2>2, <4>1
    <3> QED
      BY <3>1, <3>2
  <2> QED
    BY <2>1, <2>2, <2>3, <2>4 DEF RememberInv
<1>5. CASE Crash
  <2>1. \A g \in Handlers : pc'[g] \notin Storing
    BY <1>5 DEF Crash, Storing, Evicting
  <2>2. ended' = ended /\ summarised' = summarised
    BY <1>5 DEF Crash, rows
  <2> QED
    BY <1>2, <2>1, <2>2 DEF RememberInv
<1>6. CASE UNCHANGED vars
  BY <1>6 DEF vars, rows, memory, local, RememberInv, EndedIsRemembered
<1> QED
  BY <1>3, <1>4, <1>5, <1>6 DEF Next, Go

-----------------------------------------------------------------------------
(* No experience is lost *)

\* What a closing is about to delete has been archived.
LossInv ==
  /\ NothingLost
  /\ \A h \in Handlers : pc[h] = "delete" => picked[h] \subseteq archive

LEMMA LossStep == Typed /\ LossInv /\ [Next]_vars => LossInv'
<1> SUFFICES ASSUME Typed, LossInv, [Next]_vars PROVE LossInv'
  OBVIOUS
<1>1. pc \in [Handlers -> Places] /\ picked \in [Handlers -> SUBSET (1..made)]
      /\ archive \subseteq 1..made /\ made \in Nat
  BY DEF Typed, TypeOK
<1>2. ASSUME UNCHANGED <<made, table, archive>> PROVE NothingLost'
  BY <1>2 DEF NothingLost, LossInv
<1>3. ASSUME NEW h \in Handlers, Start(h) \/ Go(h), archive \subseteq archive',
             pc'[h] = "delete" => picked'[h] \subseteq archive'
      PROVE  \A g \in Handlers : pc'[g] = "delete" => picked'[g] \subseteq archive'
  BY <1>3, OthersWait DEF LossInv
<1>4. ASSUME NEW h \in Handlers, Start(h) \/ Opening(h) \/ Talking(h) PROVE LossInv'
  <2>1. UNCHANGED <<made, table, archive>>
    BY <1>4, OnlyClosings DEF memory
  <2>2. pc'[h] # "delete"
    BY <1>4, NoneStores DEF Storing, Evicting
  <2> QED
    BY <1>2, <1>3, <1>4, <2>1, <2>2 DEF LossInv, Go
<1>5. ASSUME NEW h \in Handlers, Closing(h) PROVE LossInv'
  <2>1. CASE Load(h) \/ ModelFails(h) \/ Count(h) \/ Select(h) \/ End(h)
    <3>1. UNCHANGED <<made, table, archive>>
      BY <2>1 DEF Load, ModelFails, Count, CountAbove, Select, End, memory
    <3>2. pc'[h] # "delete"
      BY <1>1, <2>1 DEF Load, ModelFails, Count, CountAbove, Select, End, Goto, Return
    <3> QED
      BY <1>2, <1>3, <1>5, <3>1, <3>2 DEF LossInv, Go
  <2>2. CASE Write(h)
    <3>1. archive' = archive /\ pc'[h] # "delete"
      BY <1>1, <2>2 DEF Write, Goto
    <3>2. NothingLost'
      BY <1>1, <2>2 DEF Write, NothingLost, LossInv
    <3> QED
      BY <1>3, <1>5, <3>1, <3>2 DEF LossInv, Go
  <2>3. CASE Archive(h)
    <3>1. archive' = archive \union picked[h] /\ picked' = picked
      BY <2>3 DEF Archive, Goto, local
    <3>2. NothingLost'
      BY <1>1, <2>3 DEF Archive, NothingLost, LossInv
    <3> QED
      BY <1>3, <1>5, <3>1, <3>2 DEF LossInv, Go
  <2>4. CASE Delete(h)
    <3>1. archive' = archive /\ pc'[h] # "delete"
      BY <1>1, <2>4 DEF Delete
    <3>2. NothingLost'
      BY <1>1, <2>4 DEF Delete, NothingLost, LossInv
    <3> QED
      BY <1>3, <1>5, <3>1, <3>2 DEF LossInv, Go
  <2> QED
    BY <1>5, <2>1, <2>2, <2>3, <2>4 DEF Closing, Evict
<1>6. CASE Crash
  <2>1. \A h \in Handlers : pc'[h] # "delete"
    BY <1>6 DEF Crash
  <2>2. archive \subseteq archive' /\ archive' \subseteq 1..made
    BY <1>6, CrashType DEF Crash, TypeOK
  <2>3. made' = made /\ table' = table
    BY <1>6 DEF Crash
  <2> QED
    BY <2>1, <2>2, <2>3 DEF LossInv, NothingLost
<1>7. CASE UNCHANGED vars
  BY <1>7 DEF vars, memory, local, LossInv, NothingLost
<1> QED
  BY <1>4, <1>5, <1>6, <1>7 DEF Next, Go

-----------------------------------------------------------------------------
(* One active session per device *)

LEMMA CodeStep == Typed /\ OneActivePerCode /\ [Next]_vars => OneActivePerCode'
<1> SUFFICES ASSUME Typed, OneActivePerCode, [Next]_vars PROVE OneActivePerCode'
  OBVIOUS
<1>1. /\ status \in [SessionIds -> {"none", "active", "closed"}]
      /\ title \in [SessionIds -> Codes \union {NoCode}]
  BY DEF Typed, TypeOK
<1>2. ASSUME title' = title, Active' \subseteq Active PROVE OneActivePerCode'
  BY <1>2 DEF OneActivePerCode
<1>3. ASSUME NEW h \in Handlers, Insert(h, NoCode, status) PROVE OneActivePerCode'
  <2>1. title' = [title EXCEPT ![created + 1] = NoCode]
        /\ status' = [status EXCEPT ![created + 1] = "active"]
    BY <1>3 DEF Insert
  <2>2. \A s \in Active' : s \in SessionIds /\ title'[s] # NoCode
                             => s \in Active /\ title'[s] = title[s]
    BY <1>1, <2>1 DEF Active
  <2> QED
    BY <2>2 DEF OneActivePerCode, Active
<1>4. ASSUME NEW h \in Handlers, Replace(h) PROVE OneActivePerCode'
  <2>1. status' = [Closed(SessionIds) EXCEPT ![created + 1] = "active"]
    BY <1>4 DEF Replace, Insert
  <2>2. \A s \in SessionIds : Closed(SessionIds)[s] # "active"
    BY <1>1 DEF Closed, Active
  <2>3. Active' \subseteq {created + 1}
    BY <2>1, <2>2 DEF Active, Closed
  <2> QED
    BY <2>3 DEF OneActivePerCode
<1>5. ASSUME NEW h \in Handlers, Start(h) PROVE OneActivePerCode'
  <2>1. CASE Open(h)
    BY <1>3, <2>1 DEF Open
  <2>2. CASE ~Open(h)
    <3>1. title' = title /\ status' = status
      BY <1>5, <2>2 DEF Start, PickLatest, FindNone, LookUp, CheckPost, LookClose, rows
    <3> QED
      BY <1>2, <3>1 DEF Active
  <2> QED
    BY <2>1, <2>2
<1>6. ASSUME NEW h \in Handlers, Opening(h) PROVE OneActivePerCode'
  <2>1. CASE Reuse(h)
    <3>1. title' = title /\ Active' \subseteq Active
      BY <1>1, <2>1 DEF Reuse, Closed, Active
    <3> QED
      BY <1>2, <3>1
  <2>2. CASE Inject(h)
    BY <1>2, <2>2 DEF Inject, Active, rows
  <2> QED
    BY <1>4, <1>6, <2>1, <2>2 DEF Opening
<1>7. ASSUME NEW h \in Handlers, Talking(h) PROVE OneActivePerCode'
  <2>1. CASE OpenChat(h)
    BY <1>3, <2>1 DEF OpenChat
  <2>2. CASE ~OpenChat(h)
    <3>1. title' = title /\ status' = status
      BY <1>7, <2>2 DEF Talking, Post, CheckAgent, Say, Reply, Speak, rows
    <3> QED
      BY <1>2, <3>1 DEF Active
  <2> QED
    BY <2>1, <2>2
<1>8. ASSUME NEW h \in Handlers, Closing(h) PROVE OneActivePerCode'
  <2>1. title' = title
        /\ (status' = status \/ status' = [status EXCEPT ![sid[h]] = "closed"])
    BY <1>8 DEF Closing, Evict, Load, ModelFails, Write, Count, CountAbove, Select, Archive,
                Delete, End, rows
  <2>2. Active' \subseteq Active
    BY <1>1, <2>1 DEF Active
  <2> QED
    BY <1>2, <2>1, <2>2
<1>9. CASE Crash \/ UNCHANGED vars
  <2>1. title' = title /\ status' = status
    BY <1>9 DEF Crash, vars, rows
  <2> QED
    BY <1>2, <2>1 DEF Active
<1> QED
  BY <1>5, <1>6, <1>7, <1>8, <1>9 DEF Next, Go

-----------------------------------------------------------------------------
(* How often a memory is written *)

\* Handlers that have written the memory of session s and not yet marked it, and
\* handlers that may still write it.
StoringOf(s) == {h \in Handlers : pc[h] \in Storing /\ sid[h] = s}
SummingOf(s) == {h \in Handlers : pc[h] \in Summing /\ sid[h] = s}

\* While s is open, those who wrote it since the last crash are still storing.
\* When it is closed, those who may yet write it were there before.
Past == Cardinality(Handlers) * crashes
OpenBound(s) == writes[s] <= Past + Cardinality(StoringOf(s))
ClosedBound(s) == writes[s] + Cardinality(SummingOf(s)) <= Past + Cardinality(Handlers)
WriteInv ==
  \A s \in SessionIds : ClosedBound(s) /\ (status[s] = "closed" \/ OpenBound(s))

\* Parts of the handlers that have no one in common.
LEMMA PartsOfHandlers ==
  ASSUME NEW A \in SUBSET Handlers, NEW B \in SUBSET Handlers, A \intersect B = {}
  PROVE  /\ IsFiniteSet(A) /\ Cardinality(A) \in Nat /\ Cardinality(B) \in Nat
         /\ Cardinality(Handlers) \in Nat
         /\ Cardinality(A) + Cardinality(B) <= Cardinality(Handlers)
<1>1. IsFiniteSet(A) /\ IsFiniteSet(B) /\ IsFiniteSet(A \union B)
  BY HandlersAssumption, FS_Subset
<1>2. Cardinality(A \union B) = Cardinality(A) + Cardinality(B) - Cardinality(A \intersect B)
  BY <1>1, FS_Union
<1>3. Cardinality(A \union B) <= Cardinality(Handlers)
  <2>1. A \union B \subseteq Handlers
    OBVIOUS
  <2> QED
    BY <2>1, HandlersAssumption, FS_Subset
<1>4. Cardinality(A) \in Nat /\ Cardinality(B) \in Nat /\ Cardinality(Handlers) \in Nat
  BY <1>1, HandlersAssumption, FS_CardinalityType
<1> QED
  BY <1>1, <1>2, <1>3, <1>4, FS_EmptySet

LEMMA PastType == TypeOK => Past \in Nat
<1> SUFFICES ASSUME TypeOK PROVE Past \in Nat
  OBVIOUS
<1>1. Cardinality(Handlers) \in Nat /\ crashes \in Nat
  BY HandlersAssumption, FS_CardinalityType, LimitsAssumption DEF TypeOK
<1> QED
  BY <1>1 DEF Past

\* The bound of an open session is the stronger one.
LEMMA OpenIsStronger ==
  ASSUME TypeOK, NEW s \in SessionIds, OpenBound(s)
  PROVE  ClosedBound(s)
<1>1. /\ Cardinality(StoringOf(s)) + Cardinality(SummingOf(s)) <= Cardinality(Handlers)
      /\ Cardinality(StoringOf(s)) \in Nat /\ Cardinality(SummingOf(s)) \in Nat
      /\ Cardinality(Handlers) \in Nat
  <2>1. StoringOf(s) \in SUBSET Handlers /\ SummingOf(s) \in SUBSET Handlers
        /\ StoringOf(s) \intersect SummingOf(s) = {}
    BY DEF StoringOf, SummingOf, Storing, Evicting, Summing
  <2> QED
    BY <2>1, PartsOfHandlers
<1>2. writes[s] \in Nat /\ Past \in Nat
  BY PastType DEF TypeOK
<1> QED
  BY <1>1, <1>2 DEF OpenBound, ClosedBound

\* Both bounds of s hold on when nothing is written and the handlers concerned
\* are the same, or fewer.
LEMMA BoundsKept ==
  ASSUME Typed, WriteInv, Typed', [Next]_vars, crashes' = crashes, NEW s \in SessionIds,
         writes'[s] = writes[s],
         \/ status'[s] = "closed" /\ SummingOf(s)' \subseteq SummingOf(s)
         \/ status'[s] # "closed" /\ StoringOf(s)' = StoringOf(s)
  PROVE  ClosedBound(s)' /\ (status'[s] = "closed" \/ OpenBound(s)')
<1>1. Past' = Past /\ Past \in Nat /\ writes[s] \in Nat
  BY PastType DEF Past, Typed, TypeOK
<1>2. CASE status'[s] = "closed" /\ SummingOf(s)' \subseteq SummingOf(s)
  <2>1. Cardinality(SummingOf(s)') <= Cardinality(SummingOf(s))
        /\ Cardinality(SummingOf(s)') \in Nat /\ Cardinality(SummingOf(s)) \in Nat
    <3>1. IsFiniteSet(SummingOf(s))
      BY HandlersAssumption, FS_Subset DEF SummingOf
    <3> QED
      BY <1>2, <3>1, FS_Subset, FS_CardinalityType
  <2>2. Cardinality(Handlers) \in Nat
    BY HandlersAssumption, FS_CardinalityType
  <2>3. ClosedBound(s)
    BY DEF WriteInv
  <2> QED
    BY <1>1, <1>2, <2>1, <2>2, <2>3 DEF ClosedBound
<1>3. CASE status'[s] # "closed" /\ StoringOf(s)' = StoringOf(s)
  <2>1. OpenBound(s)
    BY <1>3, ClosedStays DEF WriteInv
  <2>2. OpenBound(s)'
    BY <1>1, <1>3, <2>1 DEF OpenBound
  <2>3. ClosedBound(s)'
    BY <2>2, OpenIsStronger, PTL DEF Typed
  <2> QED
    BY <2>2, <2>3
<1> QED
  BY <1>2, <1>3

\* A request that closes nothing leaves the closings as they are; one that begins
\* a closing has found the session open.
LEMMA BeginsOpen ==
  ASSUME Typed, NEW h \in Handlers, Start(h) \/ Opening(h) \/ Talking(h), NEW s \in SessionIds
  PROVE  /\ StoringOf(s)' = StoringOf(s)
         /\ status'[s] = "closed" => SummingOf(s)' \subseteq SummingOf(s)
<1>1. pc \in [Handlers -> Places] /\ sid \in [Handlers -> 0..created]
  BY DEF Typed, TypeOK
<1>2. \A g \in Handlers \ {h} : pc'[g] = pc[g] /\ sid'[g] = sid[g]
  BY OthersWait DEF Go
<1>3. pc[h] \notin Storing /\ pc'[h] \notin Storing
  <2>1. pc[h] \notin Storing
    BY DEF Start, Opening, Talking, Open, PickLatest, FindNone, LookUp, CheckPost, LookClose,
           Reuse, Replace, Inject, Post, OpenChat, CheckAgent, Say, Reply, Storing, Evicting
  <2> QED
    BY <2>1, NoneStores
<1>4. StoringOf(s)' = StoringOf(s)
  BY <1>2, <1>3 DEF StoringOf
<1>5. pc'[h] \in Summing => status'[sid'[h]] # "closed"
  <2>1. ASSUME NEW t \in SessionIds, LookClose(h, t), pc'[h] \in Summing
        PROVE  status'[sid'[h]] # "closed"
    BY <1>1, <2>1 DEF LookClose, GotoWith, Summing, rows
  <2>2. CASE \A t \in SessionIds : ~LookClose(h, t)
    <3>1. \E p \in {"idle", "reuse", "replace", "inject", "post", "new", "agent", "say", "reply"} :
            pc' = [pc EXCEPT ![h] = p]
      BY <2>2 DEF Start, Opening, Talking, Open, PickLatest, FindNone, LookUp, CheckPost, Reuse,
             Replace, Inject, Post, OpenChat, CheckAgent, Say, Reply, Goto, GotoWith, Return
    <3> QED
      BY <1>1, <3>1 DEF Summing
  <2> QED
    BY <2>1, <2>2
<1>6. status'[s] = "closed" => SummingOf(s)' \subseteq SummingOf(s)
  BY <1>2, <1>5 DEF SummingOf
<1> QED
  BY <1>4, <1>6

\* The handler that writes goes over from those who may write to those who have
\* written.
LEMMA WriteCounts ==
  ASSUME Typed, WriteInv, NEW h \in Handlers, Write(h), NEW s \in SessionIds, s = sid[h]
  PROVE  ClosedBound(s)' /\ (status'[s] = "closed" \/ OpenBound(s)')
<1>1. pc \in [Handlers -> Places] /\ sid \in [Handlers -> 0..created]
  BY DEF Typed, TypeOK
<1>2. /\ pc' = [pc EXCEPT ![h] = "count"] /\ sid' = sid /\ status' = status
      /\ pc[h] = "ask" /\ crashes' = crashes
  BY DEF Write, Goto, local, rows
<1>3. writes'[s] = writes[s] + 1 /\ writes[s] \in Nat
  BY <1>1 DEF Write, Typed, TypeOK
<1>4. Past' = Past /\ Past \in Nat /\ Cardinality(Handlers) \in Nat
  BY <1>2, PastType, HandlersAssumption, FS_CardinalityType DEF Past, Typed
<1>5. h \notin StoringOf(s) /\ StoringOf(s)' = StoringOf(s) \union {h}
  BY <1>1, <1>2 DEF StoringOf, Storing, Evicting
<1>6. h \in SummingOf(s) /\ SummingOf(s)' = SummingOf(s) \ {h}
  BY <1>1, <1>2 DEF SummingOf, Summing
<1>7. /\ Cardinality(StoringOf(s)') = Cardinality(StoringOf(s)) + 1
      /\ Cardinality(SummingOf(s)') = Cardinality(SummingOf(s)) - 1
      /\ Cardinality(StoringOf(s)) \in Nat /\ Cardinality(SummingOf(s)) \in Nat
  <2>1. IsFiniteSet(StoringOf(s)) /\ IsFiniteSet(SummingOf(s))
    BY HandlersAssumption, FS_Subset DEF StoringOf, SummingOf
  <2>2. Cardinality(StoringOf(s) \union {h}) = Cardinality(StoringOf(s)) + 1
    BY <1>5, <2>1, FS_AddElement
  <2>3. Cardinality(SummingOf(s) \ {h}) = Cardinality(SummingOf(s)) - 1
    BY <1>6, <2>1, FS_RemoveElement
  <2>4. Cardinality(StoringOf(s)) \in Nat /\ Cardinality(SummingOf(s)) \in Nat
    BY <2>1, FS_CardinalityType
  <2> QED
    BY <1>5, <1>6, <2>2, <2>3, <2>4
<1>8. ClosedBound(s) /\ (status[s] = "closed" \/ OpenBound(s))
  BY <1>1 DEF WriteInv
<1>9. ClosedBound(s)'
  BY <1>2, <1>3, <1>4, <1>7, <1>8 DEF ClosedBound
<1>10. OpenBound(s) => OpenBound(s)'
  BY <1>2, <1>3, <1>4, <1>7 DEF OpenBound
<1> QED
  BY <1>2, <1>8, <1>9, <1>10

LEMMA WriteStep == Typed /\ WriteInv /\ [Next]_vars => WriteInv'
<1> SUFFICES ASSUME Typed, WriteInv, [Next]_vars, NEW s \in SessionIds
             PROVE  ClosedBound(s)' /\ (status'[s] = "closed" \/ OpenBound(s)')
  BY DEF WriteInv
<1>1. Typed'
  BY TypeStep
<1>2. pc \in [Handlers -> Places] /\ sid \in [Handlers -> 0..created]
  BY DEF Typed, TypeOK
<1>3. ASSUME crashes' = crashes, writes'[s] = writes[s],
             SummingOf(s)' \subseteq SummingOf(s), StoringOf(s)' = StoringOf(s)
      PROVE  ClosedBound(s)' /\ (status'[s] = "closed" \/ OpenBound(s)')
  BY <1>1, <1>3, BoundsKept
<1>4. ASSUME NEW h \in Handlers, Start(h) \/ Opening(h) \/ Talking(h)
      PROVE  ClosedBound(s)' /\ (status'[s] = "closed" \/ OpenBound(s)')
  <2>1. writes' = writes
    BY <1>4, OnlyClosings DEF memory
  <2>2. crashes' = crashes
    BY <1>4 DEF Start, Opening, Talking, Open, PickLatest, FindNone, LookUp, CheckPost, LookClose,
                Reuse, Replace, Inject, Post, OpenChat, CheckAgent, Say, Reply, Speak, Insert
  <2> QED
    BY <1>1, <1>4, <2>1, <2>2, BeginsOpen, BoundsKept
<1>5. ASSUME NEW h \in Handlers, Closing(h)
      PROVE  ClosedBound(s)' /\ (status'[s] = "closed" \/ OpenBound(s)')
  <2>1. \A g \in Handlers \ {h} : pc'[g] = pc[g] /\ sid'[g] = sid[g]
    BY <1>5, OthersWait DEF Go
  <2>2. crashes' = crashes
    BY <1>5 DEF Closing, Evict, Load, ModelFails, Write, Count, CountAbove, Select, Archive,
                Delete, End
  <2>3. CASE Load(h) \/ ModelFails(h)
    <3>1. pc[h] \in Summing /\ pc'[h] \in Summing \union {"idle"}
      BY <1>2, <2>3 DEF Load, ModelFails, Goto, Return, Summing
    <3>2. pc'[h] \in Summing => sid'[h] = sid[h]
      BY <1>2, <2>3 DEF Load, ModelFails, Goto, Return, Summing, local
    <3>3. SummingOf(s)' \subseteq SummingOf(s) /\ StoringOf(s)' = StoringOf(s)
      BY <2>1, <3>1, <3>2 DEF SummingOf, StoringOf, Summing, Storing, Evicting
    <3>4. writes' = writes
      BY <2>3 DEF Load, ModelFails, memory
    <3> QED
      BY <1>3, <2>2, <3>3, <3>4
  <2>4. CASE Evict(h)
    <3>1. pc[h] \in Storing /\ pc'[h] \in Storing /\ sid' = sid /\ writes' = writes
      BY <1>2, <2>4 DEF Evict, Count, CountAbove, Select, Archive, Delete, Goto, local, memory,
                        Storing, Evicting
    <3>2. SummingOf(s)' \subseteq SummingOf(s) /\ StoringOf(s)' = StoringOf(s)
      BY <2>1, <3>1 DEF SummingOf, StoringOf, Summing, Storing, Evicting
    <3> QED
      BY <1>3, <2>2, <3>1, <3>2
  <2>5. CASE Write(h)
    <3>1. CASE s = sid[h]
      BY <2>5, <3>1, WriteCounts
    <3>2. CASE s # sid[h]
      <4>1. pc' = [pc EXCEPT ![h] = "count"] /\ sid' = sid /\ writes'[s] = writes[s]
        BY <2>5, <3>2 DEF Write, Goto, local, Typed, TypeOK
      <4>2. SummingOf(s)' \subseteq SummingOf(s) /\ StoringOf(s)' = StoringOf(s)
        BY <1>2, <3>2, <4>1 DEF SummingOf, StoringOf
      <4> QED
        BY <1>3, <2>2, <4>1, <4>2
    <3> QED
      BY <3>1, <3>2
  <2>6. CASE End(h)
    <3>1. pc[h] = "end" /\ pc'[h] = "idle" /\ writes' = writes
      BY <1>2, <2>6 DEF End, Return, memory
    <3>2. SummingOf(s)' \subseteq SummingOf(s)
      BY <2>1, <3>1 DEF SummingOf, Summing
    <3>3. CASE s = sid[h]
      <4>1. status'[s] = "closed"
        BY <2>6, <3>3 DEF End, Typed, TypeOK
      <4> QED
        BY <1>1, <2>2, <3>1, <3>2, <4>1, BoundsKept
    <3>4. CASE s # sid[h]
      <4>1. StoringOf(s)' = StoringOf(s)
        BY <2>1, <3>1, <3>4 DEF StoringOf, Storing, Evicting
      <4> QED
        BY <1>3, <2>2, <3>1, <3>2, <4>1
    <3> QED
      BY <3>3, <3>4
  <2> QED
    BY <1>5, <2>3, <2>4, <2>5, <2>6 DEF Closing
<1>6. CASE Crash
  <2>1. StoringOf(s)' = {} /\ SummingOf(s)' = {} /\ writes' = writes /\ crashes' = crashes + 1
    BY <1>6 DEF Crash, StoringOf, SummingOf, Storing, Evicting, Summing
  <2>2. /\ Cardinality(SummingOf(s)) \in Nat /\ Cardinality(Handlers) \in Nat
        /\ crashes \in Nat /\ writes[s] \in Nat /\ Past \in Nat
    <3>1. IsFiniteSet(SummingOf(s))
      BY HandlersAssumption, FS_Subset DEF SummingOf
    <3> QED
      BY <3>1, HandlersAssumption, FS_CardinalityType, LimitsAssumption, PastType
         DEF Typed, TypeOK
  <2>3. Past' = Past + Cardinality(Handlers)
    BY <2>1, <2>2 DEF Past
  <2>4. ClosedBound(s)
    BY DEF WriteInv
  <2>5. Cardinality(StoringOf(s)') = 0 /\ Cardinality(SummingOf(s)') = 0
    BY <2>1, FS_EmptySet
  <2>6. writes[s] <= Past + Cardinality(Handlers)
    BY <2>2, <2>4 DEF ClosedBound
  <2>7. ClosedBound(s)' /\ OpenBound(s)'
    BY <2>1, <2>2, <2>3, <2>5, <2>6 DEF ClosedBound, OpenBound
  <2> QED
    BY <2>7
<1>7. CASE UNCHANGED vars
  <2>1. UNCHANGED <<writes, pc, sid, crashes>>
    BY <1>7 DEF vars, memory, local
  <2>2. StoringOf(s)' = StoringOf(s) /\ SummingOf(s)' = SummingOf(s)
    BY <2>1 DEF StoringOf, SummingOf
  <2> QED
    BY <1>3, <2>1, <2>2
<1> QED
  BY <1>4, <1>5, <1>6, <1>7 DEF Next, Go

-----------------------------------------------------------------------------
(* Theorems *)

\* Sessions, experiences and handlers keep their types in every instance, and
\* no handler works on a session that was not inserted.
THEOREM TypeCorrect == Spec => []TypeOK
<1>1. Typed => TypeOK
  BY DEF Typed
<1> QED
  BY <1>1, InitTyped, TypeStep, PTL DEF Spec

\* A session that was ended by closing it has its memory, whatever closings
\* overlap and wherever the process dies.
THEOREM EndedRemembered == Spec => []EndedIsRemembered
<1>1. Init => RememberInv
  BY DEF Init, RememberInv, EndedIsRemembered, Storing, Evicting
<1>2. RememberInv => EndedIsRemembered
  BY DEF RememberInv
<1> QED
  BY <1>1, <1>2, InitTyped, TypeStep, RememberStep, PTL DEF Spec

\* Every experience is in the table or in the archive, however evictions
\* overlap and wherever the process dies.
THEOREM ExperiencesKept == Spec => []NothingLost
<1>1. Init => LossInv
  BY DEF Init, LossInv, NothingLost
<1>2. LossInv => NothingLost
  BY DEF LossInv
<1> QED
  BY <1>1, <1>2, InitTyped, TypeStep, LossStep, PTL DEF Spec

\* No device ever has two active sessions, although looking for one and
\* inserting one are two steps.
THEOREM SingleSession == Spec => []OneActivePerCode
<1>1. Init => OneActivePerCode
  BY DEF Init, OneActivePerCode, Active
<1> QED
  BY <1>1, InitTyped, TypeStep, CodeStep, PTL DEF Spec

\* Each handler writes the memory of a session once at most between two crashes,
\* although nothing keeps two from closing it at the same time: whoever begins
\* after a closing is done finds the session closed.
THEOREM WritesAreBounded == Spec => []WritesBounded
<1>1. Init => WriteInv
  <2> SUFFICES ASSUME Init, NEW s \in SessionIds PROVE ClosedBound(s) /\ OpenBound(s)
    BY DEF WriteInv
  <2>1. StoringOf(s) = {} /\ SummingOf(s) = {} /\ writes[s] = 0 /\ crashes = 0
    BY DEF Init, StoringOf, SummingOf, Storing, Evicting, Summing
  <2>2. Cardinality(Handlers) \in Nat
    BY HandlersAssumption, FS_CardinalityType
  <2>3. Cardinality(StoringOf(s)) = 0 /\ Cardinality(SummingOf(s)) = 0 /\ Past = 0
    BY <2>1, <2>2, FS_EmptySet DEF Past
  <2> QED
    BY <2>1, <2>2, <2>3 DEF ClosedBound, OpenBound
<1>2. Typed /\ WriteInv => WritesBounded
  <2> SUFFICES ASSUME Typed, WriteInv, NEW s \in SessionIds
               PROVE  writes[s] <= Cardinality(Handlers) * (crashes + 1)
    BY DEF WritesBounded
  <2>1. /\ Cardinality(Handlers) \in Nat /\ Cardinality(SummingOf(s)) \in Nat
        /\ crashes \in Nat /\ writes[s] \in Nat /\ Past \in Nat
    <3>1. IsFiniteSet(SummingOf(s))
      BY HandlersAssumption, FS_Subset DEF SummingOf
    <3> QED
      BY <3>1, HandlersAssumption, FS_CardinalityType, LimitsAssumption, PastType
         DEF Typed, TypeOK
  <2>2. writes[s] <= Past + Cardinality(Handlers)
    BY <2>1 DEF WriteInv, ClosedBound
  <2>3. Cardinality(Handlers) * (crashes + 1) = Past + Cardinality(Handlers)
    BY <2>1 DEF Past
  <2> QED
    BY <2>2, <2>3
<1> QED
  BY <1>1, <1>2, InitTyped, TypeStep, WriteStep, PTL DEF Spec

-----------------------------------------------------------------------------
(* The size of the table *)

\* Evictions overlap: each takes what was too much when it counted, and by then
\* others may have deleted the same, or added more.  What saves the bound is an
\* order: whatever an eviction leaves in the table above the limit was written
\* after it counted, by closings (late) that are evicting themselves.
Evictors == {h \in Handlers : pc[h] \in Evicting}
Planned == {h \in Handlers : pc[h] \in {"select", "archive", "delete"}}
Allowed(n) == Limit + PerClose * (Cardinality(Handlers) * crashes + n)
Leaves(h, n) == IF pc[h] = "select" THEN Cardinality(table) <= Allowed(n) + excess[h]
                ELSE Cardinality(table \ picked[h]) <= Allowed(n)
Covers(late) ==
  /\ late \in [Handlers -> SUBSET Evictors]
  /\ \A h \in Planned :
       /\ h \notin late[h]
       /\ \A g \in late[h] \cap Planned : late[g] \subseteq late[h]
       /\ Leaves(h, Cardinality(late[h]))
CrowdInv ==
  /\ Cardinality(table) <= Allowed(Cardinality(Evictors))
  /\ \A h \in Handlers : pc[h] = "select" => excess[h] > 0
  /\ \E late : Covers(late)

LEMMA Product ==
  ASSUME NEW p \in Nat, NEW a \in Nat, NEW b \in Nat, a <= b
  PROVE  p * a \in Nat /\ p * b \in Nat /\ p * a <= p * b
<1>1. PICK k \in Nat : b = a + k
  BY b - a \in Nat, b = a + (b - a)
<1>2. p * k \in Nat /\ p * a \in Nat
  OBVIOUS
<1>3. p * b = p * a + p * k
  BY <1>1
<1> QED
  BY <1>2, <1>3

LEMMA AllowedGrows ==
  ASSUME Typed, NEW m \in Nat, NEW n \in Nat, m <= n
  PROVE  /\ Allowed(m) \in Nat /\ Allowed(n) \in Nat /\ Allowed(m) <= Allowed(n)
         /\ Limit <= Allowed(m) /\ Allowed(n + 1) = Allowed(n) + PerClose
<1>1. Past \in Nat /\ Past = Cardinality(Handlers) * crashes
  BY PastType DEF Past, Typed
<1>2. /\ PerClose * (Past + m) \in Nat /\ PerClose * (Past + n) \in Nat
      /\ PerClose * (Past + m) <= PerClose * (Past + n)
  BY <1>1, Product, LimitsAssumption
<1>3. PerClose * (Past + (n + 1)) = PerClose * (Past + n) + PerClose
  BY <1>1, LimitsAssumption
<1> QED
  BY <1>1, <1>2, <1>3, LimitsAssumption DEF Allowed

\* Of a set the oldest n leave all the others, or nothing.
LEMMA OldestLeave ==
  ASSUME NEW T \in SUBSET Nat, IsFiniteSet(T), NEW n \in Nat,
         NEW O, O = {e \in T : Cardinality({d \in T : d < e}) < n}
  PROVE  Cardinality(T \ O) = 0 \/ Cardinality(T \ O) + n <= Cardinality(T)
<1> DEFINE Below(e) == {d \in T : d < e}
<1>1. \A e \in T : IsFiniteSet(Below(e)) /\ Cardinality(Below(e)) \in Nat
  BY FS_Subset, FS_CardinalityType
<1>2. Cardinality(T) \in Nat
  BY FS_CardinalityType
<1>3. ASSUME NEW d \in T, NEW e \in T, d < e PROVE Cardinality(Below(d)) < Cardinality(Below(e))
  <2>1. ASSUME NEW c \in Below(d) PROVE c \in Below(e) \ {d}
    <3>1. c \in Nat /\ d \in Nat /\ e \in Nat /\ c \in T /\ c < d
      OBVIOUS
    <3> QED
      BY <1>3, <3>1
  <2>2. d \in Below(e)
    BY <1>3
  <2>3. IsFiniteSet(Below(e) \ {d}) /\ Cardinality(Below(e) \ {d}) = Cardinality(Below(e)) - 1
    BY <1>1, <2>2, FS_RemoveElement
  <2>4. Cardinality(Below(d)) <= Cardinality(Below(e)) - 1
    <3>1. Below(d) \in SUBSET (Below(e) \ {d})
      BY <2>1
    <3> HIDE DEF Below
    <3> QED
      BY <2>3, <3>1, FS_Subset
  <2> QED
    BY <1>1, <2>4
<1>4. ASSUME NEW e \in T PROVE Cardinality(Below(e)) <= Cardinality(T) - 1
  <2>1. Below(e) \in SUBSET (T \ {e})
    OBVIOUS
  <2>2. IsFiniteSet(T \ {e}) /\ Cardinality(T \ {e}) = Cardinality(T) - 1
    BY FS_RemoveElement
  <2> QED
    BY <2>1, <2>2, FS_Subset
<1>5. PICK f : f = [e \in T \ O |-> Cardinality(Below(e))]
  OBVIOUS
<1>6. f \in [T \ O -> n..(Cardinality(T) - 1)]
  <2>1. ASSUME NEW e \in T \ O PROVE Cardinality(Below(e)) \in n..(Cardinality(T) - 1)
    <3>1. ~(Cardinality(Below(e)) < n)
      OBVIOUS
    <3> QED
      BY <1>1, <1>2, <1>4, <3>1
  <2> QED
    BY <1>5, <2>1
<1>7. \A d, e \in T \ O : f[d] = f[e] => d = e
  <2> SUFFICES ASSUME NEW d \in T \ O, NEW e \in T \ O, f[d] = f[e] PROVE d = e
    OBVIOUS
  <2>1. Cardinality(Below(d)) = Cardinality(Below(e))
    BY <1>5
  <2>2. ~(d < e) /\ ~(e < d)
    BY <1>1, <1>3, <2>1
  <2> QED
    BY <2>2
<1>8. f \in Injection(T \ O, n..(Cardinality(T) - 1))
  BY <1>6, <1>7 DEF Injection, IsInjective
<1>9. /\ IsFiniteSet(n..(Cardinality(T) - 1))
      /\ Cardinality(n..(Cardinality(T) - 1)) = IF n > Cardinality(T) - 1 THEN 0 ELSE Cardinality(T) - 1 - n + 1
  <2>1. Cardinality(T) - 1 \in Int /\ n \in Int
    BY <1>2
  <2> HIDE DEF Below
  <2> QED
    BY <2>1, FS_Interval, Zenon
<1>10. IsFiniteSet(T \ O) /\ Cardinality(T \ O) <= Cardinality(n..(Cardinality(T) - 1))
  BY <1>8, <1>9, FS_Injection
<1>11. Cardinality(T \ O) \in Nat
  BY <1>10, FS_CardinalityType
<1> QED
  BY <1>2, <1>9, <1>10, <1>11

LEMMA CrowdTypes ==
  ASSUME Typed
  PROVE  /\ IsFiniteSet(table) /\ Cardinality(table) \in Nat /\ table \in SUBSET Nat
         /\ \A S : IsFiniteSet(table \ S) /\ Cardinality(table \ S) \in Nat
                     /\ Cardinality(table \ S) <= Cardinality(table)
         /\ IsFiniteSet(Evictors) /\ Cardinality(Evictors) \in Nat /\ Planned \subseteq Evictors
         /\ \A S \in SUBSET Evictors : IsFiniteSet(S) /\ Cardinality(S) \in Nat
                                         /\ Cardinality(S) <= Cardinality(Evictors)
         /\ pc \in [Handlers -> Places] /\ excess \in [Handlers -> Nat]
<1>1. made \in Nat /\ table \subseteq 1..made
  BY LimitsAssumption DEF Typed, TypeOK
<1>2. IsFiniteSet(1..made)
  BY <1>1, FS_Interval
<1>3. IsFiniteSet(table) /\ Cardinality(table) \in Nat /\ table \in SUBSET Nat
  <2>1. IsFiniteSet(table)
    BY <1>1, <1>2, FS_Subset
  <2> QED
    BY <1>1, <2>1, FS_CardinalityType
<1>4. \A S : IsFiniteSet(table \ S) /\ Cardinality(table \ S) \in Nat /\ Cardinality(table \ S) <= Cardinality(table)
  BY <1>3, FS_Subset, FS_CardinalityType
<1>5. IsFiniteSet(Evictors) /\ Cardinality(Evictors) \in Nat /\ Planned \subseteq Evictors
  BY HandlersAssumption, FS_Subset, FS_CardinalityType DEF Evictors, Planned, Evicting
<1>6. \A S \in SUBSET Evictors : IsFiniteSet(S) /\ Cardinality(S) \in Nat
                                   /\ Cardinality(S) <= Cardinality(Evictors)
  BY <1>5, FS_Subset, FS_CardinalityType
<1> QED
  BY <1>3, <1>4, <1>5, <1>6 DEF Typed, TypeOK

\* An eviction that ends: what it leaves is allowed for the closings in W, and
\* whoever counted before it wrote has those among the late ones.
LEMMA EvictionEnds ==
  ASSUME Typed, Typed', CrowdInv, NEW h \in Evictors, pc'[h] = "end",
         \A g \in Handlers \ {h} : pc'[g] = pc[g] /\ excess'[g] = excess[g] /\ picked'[g] = picked[g],
         crashes' = crashes, table' \subseteq table, NEW late, Covers(late),
         NEW W \in SUBSET (Evictors \ {h}), Cardinality(table') <= Allowed(Cardinality(W)),
         \A g \in Planned \ {h} : h \in late[g] => W \subseteq late[g]
  PROVE  CrowdInv'
<1>1. Evictors' = Evictors \ {h} /\ Planned' = Planned \ {h} /\ h \in Handlers
  BY DEF Evictors, Planned, Evicting
<1>2. \A n : Allowed(n)' = Allowed(n)
  BY DEF Allowed
<1>3. /\ Cardinality(W) \in Nat /\ Cardinality(Evictors') \in Nat
      /\ Cardinality(W) <= Cardinality(Evictors')
  BY <1>1, CrowdTypes, FS_Subset
<1>4. Cardinality(table') \in Nat /\ Cardinality(table') <= Cardinality(table)
  BY CrowdTypes, FS_Subset, FS_CardinalityType
<1>5. Cardinality(table') <= Allowed(Cardinality(Evictors'))
  BY <1>3, <1>4, AllowedGrows
<1>6. \A g \in Handlers : pc'[g] = "select" => excess'[g] > 0
  BY DEF CrowdInv
<1>7. PICK new : new = [g \in Handlers |-> late[g] \ {h}]
  OBVIOUS
<1>8. late \in [Handlers -> SUBSET Evictors]
  BY DEF Covers
<1>9. new \in [Handlers -> SUBSET (Evictors')]
  BY <1>1, <1>7, <1>8
<1>10. ASSUME NEW g \in Planned'
       PROVE  /\ g \notin new[g]
              /\ \A f \in new[g] \cap Planned' : new[f] \subseteq new[g]
              /\ Leaves(g, Cardinality(new[g]))'
  <2>1. g \in Planned /\ g # h /\ g \in Handlers /\ new[g] = late[g] \ {h}
    BY <1>1, <1>7, <1>10 DEF Planned
  <2>2. g \notin late[g] /\ (\A f \in late[g] \cap Planned : late[f] \subseteq late[g])
          /\ Leaves(g, Cardinality(late[g]))
    BY <2>1 DEF Covers
  <2>3. ASSUME NEW f \in new[g] \cap Planned' PROVE new[f] \subseteq new[g]
    <3>1. f \in late[g] \cap Planned /\ f \in Handlers
      BY <1>1, <2>1, <2>3 DEF Planned
    <3> QED
      BY <1>7, <2>1, <2>2, <3>1
  <2>4. late[g] \in SUBSET Evictors /\ new[g] \in SUBSET Evictors
    BY <1>8, <2>1
  <2>5. Cardinality(new[g]) \in Nat /\ Cardinality(late[g]) \in Nat
    BY <2>4, CrowdTypes
  <2>6. /\ Cardinality(table' \ picked[g]) \in Nat /\ Cardinality(table' \ picked[g]) <= Cardinality(table')
        /\ Cardinality(table' \ picked[g]) <= Cardinality(table \ picked[g])
    <3>1. IsFiniteSet(table') /\ IsFiniteSet(table \ picked[g])
      BY CrowdTypes, FS_Subset
    <3>2. table' \ picked[g] \in SUBSET table' /\ table' \ picked[g] \in SUBSET (table \ picked[g])
      OBVIOUS
    <3> QED
      BY <3>1, <3>2, FS_Subset, FS_CardinalityType
  <2>7. pc'[g] = pc[g] /\ excess'[g] = excess[g] /\ picked'[g] = picked[g] /\ excess[g] \in Nat
    BY <2>1, CrowdTypes
  <2>8. Leaves(g, Cardinality(new[g]))'
    <3>1. CASE h \in late[g]
      <4>1. W \in SUBSET new[g]
        BY <2>1, <3>1
      <4>2. Cardinality(W) <= Cardinality(new[g])
        BY <2>4, <4>1, CrowdTypes, FS_Subset
      <4>3. Allowed(Cardinality(W)) \in Nat /\ Allowed(Cardinality(new[g])) \in Nat
              /\ Allowed(Cardinality(W)) <= Allowed(Cardinality(new[g]))
        BY <1>3, <2>5, <4>2, AllowedGrows
      <4>4. Cardinality(table') <= Allowed(Cardinality(new[g]))
        BY <1>4, <4>3
      <4>5. Allowed(Cardinality(new[g]))' = Allowed(Cardinality(new[g]))
        BY <1>2
      <4> QED
        BY <1>4, <2>6, <2>7, <4>3, <4>4, <4>5 DEF Leaves
    <3>2. CASE h \notin late[g]
      <4>1. new[g] = late[g]
        BY <2>1, <3>2
      <4>2. Allowed(Cardinality(late[g])) \in Nat
        BY <2>5, AllowedGrows
      <4>3. Cardinality(table) \in Nat /\ Cardinality(table \ picked[g]) \in Nat
        BY CrowdTypes
      <4>4. Allowed(Cardinality(new[g]))' = Allowed(Cardinality(late[g]))
        BY <1>2, <4>1
      <4> QED
        BY <1>4, <2>2, <2>6, <2>7, <4>2, <4>3, <4>4 DEF Leaves
    <3> QED
      BY <3>1, <3>2
  <2> QED
    BY <2>1, <2>2, <2>3, <2>8
<1>11. Covers(new)'
  BY <1>9, <1>10 DEF Covers
<1>12. (Cardinality(table) <= Allowed(Cardinality(Evictors)))'
  BY <1>5 DEF Allowed
<1>13. (\E l : Covers(l))'
  BY <1>11
<1> QED
  BY <1>6, <1>12, <1>13 DEF CrowdInv

\* A step that touches no eviction.
LEMMA NoEviction ==
  ASSUME Typed, CrowdInv, NEW h \in Handlers, pc[h] \notin Evicting, pc'[h] \notin Evicting,
         \A g \in Handlers \ {h} : pc'[g] = pc[g] /\ excess'[g] = excess[g] /\ picked'[g] = picked[g],
         crashes' = crashes, table' = table
  PROVE  CrowdInv'
<1>1. Evictors' = Evictors /\ Planned' = Planned /\ h \notin Planned
  BY DEF Evictors, Planned, Evicting
<1>2. PICK late : Covers(late)
  BY DEF CrowdInv
<1>3. ASSUME NEW g \in Planned, NEW n, Leaves(g, n) PROVE Leaves(g, n)'
  <2>1. g \in Handlers \ {h}
    BY <1>1 DEF Planned
  <2> QED
    BY <1>3, <2>1 DEF Leaves, Allowed
<1>4. Covers(late)'
  BY <1>1, <1>2, <1>3 DEF Covers
<1>5. (Cardinality(table) <= Allowed(Cardinality(Evictors)))'
  BY <1>1 DEF CrowdInv, Allowed
<1>6. \A g \in Handlers : pc'[g] = "select" => excess'[g] > 0
  BY DEF CrowdInv, Evicting
<1>7. (\E l : Covers(l))'
  BY <1>4
<1> QED
  BY <1>5, <1>6, <1>7 DEF CrowdInv

\* A handler goes on with its eviction: what it will leave is allowed for the
\* closings that are late for it.
LEMMA EvictionGoes ==
  ASSUME Typed, CrowdInv, NEW h \in Evictors, pc'[h] \in {"select", "archive", "delete"},
         \A g \in Handlers \ {h} : pc'[g] = pc[g] /\ excess'[g] = excess[g] /\ picked'[g] = picked[g],
         crashes' = crashes, table' = table, pc'[h] = "select" => excess'[h] > 0,
         NEW late, Covers(late), NEW W \in SUBSET Evictors, h \notin W,
         h \in Planned => W = late[h], h \notin Planned => W = {}, Leaves(h, Cardinality(W))'
  PROVE  CrowdInv'
<1>1. /\ Evictors' = Evictors /\ Planned' = Planned \cup {h} /\ h \in Handlers
      /\ pc \in [Handlers -> Places]
  BY CrowdTypes DEF Evictors, Planned, Evicting
<1>2. late \in [Handlers -> SUBSET Evictors]
  BY DEF Covers
<1>3. PICK new : new = [late EXCEPT ![h] = W]
  OBVIOUS
<1>4. /\ new \in [Handlers -> SUBSET (Evictors')] /\ new[h] = W
      /\ \A g \in Handlers \ {h} : new[g] = late[g]
  BY <1>1, <1>2, <1>3
<1>5. ASSUME NEW g \in Planned'
      PROVE  /\ g \notin new[g]
             /\ \A f \in new[g] \cap Planned' : new[f] \subseteq new[g]
             /\ Leaves(g, Cardinality(new[g]))'
  <2>1. CASE g = h
    <3>1. \A f \in W \cap Planned' : f \in Planned /\ f # h /\ f \in Handlers
      BY <1>1 DEF Planned
    <3>2. \A f \in W \cap Planned' : new[f] \subseteq W
      BY <1>4, <3>1 DEF Covers
    <3> QED
      BY <1>4, <2>1, <3>2
  <2>2. CASE g # h
    <3>1. g \in Planned /\ g \in Handlers \ {h}
      BY <1>1, <2>2 DEF Planned
    <3>2. /\ g \notin late[g] /\ (\A f \in late[g] \cap Planned : late[f] \subseteq late[g])
          /\ Leaves(g, Cardinality(late[g])) /\ new[g] = late[g]
      BY <1>4, <3>1 DEF Covers
    <3>3. ASSUME NEW f \in new[g] \cap Planned' PROVE new[f] \subseteq new[g]
      <4>1. CASE f = h
        BY <1>4, <3>2, <3>3, <4>1
      <4>2. CASE f # h
        <5>1. f \in Planned /\ f \in Handlers \ {h}
          BY <1>1, <3>3, <4>2 DEF Planned
        <5> QED
          BY <1>4, <3>2, <3>3, <5>1
      <4> QED
        BY <4>1, <4>2
    <3>4. Leaves(g, Cardinality(new[g]))'
      BY <3>1, <3>2 DEF Leaves, Allowed
    <3> QED
      BY <3>2, <3>3, <3>4
  <2> QED
    BY <2>1, <2>2
<1>6. Covers(new)'
  BY <1>4, <1>5 DEF Covers
<1>7. (Cardinality(table) <= Allowed(Cardinality(Evictors)))'
  BY <1>1 DEF CrowdInv, Allowed
<1>8. \A g \in Handlers : pc'[g] = "select" => excess'[g] > 0
  BY DEF CrowdInv
<1>9. (\E l : Covers(l))'
  BY <1>6
<1> QED
  BY <1>7, <1>8, <1>9 DEF CrowdInv

\* A closing that writes experiences is late for everybody who has counted.
LEMMA CrowdWrite ==
  ASSUME Typed, Typed', CrowdInv, NEW h \in Handlers, Write(h),
         \A g \in Handlers \ {h} : pc'[g] = pc[g] /\ excess'[g] = excess[g] /\ picked'[g] = picked[g]
  PROVE  CrowdInv'
<1>1. pc[h] = "ask" /\ pc'[h] = "count" /\ crashes' = crashes
  BY CrowdTypes DEF Write, Goto
<1>2. Evictors' = Evictors \cup {h} /\ Planned' = Planned /\ h \notin Evictors
  BY <1>1 DEF Evictors, Planned, Evicting
<1>3. PICK n \in 0..PerClose : table' = table \cup ((made + 1)..(made + n))
  BY DEF Write
<1>4. made \in Nat /\ n \in Nat /\ n <= PerClose /\ PerClose \in Nat
  BY LimitsAssumption DEF Typed, TypeOK
<1>5. PICK more : more = (made + 1)..(made + n)
  OBVIOUS
<1>6. IsFiniteSet(more) /\ Cardinality(more) <= PerClose /\ Cardinality(more) \in Nat
  <2>1. made + 1 \in Int /\ made + n \in Int
    BY <1>4
  <2>2. \A a, b \in Int : IsFiniteSet(a..b) /\ Cardinality(a..b) = IF a > b THEN 0 ELSE b - a + 1
    BY FS_Interval
  <2>3. IsFiniteSet(more) /\ Cardinality(more) = IF made + 1 > made + n THEN 0 ELSE (made + n) - (made + 1) + 1
    BY <1>5, <2>1, <2>2
  <2> QED
    BY <1>4, <2>3
<1>7. ASSUME NEW S, IsFiniteSet(S), NEW U \in SUBSET (S \cup more)
      PROVE  Cardinality(U) \in Nat /\ Cardinality(S) \in Nat /\ Cardinality(U) <= Cardinality(S) + PerClose
  <2>1. /\ IsFiniteSet(S \cup more)
        /\ Cardinality(S \cup more) = Cardinality(S) + Cardinality(more) - Cardinality(S \cap more)
    BY <1>6, <1>7, FS_Union
  <2>2. S \cap more \in SUBSET more /\ IsFiniteSet(more)
    BY <1>6
  <2>3. IsFiniteSet(S \cap more)
    BY <2>2, FS_Subset
  <2>4. Cardinality(S \cap more) \in Nat /\ Cardinality(S) \in Nat
    BY <1>7, <2>3, FS_CardinalityType
  <2>5. IsFiniteSet(U) /\ Cardinality(U) <= Cardinality(S \cup more)
    BY <1>7, <2>1, FS_Subset
  <2>6. Cardinality(U) \in Nat
    BY <2>5, FS_CardinalityType
  <2> QED
    BY <1>4, <1>6, <2>1, <2>4, <2>5, <2>6
<1>8. /\ Cardinality(table') \in Nat /\ Cardinality(table) \in Nat
      /\ Cardinality(table') <= Cardinality(table) + PerClose
  BY <1>3, <1>5, <1>7, CrowdTypes
<1>9. ASSUME NEW S
      PROVE  /\ Cardinality(table' \ S) \in Nat /\ Cardinality(table \ S) \in Nat
             /\ Cardinality(table' \ S) <= Cardinality(table \ S) + PerClose
  <2>1. table' \ S \in SUBSET ((table \ S) \cup more)
    BY <1>3, <1>5
  <2>2. IsFiniteSet(table \ S)
    BY CrowdTypes
  <2> QED
    BY <1>7, <2>1, <2>2
<1>10. ASSUME NEW S \in SUBSET Evictors
       PROVE  /\ Cardinality(S) \in Nat /\ Cardinality(S \cup {h}) = Cardinality(S) + 1
              /\ Allowed(Cardinality(S)) \in Nat
              /\ Allowed(Cardinality(S \cup {h})) = Allowed(Cardinality(S)) + PerClose
  <2>1. IsFiniteSet(S) /\ Cardinality(S) \in Nat /\ h \notin S
    BY <1>2, CrowdTypes
  <2>2. Cardinality(S \cup {h}) = Cardinality(S) + 1
    BY <2>1, FS_AddElement
  <2> QED
    BY <2>1, <2>2, AllowedGrows
<1>11. \A m : Allowed(m)' = Allowed(m)
  BY <1>1 DEF Allowed
<1>12. (Cardinality(table) <= Allowed(Cardinality(Evictors)))'
  <2>1. Cardinality(table) <= Allowed(Cardinality(Evictors))
    BY DEF CrowdInv
  <2>2. Allowed(Cardinality(Evictors \cup {h})) = Allowed(Cardinality(Evictors)) + PerClose
          /\ Allowed(Cardinality(Evictors)) \in Nat
    BY <1>10
  <2>3. Cardinality(table') <= Allowed(Cardinality(Evictors \cup {h}))
    BY <1>4, <1>8, <2>1, <2>2
  <2> QED
    BY <1>1, <1>2, <2>3 DEF Allowed
<1>13. PICK late : Covers(late)
  BY DEF CrowdInv
<1>14. PICK new : new = [g \in Handlers |-> late[g] \cup {h}]
  OBVIOUS
<1>15. late \in [Handlers -> SUBSET Evictors]
  BY <1>13 DEF Covers
<1>16. new \in [Handlers -> SUBSET (Evictors')]
  BY <1>2, <1>14, <1>15
<1>17. ASSUME NEW g \in Planned'
       PROVE  /\ g \notin new[g]
              /\ \A f \in new[g] \cap Planned' : new[f] \subseteq new[g]
              /\ Leaves(g, Cardinality(new[g]))'
  <2>1. g \in Planned /\ g \in Handlers /\ g # h /\ new[g] = late[g] \cup {h}
    BY <1>2, <1>14, <1>17, CrowdTypes DEF Planned
  <2>2. /\ g \notin late[g] /\ (\A f \in late[g] \cap Planned : late[f] \subseteq late[g])
        /\ Leaves(g, Cardinality(late[g])) /\ late[g] \in SUBSET Evictors
    BY <1>13, <1>15, <2>1 DEF Covers
  <2>3. ASSUME NEW f \in new[g] \cap Planned' PROVE new[f] \subseteq new[g]
    <3>1. f \in Planned /\ f # h /\ f \in Handlers
      BY <1>2, <2>3, CrowdTypes DEF Planned
    <3> QED
      BY <1>14, <2>1, <2>2, <2>3, <3>1
  <2>4. /\ Allowed(Cardinality(late[g])) \in Nat
        /\ Allowed(Cardinality(new[g])) = Allowed(Cardinality(late[g])) + PerClose
    BY <1>10, <2>1, <2>2
  <2>5. pc'[g] = pc[g] /\ excess'[g] = excess[g] /\ picked'[g] = picked[g] /\ excess[g] \in Nat
    BY <2>1, CrowdTypes
  <2>6. Allowed(Cardinality(new[g]))' = Allowed(Cardinality(late[g])) + PerClose
    BY <1>11, <2>4
  <2>7. CASE pc[g] = "select"
    <3>1. Cardinality(table) <= Allowed(Cardinality(late[g])) + excess[g]
      BY <2>2, <2>7 DEF Leaves
    <3>2. Cardinality(table') <= (Allowed(Cardinality(late[g])) + PerClose) + excess[g]
      BY <1>4, <1>8, <2>4, <2>5, <3>1
    <3>3. Leaves(g, Cardinality(new[g]))'
      BY <2>5, <2>6, <2>7, <3>2 DEF Leaves
    <3> QED
      BY <2>1, <2>2, <2>3, <3>3
  <2>8. CASE pc[g] # "select"
    <3>1. Cardinality(table \ picked[g]) <= Allowed(Cardinality(late[g]))
      BY <2>2, <2>8 DEF Leaves
    <3>2. /\ Cardinality(table' \ picked[g]) \in Nat /\ Cardinality(table \ picked[g]) \in Nat
          /\ Cardinality(table' \ picked[g]) <= Cardinality(table \ picked[g]) + PerClose
      BY <1>9
    <3>3. Cardinality(table' \ picked[g]) <= Allowed(Cardinality(late[g])) + PerClose
      BY <1>4, <2>4, <3>1, <3>2
    <3>4. Leaves(g, Cardinality(new[g]))'
      BY <2>5, <2>6, <2>8, <3>3 DEF Leaves
    <3> QED
      BY <2>1, <2>2, <2>3, <3>4
  <2> QED
    BY <2>7, <2>8
<1>18. (\E l : Covers(l))'
  BY <1>16, <1>17 DEF Covers
<1>19. \A g \in Handlers : pc'[g] = "select" => excess'[g] > 0
  BY <1>1 DEF CrowdInv
<1> QED
  BY <1>12, <1>18, <1>19 DEF CrowdInv

LEMMA CrowdEvict ==
  ASSUME Typed, Typed', CrowdInv, NEW h \in Handlers, Evict(h),
         \A g \in Handlers \ {h} : pc'[g] = pc[g] /\ excess'[g] = excess[g] /\ picked'[g] = picked[g]
  PROVE  CrowdInv'
<1>1. h \in Evictors /\ crashes' = crashes
  BY DEF Evict, Count, CountAbove, Select, Archive, Delete, Evictors, Evicting
<1>2. PICK late : Covers(late)
  BY DEF CrowdInv
<1>3. /\ pc \in [Handlers -> Places] /\ excess \in [Handlers -> Nat]
      /\ picked \in [Handlers -> SUBSET (1..made)] /\ late \in [Handlers -> SUBSET Evictors]
  BY <1>2, CrowdTypes DEF Typed, TypeOK, Covers
<1>4. IsFiniteSet(table) /\ Cardinality(table) \in Nat /\ table \in SUBSET Nat
  BY CrowdTypes
<1>5. Cardinality({}) = 0 /\ {} \in SUBSET (Evictors \ {h}) /\ {} \in SUBSET Evictors
  BY FS_EmptySet
<1>6. Allowed(0) \in Nat /\ Limit <= Allowed(0) /\ Limit \in Nat
  BY AllowedGrows, LimitsAssumption
<1>7. CASE Count(h)
  <2>1. pc[h] = "count" /\ table' = table /\ h \notin Planned
    BY <1>7 DEF Count, CountAbove, memory, Planned
  <2>2. CASE Cardinality(table) <= Limit
    <3>1. pc'[h] = "end"
      BY <1>3, <1>7, <2>2 DEF Count, CountAbove, Goto
    <3>2. Cardinality(table') <= Allowed(Cardinality({}))
      BY <1>4, <1>5, <1>6, <2>1, <2>2
    <3> QED
      BY <1>1, <1>2, <1>5, <2>1, <3>1, <3>2, EvictionEnds
  <2>3. CASE ~(Cardinality(table) <= Limit)
    <3>1. pc'[h] = "select" /\ excess'[h] = Cardinality(table) - Limit
      BY <1>3, <1>7, <2>3 DEF Count, CountAbove
    <3>2. excess'[h] > 0 /\ Cardinality(table') <= Allowed(0) + excess'[h]
      BY <1>4, <1>6, <2>1, <2>3, <3>1
    <3>3. Leaves(h, Cardinality({}))'
      BY <1>1, <1>5, <3>1, <3>2 DEF Leaves, Allowed
    <3> QED
      BY <1>1, <1>2, <1>5, <2>1, <3>1, <3>2, <3>3, EvictionGoes
  <2> QED
    BY <2>2, <2>3
<1>8. CASE Select(h)
  <2>1. /\ pc[h] = "select" /\ table' = table /\ h \in Planned /\ excess[h] \in Nat /\ excess[h] > 0
    BY <1>3, <1>8 DEF Select, memory, Planned, CrowdInv
  <2>2. PICK O : O = Oldest(excess[h])
    OBVIOUS
  <2>3. O \subseteq table /\ (Cardinality(table \ O) = 0 \/ Cardinality(table \ O) + excess[h] <= Cardinality(table))
    BY <1>4, <2>1, <2>2, OldestLeave DEF Oldest
  <2>4. CASE O = {}
    <3>1. pc'[h] = "end"
      BY <1>3, <1>8, <2>2, <2>4 DEF Select
    <3>2. table \ O = table
      BY <2>4
    <3>3. Cardinality(table') <= Allowed(Cardinality({}))
      BY <1>4, <1>5, <1>6, <2>1, <2>3, <3>2
    <3> QED
      BY <1>1, <1>2, <1>5, <2>1, <3>1, <3>3, EvictionEnds
  <2>5. CASE O # {}
    <3>1. pc'[h] = "archive" /\ picked'[h] = O
      BY <1>3, <1>8, <2>2, <2>5 DEF Select
    <3>2. h \notin late[h] /\ late[h] \in SUBSET Evictors /\ Leaves(h, Cardinality(late[h]))
      BY <1>2, <1>3, <2>1 DEF Covers
    <3>3. Cardinality(late[h]) \in Nat
      BY <3>2, CrowdTypes
    <3>4. Allowed(Cardinality(late[h])) \in Nat
      BY <3>3, AllowedGrows
    <3>5. Cardinality(table) <= Allowed(Cardinality(late[h])) + excess[h]
      BY <2>1, <3>2 DEF Leaves
    <3>6. Cardinality(table \ O) \in Nat
      BY CrowdTypes
    <3>7. Cardinality(table \ O) <= Allowed(Cardinality(late[h]))
      BY <1>4, <2>1, <2>3, <3>4, <3>5, <3>6
    <3>8. Leaves(h, Cardinality(late[h]))'
      BY <1>1, <2>1, <3>1, <3>7 DEF Leaves, Allowed
    <3> QED
      BY <1>1, <1>2, <2>1, <3>1, <3>2, <3>8, EvictionGoes
  <2> QED
    BY <2>4, <2>5
<1>9. CASE Archive(h)
  <2>1. pc[h] = "archive" /\ pc'[h] = "delete" /\ table' = table /\ picked' = picked /\ h \in Planned
    BY <1>3, <1>9 DEF Archive, Goto, local, Planned
  <2>2. h \notin late[h] /\ late[h] \in SUBSET Evictors /\ Leaves(h, Cardinality(late[h]))
    BY <1>2, <1>3, <2>1 DEF Covers
  <2>3. Leaves(h, Cardinality(late[h]))'
    BY <1>1, <2>1, <2>2 DEF Leaves, Allowed
  <2> QED
    BY <1>1, <1>2, <2>1, <2>2, <2>3, EvictionGoes
<1>10. CASE Delete(h)
  <2>1. pc[h] = "delete" /\ pc'[h] = "end" /\ table' = table \ picked[h] /\ h \in Planned
    BY <1>3, <1>10 DEF Delete, Planned
  <2>2. /\ h \notin late[h] /\ late[h] \in SUBSET (Evictors \ {h})
        /\ Cardinality(table \ picked[h]) <= Allowed(Cardinality(late[h]))
    BY <1>2, <1>3, <2>1 DEF Covers, Leaves
  <2>3. \A g \in Planned \ {h} : h \in late[g] => late[h] \subseteq late[g]
    BY <1>2, <2>1 DEF Covers
  <2> QED
    BY <1>1, <1>2, <2>1, <2>2, <2>3, EvictionEnds
<1> QED
  BY <1>7, <1>8, <1>9, <1>10 DEF Evict

LEMMA CrowdCrash ==
  ASSUME Typed, CrowdInv, Crash
  PROVE  CrowdInv'
<1>1. /\ \A h \in Handlers : pc'[h] = "idle"
      /\ table' = table /\ crashes' = crashes + 1 /\ crashes \in Nat
  BY LimitsAssumption DEF Crash, Typed, TypeOK
<1>2. Evictors' = {} /\ Planned' = {}
  BY <1>1 DEF Evictors, Planned, Evicting
<1>3. PICK all \in Nat : all = Cardinality(Handlers)
  BY HandlersAssumption, FS_CardinalityType
<1>4. Cardinality(Evictors) \in Nat /\ Cardinality(Evictors) <= all
  BY <1>3, HandlersAssumption, FS_Subset, CrowdTypes DEF Evictors
<1>5. all * crashes \in Nat /\ all * (crashes + 1) = all * crashes + all
  BY <1>1, <1>3
<1>6. Allowed(Cardinality(Evictors)) <= Allowed(all)
  BY <1>3, <1>4, AllowedGrows
<1>7. Allowed(all) \in Nat /\ Allowed(Cardinality(Evictors)) \in Nat /\ Cardinality(table) \in Nat
  BY <1>3, <1>4, AllowedGrows, CrowdTypes
<1>8. Cardinality(table) <= Allowed(all)
  BY <1>6, <1>7 DEF CrowdInv
<1>9. Allowed(all) = Limit + PerClose * (all * (crashes + 1) + 0)
  BY <1>1, <1>3, <1>5 DEF Allowed
<1>10. Cardinality(Evictors') = 0
  BY <1>2, FS_EmptySet
<1>11. (Cardinality(table) <= Allowed(Cardinality(Evictors)))'
  BY <1>1, <1>3, <1>8, <1>9, <1>10 DEF Allowed
<1>12. PICK new : new = [h \in Handlers |-> {}]
  OBVIOUS
<1>13. Covers(new)'
  BY <1>2, <1>12 DEF Covers
<1>14. (\E l : Covers(l))'
  BY <1>13
<1> QED
  BY <1>1, <1>11, <1>14 DEF CrowdInv

LEMMA CrowdStep == Typed /\ Typed' /\ CrowdInv /\ [Next]_vars => CrowdInv'
<1> SUFFICES ASSUME Typed, Typed', CrowdInv, [Next]_vars PROVE CrowdInv'
  OBVIOUS
<1>1. ASSUME NEW h \in Handlers, Start(h) \/ Opening(h) \/ Talking(h) PROVE CrowdInv'
  <2>1. pc[h] \notin Evicting /\ pc'[h] \notin Evicting
    BY <1>1, NoneStores DEF Storing
  <2>2. table' = table /\ crashes' = crashes
    BY <1>1 DEF Start, Opening, Talking, Open, PickLatest, FindNone, LookUp, CheckPost, LookClose, Reuse,
       Replace, Inject, Post, OpenChat, CheckAgent, Say, Reply, Speak, Insert, memory
  <2> QED
    BY <1>1, <2>1, <2>2, OthersWait, NoEviction DEF Go
<1>2. ASSUME NEW h \in Handlers, Load(h) \/ ModelFails(h) \/ End(h) PROVE CrowdInv'
  <2>1. pc \in [Handlers -> Places]
    BY DEF Typed, TypeOK
  <2>2. pc[h] \notin Evicting /\ pc'[h] \notin Evicting
    BY <1>2, <2>1 DEF Load, ModelFails, End, Goto, Return, Evicting
  <2>3. table' = table /\ crashes' = crashes
    BY <1>2 DEF Load, ModelFails, End, memory
  <2> QED
    BY <1>2, <2>2, <2>3, OthersWait, NoEviction DEF Go, Closing
<1>3. ASSUME NEW h \in Handlers, Write(h) PROVE CrowdInv'
  BY <1>3, OthersWait, CrowdWrite DEF Go, Closing
<1>4. ASSUME NEW h \in Handlers, Evict(h) PROVE CrowdInv'
  BY <1>4, OthersWait, CrowdEvict DEF Go, Closing
<1>5. CASE Crash
  BY <1>5, CrowdCrash
<1>6. CASE UNCHANGED vars
  BY <1>6 DEF vars, memory, local, CrowdInv, Covers, Leaves, Allowed, Evictors, Planned
<1> QED
  BY <1>1, <1>2, <1>3, <1>4, <1>5, <1>6 DEF Next, Go, Closing

\* With no eviction under way the table is within its limit, but for what crashes
\* have left behind: evictions that overlap, count before others write and take
\* what others have taken do not let it grow.
THEOREM TableStaysBounded == Spec => []TableBounded
<1>1. Init => CrowdInv
  <2> SUFFICES ASSUME Init PROVE CrowdInv
    OBVIOUS
  <2>1. Evictors = {} /\ Planned = {} /\ table = {} /\ Typed
    BY InitTyped DEF Init, Evictors, Planned, Evicting
  <2>2. Cardinality(table) = 0 /\ Cardinality(Evictors) = 0 /\ Allowed(0) \in Nat
    BY <2>1, FS_EmptySet, AllowedGrows
  <2>3. PICK new : new = [h \in Handlers |-> {}]
    OBVIOUS
  <2>4. Covers(new)
    BY <2>1, <2>3 DEF Covers
  <2>5. \A h \in Handlers : pc[h] # "select"
    BY DEF Init
  <2> QED
    BY <2>2, <2>4, <2>5 DEF CrowdInv
<1>2. Typed /\ CrowdInv => TableBounded
  <2> SUFFICES ASSUME Typed, CrowdInv, \A h \in Handlers : pc[h] \notin Evicting
               PROVE  Cardinality(table) <= Limit + PerClose * Cardinality(Handlers) * crashes
    BY DEF TableBounded
  <2>1. Evictors = {}
    BY DEF Evictors
  <2>2. Cardinality(table) <= Allowed(0)
    BY <2>1, FS_EmptySet DEF CrowdInv
  <2>3. Cardinality(Handlers) \in Nat /\ crashes \in Nat /\ PerClose \in Nat
    BY HandlersAssumption, FS_CardinalityType, LimitsAssumption DEF Typed, TypeOK
  <2>4. PerClose * (Cardinality(Handlers) * crashes + 0) = PerClose * Cardinality(Handlers) * crashes
    BY <2>3
  <2> QED
    BY <2>2, <2>4 DEF Allowed
<1> QED
  BY <1>1, <1>2, InitTyped, TypeStep, CrowdStep, PTL DEF Spec

=============================================================================
