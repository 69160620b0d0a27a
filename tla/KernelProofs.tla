----------------------------- MODULE KernelProofs -----------------------------
(***************************************************************************)
(* Theorems about Kernel for every set of workers, callers and operators,  *)
(* every plan, and handlers run in threads or one at a time.               *)
(***************************************************************************)
EXTENDS Kernel, SequenceTheorems, FiniteSetTheorems, TLAPS

\* What a handler between its steps has: a caller a goal, and a worker while it
\* assigns it; a release_all loop a worker to release.
HandlerInv ==
  /\ \A c \in Callers : pc[c] # "idle" => goal[c] \in Goals
  /\ \A c \in Callers : pc[c] \in {"assignTask", "assignStatus"} => pick[c] \in Workers
  /\ \A a \in Actors : pc[a] \in {"releaseTask", "releaseStatus"} => AtWorker(a)

-----------------------------------------------------------------------------
(* Lemmas on the journal and on the steps of a handler.                    *)

\* The deque keeps entries of the right kind, and no more than it may hold.
LEMMA BoundedType ==
  ASSUME NEW m \in Seq(MemoryEntry)
  PROVE  Bounded(m) \in Seq(MemoryEntry) /\ Len(Bounded(m)) <= MemoryCap
<1>1. CASE Len(m) <= MemoryCap
  BY <1>1 DEF Bounded
<1>2. CASE ~(Len(m) <= MemoryCap)
  <2>1. MemoryCap \in Nat /\ Len(m) \in Nat
    BY MemoryCapAssumption, LenProperties
  <2>2. CASE MemoryCap = 0
    <3>1. SubSeq(m, Len(m) - MemoryCap + 1, Len(m)) = <<>>
      BY <2>1, <2>2, SubSeqEmpty
    <3>2. QED BY <1>2, <2>1, <2>2, <3>1 DEF Bounded
  <2>3. CASE MemoryCap > 0
    <3>1. /\ SubSeq(m, Len(m) - MemoryCap + 1, Len(m)) \in Seq(MemoryEntry)
          /\ Len(SubSeq(m, Len(m) - MemoryCap + 1, Len(m))) = MemoryCap
      BY <1>2, <2>1, <2>3, SubSeqProperties
    <3>2. QED BY <1>2, <2>1, <3>1 DEF Bounded
  <2>4. QED BY <2>1, <2>2, <2>3
<1>3. QED BY <1>1, <1>2

\* Publishing an event keeps the journal well typed.
LEMMA PublishType ==
  ASSUME JournalTypeOK, NEW e \in EventTypes, NEW g \in Goals, Publish(e, g)
  PROVE  JournalTypeOK'
<1>1. [type |-> e, about |-> g] \in AuditEntry
  BY DEF AuditEntry
<1>2. [type |-> MemoryType[e], goal |-> activeGoal, about |-> g] \in MemoryEntry
  BY DEF MemoryEntry, MemoryType, EventTypes, JournalTypeOK
<1>3. audit' \in Seq(AuditEntry)
  BY <1>1 DEF Publish, AuditHandler, JournalTypeOK
<1>4. memory' \in Seq(MemoryEntry) /\ Len(memory') <= MemoryCap
  <2>1. Append(memory, [type |-> MemoryType[e], goal |-> activeGoal, about |-> g])
          \in Seq(MemoryEntry)
    BY <1>2 DEF JournalTypeOK
  <2>2. QED BY <2>1, BoundedType DEF Publish, Remember
<1>5. QED BY <1>3, <1>4 DEF Publish, JournalTypeOK

\* So does storing what the extractor finds in the audit list.
LEMMA ProcessAuditLogType ==
  ASSUME JournalTypeOK, NEW g \in Goals, ProcessAuditLog(g)
  PROVE  JournalTypeOK'
<1>1. \A i \in 1..Len(audit) :
        [type |-> MemoryType[audit[i].type], goal |-> g, about |-> audit[i].about]
          \in MemoryEntry
  <2>1. SUFFICES ASSUME NEW i \in 1..Len(audit)
                 PROVE  [type |-> MemoryType[audit[i].type], goal |-> g,
                         about |-> audit[i].about] \in MemoryEntry
    OBVIOUS
  <2>2. audit[i] \in AuditEntry
    BY ElementOfSeq DEF JournalTypeOK
  <2>3. audit[i].type \in EventTypes /\ audit[i].about \in Goals
    BY <2>2 DEF AuditEntry
  <2>4. QED BY <2>3 DEF MemoryEntry, MemoryType, EventTypes
<1>2. Len(audit) \in Nat
  BY LenProperties DEF JournalTypeOK
<1>3. Extracted(g) \in Seq(MemoryEntry)
  BY <1>1, <1>2 DEF Extracted
<1>4. memory \o Extracted(g) \in Seq(MemoryEntry)
  BY <1>3, ConcatProperties DEF JournalTypeOK
<1>5. QED BY <1>4, BoundedType DEF ProcessAuditLog, JournalTypeOK

-----------------------------------------------------------------------------
(* Type correctness.                                                       *)

Typed == TypeOK /\ HandlerInv

LEMMA TypedInit == Init => Typed
<1> SUFFICES ASSUME Init PROVE Typed
  OBVIOUS
<1>1. JournalTypeOK
  BY EmptySeq, MemoryCapAssumption DEF Init, StateInit, JournalInit, JournalTypeOK
<1>2. PoolTypeOK
  BY DEF Init, StateInit, PoolInit, PoolTypeOK, Status
<1>3. TypeOK
  <2>1. results \in [Callers -> Seq(Workers \cup {NoWorker})]
    BY EmptySeq DEF Init, StateInit
  <2>2. pc \in [Actors -> {"idle"}] /\ scan \in [Actors -> {1}]
    BY DEF Init, StateInit
  <2>3. /\ goal \in [Callers -> Goals \cup {NoGoal}]
        /\ pick \in [Callers -> Workers \cup {NoWorker}]
        /\ outcome \in [Callers -> Outcomes]
        /\ late \in [Callers -> BOOLEAN]
    BY DEF Init, StateInit, Outcomes
  <2>4. /\ modelUp \in BOOLEAN
        /\ stopped \in BOOLEAN
        /\ reason \in Reasons \cup {NoReason}
        /\ currentGoal \in Goals \cup {NoGoal}
        /\ activeTasks \in Nat
    BY DEF Init, StateInit
  <2>5. QED BY <1>1, <1>2, <2>1, <2>2, <2>3, <2>4 DEF TypeOK
<1>4. HandlerInv
  BY DEF Init, StateInit, HandlerInv, Actors
<1>5. QED BY <1>3, <1>4 DEF Typed

\* The steps that write the journal.
LEMMA TypedJournalStep ==
  ASSUME Typed, NEW c \in Callers,
         \/ Begin(c) \/ Request(c) \/ Denied(c)
         \/ Fail(c, "denied", "denied") \/ Fail(c, "refused", "stopped")
         \/ RecordFailure(c) \/ Plan(c) \/ Answer(c) \/ Record(c)
  PROVE  Typed'
<1> USE DEF Typed, TypeOK, HandlerInv, Goto, Actors, CallerSteps, OperatorSteps,
            ReleaseSteps, callVars, stateVars, stopVars, poolVars, PoolTypeOK, AtWorker
<1> c \in Actors
  OBVIOUS
<1>1. CASE Begin(c)
  <2>1. JournalTypeOK'
    BY <1>1, EmptySeq DEF Begin, ClearAudit, JournalTypeOK
  <2>2. QED BY <1>1, <2>1, EmptySeq DEF Begin
<1>2. CASE Request(c)
  <2>1. JournalTypeOK'
    BY <1>2 DEF Request, PublishRequest, JournalTypeOK
  <2>2. QED BY <1>2, <2>1 DEF Request
<1>3. CASE Denied(c)
  <2>1. JournalTypeOK'
    BY <1>3, PublishType DEF Denied, EventTypes
  <2>2. QED BY <1>3, <2>1 DEF Denied
<1>4. CASE Fail(c, "denied", "denied")
  <2>1. JournalTypeOK'
    BY <1>4, PublishType DEF Fail, EventTypes
  <2>2. QED BY <1>4, <2>1 DEF Fail, Outcomes
<1>5. CASE Fail(c, "refused", "stopped")
  <2>1. JournalTypeOK'
    BY <1>5, PublishType DEF Fail, EventTypes
  <2>2. QED BY <1>5, <2>1 DEF Fail, Outcomes
<1>6. CASE RecordFailure(c)
  <2>1. JournalTypeOK'
    BY <1>6, ProcessAuditLogType DEF RecordFailure
  <2>2. QED BY <1>6, <2>1 DEF RecordFailure
<1>7. CASE Plan(c)
  <2>1. JournalTypeOK'
    BY <1>7, PublishType DEF Plan, EventTypes
  <2>2. QED BY <1>7, <2>1 DEF Plan
<1>8. CASE Answer(c)
  <2>1. JournalTypeOK'
    BY <1>8, PublishType DEF Answer, EventTypes
  <2>2. QED BY <1>8, <2>1 DEF Answer
<1>9. CASE Record(c)
  <2>1. JournalTypeOK'
    BY <1>9, ProcessAuditLogType DEF Record
  <2>2. QED BY <1>9, <2>1 DEF Record
<1>10. QED BY <1>1, <1>2, <1>3, <1>4, <1>5, <1>6, <1>7, <1>8, <1>9

\* The steps of a call that leave the journal alone, release_all apart.
LEMMA TypedCallStep ==
  ASSUME Typed, NEW c \in Callers,
         \/ Governed(c) \/ Gate(c) \/ Find(c) \/ FindNothing(c)
         \/ WriteTask(c) \/ WriteStatus(c) \/ Scheduled(c)
         \/ SyncGoal(c) \/ SyncTasks(c) \/ Return(c)
  PROVE  Typed'
<1> USE DEF Typed, TypeOK, HandlerInv, Goto, Actors, CallerSteps, OperatorSteps,
            ReleaseSteps, callVars, stateVars, stopVars, poolVars, journalVars,
            PoolTypeOK, JournalTypeOK, AtWorker
<1> c \in Actors
  OBVIOUS
<1>1. CASE Governed(c)
  BY <1>1 DEF Governed
<1>2. CASE Gate(c)
  BY <1>2 DEF Gate
<1>3. CASE Find(c)
  <2>1. PICK w \in Workers : pick' = [pick EXCEPT ![c] = w]
    BY <1>3 DEF Find
  <2>2. QED BY <1>3, <2>1 DEF Find
<1>4. CASE FindNothing(c)
  <2>1. Append(results[c], NoWorker) \in Seq(Workers \cup {NoWorker})
    OBVIOUS
  <2>2. QED BY <1>4, <2>1 DEF FindNothing
<1>5. CASE WriteTask(c)
  <2>1. NextTask(c) \in Nat
    BY LenProperties DEF NextTask
  <2>2. QED BY <1>5, <2>1 DEF WriteTask, AssignTask
<1>6. CASE WriteStatus(c)
  <2>1. Append(results[c], pick[c]) \in Seq(Workers \cup {NoWorker})
    OBVIOUS
  <2>2. QED BY <1>6, <2>1 DEF WriteStatus, AssignStatus, Status
<1>7. CASE Scheduled(c)
  BY <1>7 DEF Scheduled
<1>8. CASE SyncGoal(c)
  BY <1>8 DEF SyncGoal
<1>9. CASE SyncTasks(c)
  <2>1. Len(PlanOf[goal[c]]) \in Nat
    BY <1>9, PlanAssumption, LenProperties DEF SyncTasks
  <2>2. QED BY <1>9, <2>1 DEF SyncTasks, Outcomes
<1>10. CASE Return(c)
  BY <1>10, EmptySeq DEF Return, Outcomes
<1>11. QED
  BY <1>1, <1>2, <1>3, <1>4, <1>5, <1>6, <1>7, <1>8, <1>9, <1>10

\* The release_all loop of a call or of an emergency stop.
LEMMA TypedRelease ==
  ASSUME Typed, NEW a \in Actors, ReleaseAll(a)
  PROVE  Typed'
<1> USE DEF Typed, TypeOK, HandlerInv, Goto, CallerSteps, OperatorSteps,
            ReleaseSteps, callVars, stateVars, stopVars, poolVars, journalVars,
            PoolTypeOK, JournalTypeOK, AtWorker
<1> Callers \subseteq Actors
  BY DEF Actors
<1>1. CASE SkipWorker(a)
  BY <1>1 DEF SkipWorker, Advance
<1>2. CASE FoundBusy(a)
  BY <1>2 DEF FoundBusy
<1>3. CASE ClearTask(a)
  BY <1>3 DEF ClearTask, ReleaseTask
<1>4. CASE ClearStatus(a)
  <2>1. PoolTypeOK'
    BY <1>4 DEF ClearStatus, ReleaseStatus, Status
  <2>2. QED BY <1>4, <2>1 DEF ClearStatus, Advance
<1>5. CASE Released(a)
  BY <1>5 DEF Released, AfterRelease
<1>6. QED BY <1>1, <1>2, <1>3, <1>4, <1>5 DEF ReleaseAll

\* The steps of an operator, and of the other users of the models.
LEMMA TypedOperatorStep ==
  ASSUME Typed,
         \/ \E o \in Operators : Stop(o) \/ StopReason(o) \/ Resume(o) \/ ResumeReason(o)
         \/ ModelsChange
  PROVE  Typed'
<1> USE DEF Typed, TypeOK, HandlerInv, Goto, CallerSteps, OperatorSteps,
            ReleaseSteps, callVars, stateVars, stopVars, poolVars, journalVars,
            PoolTypeOK, JournalTypeOK, AtWorker
<1> Callers \subseteq Actors /\ Operators \subseteq Actors
  BY DEF Actors
<1>1. ASSUME NEW o \in Operators, Stop(o) PROVE Typed'
  BY <1>1, ActorsAssumption DEF Stop
<1>2. ASSUME NEW o \in Operators, StopReason(o) PROVE Typed'
  BY <1>2, ActorsAssumption DEF StopReason
<1>3. ASSUME NEW o \in Operators, Resume(o) PROVE Typed'
  BY <1>3, ActorsAssumption DEF Resume
<1>4. ASSUME NEW o \in Operators, ResumeReason(o) PROVE Typed'
  BY <1>4, ActorsAssumption DEF ResumeReason
<1>5. CASE ModelsChange
  BY <1>5 DEF ModelsChange
<1>6. QED BY <1>1, <1>2, <1>3, <1>4, <1>5

LEMMA TypedStep == Typed /\ [Next]_vars => Typed'
<1>1. ASSUME Typed, UNCHANGED vars PROVE Typed'
  BY <1>1 DEF Typed, TypeOK, HandlerInv, vars, callVars, stateVars, stopVars, poolVars,
       journalVars, PoolTypeOK, JournalTypeOK, AtWorker
<1>2. ASSUME Typed, NEW c \in Callers, Begin(c) \/ CallerStep(c) PROVE Typed'
  BY <1>2, TypedJournalStep, TypedCallStep, TypedRelease DEF CallerStep, Actors
<1>3. ASSUME Typed, NEW o \in Operators, Stop(o) \/ Resume(o) \/ OperatorStep(o)
      PROVE  Typed'
  BY <1>3, TypedOperatorStep, TypedRelease DEF OperatorStep, Actors
<1>4. QED BY <1>1, <1>2, <1>3, TypedOperatorStep DEF Next

\* The type invariant holds of every behaviour, with the worker a call has
\* picked and the goal it serves where the code reads them.
THEOREM TypeCorrect == Spec => []TypeOK
<1>1. Spec => []Typed
  BY TypedInit, TypedStep, PTL DEF Spec
<1>2. Typed => TypeOK
  BY DEF Typed
<1>3. QED BY <1>1, <1>2, PTL

-----------------------------------------------------------------------------
(* A busy worker is never forgotten.                                       *)

\* It is enough that the handler that moves does not lose sight of a worker that
\* is busy after its step.
LEMMA OneMoves ==
  ASSUME TypeOK, BusyHasReleaser, NEW a \in Actors,
         pc' = [pc EXCEPT ![a] = pc'[a]],
         scan' = [scan EXCEPT ![a] = scan'[a]],
         \A w \in Workers : status'[w] = "busy" =>
           \/ WillVisit(a, w)'
           \/ status[w] = "busy" /\ ~WillVisit(a, w)
  PROVE  BusyHasReleaser'
<1>1. SUFFICES ASSUME NEW w \in Workers, status'[w] = "busy"
               PROVE  \E b \in Actors : WillVisit(b, w)'
  BY DEF BusyHasReleaser
<1>2. CASE WillVisit(a, w)'
  BY <1>2
<1>3. CASE status[w] = "busy" /\ ~WillVisit(a, w)
  <2>1. PICK b \in Actors : WillVisit(b, w)
    BY <1>3 DEF BusyHasReleaser
  <2>2. b # a
    BY <1>3, <2>1
  <2>3. pc'[b] = pc[b] /\ scan'[b] = scan[b]
    BY <2>2 DEF TypeOK
  <2>4. WillVisit(b, w)'
    BY <2>1, <2>3 DEF WillVisit
  <2>5. QED BY <2>4
<1>4. QED BY <1>1, <1>2, <1>3

\* The steps of a call that leave the loop position alone.
LEMMA BusyCallStep ==
  ASSUME TypeOK, BusyHasReleaser, NEW c \in Callers,
         \/ Begin(c) \/ Request(c) \/ Governed(c) \/ Denied(c) \/ Gate(c)
         \/ Fail(c, "denied", "denied") \/ Fail(c, "refused", "stopped")
         \/ RecordFailure(c) \/ Plan(c) \/ Find(c) \/ FindNothing(c)
         \/ WriteTask(c) \/ Scheduled(c) \/ Answer(c)
         \/ SyncGoal(c) \/ SyncTasks(c) \/ Return(c)
  PROVE  BusyHasReleaser'
<1>1. c \in Actors
  BY DEF Actors
<1>2. status' = status /\ scan' = scan
  BY DEF Begin, Request, Governed, Denied, Gate, Fail, RecordFailure, Plan, Find,
         FindNothing, WriteTask, AssignTask, Scheduled, Answer, SyncGoal, SyncTasks,
         Return, poolVars
<1>3. scan' = [scan EXCEPT ![c] = scan'[c]]
  BY <1>2 DEF TypeOK
<1>4. pc' = [pc EXCEPT ![c] = pc'[c]]
  BY <1>1 DEF TypeOK, Goto, Begin, Request, Governed, Denied, Gate, Fail, RecordFailure,
         Plan, Find, FindNothing, WriteTask, Scheduled, Answer, SyncGoal, SyncTasks, Return
<1>5. \/ pc'[c] \in {"find", "assignTask", "assignStatus", "answer", "record"}
      \/ pc[c] \notin {"find", "assignTask", "assignStatus", "answer", "record"}
           \cup ReleaseSteps
  BY <1>1 DEF TypeOK, Goto, Begin, Request, Governed, Denied, Gate, Fail, RecordFailure,
         Plan, Find, FindNothing, WriteTask, Scheduled, Answer, SyncGoal, SyncTasks,
         Return, ReleaseSteps
<1>6. \A w \in Workers : WillVisit(c, w)' \/ ~WillVisit(c, w)
  BY <1>5 DEF WillVisit
<1>7. QED BY <1>1, <1>2, <1>3, <1>4, <1>6, OneMoves

\* A worker becomes busy, or a release_all loop starts.
LEMMA BusyStarts ==
  ASSUME TypeOK, BusyHasReleaser,
         \/ \E c \in Callers : WriteStatus(c) \/ Record(c)
         \/ \E o \in Operators : StopReason(o)
  PROVE  BusyHasReleaser'
<1>1. ASSUME NEW c \in Callers, WriteStatus(c) PROVE BusyHasReleaser'
  <2>1. /\ c \in Actors
        /\ pc' = [pc EXCEPT ![c] = pc'[c]]
        /\ pc'[c] = "find"
        /\ scan' = [scan EXCEPT ![c] = scan'[c]]
    BY <1>1 DEF WriteStatus, Goto, TypeOK, Actors
  <2>2. \A w \in Workers : WillVisit(c, w)'
    BY <2>1 DEF WillVisit
  <2>3. QED BY <2>1, <2>2, OneMoves
<1>2. ASSUME NEW a \in Actors, Goto(a, pc[a], "release"), scan' = [scan EXCEPT ![a] = 1]
      PROVE  BusyHasReleaser'
  <2>1. /\ pc' = [pc EXCEPT ![a] = pc'[a]]
        /\ pc'[a] = "release"
        /\ scan' = [scan EXCEPT ![a] = scan'[a]]
        /\ scan'[a] = 1
    BY <1>2 DEF Goto, TypeOK
  <2>2. \A w \in Workers : WillVisit(a, w)'
    BY <2>1, RegisteredAssumption DEF WillVisit, ReleaseSteps
  <2>3. QED BY <2>1, <2>2, OneMoves
<1>3. ASSUME NEW c \in Callers, Record(c) PROVE BusyHasReleaser'
  BY <1>2, <1>3 DEF Record, Goto, Actors
<1>4. ASSUME NEW o \in Operators, StopReason(o) PROVE BusyHasReleaser'
  BY <1>2, <1>4 DEF StopReason, Goto, Actors
<1>5. QED BY <1>1, <1>3, <1>4

\* The loop moves past a worker only when that worker is not busy.
LEMMA BusyRelease ==
  ASSUME Typed, BusyHasReleaser, NEW a \in Actors, ReleaseAll(a)
  PROVE  BusyHasReleaser'
<1> USE DEF Typed, TypeOK, PoolTypeOK
<1>1. /\ pc' = [pc EXCEPT ![a] = pc'[a]]
      /\ scan' = [scan EXCEPT ![a] = scan'[a]]
      /\ scan[a] \in Nat \ {0}
      /\ Len(Registered) \in Nat
  BY RegisteredAssumption, LenProperties
     DEF ReleaseAll, SkipWorker, FoundBusy, ClearTask, ClearStatus, Released, Goto, Advance
<1>2. CASE FoundBusy(a) \/ ClearTask(a)
  <2>1. /\ scan' = scan
        /\ status' = status
        /\ pc[a] \in ReleaseSteps /\ pc'[a] \in ReleaseSteps
    BY <1>2 DEF FoundBusy, ClearTask, ReleaseTask, Goto, ReleaseSteps, poolVars
  <2>2. \A w \in Workers : WillVisit(a, w)' \/ ~WillVisit(a, w)
    BY <2>1 DEF WillVisit, ReleaseSteps
  <2>3. QED BY <1>1, <2>1, <2>2, OneMoves
<1>3. CASE SkipWorker(a) \/ ClearStatus(a)
  <2>1. /\ scan'[a] = scan[a] + 1
        /\ pc[a] \in ReleaseSteps /\ pc'[a] = "release"
    BY <1>3 DEF SkipWorker, ClearStatus, Advance, Goto, ReleaseSteps
  <2>2. \A w \in Workers : status'[w] = "busy" => status[w] = "busy" /\ w # Visited(a)
    BY <1>3 DEF SkipWorker, ClearStatus, ReleaseStatus, poolVars
  <2>3. ASSUME NEW w \in Workers, w # Visited(a), WillVisit(a, w)
        PROVE  WillVisit(a, w)'
    <3>1. PICK i \in scan[a]..Len(Registered) : Registered[i] = w
      BY <2>1, <2>3 DEF WillVisit, ReleaseSteps
    <3>2. i \in (scan[a] + 1)..Len(Registered)
      BY <1>1, <2>3, <3>1 DEF Visited
    <3>3. QED BY <2>1, <3>1, <3>2 DEF WillVisit, ReleaseSteps
  <2>4. QED BY <1>1, <2>2, <2>3, OneMoves
<1>4. CASE Released(a)
  <2>1. status' = status /\ pc[a] = "release" /\ ~(scan[a] <= Len(Registered))
    BY <1>4 DEF Released, Goto, AtWorker, poolVars
  <2>2. \A w \in Workers : ~WillVisit(a, w)
    BY <1>1, <2>1 DEF WillVisit
  <2>3. QED BY <1>1, <2>1, <2>2, OneMoves
<1>5. QED BY <1>2, <1>3, <1>4 DEF ReleaseAll

\* What the operators and the models do beside it leaves workers and loops alone.
LEMMA BusyOthers ==
  ASSUME TypeOK, BusyHasReleaser,
         \/ \E o \in Operators : Stop(o) \/ Resume(o) \/ ResumeReason(o)
         \/ ModelsChange
  PROVE  BusyHasReleaser'
<1>1. ASSUME NEW o \in Operators, Stop(o) \/ Resume(o) \/ ResumeReason(o)
      PROVE  BusyHasReleaser'
  <2>1. /\ o \in Actors
        /\ pc' = [pc EXCEPT ![o] = pc'[o]]
        /\ scan' = [scan EXCEPT ![o] = scan'[o]]
        /\ status' = status
        /\ pc[o] \in {"idle", "resumeReason"}
    BY <1>1 DEF Stop, Resume, ResumeReason, Goto, TypeOK, Actors, poolVars
  <2>2. \A w \in Workers : ~WillVisit(o, w)
    BY <2>1 DEF WillVisit, ReleaseSteps
  <2>3. QED BY <2>1, <2>2, OneMoves
<1>2. CASE ModelsChange
  BY <1>2 DEF ModelsChange, BusyHasReleaser, WillVisit, poolVars
<1>3. QED BY <1>1, <1>2

LEMMA BusyStep == Typed /\ BusyHasReleaser /\ [Next]_vars => BusyHasReleaser'
<1> SUFFICES ASSUME Typed, BusyHasReleaser, [Next]_vars PROVE BusyHasReleaser'
  OBVIOUS
<1>1. TypeOK
  BY DEF Typed
<1>2. ASSUME UNCHANGED vars PROVE BusyHasReleaser'
  BY <1>2 DEF vars, poolVars, BusyHasReleaser, WillVisit
<1>3. ASSUME NEW c \in Callers, Begin(c) \/ CallerStep(c) PROVE BusyHasReleaser'
  BY <1>1, <1>3, BusyCallStep, BusyStarts, BusyRelease DEF CallerStep, Actors
<1>4. ASSUME NEW o \in Operators, Stop(o) \/ Resume(o) \/ OperatorStep(o)
      PROVE  BusyHasReleaser'
  BY <1>1, <1>4, BusyOthers, BusyStarts, BusyRelease DEF OperatorStep, Actors
<1>5. QED BY <1>1, <1>2, <1>3, <1>4, BusyOthers DEF Next

\* However handlers interleave, a busy worker has a handler in flight that will
\* come past it in its release_all: no assignment is ever forgotten.
THEOREM NoWorkerForgotten == Spec => []BusyHasReleaser
<1>1. Init => BusyHasReleaser
  BY DEF Init, StateInit, PoolInit, BusyHasReleaser
<1>2. Spec => [](Typed /\ BusyHasReleaser)
  BY <1>1, TypedInit, TypedStep, BusyStep, PTL DEF Spec
<1>3. QED BY <1>2, PTL

\* So no worker is busy when no handler is in flight.
THEOREM PoolDrains == Spec => []QuietNotBusy
<1>1. TypeOK /\ BusyHasReleaser => QuietNotBusy
  BY DEF TypeOK, PoolTypeOK, Status, BusyHasReleaser, WillVisit, ReleaseSteps, QuietNotBusy, Quiet
<1>2. QED BY <1>1, NoWorkerForgotten, TypeCorrect, PTL

-----------------------------------------------------------------------------
(* The emergency stop holds back the calls that begin under it.            *)

LateInv ==
  \A c \in Callers : late[c] =>
    /\ stopped
    /\ pc[c] \in {"request", "govern", "denied", "gate", "refused", "recordFailure",
                  "return"}

LEMMA LateStep == TypeOK /\ LateInv /\ [Next]_vars => LateInv'
<1> SUFFICES ASSUME TypeOK, LateInv, [Next]_vars PROVE LateInv'
  OBVIOUS
<1> USE DEF LateInv, TypeOK, Goto, Actors, callVars, stopVars
<1>1. ASSUME UNCHANGED vars PROVE LateInv'
  BY <1>1 DEF vars
<1>2. ASSUME NEW c \in Callers, Begin(c) \/ Return(c) PROVE LateInv'
  BY <1>2 DEF Begin, Return
<1>3. ASSUME NEW c \in Callers,
             \/ Request(c) \/ Governed(c) \/ Denied(c) \/ Gate(c)
             \/ Fail(c, "denied", "denied") \/ Fail(c, "refused", "stopped")
             \/ RecordFailure(c)
      PROVE  LateInv'
  BY <1>3 DEF Request, Governed, Denied, Gate, Fail, RecordFailure
<1>4. ASSUME NEW c \in Callers,
             \/ Plan(c) \/ Find(c) \/ FindNothing(c) \/ WriteTask(c) \/ WriteStatus(c)
             \/ Scheduled(c) \/ Answer(c) \/ Record(c) \/ SyncGoal(c) \/ SyncTasks(c)
      PROVE  LateInv'
  BY <1>4 DEF Plan, Find, FindNothing, WriteTask, WriteStatus, Scheduled, Answer, Record,
              SyncGoal, SyncTasks
<1>5. ASSUME NEW a \in Actors, ReleaseAll(a) PROVE LateInv'
  BY <1>5 DEF ReleaseAll, SkipWorker, FoundBusy, ClearTask, ClearStatus, Released
<1>6. ASSUME NEW o \in Operators, Stop(o) \/ Resume(o) \/ StopReason(o) \/ ResumeReason(o)
      PROVE  LateInv'
  BY <1>6, ActorsAssumption DEF Stop, Resume, StopReason, ResumeReason
<1>7. CASE ModelsChange
  BY <1>7 DEF ModelsChange
<1>8. QED BY <1>1, <1>2, <1>3, <1>4, <1>5, <1>6, <1>7 DEF Next, CallerStep, OperatorStep

\* A call that began under a stop nobody lifted never reaches the planner or the
\* scheduler.
THEOREM StopHoldsNewCalls == Spec => []StopBlocksNewCalls
<1>1. Init => LateInv
  BY DEF Init, StateInit, LateInv
<1>2. Spec => []LateInv
  BY <1>1, LateStep, TypeCorrect, PTL DEF Spec
<1>3. LateInv => StopBlocksNewCalls
  BY DEF LateInv, StopBlocksNewCalls, Dispatching
<1>4. QED BY <1>2, <1>3, PTL

-----------------------------------------------------------------------------
(***************************************************************************)
(* Handlers that run one at a time, as they do when async handlers call    *)
(* process() on one event loop: the properties that threads break.         *)
(***************************************************************************)

OneAtATime ==
  \A a, b \in Actors : pc[a] # "idle" /\ pc[b] # "idle" => a = b

LEMMA OneAtATimeStep == ~Threads /\ TypeOK /\ OneAtATime /\ [Next]_vars => OneAtATime'
<1> SUFFICES ASSUME ~Threads, TypeOK, OneAtATime, [Next]_vars PROVE OneAtATime'
  OBVIOUS
<1> USE DEF OneAtATime, TypeOK
<1>1. ASSUME UNCHANGED vars PROVE OneAtATime'
  BY <1>1 DEF vars
<1>2. ASSUME NEW a \in Actors, Quiet, NEW to, Goto(a, "idle", to) PROVE OneAtATime'
  BY <1>2 DEF Quiet, Goto
<1>3. ASSUME NEW a \in Actors, NEW from, NEW to, from # "idle", Goto(a, from, to)
      PROVE  OneAtATime'
  BY <1>3 DEF Goto
<1>4. ASSUME NEW c \in Callers, Begin(c) PROVE OneAtATime'
  BY <1>2, <1>4 DEF Begin, MayStart, Actors
<1>5. ASSUME NEW o \in Operators, Stop(o) \/ Resume(o) PROVE OneAtATime'
  BY <1>2, <1>5 DEF Stop, Resume, MayStart, Actors
<1>6. ASSUME NEW a \in Actors, ReleaseAll(a) PROVE OneAtATime'
  BY <1>3, <1>6 DEF ReleaseAll, SkipWorker, FoundBusy, ClearTask, ClearStatus, Released
<1>7. ASSUME NEW o \in Operators, OperatorStep(o) PROVE OneAtATime'
  BY <1>3, <1>6, <1>7 DEF OperatorStep, StopReason, ResumeReason, Actors
<1>8. ASSUME NEW c \in Callers, CallerStep(c) PROVE OneAtATime'
  BY <1>3, <1>6, <1>8
     DEF CallerStep, Request, Governed, Denied, Gate, Fail, RecordFailure, Plan, Find,
         FindNothing, WriteTask, WriteStatus, Scheduled, Answer, Record, SyncGoal,
         SyncTasks, Return, Actors
<1>9. CASE ModelsChange
  BY <1>9 DEF ModelsChange
<1>10. QED BY <1>1, <1>4, <1>5, <1>7, <1>8, <1>9 DEF Next

\* While one handler is on its way the others are where they were: idle.
LEMMA OthersIdle ==
  ASSUME OneAtATime, NEW a \in Actors, NEW b \in Actors, pc[a] # "idle", b # a
  PROVE  pc[b] = "idle"
BY DEF OneAtATime

-----------------------------------------------------------------------------
(* The stop, and the two fields of a worker, between the steps of the one  *)
(* handler that runs.                                                      *)

GateInv == \A c \in Callers : pc[c] \in Dispatching => ~stopped

FieldsInv ==
  /\ \A c \in Callers : pc[c] = "assignTask" => Available(pick[c])
  /\ \A a \in Actors : pc[a] = "releaseStatus" => task[Visited(a)] = NoTask
  /\ \A w \in Workers : status[w] = "idle" /\ task[w] # NoTask =>
       \E c \in Callers : pc[c] = "assignStatus" /\ pick[c] = w

SerialInv == Typed /\ OneAtATime /\ GateInv /\ FieldsInv

LEMMA GateStep ==
  ~Threads /\ TypeOK /\ OneAtATime /\ GateInv /\ [Next]_vars => GateInv'
<1> SUFFICES ASSUME ~Threads, TypeOK, OneAtATime, GateInv, [Next]_vars PROVE GateInv'
  OBVIOUS
<1> USE DEF GateInv, TypeOK, Goto, Actors, stopVars, Dispatching
<1>1. ASSUME UNCHANGED vars PROVE GateInv'
  BY <1>1 DEF vars
<1>2. ASSUME NEW c \in Callers,
             \/ Begin(c) \/ Request(c) \/ Governed(c) \/ Denied(c) \/ Gate(c)
             \/ Fail(c, "denied", "denied") \/ Fail(c, "refused", "stopped")
             \/ RecordFailure(c) \/ Plan(c)
      PROVE  GateInv'
  BY <1>2 DEF Begin, Request, Governed, Denied, Gate, Fail, RecordFailure, Plan
<1>3. ASSUME NEW c \in Callers,
             \/ Find(c) \/ FindNothing(c) \/ WriteTask(c) \/ WriteStatus(c) \/ Scheduled(c)
             \/ Answer(c) \/ Record(c) \/ SyncGoal(c) \/ SyncTasks(c) \/ Return(c)
      PROVE  GateInv'
  BY <1>3 DEF Find, FindNothing, WriteTask, WriteStatus, Scheduled, Answer, Record,
              SyncGoal, SyncTasks, Return
<1>4. ASSUME NEW a \in Actors, ReleaseAll(a) PROVE GateInv'
  BY <1>4 DEF ReleaseAll, SkipWorker, FoundBusy, ClearTask, ClearStatus, Released,
              AfterRelease
<1>5. ASSUME NEW o \in Operators, Stop(o) PROVE GateInv'
  BY <1>5, ActorsAssumption DEF Stop, MayStart, Quiet
<1>6. ASSUME NEW o \in Operators, Resume(o) \/ StopReason(o) \/ ResumeReason(o)
      PROVE  GateInv'
  BY <1>6, ActorsAssumption DEF Resume, StopReason, ResumeReason
<1>7. CASE ModelsChange
  BY <1>7 DEF ModelsChange
<1>8. QED BY <1>1, <1>2, <1>3, <1>4, <1>5, <1>6, <1>7 DEF Next, CallerStep, OperatorStep

\* The steps that write neither field, and leave assignTask and releaseStatus to
\* those that do.
LEMMA FieldsKept ==
  ASSUME Typed, OneAtATime, FieldsInv, NEW a \in Actors, NEW from, NEW to,
         Goto(a, from, to), UNCHANGED <<status, task>>,
         from \notin {"assignTask", "assignStatus"},
         to \notin {"assignTask", "releaseStatus"},
         \A c \in Callers : c # a => pick'[c] = pick[c],
         \A b \in Actors : b # a => scan'[b] = scan[b]
  PROVE  FieldsInv'
<1> USE DEF Typed, TypeOK, Goto, FieldsInv
<1>1. Callers \subseteq Actors /\ pc'[a] = to
  BY DEF Actors
<1>2. \A b \in Actors : b # a => pc'[b] = pc[b]
  OBVIOUS
<1>3. \A c \in Callers : pc'[c] = "assignTask" => Available(pick[c])'
  BY <1>1, <1>2 DEF Available
<1>4. \A b \in Actors : pc'[b] = "releaseStatus" => task'[Visited(b)'] = NoTask
  BY <1>1, <1>2 DEF Visited
<1>5. ASSUME NEW w \in Workers, status'[w] = "idle", task'[w] # NoTask
      PROVE  \E c \in Callers : pc'[c] = "assignStatus" /\ pick'[c] = w
  <2>1. PICK c \in Callers : pc[c] = "assignStatus" /\ pick[c] = w
    BY <1>5
  <2>2. c # a
    BY <2>1
  <2>3. QED BY <1>1, <1>2, <2>1, <2>2
<1>6. QED BY <1>3, <1>4, <1>5

LEMMA FieldsCallStep ==
  ASSUME Typed, OneAtATime, FieldsInv, NEW c \in Callers,
         \/ Begin(c) \/ Request(c) \/ Governed(c) \/ Denied(c) \/ Gate(c)
         \/ Fail(c, "denied", "denied") \/ Fail(c, "refused", "stopped")
         \/ RecordFailure(c) \/ Plan(c) \/ FindNothing(c) \/ Scheduled(c)
         \/ Answer(c) \/ Record(c) \/ SyncGoal(c) \/ SyncTasks(c) \/ Return(c)
  PROVE  FieldsInv'
<1>1. c \in Actors
  BY DEF Actors
<1>2. /\ UNCHANGED <<status, task, pick>>
      /\ \A b \in Actors : b # c => scan'[b] = scan[b]
  BY DEF Begin, Request, Governed, Denied, Gate, Fail, RecordFailure, Plan, FindNothing,
         Scheduled, Answer, Record, SyncGoal, SyncTasks, Return, poolVars, callVars,
         Typed, TypeOK
<1>3. PICK from \in {"idle", "request", "govern", "denied", "gate", "refused",
                     "recordFailure", "plan", "find", "answer", "record", "syncGoal",
                     "syncTasks", "return"},
           to \in {"idle", "request", "govern", "denied", "gate", "refused",
                   "recordFailure", "plan", "find", "answer", "record", "release",
                   "syncGoal", "syncTasks", "return"} : Goto(c, from, to)
  BY DEF Begin, Request, Governed, Denied, Gate, Fail, RecordFailure, Plan, FindNothing,
         Scheduled, Answer, Record, SyncGoal, SyncTasks, Return
<1>4. QED BY <1>1, <1>2, <1>3, FieldsKept

\* find_best hands out a worker that is available, and it stays so until assign().
LEMMA FieldsAssign ==
  ASSUME Typed, OneAtATime, FieldsInv, NEW c \in Callers,
         Find(c) \/ WriteTask(c) \/ WriteStatus(c)
  PROVE  FieldsInv'
<1> USE DEF Typed, TypeOK, HandlerInv, PoolTypeOK, FieldsInv, Goto, Available, Visited
<1>1. c \in Actors /\ Callers \subseteq Actors
  BY DEF Actors
<1>2. CASE Find(c)
  <2>1. PICK w \in Workers : FindsBest(Needed(c), w) /\ pick' = [pick EXCEPT ![c] = w]
    BY <1>2 DEF Find
  <2>2. Available(w)
    BY <2>1 DEF FindsBest, Candidates
  <2>3. \A b \in Actors : b # c => pc[b] = "idle" /\ pc'[b] = "idle"
    BY <1>1, <1>2, OthersIdle DEF Find
  <2>4. /\ pc[c] = "find" /\ pc'[c] = "assignTask" /\ pick'[c] = w
        /\ UNCHANGED <<status, task>>
    BY <1>1, <1>2, <2>1 DEF Find, poolVars
  <2>5. \A d \in Callers : pc[d] # "assignStatus"
    BY <1>1, <2>3, <2>4
  <2>6. \A v \in Workers : ~(status'[v] = "idle" /\ task'[v] # NoTask)
    BY <2>4, <2>5
  <2>7. \A d \in Callers : pc'[d] = "assignTask" => Available(pick[d])'
    BY <1>1, <2>2, <2>3, <2>4
  <2>8. \A b \in Actors : pc'[b] # "releaseStatus"
    BY <2>3, <2>4
  <2>9. QED BY <2>6, <2>7, <2>8
<1>3. CASE WriteTask(c)
  <2>1. \A b \in Actors : b # c => pc[b] = "idle" /\ pc'[b] = "idle"
    BY <1>1, <1>3, OthersIdle DEF WriteTask
  <2>2. pc'[c] = "assignStatus" /\ pick'[c] = pick[c] /\ pick[c] \in Workers
    BY <1>1, <1>3 DEF WriteTask, callVars
  <2>3. \A w \in Workers : status[w] = "idle" /\ task[w] # NoTask => FALSE
    <3>1. \A d \in Callers : pc[d] # "assignStatus"
      BY <1>1, <1>3, <2>1 DEF WriteTask
    <3>2. QED BY <3>1
  <2>4. \A w \in Workers : w # pick[c] => task'[w] = task[w] /\ status'[w] = status[w]
    BY <1>3 DEF WriteTask, AssignTask
  <2>5. \A w \in Workers : status'[w] = "idle" /\ task'[w] # NoTask => w = pick[c]
    BY <2>3, <2>4
  <2>6. \A b \in Actors : pc'[b] \notin {"assignTask", "releaseStatus"}
    BY <2>1, <2>2
  <2>7. QED BY <1>1, <2>2, <2>5, <2>6
<1>4. CASE WriteStatus(c)
  <2>1. \A b \in Actors : b # c => pc[b] = "idle" /\ pc'[b] = "idle"
    BY <1>1, <1>4, OthersIdle DEF WriteStatus
  <2>2. pc'[c] = "find" /\ status'[pick[c]] = "busy" /\ pick[c] \in Workers
    BY <1>1, <1>4 DEF WriteStatus, AssignStatus
  <2>3. \A b \in Actors : pc'[b] \notin {"assignTask", "releaseStatus"}
    BY <2>1, <2>2
  <2>4. ASSUME NEW w \in Workers, status'[w] = "idle", task'[w] # NoTask PROVE FALSE
    <3>1. w # pick[c] /\ status[w] = "idle" /\ task[w] # NoTask
      BY <1>4, <2>2, <2>4 DEF WriteStatus, AssignStatus
    <3>2. PICK d \in Callers : pc[d] = "assignStatus" /\ pick[d] = w
      BY <3>1
    <3>3. d = c
      BY <1>1, <2>1, <3>2
    <3>4. QED BY <3>1, <3>2, <3>3
  <2>5. QED BY <1>1, <2>3, <2>4
<1>5. QED BY <1>2, <1>3, <1>4

\* release() leaves a worker idle and without a task.
LEMMA FieldsRelease ==
  ASSUME Typed, OneAtATime, FieldsInv, NEW a \in Actors, ReleaseAll(a)
  PROVE  FieldsInv'
<1> USE DEF Typed, TypeOK, HandlerInv, PoolTypeOK, FieldsInv, Goto, Available, Visited
<1>1. Callers \subseteq Actors
  BY DEF Actors
<1>2. \A b \in Actors : b # a => pc[b] = "idle" /\ pc'[b] = "idle"
  BY OthersIdle DEF ReleaseAll, SkipWorker, FoundBusy, ClearTask, ClearStatus, Released
<1>3. CASE SkipWorker(a)
  BY <1>1, <1>2, <1>3 DEF SkipWorker, poolVars, callVars
<1>4. CASE FoundBusy(a)
  BY <1>1, <1>2, <1>4 DEF FoundBusy, poolVars, callVars
<1>5. CASE ClearTask(a)
  <2>1. Registered[scan[a]] \in Workers
    <3>1. scan[a] \in 1..Len(Registered)
      BY <1>5, RegisteredAssumption, LenProperties DEF ClearTask, AtWorker
    <3>2. QED BY <3>1, RegisteredAssumption, ElementOfSeq
  <2>2. QED BY <1>1, <1>2, <1>5, <2>1 DEF ClearTask, ReleaseTask, callVars
<1>6. CASE ClearStatus(a)
  BY <1>1, <1>2, <1>6 DEF ClearStatus, ReleaseStatus, callVars
<1>7. CASE Released(a)
  BY <1>1, <1>2, <1>7 DEF Released, AfterRelease, poolVars, callVars
<1>8. QED BY <1>3, <1>4, <1>5, <1>6, <1>7 DEF ReleaseAll

LEMMA FieldsOperator ==
  ASSUME Typed, OneAtATime, FieldsInv, NEW o \in Operators,
         Stop(o) \/ StopReason(o) \/ Resume(o) \/ ResumeReason(o)
  PROVE  FieldsInv'
<1>1. o \in Actors
  BY DEF Actors
<1>2. /\ UNCHANGED <<status, task, pick>>
      /\ \A b \in Actors : b # o => scan'[b] = scan[b]
  BY DEF Stop, StopReason, Resume, ResumeReason, poolVars, callVars, Typed, TypeOK
<1>3. PICK from \in {"idle", "stopReason", "resumeReason"},
           to \in {"idle", "stopReason", "resumeReason", "release"} : Goto(o, from, to)
  BY DEF Stop, StopReason, Resume, ResumeReason
<1>4. QED BY <1>1, <1>2, <1>3, FieldsKept

LEMMA SerialStep == ~Threads /\ SerialInv /\ [Next]_vars => SerialInv'
<1> SUFFICES ASSUME ~Threads, SerialInv, [Next]_vars PROVE SerialInv'
  OBVIOUS
<1>1. Typed' /\ OneAtATime' /\ GateInv'
  BY TypedStep, OneAtATimeStep, GateStep DEF SerialInv, Typed
<1>2. FieldsInv'
  <2>1. Typed /\ OneAtATime /\ FieldsInv
    BY DEF SerialInv
  <2>2. CASE UNCHANGED vars
    BY <2>1, <2>2 DEF vars, poolVars, callVars, FieldsInv, Available, Visited
  <2>3. ASSUME NEW c \in Callers, Begin(c) \/ CallerStep(c) PROVE FieldsInv'
    BY <2>1, <2>3, FieldsCallStep, FieldsAssign, FieldsRelease DEF CallerStep, Actors
  <2>4. ASSUME NEW o \in Operators, Stop(o) \/ Resume(o) \/ OperatorStep(o) PROVE FieldsInv'
    BY <2>1, <2>4, FieldsOperator, FieldsRelease DEF OperatorStep, Actors
  <2>5. CASE ModelsChange
    BY <2>1, <2>5 DEF ModelsChange, poolVars, callVars, FieldsInv, Available, Visited
  <2>6. QED BY <2>2, <2>3, <2>4, <2>5 DEF Next
<1>3. QED BY <1>1, <1>2 DEF SerialInv

LEMMA SerialAlways == ASSUME ~Threads PROVE Spec => []SerialInv
<1>1. Init => SerialInv
  BY TypedInit DEF Init, StateInit, PoolInit, SerialInv, OneAtATime, GateInv, FieldsInv, Actors,
       Dispatching
<1>2. ~Threads
  OBVIOUS
<1>3. SerialInv /\ [Next]_vars => SerialInv'
  BY <1>2, SerialStep
<1>4. QED BY <1>1, <1>3, PTL DEF Spec

-----------------------------------------------------------------------------
\* Served one at a time, no call takes a worker while the emergency stop is in
\* force.
THEOREM SerialStopObeyed == ASSUME ~Threads PROVE Spec => NoDispatchWhileStopped
<1>1. SerialInv /\ [Next]_vars =>
        [\A c \in Callers :
           pc[c] = "find" /\ pc'[c] = "assignTask" => ~StopInForce]_vars
  BY DEF SerialInv, GateInv, Dispatching, StopInForce
<1>2. QED BY <1>1, SerialAlways, PTL DEF Spec, NoDispatchWhileStopped

\* Served one at a time, an assignment never overwrites the task of a worker.
THEOREM SerialBooking == ASSUME ~Threads PROVE Spec => NoDoubleBooking
<1>1. SerialInv /\ [Next]_vars =>
        [\A w \in Workers : task[w] # NoTask => task'[w] \in {task[w], NoTask}]_vars
  <2> SUFFICES ASSUME SerialInv, [Next]_vars, NEW w \in Workers, task[w] # NoTask
               PROVE  task'[w] \in {task[w], NoTask}
    OBVIOUS
  <2> USE DEF SerialInv, Typed, TypeOK, PoolTypeOK
  <2>1. ASSUME NEW c \in Callers, WriteTask(c) PROVE task'[w] = task[w]
    BY <2>1 DEF WriteTask, AssignTask, FieldsInv, Available, Goto
  <2>2. ASSUME NEW a \in Actors, ReleaseAll(a) PROVE task'[w] \in {task[w], NoTask}
    BY <2>2 DEF ReleaseAll, SkipWorker, FoundBusy, ClearTask, ReleaseTask, ClearStatus,
         ReleaseStatus, Released, poolVars
  <2>3. ASSUME NEW c \in Callers, Begin(c) \/ CallerStep(c), ~WriteTask(c)
        PROVE  task'[w] \in {task[w], NoTask}
    BY <2>2, <2>3 DEF CallerStep, Begin, Request, Governed, Denied, Gate, Fail,
         RecordFailure, Plan, Find, FindNothing, WriteStatus, AssignStatus, Scheduled,
         Answer, Record, SyncGoal, SyncTasks, Return, poolVars, Actors
  <2>4. ASSUME NEW o \in Operators, Stop(o) \/ Resume(o) \/ OperatorStep(o)
        PROVE  task'[w] \in {task[w], NoTask}
    BY <2>2, <2>4 DEF OperatorStep, Stop, StopReason, Resume, ResumeReason, poolVars, Actors
  <2>5. ASSUME ModelsChange \/ UNCHANGED vars PROVE task'[w] = task[w]
    BY <2>5 DEF ModelsChange, vars, poolVars
  <2>6. QED BY <2>1, <2>3, <2>4, <2>5 DEF Next
<1>2. QED BY <1>1, SerialAlways, PTL DEF Spec, NoDoubleBooking

\* Served one at a time, every worker can be found again between calls: the leak
\* the threads run exhibits needs two handlers in flight.
THEOREM SerialWorkersHome == ASSUME ~Threads PROVE Spec => []WorkersHome
<1>1. SerialInv /\ QuietNotBusy => WorkersHome
  BY DEF SerialInv, FieldsInv, QuietNotBusy, Quiet, WorkersHome, Available, Actors
<1>2. QED BY <1>1, SerialAlways, PoolDrains, PTL

-----------------------------------------------------------------------------
(* What is written down: the goal the bridge knows is that of the call     *)
(* under way, the audit list is as long as the call has come, and every    *)
(* memory is filed under the goal it is about.                             *)

Line(type, c) == [type |-> type, about |-> goal[c]]

Filed(m) == \A i \in 1..Len(m) : m[i].goal = m[i].about

GoalKnown == \A c \in Callers : pc[c] \notin {"idle", "request"} => activeGoal = goal[c]

AuditSoFar ==
  \A c \in Callers :
    /\ pc[c] \in {"request", "govern", "gate", "refused", "plan"} => audit = <<>>
    /\ pc[c] = "denied" => audit = <<Line("deny", c)>>
    /\ pc[c] \in {"find", "assignTask", "assignStatus", "answer"} =>
         audit = <<Line("planned", c)>>
    /\ pc[c] \in {"record", "syncGoal", "syncTasks"} \cup ReleaseSteps =>
         audit = <<Line("planned", c), Line("finish", c)>>
    /\ pc[c] = "recordFailure" => outcome[c] \in {"denied", "stopped"}
    /\ pc[c] \in {"recordFailure", "return"} => audit = AuditOf(c)

JournalInv == Filed(memory) /\ GoalKnown /\ AuditSoFar

\* The deque drops entries and changes none.
LEMMA BoundedFiled ==
  ASSUME NEW m \in Seq(MemoryEntry), Filed(m)
  PROVE  Filed(Bounded(m))
<1>1. CASE Len(m) <= MemoryCap
  BY <1>1 DEF Bounded
<1>2. CASE ~(Len(m) <= MemoryCap)
  <2>1. MemoryCap \in Nat /\ Len(m) \in Nat
    BY MemoryCapAssumption, LenProperties
  <2>2. CASE MemoryCap = 0
    <3>1. Bounded(m) = <<>>
      BY <1>2, <2>1, <2>2, SubSeqEmpty DEF Bounded
    <3>2. QED BY <3>1, EmptySeq DEF Filed
  <2>3. CASE MemoryCap > 0
    <3> DEFINE n == Len(m) - MemoryCap
    <3>1. n + 1 \in 1..Len(m) + 1 /\ Len(m) \in n..Len(m)
      BY <1>2, <2>1, <2>3
    <3>2. /\ Len(SubSeq(m, n + 1, Len(m))) = MemoryCap
          /\ \A i \in 1..MemoryCap : SubSeq(m, n + 1, Len(m))[i] = m[n + i]
      BY <1>2, <2>1, <2>3, <3>1, SubSeqProperties
    <3>3. Bounded(m) = SubSeq(m, n + 1, Len(m))
      BY <1>2, <2>1 DEF Bounded
    <3>4. \A i \in 1..MemoryCap : n + i \in 1..Len(m)
      BY <1>2, <2>1
    <3>5. QED BY <3>2, <3>3, <3>4 DEF Filed
  <2>4. QED BY <2>1, <2>2, <2>3
<1>3. QED BY <1>1, <1>2

\* An event of the call whose goal the bridge knows is remembered under its goal.
LEMMA PublishFiled ==
  ASSUME JournalTypeOK, NEW e \in EventTypes, NEW g \in Goals, Publish(e, g),
         Filed(memory), activeGoal = g
  PROVE  Filed(memory')
<1> DEFINE entry == [type |-> MemoryType[e], goal |-> activeGoal, about |-> g]
           m == Append(memory, entry)
<1>1. entry \in MemoryEntry
  BY DEF MemoryEntry, MemoryType, EventTypes
<1>2. memory \in Seq(MemoryEntry)
  BY DEF JournalTypeOK
<1>3. m \in Seq(MemoryEntry)
  BY <1>1, <1>2
<1>4. Filed(m)
  BY <1>1, <1>2, AppendProperties DEF Filed
<1>5. QED BY <1>3, <1>4, BoundedFiled DEF Publish, Remember

\* So is what the extractor finds in an audit list of lines about one goal.
LEMMA ProcessFiled ==
  ASSUME JournalTypeOK, NEW g \in Goals, ProcessAuditLog(g), Filed(memory),
         \A i \in 1..Len(audit) : audit[i].about = g
  PROVE  Filed(memory')
<1>1. Extracted(g) \in Seq(MemoryEntry)
  <2>1. \A i \in 1..Len(audit) :
          [type |-> MemoryType[audit[i].type], goal |-> g, about |-> audit[i].about]
            \in MemoryEntry
    <3>1. SUFFICES ASSUME NEW i \in 1..Len(audit)
                   PROVE  [type |-> MemoryType[audit[i].type], goal |-> g,
                           about |-> audit[i].about] \in MemoryEntry
      OBVIOUS
    <3>2. audit[i] \in AuditEntry
      BY ElementOfSeq DEF JournalTypeOK
    <3>3. QED BY <3>2 DEF AuditEntry, MemoryEntry, MemoryType, EventTypes
  <2>2. Len(audit) \in Nat
    BY LenProperties DEF JournalTypeOK
  <2>3. QED BY <2>1, <2>2 DEF Extracted
<1>2. Len(audit) \in Nat /\ Len(Extracted(g)) = Len(audit)
  BY LenProperties DEF Extracted, JournalTypeOK
<1>3. Filed(Extracted(g))
  BY <1>2 DEF Filed, Extracted
<1>4. memory \in Seq(MemoryEntry) /\ memory \o Extracted(g) \in Seq(MemoryEntry)
  BY <1>1, ConcatProperties DEF JournalTypeOK
<1>5. Filed(memory \o Extracted(g))
  BY <1>1, <1>3, <1>4, ConcatProperties DEF Filed
<1>6. QED BY <1>4, <1>5, BoundedFiled DEF ProcessAuditLog

\* The audit list grows line by line.
LEMMA OneLine == ASSUME NEW x PROVE Append(<<>>, x) = <<x>>
OBVIOUS

LEMMA TwoLines == ASSUME NEW x, NEW y PROVE Append(<<x>>, y) = <<x, y>>
<1> DEFINE s == <<x>>
           t == <<x, y>>
<1>1. s \in Seq({x, y}) /\ Len(s) = 1 /\ s[1] = x
  OBVIOUS
<1>2. t \in Seq({x, y}) /\ Len(t) = 2 /\ t[1] = x /\ t[2] = y
  OBVIOUS
<1> HIDE DEF s, t
<1>3. /\ Append(s, y) \in Seq({x, y}) /\ Len(Append(s, y)) = 2
      /\ Append(s, y)[1] = x /\ Append(s, y)[2] = y
  <2>1. y \in {x, y}
    OBVIOUS
  <2>2. /\ Append(s, y) \in Seq({x, y})
        /\ Len(Append(s, y)) = Len(s) + 1
        /\ \A i \in 1..Len(s) : Append(s, y)[i] = s[i]
        /\ Append(s, y)[Len(s) + 1] = y
    BY <1>1, <2>1, AppendProperties
  <2>3. QED BY <1>1, <2>2
<1>4. Append(s, y) = t
  BY <1>2, <1>3, SeqEqual
<1>5. QED BY <1>4 DEF s, t

\* A step of a call that begins or is under way: all other callers are idle.
LEMMA OthersWait ==
  ASSUME ~Threads, Typed, OneAtATime, NEW c \in Callers, Begin(c) \/ CallerStep(c)
  PROVE  \A d \in Callers : d # c => pc'[d] = "idle"
<1> USE DEF Typed, TypeOK, Goto
<1>1. Callers \subseteq Actors
  BY DEF Actors
<1>2. CASE Begin(c)
  BY <1>1, <1>2 DEF Begin, MayStart, Quiet
<1>3. CASE CallerStep(c)
  <2>1. pc[c] # "idle" /\ \A d \in Actors : d # c => pc'[d] = pc[d]
    BY <1>1, <1>3
       DEF CallerStep, Request, Governed, Denied, Gate, Fail, RecordFailure, Plan, Find,
           FindNothing, WriteTask, WriteStatus, Scheduled, Answer, Record, ReleaseAll,
           SkipWorker, FoundBusy, ClearTask, ClearStatus, Released, SyncGoal, SyncTasks,
           Return
  <2>2. QED BY <1>1, <2>1, OthersIdle
<1>4. QED BY <1>2, <1>3

\* The steps of a call that write the journal.
LEMMA JournalWriteStep ==
  ASSUME ~Threads, Typed, OneAtATime, JournalInv, NEW c \in Callers,
         \/ Begin(c) \/ Request(c) \/ Denied(c)
         \/ Fail(c, "denied", "denied") \/ Fail(c, "refused", "stopped")
         \/ RecordFailure(c) \/ Plan(c) \/ Answer(c) \/ Record(c)
  PROVE  JournalInv'
<1>1. \A d \in Callers : d # c => pc'[d] = "idle"
  BY OthersWait DEF CallerStep
<1>2. c \in Actors /\ JournalTypeOK
  BY DEF Actors, Typed, TypeOK
<1> USE <1>1, <1>2 DEF Typed, TypeOK, HandlerInv, Goto, callVars, JournalInv, GoalKnown,
        AuditSoFar, ReleaseSteps, Line
<1>3. CASE Begin(c)
  BY <1>3 DEF Begin, ClearAudit
<1>4. CASE Request(c)
  BY <1>4 DEF Request, PublishRequest
<1>5. CASE Denied(c)
  <2>1. Filed(memory')
    BY <1>5, PublishFiled DEF Denied, EventTypes
  <2>2. audit' = <<Line("deny", c)>>
    BY <1>5, OneLine DEF Denied, Publish, AuditHandler
  <2>3. QED BY <1>5, <2>1, <2>2 DEF Denied, Publish
<1>6. CASE Fail(c, "denied", "denied")
  <2>1. Filed(memory')
    BY <1>6, PublishFiled DEF Fail, EventTypes
  <2>2. audit' = <<Line("deny", c), Line("failed", c)>>
    <3>1. audit = <<Line("deny", c)>> /\ audit' = Append(audit, Line("failed", c))
      BY <1>6 DEF Fail, Publish, AuditHandler
    <3>2. QED BY <3>1, TwoLines
  <2>3. outcome'[c] = "denied" /\ goal' = goal /\ pc'[c] = "recordFailure"
    BY <1>6 DEF Fail
  <2>4. audit' = AuditOf(c)'
    BY <2>2, <2>3 DEF AuditOf
  <2>5. QED BY <1>6, <2>1, <2>3, <2>4 DEF Fail, Publish
<1>7. CASE Fail(c, "refused", "stopped")
  <2>1. Filed(memory')
    BY <1>7, PublishFiled DEF Fail, EventTypes
  <2>2. audit' = <<Line("failed", c)>>
    BY <1>7, OneLine DEF Fail, Publish, AuditHandler
  <2>3. outcome'[c] = "stopped" /\ goal' = goal /\ pc'[c] = "recordFailure"
    BY <1>7 DEF Fail
  <2>4. audit' = AuditOf(c)'
    BY <2>2, <2>3 DEF AuditOf
  <2>5. QED BY <1>7, <2>1, <2>3, <2>4 DEF Fail, Publish
<1>8. CASE RecordFailure(c)
  <2>1. audit = AuditOf(c) /\ outcome[c] \in {"denied", "stopped"}
    BY <1>8 DEF RecordFailure
  <2>2. \A i \in 1..Len(audit) : audit[i].about = goal[c]
    <3>1. CASE outcome[c] = "denied"
      <4>1. audit = <<Line("deny", c), Line("failed", c)>>
        BY <2>1, <3>1 DEF AuditOf
      <4>2. QED BY <4>1
    <3>2. CASE outcome[c] = "stopped"
      <4>1. audit = <<Line("failed", c)>>
        BY <2>1, <3>2 DEF AuditOf
      <4>2. QED BY <4>1
    <3>3. QED BY <2>1, <3>1, <3>2
  <2>3. Filed(memory')
    BY <1>8, <2>2, ProcessFiled DEF RecordFailure
  <2>4. /\ pc'[c] = "return" /\ goal' = goal /\ outcome' = outcome
        /\ audit' = audit /\ activeGoal' = activeGoal
    BY <1>8 DEF RecordFailure, ProcessAuditLog
  <2>5. audit' = AuditOf(c)'
    BY <2>1, <2>4 DEF AuditOf
  <2>6. QED BY <1>8, <2>3, <2>4, <2>5 DEF RecordFailure
<1>9. CASE Plan(c)
  <2>1. Filed(memory')
    BY <1>9, PublishFiled DEF Plan, EventTypes
  <2>2. audit' = <<Line("planned", c)>>
    BY <1>9, OneLine DEF Plan, Publish, AuditHandler
  <2>3. QED BY <1>9, <2>1, <2>2 DEF Plan, Publish
<1>10. CASE Answer(c)
  <2>1. Filed(memory')
    BY <1>10, PublishFiled DEF Answer, EventTypes
  <2>2. audit' = <<Line("planned", c), Line("finish", c)>>
    <3>1. audit = <<Line("planned", c)>> /\ audit' = Append(audit, Line("finish", c))
      BY <1>10 DEF Answer, Publish, AuditHandler
    <3>2. QED BY <3>1, TwoLines
  <2>3. QED BY <1>10, <2>1, <2>2 DEF Answer, Publish
<1>11. CASE Record(c)
  <2>1. \A i \in 1..Len(audit) : audit[i].about = goal[c]
    BY <1>11 DEF Record
  <2>2. Filed(memory')
    BY <1>11, <2>1, ProcessFiled DEF Record
  <2>3. QED BY <1>11, <2>2 DEF Record, ProcessAuditLog
<1>12. QED BY <1>3, <1>4, <1>5, <1>6, <1>7, <1>8, <1>9, <1>10, <1>11

\* The steps of a call that leave the journal alone.
LEMMA JournalKeptStep ==
  ASSUME ~Threads, Typed, OneAtATime, JournalInv, NEW c \in Callers,
         \/ Governed(c) \/ Gate(c) \/ Find(c) \/ FindNothing(c) \/ WriteTask(c)
         \/ WriteStatus(c) \/ Scheduled(c) \/ ReleaseAll(c) \/ SyncGoal(c)
         \/ SyncTasks(c) \/ Return(c)
  PROVE  JournalInv'
<1>1. \A d \in Callers : d # c => pc'[d] = "idle"
  BY OthersWait DEF CallerStep
<1>2. c \in Actors
  BY DEF Actors
<1> USE <1>1, <1>2 DEF Typed, TypeOK, Goto, callVars, journalVars, JournalInv, GoalKnown,
        AuditSoFar, ReleaseSteps, Line
<1>3. CASE Governed(c) \/ Gate(c) \/ Find(c) \/ FindNothing(c)
  <2>1. CASE Governed(c)
    BY <2>1 DEF Governed
  <2>2. CASE Gate(c)
    BY <2>2 DEF Gate
  <2>3. CASE Find(c)
    BY <2>3 DEF Find
  <2>4. CASE FindNothing(c)
    BY <2>4 DEF FindNothing
  <2>5. QED BY <1>3, <2>1, <2>2, <2>3, <2>4
<1>4. CASE WriteTask(c) \/ WriteStatus(c) \/ Scheduled(c) \/ SyncGoal(c)
  BY <1>4 DEF WriteTask, WriteStatus, Scheduled, SyncGoal
<1>5. CASE ReleaseAll(c)
  BY <1>5 DEF ReleaseAll, SkipWorker, FoundBusy, ClearTask, ClearStatus, Released,
              AfterRelease
<1>6. CASE SyncTasks(c)
  <2>1. outcome'[c] \in {"partial", "complete"} /\ goal' = goal /\ audit' = audit
    BY <1>6 DEF SyncTasks
  <2>2. audit' = AuditOf(c)'
    BY <1>6, <2>1 DEF SyncTasks, AuditOf
  <2>3. QED BY <1>6, <2>1, <2>2 DEF SyncTasks
<1>7. CASE Return(c)
  BY <1>7 DEF Return
<1>8. QED BY <1>3, <1>4, <1>5, <1>6, <1>7

\* While an operator is at work no caller is, and nothing is written down.
LEMMA JournalOperatorStep ==
  ASSUME ~Threads, Typed, OneAtATime, JournalInv, NEW o \in Operators,
         Stop(o) \/ Resume(o) \/ OperatorStep(o)
  PROVE  JournalInv'
<1> USE DEF Typed, TypeOK, Goto
<1>1. o \in Actors /\ Callers \subseteq Actors /\ o \notin Callers
  BY ActorsAssumption DEF Actors
<1>2. UNCHANGED memory
  BY DEF Stop, Resume, OperatorStep, StopReason, ResumeReason, ReleaseAll, SkipWorker,
         FoundBusy, ClearTask, ClearStatus, Released, journalVars
<1>3. \A c \in Callers : pc[c] = "idle"
  BY <1>1, OthersIdle
     DEF Stop, Resume, MayStart, Quiet, OperatorStep, StopReason, ResumeReason, ReleaseAll,
         SkipWorker, FoundBusy, ClearTask, ClearStatus, Released
<1>4. \A c \in Callers : pc'[c] = "idle"
  BY <1>1, <1>3
     DEF Stop, Resume, OperatorStep, StopReason, ResumeReason, ReleaseAll, SkipWorker,
         FoundBusy, ClearTask, ClearStatus, Released
<1>5. QED BY <1>2, <1>4 DEF JournalInv, GoalKnown, AuditSoFar, ReleaseSteps

LEMMA JournalStep ==
  ~Threads /\ Typed /\ OneAtATime /\ JournalInv /\ [Next]_vars => JournalInv'
<1> SUFFICES ASSUME ~Threads, Typed, OneAtATime, JournalInv, [Next]_vars PROVE JournalInv'
  OBVIOUS
<1>1. CASE UNCHANGED vars
  BY <1>1 DEF vars, callVars, journalVars, JournalInv, GoalKnown, AuditSoFar, Line, AuditOf
<1>2. ASSUME NEW c \in Callers, Begin(c) \/ CallerStep(c) PROVE JournalInv'
  BY <1>2, JournalWriteStep, JournalKeptStep DEF CallerStep
<1>3. ASSUME NEW o \in Operators, Stop(o) \/ Resume(o) \/ OperatorStep(o) PROVE JournalInv'
  BY <1>3, JournalOperatorStep
<1>4. CASE ModelsChange
  BY <1>4 DEF ModelsChange, callVars, journalVars, JournalInv, GoalKnown, AuditSoFar, Line,
              AuditOf
<1>5. QED BY <1>1, <1>2, <1>3, <1>4 DEF Next

\* Served one at a time, every memory a query finds is about the goal asked for and
\* every call returns its own audit, whatever was served before it.
THEOREM SerialJournal == ASSUME ~Threads PROVE Spec => []JournalOfOneCall
<1>1. Init => JournalInv
  BY EmptySeq DEF Init, JournalInit, JournalInv, Filed, GoalKnown, AuditSoFar, Actors,
                  ReleaseSteps
<1>2. SerialInv /\ JournalInv /\ [Next]_vars => JournalInv'
  BY JournalStep DEF SerialInv
<1>3. JournalInv => JournalOfOneCall
  BY DEF JournalInv, Filed, AuditSoFar, JournalOfOneCall, MemoryAttribution, QueryByGoal,
         AuditOfOneCall
<1>4. QED BY <1>1, <1>2, <1>3, SerialAlways, PTL DEF Spec

-----------------------------------------------------------------------------
(* The health report: between calls, what six components have kept apart   *)
(* agrees.                                                                 *)

ReasonInv ==
  /\ \A o \in Operators : /\ pc[o] = "stopReason" => stopped
                          /\ pc[o] = "resumeReason" => ~stopped
  /\ (\A o \in Operators : pc[o] \notin {"stopReason", "resumeReason"}) =>
       (stopped <=> reason # NoReason)

ShownInv ==
  /\ \A c \in Callers : pc[c] = "syncTasks" => currentGoal = goal[c]
  /\ (\A c \in Callers : pc[c] # "syncTasks") =>
       IF currentGoal = NoGoal THEN activeTasks = 0
       ELSE activeTasks = Len(PlanOf[currentGoal])

\* The memory has n entries, or as many as fit.
Holds(m, n) == Len(m) >= IF MemoryCap < n THEN MemoryCap ELSE n
Ago(m, k) == m[Len(m) - k].type
Newest(m, type) == Len(m) > 0 /\ Ago(m, 0) = type
\* Among the newest entries two are failures, or two are successes.
Twice(m) == \E k, l \in 0..3 : /\ k < l /\ l < Len(m)
                               /\ Ago(m, k) = Ago(m, l) /\ Ago(m, k) \in {"failure", "success"}
Settled == {"idle", "syncGoal", "syncTasks", "return"} \cup ReleaseSteps

MemoryInv ==
  /\ currentGoal # NoGoal => Holds(memory, 4)
  /\ \A c \in Callers :
       /\ pc[c] \in {"find", "assignTask", "assignStatus", "answer"} => Holds(memory, 1)
       /\ pc[c] = "record" => Holds(memory, 2)
       /\ pc[c] \in {"syncGoal", "syncTasks"} \cup ReleaseSteps => Holds(memory, 4)
  /\ MemoryCap >= 4 =>
       /\ \A c \in Callers : /\ pc[c] = "recordFailure" => Newest(memory, "failure")
                             /\ pc[c] = "record" => Newest(memory, "success")
       /\ (\A c \in Callers : pc[c] \in Settled) => Len(memory) = 0 \/ Twice(memory)

\* The deque keeps the newest entries where they were, counted from the end.
LEMMA BoundedTail ==
  ASSUME NEW m \in Seq(MemoryEntry)
  PROVE  /\ Len(Bounded(m)) = IF Len(m) <= MemoryCap THEN Len(m) ELSE MemoryCap
         /\ \A k \in Nat : k < Len(Bounded(m)) =>
              Bounded(m)[Len(Bounded(m)) - k] = m[Len(m) - k]
<1>1. MemoryCap \in Nat /\ Len(m) \in Nat
  BY MemoryCapAssumption, LenProperties
<1>2. CASE Len(m) <= MemoryCap
  BY <1>1, <1>2 DEF Bounded
<1>3. CASE ~(Len(m) <= MemoryCap)
  <2>1. Bounded(m) = SubSeq(m, Len(m) - MemoryCap + 1, Len(m))
    BY <1>3 DEF Bounded
  <2>2. CASE MemoryCap = 0
    <3>1. Bounded(m) = <<>>
      BY <1>1, <1>3, <2>1, <2>2, SubSeqEmpty
    <3>2. Len(Bounded(m)) = 0
      BY <3>1, EmptySeq
    <3>3. QED BY <1>3, <2>2, <3>2
  <2>3. CASE MemoryCap > 0
    <3>1. PICK n \in Nat : n = Len(m) - MemoryCap
      BY <1>1, <1>3
    <3>2. n + 1 \in 1..Len(m) + 1 /\ Len(m) \in n..Len(m) /\ Len(m) = n + MemoryCap
      BY <1>1, <1>3, <2>3, <3>1
    <3>3. /\ Len(SubSeq(m, n + 1, Len(m))) = MemoryCap
          /\ \A i \in 1..MemoryCap : SubSeq(m, n + 1, Len(m))[i] = m[n + i]
      BY <1>1, <1>3, <2>3, <3>2, SubSeqProperties
    <3>4. Bounded(m) = SubSeq(m, n + 1, Len(m))
      BY <2>1, <3>1
    <3>5. ASSUME NEW k \in Nat, k < MemoryCap
          PROVE  MemoryCap - k \in 1..MemoryCap /\ n + (MemoryCap - k) = Len(m) - k
      BY <1>1, <3>2, <3>5
    <3>6. QED BY <1>3, <3>3, <3>4, <3>5
  <2>4. QED BY <1>1, <2>2, <2>3
<1>4. QED BY <1>2, <1>3

\* An event is the newest entry.
LEMMA PublishTail ==
  ASSUME JournalTypeOK, NEW e \in EventTypes, NEW g \in Goals, Publish(e, g)
  PROVE  /\ Len(memory') = IF Len(memory) + 1 <= MemoryCap THEN Len(memory) + 1 ELSE MemoryCap
         /\ MemoryCap >= 4 => Newest(memory', MemoryType[e])
<1>1. PICK entry : entry = [type |-> MemoryType[e], goal |-> activeGoal, about |-> g]
  OBVIOUS
<1>2. entry \in MemoryEntry /\ entry.type = MemoryType[e]
  BY <1>1 DEF MemoryEntry, MemoryType, EventTypes, JournalTypeOK
<1>3. memory \in Seq(MemoryEntry) /\ Len(memory) \in Nat /\ MemoryCap \in Nat
  BY MemoryCapAssumption, LenProperties DEF JournalTypeOK
<1>4. PICK m : m = Append(memory, entry)
  OBVIOUS
<1>5. m \in Seq(MemoryEntry) /\ Len(m) = Len(memory) + 1 /\ m[Len(m)] = entry
  BY <1>2, <1>3, <1>4, AppendProperties
<1>6. memory' = Bounded(m)
  BY <1>1, <1>4 DEF Publish, Remember
<1>7. Len(memory') = IF Len(memory) + 1 <= MemoryCap THEN Len(memory) + 1 ELSE MemoryCap
  BY <1>5, <1>6, BoundedTail
<1>8. ASSUME MemoryCap >= 4 PROVE Newest(memory', MemoryType[e])
  <2>1. 0 < Len(memory') /\ Len(memory') \in Nat
    BY <1>3, <1>7, <1>8
  <2>2. memory'[Len(memory') - 0] = m[Len(m) - 0] /\ Len(m) - 0 = Len(m)
    BY <1>3, <1>5, <1>6, <2>1, BoundedTail
  <2>3. QED BY <1>2, <1>5, <2>1, <2>2 DEF Newest, Ago
<1>9. QED BY <1>7, <1>8

\* What the audit list adds comes after what was there.
LEMMA ProcessTail ==
  ASSUME JournalTypeOK, NEW g \in Goals, ProcessAuditLog(g), NEW n \in Nat, Len(audit) = n
  PROVE  /\ Len(memory') = IF Len(memory) + n <= MemoryCap THEN Len(memory) + n ELSE MemoryCap
         /\ \A k \in Nat : k < Len(memory') =>
              IF k < n THEN Ago(memory', k) = MemoryType[audit[n - k].type]
              ELSE Ago(memory', k) = Ago(memory, k - n) /\ k - n \in Nat /\ k - n < Len(memory)
<1>1. \A i \in 1..n :
        [type |-> MemoryType[audit[i].type], goal |-> g, about |-> audit[i].about] \in MemoryEntry
  <2>1. SUFFICES ASSUME NEW i \in 1..n
                 PROVE  [type |-> MemoryType[audit[i].type], goal |-> g,
                         about |-> audit[i].about] \in MemoryEntry
    OBVIOUS
  <2>2. audit[i] \in AuditEntry
    BY ElementOfSeq DEF JournalTypeOK
  <2>3. QED BY <2>2 DEF AuditEntry, MemoryEntry, MemoryType, EventTypes
<1>2. PICK x : x = Extracted(g)
  OBVIOUS
<1>3. /\ x \in Seq(MemoryEntry) /\ Len(x) = n
      /\ \A i \in 1..n : x[i].type = MemoryType[audit[i].type]
  BY <1>1, <1>2 DEF Extracted
<1>4. memory \in Seq(MemoryEntry) /\ Len(memory) \in Nat /\ MemoryCap \in Nat
  BY MemoryCapAssumption, LenProperties DEF JournalTypeOK
<1>5. PICK m : m = memory \o x
  OBVIOUS
<1>6. /\ m \in Seq(MemoryEntry) /\ Len(m) = Len(memory) + n
      /\ \A i \in 1..Len(m) : m[i] = IF i <= Len(memory) THEN memory[i] ELSE x[i - Len(memory)]
  <2>1. /\ m \in Seq(MemoryEntry) /\ Len(m) = Len(memory) + Len(x)
        /\ \A i \in 1..Len(memory) + Len(x) :
             m[i] = IF i <= Len(memory) THEN memory[i] ELSE x[i - Len(memory)]
    BY <1>3, <1>4, <1>5, ConcatProperties, Zenon
  <2>2. QED BY <1>3, <2>1
<1>7. memory' = Bounded(m)
  BY <1>2, <1>5 DEF ProcessAuditLog
<1>8. Len(memory') = IF Len(memory) + n <= MemoryCap THEN Len(memory) + n ELSE MemoryCap
  BY <1>6, <1>7, BoundedTail
<1>9. ASSUME NEW k \in Nat, k < Len(memory')
      PROVE  IF k < n THEN Ago(memory', k) = MemoryType[audit[n - k].type]
             ELSE Ago(memory', k) = Ago(memory, k - n) /\ k - n \in Nat /\ k - n < Len(memory)
  <2>1. memory'[Len(memory') - k] = m[Len(m) - k]
    BY <1>6, <1>7, <1>9, BoundedTail
  <2>2. k < Len(memory) + n
    BY <1>4, <1>8, <1>9
  <2>3. CASE k < n
    <3>1. /\ Len(m) - k \in 1..Len(m) /\ ~(Len(m) - k <= Len(memory))
          /\ Len(m) - k - Len(memory) = n - k /\ n - k \in 1..n
      BY <1>4, <1>6, <2>3
    <3>2. m[Len(m) - k] = x[n - k]
      BY <1>6, <3>1
    <3>3. QED BY <1>3, <2>1, <2>3, <3>1, <3>2 DEF Ago
  <2>4. CASE ~(k < n)
    <3>1. /\ Len(m) - k \in 1..Len(m) /\ Len(m) - k <= Len(memory)
          /\ Len(m) - k = Len(memory) - (k - n) /\ k - n \in Nat /\ k - n < Len(memory)
      BY <1>4, <1>6, <2>2, <2>4
    <3>2. m[Len(m) - k] = memory[Len(memory) - (k - n)]
      BY <1>6, <3>1
    <3>3. QED BY <2>1, <2>4, <3>1, <3>2 DEF Ago
  <2>5. QED BY <2>3, <2>4
<1>10. QED BY <1>8, <1>9

\* The stop and its reason are two writes of one operator, with nobody between.
LEMMA ReasonStep ==
  ~Threads /\ NoReason \notin Reasons /\ Typed /\ OneAtATime /\ ReasonInv /\ [Next]_vars => ReasonInv'
<1> SUFFICES ASSUME ~Threads, NoReason \notin Reasons, Typed, OneAtATime, ReasonInv, [Next]_vars
             PROVE  ReasonInv'
  OBVIOUS
<1>1. pc \in [Actors -> {"idle"} \cup CallerSteps \cup OperatorSteps \cup ReleaseSteps]
  BY DEF Typed, TypeOK
<1>2. Operators \subseteq Actors /\ \A c \in Callers : c \in Actors /\ c \notin Operators
  BY ActorsAssumption DEF Actors
<1>3. ASSUME UNCHANGED <<stopped, reason>>, \A o \in Operators : pc'[o] = pc[o] PROVE ReasonInv'
  BY <1>3 DEF ReasonInv
<1>4. ASSUME NEW c \in Callers, Begin(c) \/ CallerStep(c) PROVE ReasonInv'
  <2>1. UNCHANGED stopVars /\ \A o \in Operators : pc'[o] = pc[o]
    BY <1>1, <1>2, <1>4
       DEF Begin, CallerStep, Request, Governed, Denied, Gate, Fail, RecordFailure, Plan, Find,
           FindNothing, WriteTask, WriteStatus, Scheduled, Answer, Record, ReleaseAll,
           SkipWorker, FoundBusy, ClearTask, ClearStatus, Released, SyncGoal, SyncTasks,
           Return, Goto
  <2>2. QED BY <1>3, <2>1 DEF stopVars
<1>5. ASSUME NEW o \in Operators, Stop(o) \/ Resume(o) PROVE ReasonInv'
  BY <1>1, <1>2, <1>5 DEF Stop, Resume, MayStart, Quiet, Goto, ReasonInv
<1>6. ASSUME NEW o \in Operators, StopReason(o) \/ ResumeReason(o) PROVE ReasonInv'
  <2>1. pc[o] # "idle"
    BY <1>6 DEF StopReason, ResumeReason, Goto
  <2>2. \A q \in Operators : q # o => pc[q] = "idle"
    BY <1>2, <2>1, OthersIdle
  <2>3. QED BY <1>1, <1>2, <1>6, <2>2 DEF StopReason, ResumeReason, Goto, ReasonInv
<1>7. ASSUME NEW o \in Operators, ReleaseAll(o) PROVE ReasonInv'
  <2>1. /\ pc[o] \notin {"stopReason", "resumeReason"} /\ pc'[o] \notin {"stopReason", "resumeReason"}
        /\ \A q \in Operators : q # o => pc'[q] = pc[q]
        /\ UNCHANGED stopVars
    BY <1>1, <1>2, <1>7 DEF ReleaseAll, SkipWorker, FoundBusy, ClearTask, ClearStatus, Released,
                            AfterRelease, Goto
  <2>2. QED BY <2>1 DEF ReasonInv, stopVars
<1>8. CASE ModelsChange \/ UNCHANGED vars
  BY <1>3, <1>8 DEF ModelsChange, vars, stopVars
<1>9. QED BY <1>4, <1>5, <1>6, <1>7, <1>8 DEF Next, OperatorStep

LEMMA ShownStep ==
  ~Threads /\ Typed /\ OneAtATime /\ ShownInv /\ [Next]_vars => ShownInv'
<1> SUFFICES ASSUME ~Threads, Typed, OneAtATime, ShownInv, [Next]_vars PROVE ShownInv'
  OBVIOUS
<1>1. pc \in [Actors -> {"idle"} \cup CallerSteps \cup OperatorSteps \cup ReleaseSteps]
  BY DEF Typed, TypeOK
<1>2. Callers \subseteq Actors /\ \A o \in Operators : o \in Actors /\ o \notin Callers
  BY ActorsAssumption DEF Actors
<1>3. ASSUME NEW c \in Callers, Begin(c) \/ CallerStep(c) PROVE ShownInv'
  <2>1. \A d \in Callers : d # c => pc'[d] = "idle"
    BY <1>3, OthersWait
  <2>2. \A d \in Callers : d # c => pc[d] # "syncTasks"
    <3>1. CASE Begin(c)
      BY <1>2, <3>1 DEF Begin, MayStart, Quiet
    <3>2. CASE CallerStep(c)
      <4>1. pc[c] # "idle"
        BY <3>2 DEF CallerStep, Request, Governed, Denied, Gate, Fail, RecordFailure, Plan, Find,
           FindNothing, WriteTask, WriteStatus, Scheduled, Answer, Record, ReleaseAll,
           SkipWorker, FoundBusy, ClearTask, ClearStatus, Released, SyncGoal, SyncTasks,
           Return, Goto
      <4>2. QED BY <1>2, <4>1, OthersIdle
    <3>3. QED BY <1>3, <3>1, <3>2
  <2>3. CASE SyncGoal(c)
    BY <1>1, <1>2, <2>1, <2>3 DEF SyncGoal, Goto, ShownInv, callVars
  <2>4. CASE SyncTasks(c)
    <3>1. pc[c] = "syncTasks" /\ pc'[c] = "return" /\ currentGoal' = currentGoal
            /\ activeTasks' = Len(PlanOf[goal[c]])
      BY <1>1, <1>2, <2>4 DEF SyncTasks, Goto
    <3>2. currentGoal = goal[c] /\ goal[c] \in Goals /\ goal[c] # NoGoal
      BY <3>1, GoalAssumption DEF ShownInv, Typed, HandlerInv
    <3>3. \A d \in Callers : pc'[d] # "syncTasks"
      BY <2>1, <3>1
    <3>4. QED BY <3>1, <3>2, <3>3 DEF ShownInv
  <2>5. CASE ~SyncGoal(c) /\ ~SyncTasks(c)
    <3>1. UNCHANGED <<currentGoal, activeTasks>> /\ pc[c] # "syncTasks" /\ pc'[c] # "syncTasks"
      BY <1>1, <1>2, <1>3, <2>5
         DEF Begin, CallerStep, Request, Governed, Denied, Gate, Fail, RecordFailure, Plan, Find,
             FindNothing, WriteTask, WriteStatus, Scheduled, Answer, Record, ReleaseAll,
             SkipWorker, FoundBusy, ClearTask, ClearStatus, Released, AfterRelease,
             Return, Goto, stateVars
    <3>2. (\A d \in Callers : pc[d] # "syncTasks") /\ (\A d \in Callers : pc'[d] # "syncTasks")
      BY <2>1, <2>2, <3>1
    <3>3. QED BY <3>1, <3>2 DEF ShownInv
  <2>6. QED BY <2>3, <2>4, <2>5
<1>4. ASSUME NEW o \in Operators, Stop(o) \/ Resume(o) \/ OperatorStep(o) PROVE ShownInv'
  <2>1. UNCHANGED <<currentGoal, activeTasks, goal>> /\ \A c \in Callers : pc'[c] = pc[c]
    BY <1>1, <1>2, <1>4
       DEF Stop, Resume, OperatorStep, StopReason, ResumeReason, ReleaseAll, SkipWorker,
           FoundBusy, ClearTask, ClearStatus, Released, Goto, stateVars, callVars
  <2>2. QED BY <2>1 DEF ShownInv
<1>5. CASE ModelsChange \/ UNCHANGED vars
  BY <1>5 DEF ModelsChange, vars, stateVars, callVars, ShownInv
<1>6. QED BY <1>3, <1>4, <1>5 DEF Next

\* The steps of a call that write the memory.
LEMMA MemoryWriteStep ==
  ASSUME ~Threads, Typed, OneAtATime, JournalInv, MemoryInv, NEW c \in Callers,
         \/ Denied(c) \/ Fail(c, "denied", "denied") \/ Fail(c, "refused", "stopped")
         \/ RecordFailure(c) \/ Plan(c) \/ Answer(c) \/ Record(c)
  PROVE  MemoryInv'
<1>1. \A d \in Callers : d # c => pc'[d] = "idle"
  BY OthersWait DEF CallerStep
<1>2. c \in Actors /\ JournalTypeOK /\ Len(memory) \in Nat /\ MemoryCap \in Nat
  BY MemoryCapAssumption, LenProperties DEF Actors, Typed, TypeOK, JournalTypeOK
<1>3. pc \in [Actors -> {"idle"} \cup CallerSteps \cup OperatorSteps \cup ReleaseSteps]
  BY DEF Typed, TypeOK
<1>4. goal[c] \in Goals
  BY DEF Typed, HandlerInv, Denied, Fail, RecordFailure, Plan, Answer, Record, Goto
<1>5. currentGoal' = currentGoal
  BY DEF Denied, Fail, RecordFailure, Plan, Answer, Record, stateVars
<1>6. ASSUME NEW e \in EventTypes, Publish(e, goal[c])
      PROVE  /\ Len(memory') = IF Len(memory) + 1 <= MemoryCap THEN Len(memory) + 1 ELSE MemoryCap
             /\ MemoryCap >= 4 => Newest(memory', MemoryType[e])
             /\ \A n \in Nat : Holds(memory, n) => Holds(memory', n + 1)
             /\ Holds(memory, 4) => Holds(memory', 4)
  <2>1. /\ Len(memory') = IF Len(memory) + 1 <= MemoryCap THEN Len(memory) + 1 ELSE MemoryCap
        /\ MemoryCap >= 4 => Newest(memory', MemoryType[e])
    BY <1>2, <1>4, <1>6, PublishTail
  <2>2. QED BY <1>2, <2>1 DEF Holds
<1>7. CASE Denied(c)
  <2>1. Publish("deny", goal[c]) /\ pc'[c] = "denied" /\ "deny" \in EventTypes
    BY <1>2, <1>3, <1>7 DEF Denied, Goto, EventTypes
  <2>2. QED BY <1>1, <1>5, <1>6, <2>1 DEF MemoryInv, Settled, ReleaseSteps
<1>8. CASE Fail(c, "denied", "denied") \/ Fail(c, "refused", "stopped")
  <2>1. Publish("failed", goal[c]) /\ pc'[c] = "recordFailure" /\ "failed" \in EventTypes
          /\ MemoryType["failed"] = "failure"
    BY <1>2, <1>3, <1>8 DEF Fail, Goto, EventTypes, MemoryType
  <2>2. QED BY <1>1, <1>5, <1>6, <2>1 DEF MemoryInv, Settled, ReleaseSteps
<1>9. CASE Plan(c)
  <2>1. Publish("planned", goal[c]) /\ pc'[c] = "find" /\ "planned" \in EventTypes
    BY <1>2, <1>3, <1>9 DEF Plan, Goto, EventTypes
  <2>2. Holds(memory', 1)
    <3>1. Holds(memory, 0) /\ 0 \in Nat /\ 0 + 1 = 1
      BY <1>2 DEF Holds
    <3>2. QED BY <1>6, <2>1, <3>1
  <2>3. QED BY <1>1, <1>5, <1>6, <2>1, <2>2 DEF MemoryInv, Settled, ReleaseSteps
<1>10. CASE Answer(c)
  <2>1. Publish("finish", goal[c]) /\ pc[c] = "answer" /\ pc'[c] = "record" /\ "finish" \in EventTypes
          /\ MemoryType["finish"] = "success"
    BY <1>2, <1>3, <1>10 DEF Answer, Goto, EventTypes, MemoryType
  <2>2. Holds(memory', 2)
    <3>1. Holds(memory, 1) /\ 1 \in Nat /\ 1 + 1 = 2
      BY <2>1 DEF MemoryInv
    <3>2. QED BY <1>6, <2>1, <3>1
  <2>3. QED BY <1>1, <1>5, <1>6, <2>1, <2>2 DEF MemoryInv, Settled, ReleaseSteps
<1>11. CASE Record(c)
  <2>1. /\ ProcessAuditLog(goal[c]) /\ pc[c] = "record" /\ pc'[c] = "release"
        /\ audit = <<Line("planned", c), Line("finish", c)>>
    BY <1>2, <1>3, <1>11 DEF Record, Goto, JournalInv, AuditSoFar
  <2>2. Len(audit) = 2 /\ audit[2].type = "finish" /\ MemoryType["finish"] = "success"
    BY <2>1 DEF Line, MemoryType
  <2>3. /\ Len(memory') = IF Len(memory) + 2 <= MemoryCap THEN Len(memory) + 2 ELSE MemoryCap
        /\ \A k \in Nat : k < Len(memory') =>
             IF k < 2 THEN Ago(memory', k) = MemoryType[audit[2 - k].type]
             ELSE Ago(memory', k) = Ago(memory, k - 2) /\ k - 2 \in Nat /\ k - 2 < Len(memory)
    BY <1>2, <1>4, <2>1, <2>2, ProcessTail
  <2>4. Holds(memory', 4)
    BY <1>2, <2>1, <2>3 DEF MemoryInv, Holds
  <2>5. ASSUME MemoryCap >= 4 PROVE Twice(memory')
    <3>1. Newest(memory, "success")
      BY <2>1, <2>5 DEF MemoryInv
    <3>2. 0 < Len(memory') /\ 2 < Len(memory')
      BY <1>2, <2>3, <2>5, <3>1 DEF Newest
    <3>3. Ago(memory', 0) = MemoryType[audit[2 - 0].type] /\ Ago(memory', 2) = Ago(memory, 2 - 2)
      BY <2>3, <3>2
    <3>4. Ago(memory', 0) = "success" /\ Ago(memory', 2) = "success"
      BY <2>2, <3>1, <3>3 DEF Newest
    <3>5. QED BY <3>2, <3>4 DEF Twice
  <2>6. QED BY <1>1, <2>1, <2>4, <2>5 DEF MemoryInv
<1>12. CASE RecordFailure(c)
  <2>1. /\ ProcessAuditLog(goal[c]) /\ pc[c] = "recordFailure" /\ pc'[c] = "return"
        /\ audit = AuditOf(c) /\ outcome[c] \in {"denied", "stopped"}
    BY <1>2, <1>3, <1>12 DEF RecordFailure, Goto, JournalInv, AuditSoFar
  <2>2. PICK n \in {1, 2} : Len(audit) = n /\ audit[n].type = "failed"
    <3>1. CASE outcome[c] = "denied"
      <4>1. audit = <<Line("deny", c), Line("failed", c)>>
        BY <2>1, <3>1 DEF AuditOf, Line
      <4>2. Len(audit) = 2 /\ audit[2].type = "failed"
        BY <4>1 DEF Line
      <4>3. QED BY <4>2
    <3>2. CASE outcome[c] = "stopped"
      <4>1. audit = <<Line("failed", c)>>
        BY <2>1, <3>2 DEF AuditOf, Line
      <4>2. Len(audit) = 1 /\ audit[1].type = "failed"
        BY <4>1 DEF Line
      <4>3. QED BY <4>2
    <3>3. QED BY <2>1, <3>1, <3>2
  <2>3. n \in Nat /\ MemoryType["failed"] = "failure"
    BY DEF MemoryType
  <2>4. /\ Len(memory') = IF Len(memory) + n <= MemoryCap THEN Len(memory) + n ELSE MemoryCap
        /\ \A k \in Nat : k < Len(memory') =>
             IF k < n THEN Ago(memory', k) = MemoryType[audit[n - k].type]
             ELSE Ago(memory', k) = Ago(memory, k - n) /\ k - n \in Nat /\ k - n < Len(memory)
    BY <1>2, <1>4, <2>1, <2>2, <2>3, ProcessTail
  <2>5. Holds(memory, 4) => Holds(memory', 4)
    BY <1>2, <2>2, <2>3, <2>4 DEF Holds
  <2>6. ASSUME MemoryCap >= 4 PROVE Twice(memory')
    <3>1. Newest(memory, "failure")
      BY <2>1, <2>6 DEF MemoryInv
    <3>2. 0 < Len(memory') /\ n < Len(memory')
      BY <1>2, <2>2, <2>4, <2>6, <3>1 DEF Newest
    <3>3. 0 < n /\ n - 0 = n /\ n - n = 0 /\ ~(n < n)
      BY <2>2
    <3>4. Ago(memory', 0) = MemoryType[audit[n - 0].type] /\ Ago(memory', n) = Ago(memory, n - n)
      BY <2>3, <2>4, <3>2, <3>3
    <3>5. Ago(memory', 0) = "failure" /\ Ago(memory', n) = "failure"
      BY <2>2, <2>3, <3>1, <3>3, <3>4 DEF Newest
    <3>6. QED BY <2>2, <3>2, <3>3, <3>5 DEF Twice
  <2>7. QED BY <1>1, <1>5, <2>1, <2>5, <2>6 DEF MemoryInv, ReleaseSteps
<1>13. QED BY <1>7, <1>8, <1>9, <1>10, <1>11, <1>12

\* The steps of a call that leave the memory alone.
LEMMA MemoryKeptStep ==
  ASSUME ~Threads, Typed, OneAtATime, MemoryInv, NEW c \in Callers,
         \/ Begin(c) \/ Request(c) \/ Governed(c) \/ Gate(c) \/ Find(c) \/ FindNothing(c)
         \/ WriteTask(c) \/ WriteStatus(c) \/ Scheduled(c) \/ ReleaseAll(c) \/ SyncGoal(c)
         \/ SyncTasks(c) \/ Return(c)
  PROVE  MemoryInv'
<1>1. \A d \in Callers : d # c => pc'[d] = "idle"
  BY OthersWait DEF CallerStep
<1>2. c \in Actors
  BY DEF Actors
<1>3. pc \in [Actors -> {"idle"} \cup CallerSteps \cup OperatorSteps \cup ReleaseSteps]
  BY DEF Typed, TypeOK
<1>4. memory' = memory
  BY DEF Begin, ClearAudit, Request, PublishRequest, Governed, Gate, Find, FindNothing, WriteTask,
         WriteStatus, Scheduled, ReleaseAll, SkipWorker, FoundBusy, ClearTask, ClearStatus, Released,
         SyncGoal, SyncTasks, Return, journalVars
<1>5. \A d \in Callers : d # c => pc[d] = "idle"
  <2>1. CASE Begin(c)
    BY <2>1 DEF Begin, MayStart, Quiet, Actors
  <2>2. CASE ~Begin(c)
    <3>1. pc[c] # "idle"
      BY <2>2 DEF Request, Governed, Gate, Find, FindNothing, WriteTask,
         WriteStatus, Scheduled, ReleaseAll, SkipWorker, FoundBusy, ClearTask, ClearStatus, Released,
         SyncGoal, SyncTasks, Return, Goto
    <3>2. QED BY <3>1, OthersIdle DEF Actors
  <2>3. QED BY <2>1, <2>2
<1> USE DEF MemoryInv, Settled, ReleaseSteps, Goto
<1>6. CASE Begin(c) \/ Request(c) \/ Governed(c) \/ Gate(c)
  <2>1. pc'[c] \in {"request", "govern", "gate", "refused", "plan"} /\ currentGoal' = currentGoal
    BY <1>2, <1>3, <1>6 DEF Begin, Request, Governed, Gate, stateVars
  <2>2. QED BY <1>1, <1>4, <2>1
<1>7. CASE Find(c) \/ FindNothing(c) \/ WriteTask(c) \/ WriteStatus(c) \/ Scheduled(c)
  <2>1. /\ pc[c] \in {"find", "assignTask", "assignStatus"} /\ currentGoal' = currentGoal
        /\ pc'[c] \in {"find", "assignTask", "assignStatus", "answer"}
    BY <1>2, <1>3, <1>7 DEF Find, FindNothing, WriteTask, WriteStatus, Scheduled, stateVars
  <2>2. QED BY <1>1, <1>4, <2>1
<1>8. CASE ReleaseAll(c) \/ SyncGoal(c) \/ SyncTasks(c)
  <2>1. /\ pc[c] \in {"syncGoal", "syncTasks"} \cup ReleaseSteps
        /\ pc'[c] \in {"syncGoal", "syncTasks", "return"} \cup ReleaseSteps
    BY <1>2, <1>3, <1>8 DEF ReleaseAll, SkipWorker, FoundBusy, ClearTask, ClearStatus, Released,
                            AfterRelease, SyncGoal, SyncTasks
  <2>2. Holds(memory, 4) /\ (\A d \in Callers : pc[d] \in Settled)
    BY <1>5, <2>1
  <2>3. QED BY <1>1, <1>4, <2>1, <2>2
<1>9. CASE Return(c)
  <2>1. pc[c] = "return" /\ pc'[c] = "idle" /\ currentGoal' = currentGoal
    BY <1>2, <1>3, <1>9 DEF Return, stateVars
  <2>2. \A d \in Callers : pc[d] \in Settled
    BY <1>5, <2>1
  <2>3. QED BY <1>1, <1>4, <2>1, <2>2
<1>10. QED BY <1>6, <1>7, <1>8, <1>9

LEMMA MemoryStep ==
  ~Threads /\ Typed /\ OneAtATime /\ JournalInv /\ MemoryInv /\ [Next]_vars => MemoryInv'
<1> SUFFICES ASSUME ~Threads, Typed, OneAtATime, JournalInv, MemoryInv, [Next]_vars PROVE MemoryInv'
  OBVIOUS
<1>1. ASSUME NEW c \in Callers, Begin(c) \/ CallerStep(c) PROVE MemoryInv'
  BY <1>1, MemoryWriteStep, MemoryKeptStep DEF CallerStep
<1>2. ASSUME NEW o \in Operators, Stop(o) \/ Resume(o) \/ OperatorStep(o) PROVE MemoryInv'
  <2>1. o \in Actors /\ Callers \subseteq Actors /\ o \notin Callers
    BY ActorsAssumption DEF Actors
  <2>2. /\ memory' = memory /\ currentGoal' = currentGoal
        /\ pc \in [Actors -> {"idle"} \cup CallerSteps \cup OperatorSteps \cup ReleaseSteps]
    BY <1>2 DEF Stop, Resume, OperatorStep, StopReason, ResumeReason, ReleaseAll, SkipWorker,
           FoundBusy, ClearTask, ClearStatus, Released, journalVars, stateVars, Typed, TypeOK
  <2>3. \A c \in Callers : pc'[c] = pc[c]
    BY <1>2, <2>1, <2>2
     DEF Stop, Resume, OperatorStep, StopReason, ResumeReason, ReleaseAll, SkipWorker,
         FoundBusy, ClearTask, ClearStatus, Released, Goto
  <2>4. QED BY <2>2, <2>3 DEF MemoryInv
<1>3. CASE ModelsChange \/ UNCHANGED vars
  BY <1>3 DEF ModelsChange, vars, stateVars, journalVars, MemoryInv
<1>4. QED BY <1>1, <1>2, <1>3 DEF Next

\* Two among the four newest entries are found by a query for their type.
LEMMA TwiceCounts ==
  ASSUME memory \in Seq(MemoryEntry), Twice(memory)
  PROVE  Cardinality(QueryByType("failure", 10)) >= 2 \/ Cardinality(QueryByType("success", 10)) >= 2
<1>1. PICK n \in Nat : n = Len(memory)
  BY LenProperties
<1>2. PICK k \in 0..3, l \in 0..3 : /\ k < l /\ l < n /\ memory[n - k].type = memory[n - l].type
                                    /\ memory[n - k].type \in {"failure", "success"}
  BY <1>1 DEF Twice, Ago
<1>3. PICK t \in {"failure", "success"} : t = memory[n - k].type
  BY <1>2
<1>4. PICK all : all = {i \in 1..n : memory[i].type = t}
  OBVIOUS
<1>5. IsFiniteSet(all)
  <2>1. all \in SUBSET (1..n) /\ IsFiniteSet(1..n)
    BY <1>4, FS_Interval
  <2>2. QED BY <2>1, FS_Subset
<1>6. ASSUME NEW j \in 0..3, j < n, memory[n - j].type = t
      PROVE  n - j \in all /\ Cardinality({i \in all : i > n - j}) < 10
  <2>1. n - j \in 1..n
    BY <1>1, <1>6
  <2>2. PICK S : S = {i \in all : i > n - j}
    OBVIOUS
  <2>3. PICK a \in Int, b \in Int : a = n - j + 1 /\ b = n
    BY <1>1
  <2>4. /\ IsFiniteSet(a..b) /\ Cardinality(a..b) = IF a > b THEN 0 ELSE b - a + 1
    BY FS_Interval
  <2>5. S \in SUBSET (a..b)
    BY <1>4, <2>2, <2>3
  <2>6. Cardinality(S) <= Cardinality(a..b) /\ IsFiniteSet(S)
    BY <2>4, <2>5, FS_Subset
  <2>7. Cardinality(S) \in Nat /\ Cardinality(a..b) <= 3 /\ Cardinality(a..b) \in Nat
    BY <1>1, <2>3, <2>4, <2>6, FS_CardinalityType
  <2>8. Cardinality(S) < 10
    BY <2>6, <2>7
  <2>9. QED BY <1>4, <1>6, <2>1, <2>2, <2>8
<1>7. PICK Q : Q = QueryByType(t, 10)
  OBVIOUS
<1>8. Q = {i \in all : Cardinality({j \in all : j > i}) < 10}
  BY <1>1, <1>4, <1>7 DEF QueryByType
<1>9. n - k \in Q /\ n - l \in Q /\ n - k # n - l
  <2>1. k < n /\ l < n /\ n - k # n - l
    BY <1>1, <1>2
  <2>2. memory[n - k].type = t /\ memory[n - l].type = t
    BY <1>2, <1>3
  <2>3. n - k \in all /\ Cardinality({i \in all : i > n - k}) < 10
    BY <1>6, <2>1, <2>2
  <2>4. n - l \in all /\ Cardinality({i \in all : i > n - l}) < 10
    BY <1>6, <2>1, <2>2
  <2>5. n - k \in Q
    BY <1>8, <2>3
  <2>6. n - l \in Q
    BY <1>8, <2>4
  <2>7. QED BY <2>1, <2>5, <2>6
<1>10. IsFiniteSet(Q)
  BY <1>5, <1>8, FS_Subset
<1>11. Cardinality(Q) >= 2
  <2>1. IsFiniteSet(Q \ {n - k}) /\ Cardinality(Q \ {n - k}) = Cardinality(Q) - 1
    BY <1>9, <1>10, FS_RemoveElement
  <2>2. Q \ {n - k} # {}
    BY <1>9
  <2>3. Cardinality(Q \ {n - k}) # 0 /\ Cardinality(Q \ {n - k}) \in Nat /\ Cardinality(Q) \in Nat
    BY <1>10, <2>1, <2>2, FS_EmptySet, FS_CardinalityType
  <2>4. QED BY <2>1, <2>3
<1>12. QED BY <1>3, <1>7, <1>11

\* Served one at a time, and stopped with a reason, the parts of a health report agree
\* although six components keep them apart: the stop and its reason, the workers, the goal
\* and its tasks, the memory of every goal served and of the last call.
THEOREM SerialReport ==
  ASSUME ~Threads, NoReason \notin Reasons PROVE Spec => []ReportAgrees
<1>1. Init => JournalInv
  BY EmptySeq DEF Init, JournalInit, JournalInv, Filed, GoalKnown, AuditSoFar, Actors,
                  ReleaseSteps
<1>2. Init => ReasonInv /\ ShownInv /\ MemoryInv
  <2> SUFFICES ASSUME Init PROVE ReasonInv /\ ShownInv /\ MemoryInv
    OBVIOUS
  <2>1. /\ \A a \in Actors : pc[a] = "idle"
        /\ ~stopped /\ reason = NoReason /\ currentGoal = NoGoal /\ activeTasks = 0
        /\ Len(memory) = 0 /\ Callers \subseteq Actors /\ Operators \subseteq Actors
    BY EmptySeq DEF Init, StateInit, JournalInit, Actors
  <2>2. QED BY <2>1 DEF ReasonInv, ShownInv, MemoryInv, ReleaseSteps
<1>3. ~Threads /\ NoReason \notin Reasons
  OBVIOUS
<1>4. SerialInv /\ JournalInv /\ ReasonInv /\ ShownInv /\ MemoryInv /\ [Next]_vars
        => JournalInv' /\ ReasonInv' /\ ShownInv' /\ MemoryInv'
  BY <1>3, JournalStep, ReasonStep, ShownStep, MemoryStep DEF SerialInv
<1>5. SerialInv /\ WorkersHome /\ ReasonInv /\ ShownInv /\ MemoryInv => ReportAgrees
  <2> SUFFICES ASSUME SerialInv, WorkersHome, ReasonInv, ShownInv, MemoryInv PROVE ReportAgrees
    OBVIOUS
  <2>1. ASSUME \A o \in Operators : pc[o] = "idle"
        PROVE  HealthReport.emergency_stop <=> HealthReport.stop_reason # NoReason
    BY <2>1 DEF ReasonInv, HealthReport
  <2>2. ASSUME Quiet
        PROVE  /\ HealthReport.available = HealthReport.total
               /\ IF HealthReport.current_goal = NoGoal THEN HealthReport.active_tasks = 0
                  ELSE /\ HealthReport.active_tasks = Len(PlanOf[HealthReport.current_goal])
                       /\ HealthReport.entries >= IF MemoryCap < 4 THEN MemoryCap ELSE 4
               /\ MemoryCap >= 4 /\ FullHealth.entries > 0 =>
                    \/ FullHealth.recent_failures >= 2
                    \/ FullHealth.recent_successes >= 2
    <3>1. \A c \in Callers : pc[c] = "idle"
      BY <2>2 DEF Quiet, Actors
    <3>2. ListAvailable = Workers
      BY <2>2 DEF WorkersHome, ListAvailable
    <3>3. IF currentGoal = NoGoal THEN activeTasks = 0 ELSE activeTasks = Len(PlanOf[currentGoal])
      BY <3>1 DEF ShownInv
    <3>4. currentGoal # NoGoal => Len(memory) >= IF MemoryCap < 4 THEN MemoryCap ELSE 4
      BY DEF MemoryInv, Holds
    <3>5. MemoryCap >= 4 /\ Len(memory) > 0 => Twice(memory)
      BY <3>1 DEF MemoryInv, Settled
    <3>6. memory \in Seq(MemoryEntry)
      BY DEF SerialInv, Typed, TypeOK, JournalTypeOK
    <3>7. MemoryCap >= 4 /\ Len(memory) > 0 =>
            \/ Cardinality(QueryByType("failure", 10)) >= 2
            \/ Cardinality(QueryByType("success", 10)) >= 2
      BY <3>5, <3>6, TwiceCounts
    <3>8. /\ HealthReport.available = Cardinality(ListAvailable) /\ HealthReport.total = Cardinality(Workers)
          /\ HealthReport.current_goal = currentGoal /\ HealthReport.active_tasks = activeTasks
          /\ HealthReport.entries = Len(memory) /\ FullHealth.entries = Len(memory)
          /\ FullHealth.recent_failures = Cardinality(QueryByType("failure", 10))
          /\ FullHealth.recent_successes = Cardinality(QueryByType("success", 10))
      BY DEF HealthReport, FullHealth
    <3>9. QED BY <3>2, <3>3, <3>4, <3>7, <3>8
  <2>3. QED BY <2>1, <2>2 DEF ReportAgrees
<1>6. QED BY <1>1, <1>2, <1>4, <1>5, SerialAlways, SerialWorkersHome, PTL DEF Spec

-----------------------------------------------------------------------------
(* What a call is answered: KernelService.  Workers are of a kind: what one *)
(* can do another can do entirely or not at all, as the pool is created.    *)

Kinds ==
  \A v, w \in Workers : Caps[v] = Caps[w] \/ Caps[v] \cap Caps[w] = {}

\* The tasks of plan p scheduled so far went to the workers r, models to be had
\* or not: each to a worker that can do it, no two to the same one, and a task
\* went to nobody because there were no models or no worker left.
Booked(r, p, up) ==
  /\ Len(r) <= Len(p)
  /\ \A i \in 1..Len(r) : r[i] # NoWorker => up /\ p[i] \in Caps[r[i]]
  /\ \A i, j \in 1..Len(r) : r[i] # NoWorker /\ r[i] = r[j] => i = j
  /\ \A i \in 1..Len(r) : r[i] = NoWorker /\ up =>
       \A w \in Workers : p[i] \in Caps[w] => \E j \in 1..(i - 1) : r[j] = w

LEMMA WorkersFinite == IsFiniteSet(Workers)
<1> DEFINE n == Len(Registered)
           S == {i \in 1..n : TRUE}
<1>1. n \in Nat /\ \A i \in 1..n : Registered[i] \in Workers
  BY RegisteredAssumption, LenProperties, ElementOfSeq
<1>2. IsFiniteSet(1..n)
  BY <1>1, FS_Interval
<1> DEFINE f == [i \in 1..n |-> Registered[i]]
<1>3. f \in Surjection(1..n, Workers)
  BY <1>1, RegisteredAssumption DEF Surjection
<1>4. QED BY <1>2, <1>3, FS_Surjection

\* Every task has its worker: the workers given are workers that can be given.
LEMMA AllServed ==
  ASSUME NEW g \in Goals, NEW r \in Seq(Workers \cup {NoWorker}),
         Len(r) = Len(PlanOf[g]), Booked(r, PlanOf[g], modelUp),
         \A i \in 1..Len(r) : r[i] # NoWorker
  PROVE  Service!Fits(g)
<1> DEFINE give == [i \in 1..Len(r) |-> r[i]]
<1>1. \A i \in 1..Len(r) : r[i] \in Workers
  BY LenProperties, ElementOfSeq
<1>2. give \in [Service!Tasks(g) -> Workers]
  BY <1>1 DEF Service!Tasks
<1>3. \A i \in Service!Tasks(g) : modelUp /\ PlanOf[g][i] \in Caps[give[i]]
  BY DEF Booked, Service!Tasks
<1>4. \A i, j \in Service!Tasks(g) : give[i] = give[j] => i = j
  BY DEF Booked, Service!Tasks
<1> HIDE DEF give
<1>5. QED BY <1>2, <1>3, <1>4 DEF Service!Fits

\* A task has none: the workers of its kind all went to earlier tasks that need
\* the kind as well, so there are fewer of them than such tasks.
LEMMA SomeUnserved ==
  ASSUME Kinds, NEW g \in Goals, NEW r \in Seq(Workers \cup {NoWorker}),
         Len(r) = Len(PlanOf[g]), Booked(r, PlanOf[g], modelUp),
         NEW i \in 1..Len(r), r[i] = NoWorker
  PROVE  ~Service!Fits(g)
<1> DEFINE p == PlanOf[g]
<1> SUFFICES ASSUME Service!Fits(g) PROVE FALSE
  OBVIOUS
<1>1. Len(r) \in Nat /\ Service!Tasks(g) = 1..Len(r)
  BY LenProperties DEF Service!Tasks
<1>2. PICK give \in [1..Len(r) -> Workers] :
        /\ \A j \in 1..Len(r) : p[j] \in Caps[give[j]]
        /\ \A j, k \in 1..Len(r) : give[j] = give[k] => j = k
  BY <1>1 DEF Service!Fits
<1>3. modelUp
  BY <1>1 DEF Service!Fits
<1> DEFINE D == {j \in 1..Len(r) : p[j] \in Caps[give[i]]}
           L == {v \in Workers : Caps[v] = Caps[give[i]]}
<1>4. IsFiniteSet(D) /\ IsFiniteSet(L)
  <2>1. IsFiniteSet(1..Len(r)) /\ D \in SUBSET (1..Len(r)) /\ L \in SUBSET Workers
    BY <1>1, FS_Interval
  <2>2. QED BY <2>1, WorkersFinite, FS_Subset
<1>5. \A j \in D : give[j] \in L
  BY <1>2 DEF Kinds
<1>6. \A v \in L : \E j \in D \ {i} : r[j] = v
  <2>1. TAKE v \in L
  <2>2. v \in Workers /\ Caps[v] = Caps[give[i]]
    OBVIOUS
  <2>3. PICK j \in 1..(i - 1) : r[j] = v
    BY <1>2, <1>3, <2>2 DEF Booked
  <2>4. j \in 1..Len(r) /\ j # i
    BY <1>1, <2>3
  <2>5. p[j] \in Caps[give[i]]
    BY <2>2, <2>3, <2>4, NoneAssumption DEF Booked
  <2>6. QED BY <2>3, <2>4, <2>5
<1>7. i \in D
  BY <1>2
<1>8. \A j, k \in D : give[j] = give[k] => j = k
  BY <1>2
<1> DEFINE f == [v \in L |-> CHOOSE j \in D \ {i} : r[j] = v]
           h == [j \in D |-> give[j]]
<1> HIDE DEF D, L
<1>9. h \in Injection(D, L)
  BY <1>5, <1>8 DEF Injection, IsInjective
<1>10. \A v \in L : f[v] \in D \ {i} /\ r[f[v]] = v
  BY <1>6
<1>11. f \in [L -> D \ {i}]
  BY <1>10
<1> HIDE DEF f, h
<1>12. f \in Injection(L, D \ {i})
  BY <1>10, <1>11 DEF Injection, IsInjective
<1>13. IsFiniteSet(D \ {i}) /\ Cardinality(D \ {i}) = Cardinality(D) - 1
  BY <1>4, <1>7, FS_RemoveElement
<1>14. Cardinality(L) <= Cardinality(D) - 1 /\ Cardinality(D) <= Cardinality(L)
  BY <1>4, <1>9, <1>12, <1>13, FS_Injection
<1>15. Cardinality(D) \in Nat /\ Cardinality(L) \in Nat
  BY <1>4, FS_CardinalityType
<1>16. QED BY <1>14, <1>15

Scheduling == {"find", "assignTask", "assignStatus"}
Listed == {"answer", "record", "syncGoal", "syncTasks"} \cup ReleaseSteps

\* What a call knows on its way: the gate and the governor it has passed, the
\* workers its tasks have got, and that just these are busy.
CallInv(c) ==
  /\ pc[c] = "idle" => goal[c] = NoGoal
  /\ outcome[c] # "none" <=> pc[c] \in {"recordFailure", "return"}
  /\ pc[c] = "denied" => goal[c] \in Forbidden
  /\ pc[c] \in {"gate", "refused", "plan"} \cup Scheduling \cup Listed =>
       goal[c] \notin Forbidden
  /\ pc[c] = "refused" => stopped
  /\ pc[c] \in {"plan"} \cup Scheduling \cup Listed => ~stopped
  /\ pc[c] \in {"request", "govern", "gate", "plan"} => results[c] = <<>>
  /\ pc[c] \in Scheduling \cup Listed => Booked(results[c], PlanOf[goal[c]], modelUp)
  /\ pc[c] \in {"assignTask", "assignStatus"} =>
       /\ MoreTasks(c) /\ modelUp
       /\ Needed(c) \in Caps[pick[c]]
       /\ status[pick[c]] = "idle"
  /\ pc[c] \in Scheduling =>
       \A w \in Workers : status[w] = "busy" <=>
                            \E j \in 1..Len(results[c]) : results[c][j] = w
  /\ pc[c] \in Listed => Len(results[c]) = Len(PlanOf[goal[c]])

ServiceInv == \A c \in Callers : CallInv(c)

\* A task more: it got a worker that no other task has, or there was none to get.
LEMMA BookedAppend ==
  ASSUME NEW r \in Seq(Workers \cup {NoWorker}), NEW p \in Seq(Capabilities),
         NEW up \in BOOLEAN, Booked(r, p, up), Len(r) + 1 <= Len(p),
         NEW x \in Workers \cup {NoWorker},
         x # NoWorker => /\ up /\ p[Len(r) + 1] \in Caps[x]
                         /\ \A j \in 1..Len(r) : r[j] # x,
         x = NoWorker /\ up =>
           \A w \in Workers : p[Len(r) + 1] \in Caps[w] => \E j \in 1..Len(r) : r[j] = w
  PROVE  Booked(Append(r, x), p, up)
<1> DEFINE n == Len(r)
           s == Append(r, x)
<1>1. n \in Nat /\ Len(p) \in Nat
  BY LenProperties
<1>2. Len(s) = n + 1 /\ s[n + 1] = x /\ \A i \in 1..n : s[i] = r[i]
  BY AppendProperties
<1> HIDE DEF s
<1>3. \A i \in 1..Len(s) : i \in 1..n \/ i = n + 1
  BY <1>1, <1>2
<1>4. \A i \in 1..Len(s) : s[i] # NoWorker => up /\ p[i] \in Caps[s[i]]
  BY <1>2, <1>3 DEF Booked
<1>5. \A i, j \in 1..Len(s) : s[i] # NoWorker /\ s[i] = s[j] => i = j
  BY <1>2, <1>3 DEF Booked
<1>6. ASSUME NEW i \in 1..Len(s), s[i] = NoWorker, up, NEW w \in Workers, p[i] \in Caps[w]
      PROVE  \E j \in 1..(i - 1) : s[j] = w
  <2>1. CASE i \in 1..n
    <3>1. PICK j \in 1..(i - 1) : r[j] = w
      BY <1>2, <1>6, <2>1 DEF Booked
    <3>2. j \in 1..n
      BY <1>1, <2>1, <3>1
    <3>3. QED BY <1>2, <3>1, <3>2
  <2>2. CASE i = n + 1
    <3>1. PICK j \in 1..n : r[j] = w
      BY <1>2, <1>6, <2>2
    <3>2. j \in 1..(i - 1)
      BY <1>1, <2>2, <3>1
    <3>3. QED BY <1>2, <3>1, <3>2
  <2>3. QED BY <1>3, <2>1, <2>2
<1>7. Len(s) <= Len(p)
  BY <1>1, <1>2
<1>8. Booked(s, p, up)
  BY <1>4, <1>5, <1>6, <1>7 DEF Booked
<1>9. QED BY <1>8 DEF s

LEMMA BookedNone ==
  ASSUME NEW p \in Seq(Capabilities), NEW up \in BOOLEAN
  PROVE  Booked(<<>>, p, up)
BY LenProperties, EmptySeq DEF Booked

\* The steps before the tasks are scheduled.
LEMMA ServiceEarly ==
  ASSUME Typed, NEW c \in Callers, CallInv(c),
         \/ Begin(c) \/ Request(c) \/ Governed(c) \/ Denied(c) \/ Gate(c)
         \/ Fail(c, "denied", "denied") \/ Fail(c, "refused", "stopped")
         \/ RecordFailure(c) \/ Return(c)
  PROVE  CallInv(c)'
<1> USE DEF Typed, TypeOK, Goto, CallInv, Scheduling, Listed, ReleaseSteps, callVars,
        stateVars, stopVars
<1>1. c \in Actors
  BY DEF Actors
<1>2. CASE Begin(c)
  BY <1>1, <1>2 DEF Begin
<1>3. CASE Request(c) \/ Governed(c) \/ Denied(c) \/ Gate(c)
  BY <1>1, <1>3 DEF Request, Governed, Denied, Gate
<1>4. CASE Fail(c, "denied", "denied") \/ Fail(c, "refused", "stopped") \/ RecordFailure(c)
  BY <1>1, <1>4 DEF Fail, RecordFailure
<1>5. CASE Return(c)
  BY <1>1, <1>5 DEF Return
<1>6. QED BY <1>2, <1>3, <1>4, <1>5

\* The steps after it.
LEMMA ServiceLate ==
  ASSUME Typed, NEW c \in Callers, CallInv(c),
         \/ Answer(c) \/ Record(c) \/ ReleaseAll(c) \/ SyncGoal(c) \/ SyncTasks(c)
  PROVE  CallInv(c)'
<1> USE DEF Typed, TypeOK, Goto, CallInv, Scheduling, Listed, ReleaseSteps, callVars,
        stateVars, stopVars
<1>1. c \in Actors
  BY DEF Actors
<1>2. CASE Answer(c) \/ Record(c) \/ SyncGoal(c)
  BY <1>1, <1>2 DEF Answer, Record, SyncGoal
<1>3. CASE SyncTasks(c)
  <2>1. outcome'[c] \in {"partial", "complete"} /\ pc'[c] = "return"
    BY <1>1, <1>3 DEF SyncTasks
  <2>2. QED BY <2>1
<1>4. CASE ReleaseAll(c)
  <2>1. /\ UNCHANGED <<goal, pick, results, outcome, modelUp, stopped>>
        /\ pc[c] \in ReleaseSteps /\ pc'[c] \in ReleaseSteps \cup {"syncGoal"}
    BY <1>1, <1>4 DEF ReleaseAll, SkipWorker, FoundBusy, ClearTask, ClearStatus, Released,
                      AfterRelease
  <2>2. QED BY <2>1
<1>5. QED BY <1>2, <1>3, <1>4

\* A call finds every worker free when it has been planned.
LEMMA ServicePlan ==
  ASSUME Typed, OneAtATime, BusyHasReleaser, NEW c \in Callers, CallInv(c), Plan(c)
  PROVE  CallInv(c)'
<1> USE DEF Typed, TypeOK, HandlerInv, PoolTypeOK, Goto
<1>1. c \in Actors /\ pc[c] = "plan"
  BY DEF Actors, Plan
<1>2. \A a \in Actors : a # c => pc[a] = "idle"
  BY <1>1, OthersIdle
<1>3. \A w \in Workers, a \in Actors : ~WillVisit(a, w)
  BY <1>1, <1>2 DEF WillVisit, ReleaseSteps
<1>4. \A w \in Workers : status[w] # "busy"
  BY <1>3 DEF BusyHasReleaser
<1>5. /\ pc'[c] = "find"
      /\ UNCHANGED <<goal, pick, results, outcome, modelUp, stopped, status, task>>
  BY <1>1 DEF Plan, callVars, stateVars, stopVars, poolVars
<1>6. results[c] = <<>> /\ goal[c] \in Goals /\ goal[c] \notin Forbidden /\ ~stopped
      /\ outcome[c] = "none"
  BY <1>1 DEF CallInv
<1>7. Booked(results[c], PlanOf[goal[c]], modelUp)
  BY <1>6, BookedNone, PlanAssumption
<1>8. Len(results[c]) = 0
  BY <1>6, EmptySeq
<1>9. QED BY <1>4, <1>5, <1>6, <1>7, <1>8 DEF CallInv, Scheduling, Listed, ReleaseSteps

\* The worker found is free, so no earlier task has it.
LEMMA ServiceFind ==
  ASSUME Typed, OneAtATime, NEW c \in Callers, CallInv(c),
         Find(c) \/ WriteTask(c) \/ Scheduled(c)
  PROVE  CallInv(c)'
<1> USE DEF Typed, TypeOK, HandlerInv, PoolTypeOK, Goto
<1>1. c \in Actors
  BY DEF Actors
<1>2. CASE Find(c)
  <2>1. PICK w \in Workers : FindsBest(Needed(c), w) /\ pick' = [pick EXCEPT ![c] = w]
    BY <1>2 DEF Find
  <2>2. status[w] = "idle" /\ Needed(c) \in Caps[w]
    BY <2>1 DEF FindsBest, Candidates, Available
  <2>3. /\ pc[c] = "find" /\ pc'[c] = "assignTask" /\ pick'[c] = w
        /\ MoreTasks(c) /\ modelUp
        /\ UNCHANGED <<goal, results, outcome, modelUp, stopped, status, task>>
    BY <1>1, <1>2, <2>1 DEF Find, stateVars, stopVars, poolVars
  <2>4. MoreTasks(c)' /\ Needed(c)' = Needed(c)
    BY <2>3 DEF MoreTasks, Needed, NextTask
  <2>5. /\ outcome[c] = "none" /\ goal[c] \notin Forbidden /\ ~stopped
        /\ Booked(results[c], PlanOf[goal[c]], modelUp)
        /\ \A v \in Workers : status[v] = "busy" <=>
                              \E j \in 1..Len(results[c]) : results[c][j] = v
    BY <2>3 DEF CallInv, Scheduling
  <2> HIDE DEF Typed, TypeOK, HandlerInv, PoolTypeOK, Goto
  <2>6. QED BY <2>2, <2>3, <2>4, <2>5 DEF CallInv, Scheduling, Listed, ReleaseSteps
<1>3. CASE WriteTask(c)
  <2>1. /\ pc[c] = "assignTask" /\ pc'[c] = "assignStatus"
        /\ UNCHANGED <<goal, pick, results, outcome, modelUp, stopped, status>>
    BY <1>1, <1>3 DEF WriteTask, AssignTask, callVars, stateVars, stopVars
  <2>2. MoreTasks(c)' = MoreTasks(c) /\ Needed(c)' = Needed(c)
    BY <2>1 DEF MoreTasks, Needed, NextTask
  <2>3. /\ outcome[c] = "none" /\ goal[c] \notin Forbidden /\ ~stopped
        /\ Booked(results[c], PlanOf[goal[c]], modelUp)
        /\ \A w \in Workers : status[w] = "busy" <=>
                              \E j \in 1..Len(results[c]) : results[c][j] = w
        /\ MoreTasks(c) /\ modelUp /\ Needed(c) \in Caps[pick[c]] /\ status[pick[c]] = "idle"
    BY <2>1 DEF CallInv, Scheduling
  <2> HIDE DEF Typed, TypeOK, HandlerInv, PoolTypeOK, Goto
  <2>4. QED BY <2>1, <2>2, <2>3 DEF CallInv, Scheduling, Listed, ReleaseSteps
<1>4. CASE Scheduled(c)
  <2>1. /\ pc[c] = "find" /\ pc'[c] = "answer" /\ ~MoreTasks(c)
        /\ UNCHANGED <<goal, pick, results, outcome, modelUp, stopped, status>>
    BY <1>1, <1>4 DEF Scheduled, callVars, stateVars, stopVars, poolVars
  <2>2. Len(results[c]) <= Len(PlanOf[goal[c]])
    BY <2>1 DEF CallInv, Booked, Scheduling
  <2>3. Len(results[c]) \in Nat /\ Len(PlanOf[goal[c]]) \in Nat
    <3>1. results[c] \in Seq(Workers \cup {NoWorker}) /\ PlanOf[goal[c]] \in Seq(Capabilities)
      BY <2>1, PlanAssumption
    <3>2. QED BY <3>1, LenProperties
  <2>4. Len(results[c]) = Len(PlanOf[goal[c]])
    BY <2>1, <2>2, <2>3 DEF MoreTasks, NextTask
  <2>5. QED BY <2>1, <2>4 DEF CallInv, Scheduling, Listed, ReleaseSteps
<1>5. QED BY <1>2, <1>3, <1>4

\* A task is given to the worker found, or to none when there is none to find: then
\* those that could do it are busy, with earlier tasks.
LEMMA ServiceDispatch ==
  ASSUME Typed, OneAtATime, FieldsInv, NEW c \in Callers, CallInv(c),
         WriteStatus(c) \/ FindNothing(c)
  PROVE  CallInv(c)'
<1> USE DEF Typed, TypeOK, HandlerInv, PoolTypeOK, Status, Goto
<1> DEFINE r == results[c]
           p == PlanOf[goal[c]]
<1>1. c \in Actors /\ pc[c] \in {"assignStatus", "find"}
  BY DEF Actors, WriteStatus, FindNothing
<1>2. r \in Seq(Workers \cup {NoWorker}) /\ p \in Seq(Capabilities) /\ Len(r) \in Nat
      /\ Len(p) \in Nat
  BY <1>1, PlanAssumption, LenProperties
<1>3. Booked(r, p, modelUp) /\ modelUp \in BOOLEAN
  BY <1>1 DEF CallInv, Scheduling
<1>4. \A w \in Workers : status[w] = "busy" <=> \E j \in 1..Len(r) : r[j] = w
  BY <1>1 DEF CallInv, Scheduling
<1>5. CASE WriteStatus(c)
  <2> DEFINE x == pick[c]
  <2>1. /\ pc[c] = "assignStatus" /\ pc'[c] = "find" /\ x \in Workers
        /\ results'[c] = Append(r, x) /\ status' = [status EXCEPT ![x] = "busy"]
        /\ UNCHANGED <<goal, outcome, modelUp, stopped>>
    BY <1>1, <1>5 DEF WriteStatus, AssignStatus, stateVars, stopVars
  <2>2. Len(r) + 1 <= Len(p) /\ modelUp /\ p[Len(r) + 1] \in Caps[x] /\ status[x] = "idle"
    BY <2>1 DEF CallInv, MoreTasks, Needed, NextTask
  <2>3. \A j \in 1..Len(r) : r[j] # x
    BY <1>4, <2>1, <2>2
  <2>4. Booked(Append(r, x), p, modelUp)
    BY <1>2, <1>3, <2>1, <2>2, <2>3, NoneAssumption, BookedAppend
  <2>5. /\ Len(Append(r, x)) = Len(r) + 1 /\ Append(r, x)[Len(r) + 1] = x
        /\ \A j \in 1..Len(r) : Append(r, x)[j] = r[j]
    BY <1>2, <2>1, AppendProperties
  <2>6. \A w \in Workers : status'[w] = "busy" <=>
                            \E j \in 1..Len(Append(r, x)) : Append(r, x)[j] = w
    <3>1. TAKE w \in Workers
    <3>2. CASE w = x
      BY <1>2, <2>1, <2>5, <3>2
    <3>3. CASE w # x
      <4>1. status'[w] = status[w]
        BY <2>1, <3>3
      <4>2. (\E j \in 1..Len(r) : r[j] = w) <=>
            \E j \in 1..(Len(r) + 1) : Append(r, x)[j] = w
        BY <1>2, <2>5, <3>3
      <4>3. QED BY <1>4, <2>5, <4>1, <4>2
    <3>4. QED BY <3>2, <3>3
  <2>7. QED BY <2>1, <2>4, <2>6 DEF CallInv, Scheduling, Listed, ReleaseSteps
<1>6. CASE FindNothing(c)
  <2>1. /\ pc[c] = "find" /\ pc'[c] = "find" /\ MoreTasks(c)
        /\ results'[c] = Append(r, NoWorker)
        /\ UNCHANGED <<goal, outcome, modelUp, stopped, status>>
    BY <1>1, <1>6 DEF FindNothing, stateVars, stopVars, poolVars
  <2>2. Len(r) + 1 <= Len(p)
    BY <2>1 DEF MoreTasks, NextTask
  <2>3. ASSUME modelUp, NEW w \in Workers, p[Len(r) + 1] \in Caps[w]
        PROVE  \E j \in 1..Len(r) : r[j] = w
    <3>1. ~Available(w)
      BY <1>6, <2>3 DEF FindNothing, Candidates, Needed, NextTask
    <3>2. \A d \in Callers : pc[d] # "assignStatus"
      <4>1. \A d \in Callers : d # c => pc[d] = "idle"
        BY <1>1, <2>1, OthersIdle DEF Actors
      <4>2. QED BY <2>1, <4>1
    <3>3. status[w] = "busy"
      BY <3>1, <3>2 DEF Available, FieldsInv
    <3>4. QED BY <1>4, <3>3
  <2>4. Booked(Append(r, NoWorker), p, modelUp)
    <3> DEFINE x == NoWorker
    <3>1. x \in Workers \cup {NoWorker} /\ x = NoWorker
      OBVIOUS
    <3>2. modelUp => \A w \in Workers :
            p[Len(r) + 1] \in Caps[w] => \E j \in 1..Len(r) : r[j] = w
      BY <2>3
    <3> HIDE DEF x, r, p
    <3>3. Booked(Append(r, x), p, modelUp)
      BY <1>2, <1>3, <2>2, <3>1, <3>2, BookedAppend
    <3>4. QED BY <3>1, <3>3
  <2>5. /\ Len(Append(r, NoWorker)) = Len(r) + 1
        /\ Append(r, NoWorker)[Len(r) + 1] = NoWorker
        /\ \A j \in 1..Len(r) : Append(r, NoWorker)[j] = r[j]
    BY <1>2, AppendProperties
  <2>6. \A w \in Workers : (\E j \in 1..Len(r) : r[j] = w) <=>
          \E j \in 1..Len(Append(r, NoWorker)) : Append(r, NoWorker)[j] = w
    BY <1>2, <2>5, NoneAssumption
  <2>7. QED BY <1>4, <2>1, <2>4, <2>6 DEF CallInv, Scheduling, Listed, ReleaseSteps
<1>7. QED BY <1>5, <1>6

\* What the others do while a call is under way, or while none is.
LEMMA ServiceOthers ==
  ASSUME NEW c \in Callers, CallInv(c), pc'[c] = pc[c], pc[c] = "idle",
         UNCHANGED <<goal, outcome>>
  PROVE  CallInv(c)'
BY DEF CallInv, Scheduling, Listed, ReleaseSteps

LEMMA ServiceStep ==
  ~Threads /\ SerialInv /\ BusyHasReleaser /\ ServiceInv /\ [Next]_vars => ServiceInv'
<1> SUFFICES ASSUME ~Threads, SerialInv, BusyHasReleaser, ServiceInv, [Next]_vars
             PROVE  ServiceInv'
  OBVIOUS
<1>1. Typed /\ OneAtATime /\ FieldsInv /\ \A c \in Callers : CallInv(c)
  BY DEF SerialInv, ServiceInv
<1>2. CASE UNCHANGED vars
  <2>1. ASSUME NEW c \in Callers PROVE CallInv(c)'
    <3>1. UNCHANGED <<pc, goal, pick, results, outcome, modelUp, stopped, status>>
      BY <1>2 DEF vars, callVars, stateVars, stopVars, poolVars
    <3>2. CallInv(c)' <=> CallInv(c)
      BY <3>1 DEF CallInv, MoreTasks, Needed, NextTask
    <3>3. QED BY <1>1, <3>2
  <2>2. QED BY <2>1 DEF ServiceInv
<1>3. ASSUME NEW c \in Callers, Begin(c) \/ CallerStep(c) PROVE ServiceInv'
  <2>1. CallInv(c)'
    BY <1>1, <1>3, ServiceEarly, ServiceLate, ServicePlan, ServiceFind, ServiceDispatch
       DEF CallerStep
  <2>2. ASSUME NEW d \in Callers, d # c PROVE CallInv(d)'
    <3>1. pc'[d] = "idle"
      BY <1>1, <1>3, <2>2, OthersWait
    <3>2. d \in Actors /\ c \in Actors
      BY DEF Actors
    <3>3. pc[d] = "idle" /\ goal'[d] = goal[d] /\ outcome'[d] = outcome[d]
      BY <1>1, <1>3, <2>2, <3>1, <3>2
         DEF CallerStep, Begin, Request, Governed, Denied, Gate, Fail, RecordFailure, Plan,
             Find, FindNothing, WriteTask, WriteStatus, Scheduled, Answer, Record,
             ReleaseAll, SkipWorker, FoundBusy, ClearTask, ClearStatus, Released, SyncGoal,
             SyncTasks, Return, Goto, callVars, Typed, TypeOK
    <3>4. QED BY <1>1, <3>1, <3>3 DEF CallInv, Scheduling, Listed, ReleaseSteps
  <2>3. QED BY <2>1, <2>2 DEF ServiceInv
<1>4. ASSUME NEW o \in Operators, Stop(o) \/ Resume(o) \/ OperatorStep(o) PROVE ServiceInv'
  <2>1. o \in Actors /\ Callers \subseteq Actors /\ o \notin Callers
    BY ActorsAssumption DEF Actors
  <2>2. UNCHANGED <<goal, outcome>>
    BY <1>4 DEF Stop, Resume, OperatorStep, StopReason, ResumeReason, ReleaseAll,
                SkipWorker, FoundBusy, ClearTask, ClearStatus, Released, callVars
  <2>3. \A c \in Callers : pc[c] = "idle"
    BY <1>1, <1>4, <2>1, OthersIdle
       DEF Stop, Resume, MayStart, Quiet, OperatorStep, StopReason, ResumeReason, ReleaseAll,
           SkipWorker, FoundBusy, ClearTask, ClearStatus, Released, Goto
  <2>4. \A c \in Callers : pc'[c] = pc[c]
    BY <1>1, <1>4, <2>1
       DEF Stop, Resume, OperatorStep, StopReason, ResumeReason, ReleaseAll, SkipWorker,
           FoundBusy, ClearTask, ClearStatus, Released, Goto, Typed, TypeOK
  <2>5. QED BY <1>1, <2>2, <2>3, <2>4, ServiceOthers DEF ServiceInv
<1>5. CASE ModelsChange
  <2>1. \A c \in Callers : pc[c] = "idle"
    BY <1>5 DEF ModelsChange, Quiet, Actors
  <2>2. UNCHANGED <<pc, goal, outcome>>
    BY <1>5 DEF ModelsChange, callVars
  <2>3. QED BY <1>1, <2>1, <2>2, ServiceOthers DEF ServiceInv
<1>6. QED BY <1>2, <1>3, <1>4, <1>5 DEF Next

\* The result a call computes from its own scheduling is the one its goal is owed.
LEMMA RightResult ==
  ASSUME Kinds, Typed, NEW c \in Callers, CallInv(c), pc[c] = "syncTasks"
  PROVE  (\E i \in 1..Len(results[c]) : results[c][i] = NoWorker)
           <=> ~Service!Fits(goal[c])
<1>1. /\ goal[c] \in Goals
      /\ results[c] \in Seq(Workers \cup {NoWorker})
  BY DEF Typed, TypeOK, HandlerInv
<1>2. /\ Len(results[c]) = Len(PlanOf[goal[c]])
      /\ Booked(results[c], PlanOf[goal[c]], modelUp)
  BY DEF CallInv, Listed
<1>3. QED BY <1>1, <1>2, AllServed, SomeUnserved

LEMMA ServiceRefined ==
  Kinds /\ ~Threads /\ Typed /\ ServiceInv /\ [Next]_vars => [Service!Next]_Service!vars
<1> SUFFICES ASSUME Kinds, ~Threads, Typed, ServiceInv, [Next]_vars
             PROVE  [Service!Next]_Service!vars
  OBVIOUS
<1> USE DEF Typed, TypeOK, HandlerInv, Goto
<1>1. CASE UNCHANGED vars
  BY <1>1 DEF vars, callVars, stateVars, stopVars, Service!vars
<1>2. ASSUME NEW c \in Callers, Begin(c) \/ CallerStep(c)
      PROVE  [Service!Next]_Service!vars
  <2>1. CallInv(c)
    BY DEF ServiceInv
  <2>2. CASE Begin(c)
    <3>1. PICK g \in Goals : goal' = [goal EXCEPT ![c] = g]
      BY <2>2 DEF Begin
    <3>2. Service!Ask(c, g)
      BY <2>1, <2>2, <3>1 DEF Begin, CallInv, stateVars, stopVars, Service!Ask
    <3>3. QED BY <3>2 DEF Service!Next
  <2>3. CASE Fail(c, "denied", "denied") \/ Fail(c, "refused", "stopped")
    <3>1. goal[c] \in Goals /\ outcome[c] = "none" /\ goal[c] # NoGoal
      BY <2>1, <2>3, GoalAssumption DEF Fail, CallInv
    <3>2. Service!Refuse(c)
      BY <2>1, <2>3, <3>1 DEF Fail, CallInv, stateVars, stopVars, Service!Refuse, Service!Reply
    <3>3. QED BY <3>2 DEF Service!Next
  <2>4. CASE SyncTasks(c)
    <3>1. /\ goal[c] \in Goals /\ outcome[c] = "none" /\ goal[c] # NoGoal
          /\ goal[c] \notin Forbidden /\ ~stopped
      BY <2>1, <2>4, GoalAssumption DEF SyncTasks, CallInv, Listed
    <3>2. outcome' = [outcome EXCEPT ![c] = IF Service!Fits(goal[c]) THEN "complete"
                                            ELSE "partial"]
      BY <2>1, <2>4, RightResult DEF SyncTasks
    <3>3. Service!Reply(c, IF Service!Fits(goal[c]) THEN "complete" ELSE "partial")
      BY <2>4, <3>1, <3>2 DEF SyncTasks, stopVars, Service!Reply
    <3>4. Service!Serve(c)
      BY <2>4, <3>1, <3>3 DEF SyncTasks, Service!Serve
    <3>5. QED BY <3>4 DEF Service!Next
  <2>5. CASE Return(c)
    <3>1. Service!Take(c)
      BY <2>1, <2>5 DEF Return, CallInv, stateVars, stopVars, Service!Take
    <3>2. QED BY <3>1 DEF Service!Next
  <2>6. CASE \/ Request(c) \/ Governed(c) \/ Denied(c) \/ Gate(c) \/ RecordFailure(c)
            \/ Plan(c) \/ Find(c) \/ FindNothing(c) \/ WriteTask(c) \/ WriteStatus(c)
            \/ Scheduled(c) \/ Answer(c) \/ Record(c) \/ ReleaseAll(c) \/ SyncGoal(c)
    BY <2>6
       DEF Service!vars, Request, Governed, Denied, Gate, RecordFailure, Plan, Find, FindNothing,
           WriteTask, WriteStatus, Scheduled, Answer, Record, ReleaseAll, SkipWorker,
           FoundBusy, ClearTask, ClearStatus, Released, SyncGoal, callVars, stateVars, stopVars
  <2>7. QED BY <1>2, <2>2, <2>3, <2>4, <2>5, <2>6 DEF CallerStep
<1>3. ASSUME NEW o \in Operators, Stop(o) \/ Resume(o) \/ OperatorStep(o)
      PROVE  [Service!Next]_Service!vars
  <2>1. CASE Stop(o)
    <3>1. Service!Switch(TRUE)
      BY <2>1 DEF Stop, callVars, stateVars, Service!Switch
    <3>2. QED BY <3>1 DEF Service!Next
  <2>2. CASE Resume(o)
    <3>1. Service!Switch(FALSE)
      BY <2>2 DEF Resume, stateVars, Service!Switch
    <3>2. QED BY <3>1 DEF Service!Next
  <2>3. CASE OperatorStep(o)
    BY <2>3
       DEF Service!vars, OperatorStep, StopReason, ResumeReason, ReleaseAll, SkipWorker, FoundBusy,
           ClearTask, ClearStatus, Released, callVars, stateVars, stopVars
  <2>4. QED BY <1>3, <2>1, <2>2, <2>3
<1>4. CASE ModelsChange
  <2>1. Service!Models(~modelUp)
    BY <1>4 DEF ModelsChange, callVars, stopVars, Service!Models
  <2>2. QED BY <2>1 DEF Service!Next
<1>5. QED BY <1>1, <1>2, <1>3, <1>4 DEF Next

\* Served one at a time and with workers of a kind, the pipeline with its worker
\* pool implements the service: what a call is answered depends on its goal, the
\* switch and the models alone, whatever was served before it.
THEOREM SerialImplementsService == ASSUME ~Threads, Kinds PROVE Spec => ServiceSpec
<1>1. Init => Service!Init
  BY DEF Init, StateInit, Service!Init
<1>2. Init => ServiceInv
  <2>1. ASSUME Init, NEW c \in Callers PROVE CallInv(c)
    BY <2>1 DEF Init, StateInit, CallInv, Scheduling, Listed, ReleaseSteps, Actors
  <2>2. QED BY <2>1 DEF ServiceInv
<1>3. ~Threads /\ Kinds
  OBVIOUS
<1>4. SerialInv /\ BusyHasReleaser /\ ServiceInv /\ [Next]_vars => ServiceInv'
  BY <1>3, ServiceStep
<1>5. SerialInv /\ ServiceInv /\ [Next]_vars => [Service!Next]_Service!vars
  BY <1>3, ServiceRefined DEF SerialInv
<1>6. Spec => []SerialInv
  BY <1>3, SerialAlways
<1>7. QED BY <1>1, <1>2, <1>4, <1>5, <1>6, NoWorkerForgotten, PTL
          DEF Spec, ServiceSpec, Service!Spec
=============================================================================
