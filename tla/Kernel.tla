-------------------------------- MODULE Kernel --------------------------------
(***************************************************************************)
(* MBOSKernel.process(), the pipeline every user message goes through, and *)
(* the emergency switch beside it.                                         *)
(*                                                                         *)
(* Callers are the handlers that run process() for one user each, over and *)
(* over; operators are the handlers of the emergency endpoints.  A step is *)
(* what a handler does between two accesses to state it shares with the    *)
(* others.  With Threads = TRUE the handlers run in threads and their      *)
(* steps interleave; with Threads = FALSE they run one at a time, as they  *)
(* do when async handlers call process() on one event loop.                *)
(***************************************************************************)
EXTENDS WorkerPool, Journal

\* GateOpen, RecordAndKeepWorkers, AtWorkerButLast, StayAtWorker,
\* SyncTasksAnySuccess and ResumeKeepingReason are mutants: no behaviour of Spec
\* uses them.

CONSTANTS Callers,    \* handlers that call process()
          Operators,  \* handlers of emergency_stop and resume
          Forbidden,  \* goals a Constitution rule denies
          PlanOf,     \* the capability each task of a goal's plan needs, in
                      \* topological order
          ModelsMayFail, \* the providers' quota may run out and be restored
          Reasons,    \* reasons given to emergency_stop
          NoReason,   \* the empty reason
          Threads     \* handlers run in threads

ASSUME ActorsAssumption == Callers \cap Operators = {}

ASSUME GoalAssumption == NoGoal \notin Goals

ASSUME PlanAssumption ==
  PlanOf \in [Goals -> Seq(Capabilities)]

ASSUME ModeAssumption == Threads \in BOOLEAN /\ ModelsMayFail \in BOOLEAN

VARIABLES pc,           \* where each handler is
          goal,         \* message of the call a caller is serving
          pick,         \* worker found for the task being scheduled
          results,      \* worker of each task scheduled so far, NoWorker = failed
          scan,         \* position of a handler in its release_all loop
          outcome,      \* result of a call about to return
          modelUp,      \* ResourceManager.select_model has a model to offer
          stopped,      \* GlobalState emergency_stop
          reason,       \* emergency._stop_reason
          currentGoal,  \* GlobalState current_goal
          activeTasks,  \* GlobalState active_tasks: how many ids it lists
          late          \* history: the call began under a stop not lifted since

callVars == <<goal, pick, results, outcome, late>>
stateVars == <<modelUp, currentGoal, activeTasks>>
stopVars == <<stopped, reason>>
vars == <<pc, scan, callVars, stateVars, stopVars, poolVars, journalVars>>

Actors == Callers \cup Operators

CallerSteps == {"request", "govern", "denied", "gate", "refused", "recordFailure",
                "plan", "find", "assignTask", "assignStatus", "answer", "record",
                "syncGoal", "syncTasks", "return"}
OperatorSteps == {"stopReason", "resumeReason"}
ReleaseSteps == {"release", "releaseTask", "releaseStatus"}

\* steps of a call that the emergency check has let through
Dispatching == {"plan", "find", "assignTask", "assignStatus"}

Outcomes == {"none", "denied", "stopped", "complete", "partial"}

TypeOK ==
  /\ PoolTypeOK
  /\ JournalTypeOK
  /\ pc \in [Actors -> {"idle"} \cup CallerSteps \cup OperatorSteps \cup ReleaseSteps]
  /\ scan \in [Actors -> Nat \ {0}]
  /\ goal \in [Callers -> Goals \cup {NoGoal}]
  /\ pick \in [Callers -> Workers \cup {NoWorker}]
  /\ results \in [Callers -> Seq(Workers \cup {NoWorker})]
  /\ outcome \in [Callers -> Outcomes]
  /\ late \in [Callers -> BOOLEAN]
  /\ modelUp \in BOOLEAN
  /\ stopped \in BOOLEAN
  /\ reason \in Reasons \cup {NoReason}
  /\ currentGoal \in Goals \cup {NoGoal}
  /\ activeTasks \in Nat

\* GlobalState as its constructor and the kernel's _sync_state leave it.
StateInit == stopped = FALSE /\ currentGoal = NoGoal /\ activeTasks = 0

Init ==
  /\ PoolInit
  /\ JournalInit
  /\ StateInit
  /\ pc = [a \in Actors |-> "idle"]
  /\ scan = [a \in Actors |-> 1]
  /\ goal = [c \in Callers |-> NoGoal]
  /\ pick = [c \in Callers |-> NoWorker]
  /\ results = [c \in Callers |-> <<>>]
  /\ outcome = [c \in Callers |-> "none"]
  /\ late = [c \in Callers |-> FALSE]
  /\ modelUp = TRUE
  /\ reason = NoReason

-----------------------------------------------------------------------------
Quiet == \A a \in Actors : pc[a] = "idle"

MayStart(a) == pc[a] = "idle" /\ (Threads \/ Quiet)

Goto(a, from, to) == pc[a] = from /\ pc' = [pc EXCEPT ![a] = to]

\* process() begins: the shared audit list is cleared
Begin(c) ==
  /\ MayStart(c)
  /\ Goto(c, "idle", "request")
  /\ \E g \in Goals : goal' = [goal EXCEPT ![c] = g]
  /\ results' = [results EXCEPT ![c] = <<>>]
  /\ late' = [late EXCEPT ![c] = stopped]
  /\ ClearAudit
  /\ UNCHANGED <<scan, pick, outcome, stateVars, stopVars, poolVars>>

\* RequestEvent; ExecutionStartEvent reaches the audit handler only
Request(c) ==
  /\ Goto(c, "request", "govern")
  /\ PublishRequest(goal[c])
  /\ UNCHANGED <<scan, callVars, stateVars, stopVars, poolVars>>

Governed(c) ==
  /\ Goto(c, "govern", "gate")
  /\ goal[c] \notin Forbidden
  /\ UNCHANGED <<scan, callVars, stateVars, stopVars, poolVars, journalVars>>

Denied(c) ==
  /\ Goto(c, "govern", "denied")
  /\ goal[c] \in Forbidden
  /\ Publish("deny", goal[c])
  /\ UNCHANGED <<scan, callVars, stateVars, stopVars, poolVars>>

GateOpen(c) ==
  /\ Goto(c, "gate", "plan")
  /\ UNCHANGED <<scan, callVars, stateVars, stopVars, poolVars, journalVars>>

\* emergency.is_stopped(), read once per call
Gate(c) ==
  /\ Goto(c, "gate", IF stopped THEN "refused" ELSE "plan")
  /\ UNCHANGED <<scan, callVars, stateVars, stopVars, poolVars, journalVars>>

\* ExecutionFailedEvent of a denied or a stopped call
Fail(c, from, why) ==
  /\ Goto(c, from, "recordFailure")
  /\ Publish("failed", goal[c])
  /\ outcome' = [outcome EXCEPT ![c] = why]
  /\ UNCHANGED <<scan, goal, pick, results, late, stateVars, stopVars, poolVars>>

RecordFailure(c) ==
  /\ Goto(c, "recordFailure", "return")
  /\ ProcessAuditLog(goal[c])
  /\ UNCHANGED <<scan, callVars, stateVars, stopVars, poolVars>>

Plan(c) ==
  /\ Goto(c, "plan", "find")
  /\ Publish("planned", goal[c])
  /\ UNCHANGED <<scan, callVars, stateVars, stopVars, poolVars>>

-----------------------------------------------------------------------------
(* scheduler.schedule_graph: the tasks one after the other.                *)

NextTask(c) == Len(results[c]) + 1
MoreTasks(c) == NextTask(c) <= Len(PlanOf[goal[c]])

Needed(c) == PlanOf[goal[c]][NextTask(c)]

\* find_best and select_model; the worker is not assigned yet
Find(c) ==
  /\ Goto(c, "find", "assignTask")
  /\ MoreTasks(c)
  /\ modelUp
  /\ \E w \in Workers : FindsBest(Needed(c), w) /\ pick' = [pick EXCEPT ![c] = w]
  /\ UNCHANGED <<scan, goal, results, outcome, late, stateVars, stopVars, poolVars,
                 journalVars>>

FindNothing(c) ==
  /\ Goto(c, "find", "find")
  /\ MoreTasks(c)
  /\ Candidates(Needed(c)) = {} \/ ~modelUp
  /\ results' = [results EXCEPT ![c] = Append(@, NoWorker)]
  /\ UNCHANGED <<scan, goal, pick, outcome, late, stateVars, stopVars, poolVars,
                 journalVars>>

WriteTask(c) ==
  /\ Goto(c, "assignTask", "assignStatus")
  /\ AssignTask(pick[c], NextTask(c))
  /\ UNCHANGED <<scan, callVars, stateVars, stopVars, journalVars>>

\* worker.status, then the dispatch result and its event
WriteStatus(c) ==
  /\ Goto(c, "assignStatus", "find")
  /\ AssignStatus(pick[c])
  /\ results' = [results EXCEPT ![c] = Append(@, pick[c])]
  /\ pick' = [pick EXCEPT ![c] = NoWorker]
  /\ UNCHANGED <<scan, goal, outcome, late, stateVars, stopVars, journalVars>>

\* the graph is scheduled; TaskCompleteEvents reach the audit handler only
Scheduled(c) ==
  /\ Goto(c, "find", "answer")
  /\ ~MoreTasks(c)
  /\ UNCHANGED <<scan, callVars, stateVars, stopVars, poolVars, journalVars>>

\* the language model has answered, failed or timed out
Answer(c) ==
  /\ Goto(c, "answer", "record")
  /\ Publish("finish", goal[c])
  /\ UNCHANGED <<scan, callVars, stateVars, stopVars, poolVars>>

RecordAndKeepWorkers(c) ==
  /\ Goto(c, "record", "syncGoal")
  /\ ProcessAuditLog(goal[c])
  /\ UNCHANGED <<scan, callVars, stateVars, stopVars, poolVars>>

Record(c) ==
  /\ Goto(c, "record", "release")
  /\ ProcessAuditLog(goal[c])
  /\ scan' = [scan EXCEPT ![c] = 1]
  /\ UNCHANGED <<callVars, stateVars, stopVars, poolVars>>

-----------------------------------------------------------------------------
(* worker_pool.release_all(), by a call that ends or by an emergency stop. *)

AtWorkerButLast(a) == scan[a] < Len(Registered)
AtWorker(a) == scan[a] <= Len(Registered)
Visited(a) == Registered[scan[a]]

AfterRelease(a) == IF a \in Callers THEN "syncGoal" ELSE "idle"

StayAtWorker(a) == UNCHANGED scan
Advance(a) == scan' = [scan EXCEPT ![a] = @ + 1]

SkipWorker(a) ==
  /\ AtWorker(a)
  /\ Goto(a, "release", "release")
  /\ status[Visited(a)] # "busy"
  /\ Advance(a)
  /\ UNCHANGED <<callVars, stateVars, stopVars, poolVars, journalVars>>

FoundBusy(a) ==
  /\ AtWorker(a)
  /\ Goto(a, "release", "releaseTask")
  /\ status[Visited(a)] = "busy"
  /\ UNCHANGED <<scan, callVars, stateVars, stopVars, poolVars, journalVars>>

ClearTask(a) ==
  /\ Goto(a, "releaseTask", "releaseStatus")
  /\ ReleaseTask(Visited(a))
  /\ UNCHANGED <<scan, callVars, stateVars, stopVars, journalVars>>

ClearStatus(a) ==
  /\ Goto(a, "releaseStatus", "release")
  /\ ReleaseStatus(Visited(a))
  /\ Advance(a)
  /\ UNCHANGED <<callVars, stateVars, stopVars, journalVars>>

Released(a) ==
  /\ ~AtWorker(a)
  /\ Goto(a, "release", AfterRelease(a))
  /\ scan' = [scan EXCEPT ![a] = 1]
  /\ UNCHANGED <<callVars, stateVars, stopVars, poolVars, journalVars>>

ReleaseAll(a) ==
  SkipWorker(a) \/ FoundBusy(a) \/ ClearTask(a) \/ ClearStatus(a) \/ Released(a)

-----------------------------------------------------------------------------
SyncGoal(c) ==
  /\ Goto(c, "syncGoal", "syncTasks")
  /\ currentGoal' = goal[c]
  /\ UNCHANGED <<scan, callVars, modelUp, activeTasks, stopVars, poolVars, journalVars>>

SyncTasksAnySuccess(c) ==
  /\ Goto(c, "syncTasks", "return")
  /\ activeTasks' = Len(PlanOf[goal[c]])
  /\ outcome' = [outcome EXCEPT ![c] =
                   IF \A i \in 1..Len(results[c]) : results[c][i] = NoWorker
                   THEN "partial" ELSE "complete"]
  /\ UNCHANGED <<scan, goal, pick, results, late, modelUp, currentGoal, stopVars,
                 poolVars, journalVars>>

SyncTasks(c) ==
  /\ Goto(c, "syncTasks", "return")
  /\ activeTasks' = Len(PlanOf[goal[c]])
  /\ outcome' = [outcome EXCEPT ![c] =
                   IF \E i \in 1..Len(results[c]) : results[c][i] = NoWorker
                   THEN "partial" ELSE "complete"]
  /\ UNCHANGED <<scan, goal, pick, results, late, modelUp, currentGoal, stopVars, poolVars,
                 journalVars>>

Return(c) ==
  /\ Goto(c, "return", "idle")
  /\ outcome' = [outcome EXCEPT ![c] = "none"]
  /\ goal' = [goal EXCEPT ![c] = NoGoal]
  /\ results' = [results EXCEPT ![c] = <<>>]
  /\ late' = [late EXCEPT ![c] = FALSE]
  /\ UNCHANGED <<scan, pick, stateVars, stopVars, poolVars, journalVars>>

-----------------------------------------------------------------------------
(* EmergencyControl.emergency_stop and resume.                             *)

Stop(o) ==
  /\ MayStart(o)
  /\ Goto(o, "idle", "stopReason")
  /\ stopped' = TRUE
  /\ UNCHANGED <<scan, callVars, stateVars, reason, poolVars, journalVars>>

StopReason(o) ==
  /\ Goto(o, "stopReason", "release")
  /\ \E r \in Reasons : reason' = r
  /\ scan' = [scan EXCEPT ![o] = 1]
  /\ UNCHANGED <<callVars, stateVars, stopped, poolVars, journalVars>>

Resume(o) ==
  /\ MayStart(o)
  /\ Goto(o, "idle", "resumeReason")
  /\ stopped' = FALSE
  /\ late' = [c \in Callers |-> FALSE]
  /\ UNCHANGED <<scan, goal, pick, results, outcome, stateVars, reason, poolVars,
                 journalVars>>

ResumeKeepingReason(o) ==
  /\ Goto(o, "resumeReason", "idle")
  /\ UNCHANGED <<scan, callVars, stateVars, stopVars, poolVars, journalVars>>

ResumeReason(o) ==
  /\ Goto(o, "resumeReason", "idle")
  /\ reason' = NoReason
  /\ UNCHANGED <<scan, callVars, stateVars, stopped, poolVars, journalVars>>

\* consume_quota and provider updates by other users of the resource manager
ModelsChange ==
  /\ ModelsMayFail
  /\ Threads \/ Quiet
  /\ modelUp' = ~modelUp
  /\ UNCHANGED <<pc, scan, callVars, currentGoal, activeTasks, stopVars, poolVars,
                 journalVars>>

\* health_report(): read without a lock from what the others write
HealthReport == [emergency_stop |-> stopped,
                 stop_reason    |-> reason,
                 total          |-> Cardinality(Workers),
                 available      |-> Cardinality(ListAvailable),
                 current_goal   |-> currentGoal,
                 active_tasks   |-> activeTasks,
                 entries        |-> Len(memory)]

\* The reports of a HealthChecker given the kernel and its memory bridge; what a
\* client of the token pool adds to the verdict is in TokenClient.
FullHealth == [status           |-> IF stopped THEN "emergency_stop" ELSE "healthy",
               kernel           |-> HealthReport,
               total            |-> Cardinality(Workers),
               available        |-> Cardinality(ListAvailable),
               entries          |-> Len(memory),
               recent_failures  |-> Cardinality(QueryByType("failure", 10)),
               recent_successes |-> Cardinality(QueryByType("success", 10))]

-----------------------------------------------------------------------------
CallerStep(c) ==
  \/ Request(c) \/ Governed(c) \/ Denied(c) \/ Gate(c)
  \/ Fail(c, "denied", "denied") \/ Fail(c, "refused", "stopped")
  \/ RecordFailure(c) \/ Plan(c)
  \/ Find(c) \/ FindNothing(c) \/ WriteTask(c) \/ WriteStatus(c) \/ Scheduled(c)
  \/ Answer(c) \/ Record(c) \/ ReleaseAll(c)
  \/ SyncGoal(c) \/ SyncTasks(c) \/ Return(c)

OperatorStep(o) == StopReason(o) \/ ReleaseAll(o) \/ ResumeReason(o)

Next ==
  \/ \E c \in Callers : Begin(c) \/ CallerStep(c)
  \/ \E o \in Operators : Stop(o) \/ Resume(o) \/ OperatorStep(o)
  \/ ModelsChange

\* A handler that has begun is run until it returns: no step of it blocks on
\* another handler, and the language model call is cut off by its timeout.
Fairness ==
  /\ \A c \in Callers : WF_vars(CallerStep(c))
  /\ \A o \in Operators : WF_vars(OperatorStep(o))

Spec == Init /\ [][Next]_vars

FairSpec == Spec /\ Fairness

-----------------------------------------------------------------------------
(* Properties.  Those of the first group hold however the handlers run.    *)

\* Handler a will still come past worker w in a release_all of its own.
WillVisit(a, w) ==
  \/ pc[a] \in {"find", "assignTask", "assignStatus", "answer", "record"}
  \/ /\ pc[a] \in ReleaseSteps
     /\ \E i \in scan[a]..Len(Registered) : Registered[i] = w

\* A worker marked busy is never forgotten: some handler in flight has yet to
\* pass it in its release_all, whatever the others assigned and released
\* meanwhile (kernel.process releases after every pipeline that scheduled).
BusyHasReleaser ==
  \A w \in Workers : status[w] = "busy" => \E a \in Actors : WillVisit(a, w)

\* When no handler is in flight no worker is marked busy.
QuietNotBusy == Quiet => \A w \in Workers : status[w] = "idle"

\* A call that began under an emergency stop which nobody lifted since never
\* reaches the planner or the scheduler, although the check comes several
\* steps after its beginning.
StopBlocksNewCalls == \A c \in Callers : late[c] => pc[c] \notin Dispatching

\* After an emergency stop that is never lifted the calls under way drain:
\* from some point on every worker is idle for good.
StopDrains ==
  <>[]stopped => <>[](\A w \in Workers : status[w] = "idle")

\* Every call that began returns, with whatever the others do in between.
CallsReturn == \A c \in Callers : pc[c] = "request" ~> pc[c] = "return"

(***************************************************************************)
(* Those of the second group hold when handlers run one at a time; with    *)
(* threads most of them are lost.                                          *)
(***************************************************************************)

\* Between calls every worker can be found again: idle and without a task.
WorkersHome == Quiet => \A w \in Workers : Available(w)

\* The stop is on and the emergency_stop call that set it has returned.
StopInForce == stopped /\ \A o \in Operators : pc[o] = "idle"

\* While the emergency stop is in force the scheduler takes no worker for a
\* task.
NoDispatchWhileStopped ==
  [][\A c \in Callers :
       pc[c] = "find" /\ pc'[c] = "assignTask" => ~StopInForce]_vars

\* find_best hands out idle workers only: an assignment never overwrites the
\* task of a worker that still holds one.
NoDoubleBooking ==
  [][\A w \in Workers : task[w] # NoTask => task'[w] \in {task[w], NoTask}]_vars

\* What the store answers about a goal is about calls with that goal, although
\* a memory is filed under whatever request was published last.
MemoryAttribution ==
  \A g \in Goals : \A e \in QueryByGoal(g) : e.about = g

AuditOf(c) ==
  LET line(e) == [type |-> e, about |-> goal[c]]
  IN CASE outcome[c] = "denied" -> <<line("deny"), line("failed")>>
       [] outcome[c] = "stopped" -> <<line("failed")>>
       [] OTHER -> <<line("planned"), line("finish")>>

\* The audit list a call returns holds its own events, all of them, in order.
AuditOfOneCall == \A c \in Callers : pc[c] = "return" => audit = AuditOf(c)

\* What is written down about a call is written down about that call, in the
\* memory as in the audit list it returns.
JournalOfOneCall == MemoryAttribution /\ AuditOfOneCall

\* The parts of a health report agree, each kept by another component.  With no
\* operator in the middle of a request: a reason while stopped, none otherwise.
\* Between calls: every worker available, the tasks those of the goal beside
\* them, a memory of each goal served (as long as it has room for one), and the
\* last call counted twice, by its event and by its audit list, as one failure
\* or one success among the recent ones.
ReportAgrees ==
  /\ (\A o \in Operators : pc[o] = "idle") =>
       (HealthReport.emergency_stop <=> HealthReport.stop_reason # NoReason)
  /\ Quiet =>
       /\ HealthReport.available = HealthReport.total
       /\ IF HealthReport.current_goal = NoGoal THEN HealthReport.active_tasks = 0
          ELSE /\ HealthReport.active_tasks = Len(PlanOf[HealthReport.current_goal])
               /\ HealthReport.entries >= IF MemoryCap < 4 THEN MemoryCap ELSE 4
       /\ MemoryCap >= 4 /\ FullHealth.entries > 0 =>
            \/ FullHealth.recent_failures >= 2
            \/ FullHealth.recent_successes >= 2

\* What the kernel promises when calls run one at a time (KernelService): the
\* result of a call depends on its goal and on the switch alone.
Service == INSTANCE KernelService WITH
  asked <- goal,
  answer <- outcome,
  halted <- stopped,
  shown <- activeTasks,
  models <- modelUp

ServiceSpec == Service!Spec
=============================================================================
