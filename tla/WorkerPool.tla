------------------------------ MODULE WorkerPool ------------------------------
(***************************************************************************)
(* The pool of workers of one kernel (app/worker).  A worker keeps two     *)
(* fields that every assignment and every release writes one after the     *)
(* other without a lock: current_task and status.  The two writes are two  *)
(* actions here, because another thread may run between them.              *)
(***************************************************************************)
EXTENDS Naturals, FiniteSets, Sequences

CONSTANTS Workers,       \* worker ids
          Registered,    \* the workers in the order they were registered
          Capabilities,  \* capability names
          Caps,          \* the capabilities each worker declares
          NoTask,        \* current_task is None
          NoWorker       \* no worker: find_best returned None

ASSUME RegisteredAssumption ==
  /\ Registered \in Seq(Workers)
  /\ \A w \in Workers : \E i \in 1..Len(Registered) : Registered[i] = w

ASSUME CapsAssumption == Caps \in [Workers -> SUBSET Capabilities]

ASSUME NoneAssumption == NoWorker \notin Workers /\ NoTask \notin Nat

VARIABLES status,  \* worker.status
          task     \* worker.current_task: the number in the task id, or NoTask

poolVars == <<status, task>>

Status == {"idle", "busy"}

PoolTypeOK ==
  /\ status \in [Workers -> Status]
  /\ task \in [Workers -> Nat \cup {NoTask}]

PoolInit ==
  /\ status = [w \in Workers |-> "idle"]
  /\ task = [w \in Workers |-> NoTask]

-----------------------------------------------------------------------------
\* The capabilities the three kinds of worker are created with.
Declared == [llm    |-> {"reasoning", "planning", "chat"},
             tool   |-> {"shell", "filesystem"},
             system |-> {"monitor", "diagnostic"}]

Available(w) == status[w] = "idle" /\ task[w] = NoTask

\* a mutant: busy workers too
CandidatesAll(cap) == {w \in Workers : cap \in Caps[w]}

Candidates(cap) == {w \in Workers : Available(w) /\ cap \in Caps[w]}

Place(w) == CHOOSE i \in 1..Len(Registered) :
              /\ Registered[i] = w
              /\ \A j \in 1..(i - 1) : Registered[j] # w

\* min() prefers a to b: fewer capabilities, then registered first
Better(a, b) ==
  \/ Cardinality(Caps[a]) < Cardinality(Caps[b])
  \/ Cardinality(Caps[a]) = Cardinality(Caps[b]) /\ Place(a) <= Place(b)

ListAvailable == {w \in Workers : Available(w)}

\* find_best(cap) returns w; it returns None when there are no candidates
FindsBest(cap, w) ==
  w \in Candidates(cap) /\ \A v \in Candidates(cap) : Better(w, v)

-----------------------------------------------------------------------------
\* assign() writes current_task, then status; release() writes them in the
\* same order.
AssignTask(w, t) == task' = [task EXCEPT ![w] = t] /\ UNCHANGED status

AssignStatus(w) == status' = [status EXCEPT ![w] = "busy"] /\ UNCHANGED task

ReleaseTask(w) == task' = [task EXCEPT ![w] = NoTask] /\ UNCHANGED status

ReleaseStatus(w) == status' = [status EXCEPT ![w] = "idle"] /\ UNCHANGED task
=============================================================================
