---- MODULE TaskGraph ----
(***************************************************************************)
(* The task graph of the planner (app/planner/task_graph.py).               *)
(*                                                                         *)
(* The constructor refuses a graph with an unknown dependency or a cycle;  *)
(* cycles are searched depth first with three colors.  The scheduler then  *)
(* asks for the topological order, which Kahn's algorithm computes.  Both   *)
(* algorithms are modelled step by step: a step is one dependency looked    *)
(* at, one task entered or left, one task taken from the queue.             *)
(*                                                                         *)
(* Tasks are named by their place in the list, so a graph with a duplicate  *)
(* id, which the constructor refuses first (57-59), does not arise.  The    *)
(* dictionary parent is not kept: the parent of a task on the stack is the  *)
(* task below it, and no other is asked for.                                *)
(***************************************************************************)
EXTENDS Integers, Sequences, FiniteSets

\* The graphs under study: for every task in turn the list of what it depends
\* on, with repetitions and with names of no task.
CONSTANT Graphs
ASSUME GraphsAreLists == Graphs \subseteq Seq(Seq(Nat))

VARIABLES deps,     \* Task.dependency of every task; never changes
          phase,    \* how far the constructor and topological_order are
          color,    \* color in _detect_cycle
          stack,    \* the calls of dfs: a task and the next dependency to look at
          report,   \* the path _detect_cycle returns
          degree,   \* in_degree in topological_order
          queue,
          result
vars == <<deps, phase, color, stack, report, degree, queue, result>>

Tasks == DOMAIN deps
Deps(t) == {deps[t][i] : i \in DOMAIN deps[t]}
On(s) == {s[i] : i \in DOMAIN s}
Colored(c) == {t \in Tasks : color[t] = c}
Nodes == {stack[i].node : i \in DOMAIN stack}

Phases == {"check", "search", "accepted", "sort", "sorted", "stuck", "rejected"}
Frame == [node : Tasks, next : Nat \ {0}]

TypeOK ==
    /\ deps \in Seq(Seq(Nat))
    /\ phase \in Phases
    /\ color \in [Tasks -> {"white", "gray", "black"}]
    /\ stack \in Seq(Frame)
    /\ report \in Seq(Tasks)
    /\ degree \in [Tasks -> Nat]
    /\ queue \in Seq(Tasks)
    /\ result \in Seq(Tasks)

Known == \A t \in Tasks : Deps(t) \subseteq Tasks

\* A set of tasks each of which waits for another of them holds a cycle.
Acyclic(S) == \A C \in SUBSET S : C # {} => \E t \in C : Deps(t) \cap C = {}

----
(* _validate and _detect_cycle. *)

Check ==
    /\ phase = "check"
    /\ phase' = IF Known THEN "search" ELSE "rejected"
    /\ UNCHANGED <<deps, color, stack, report, degree, queue, result>>

\* The next task of the list that is still white starts a search.
Root ==
    /\ phase = "search"
    /\ stack = <<>>
    /\ \E t \in Colored("white") :
         /\ \A u \in Colored("white") : t <= u
         /\ color' = [color EXCEPT ![t] = "gray"]
         /\ stack' = <<[node |-> t, next |-> 1]>>
    /\ UNCHANGED <<deps, phase, report, degree, queue, result>>

Top == stack[Len(stack)]
Dep == deps[Top.node][Top.next]
Pop == SubSeq(stack, 1, Len(stack) - 1)
Advance == [stack EXCEPT ![Len(stack)].next = @ + 1]

\* dfs(Top.node) looks at its next dependency.
Looking ==
    /\ phase = "search"
    /\ stack # <<>>
    /\ Top.next <= Len(deps[Top.node])

\* A white dependency is entered.
Enter ==
    /\ Looking
    /\ color[Dep] = "white"
    /\ color' = [color EXCEPT ![Dep] = "gray"]
    /\ stack' = Append(Advance, [node |-> Dep, next |-> 1])
    /\ UNCHANGED <<deps, phase, report, degree, queue, result>>

\* A black one is passed over.
Skip ==
    /\ Looking
    /\ color[Dep] = "black"
    /\ stack' = Advance
    /\ UNCHANGED <<deps, phase, color, report, degree, queue, result>>

\* The way back from the top of the stack to d: down to the task above d, or
\* to the root when d is not below the top.
Path(d) ==
    LET top == Len(stack)
        below == {j \in 1..(top - 1) : stack[j].node = d}
        lowest == IF below = {} THEN 1 ELSE (CHOOSE j \in below : TRUE) + 1
    IN  <<d>> \o [i \in 1..(top - lowest + 1) |-> stack[top + 1 - i].node] \o <<d>>

\* A gray one closes a cycle: the constructor raises.
Found ==
    /\ Looking
    /\ color[Dep] = "gray"
    /\ phase' = "rejected"
    /\ report' = Path(Dep)
    /\ UNCHANGED <<deps, color, stack, degree, queue, result>>

\* MUTANT: a task that is left stays gray.
LeaveGray ==
    /\ phase = "search"
    /\ stack # <<>>
    /\ Top.next > Len(deps[Top.node])
    /\ stack' = Pop
    /\ UNCHANGED <<deps, phase, color, report, degree, queue, result>>

\* All dependencies looked at: dfs returns.
Leave ==
    /\ phase = "search"
    /\ stack # <<>>
    /\ Top.next > Len(deps[Top.node])
    /\ color' = [color EXCEPT ![Top.node] = "black"]
    /\ stack' = Pop
    /\ UNCHANGED <<deps, phase, report, degree, queue, result>>

Accept ==
    /\ phase = "search"
    /\ stack = <<>>
    /\ Colored("white") = {}
    /\ phase' = "accepted"
    /\ UNCHANGED <<deps, color, stack, report, degree, queue, result>>

----
(* topological_order. *)

\* How often t names d among its dependencies.
Times(d, t) == Cardinality({i \in DOMAIN deps[t] : deps[t][i] = d})

\* The members of S in the order of the list.
Place(t, S) == Cardinality({u \in S : u <= t})
InOrder(S) == [i \in 1..Cardinality(S) |-> CHOOSE t \in S : Place(t, S) = i]

\* in_degree counts every dependency, repetitions too; the queue starts with
\* the tasks that have none.
Prepare ==
    /\ phase = "accepted"
    /\ phase' = "sort"
    /\ degree' = [t \in Tasks |-> Len(deps[t])]
    /\ queue' = InOrder({t \in Tasks : Len(deps[t]) = 0})
    /\ UNCHANGED <<deps, color, stack, report, result>>

\* MUTANT: a repeated dependency is counted off once.
TakeOnce ==
    /\ phase = "sort"
    /\ queue # <<>>
    /\ result' = Append(result, Head(queue))
    /\ degree' = [t \in Tasks |-> degree[t] - (IF Head(queue) \in Deps(t) THEN 1 ELSE 0)]
    /\ queue' = Tail(queue) \o InOrder({t \in Tasks : degree[t] > 0 /\ degree'[t] = 0})
    /\ UNCHANGED <<deps, phase, color, stack, report>>

\* MUTANT: every task that names the one taken is queued.
TakeEager ==
    /\ phase = "sort"
    /\ queue # <<>>
    /\ result' = Append(result, Head(queue))
    /\ degree' = [t \in Tasks |-> degree[t] - Times(Head(queue), t)]
    /\ queue' = Tail(queue) \o InOrder({t \in Tasks : Head(queue) \in Deps(t)})
    /\ UNCHANGED <<deps, phase, color, stack, report>>

\* The next task of the queue is placed; the tasks it was the last to hold up
\* join the queue.
Take ==
    /\ phase = "sort"
    /\ queue # <<>>
    /\ result' = Append(result, Head(queue))
    /\ degree' = [t \in Tasks |-> degree[t] - Times(Head(queue), t)]
    /\ queue' = Tail(queue) \o InOrder({t \in Tasks : degree[t] > 0 /\ degree'[t] = 0})
    /\ UNCHANGED <<deps, phase, color, stack, report>>

\* The queue is empty: the order is complete, or RuntimeError.
Finish ==
    /\ phase = "sort"
    /\ queue = <<>>
    /\ phase' = IF Len(result) = Len(deps) THEN "sorted" ELSE "stuck"
    /\ UNCHANGED <<deps, color, stack, report, degree, queue, result>>

Init ==
    /\ deps \in Graphs
    /\ phase = "check"
    /\ color = [t \in Tasks |-> "white"]
    /\ stack = <<>>
    /\ report = <<>>
    /\ degree = [t \in Tasks |-> 0]
    /\ queue = <<>>
    /\ result = <<>>

Searching == Root \/ Enter \/ Skip \/ Found \/ Leave \/ Accept
Sorting == Prepare \/ Take \/ Finish
Next == Check \/ Searching \/ Sorting
Spec == Init /\ [][Next]_vars

\* The program runs on: nothing else is asked of the scheduler.
FairSpec == Spec /\ WF_vars(Next)

----
(* Properties. *)

\* What is accepted is acyclic: no set of tasks waits for itself, whichever
\* task the search started from and whatever it passed over as black.
AcceptedRightly ==
    phase \in {"accepted", "sort", "sorted", "stuck"} => Known /\ Acyclic(Tasks)

\* A reported path leads from a dependency to a task that names it, and back
\* to where it started.
Closed(p) ==
    /\ p[1] = p[Len(p)]
    /\ \A i \in 1..(Len(p) - 1) : p[i] \in Deps(p[i + 1])

\* What is rejected with a path has a cycle: the path is one, or its first
\* task depends on itself.
RejectedRightly == report # <<>> => Closed(report) \/ report[1] \in Deps(report[1])

\* The constructor accepts exactly the graphs that can be executed, whatever
\* root the search starts from and whatever it shares between roots.
ValidatedRightly == AcceptedRightly /\ RejectedRightly

\* Every task is placed once and after everything it depends on.
OrderRespected ==
    /\ \A i, j \in DOMAIN result : result[i] = result[j] => i = j
    /\ \A i \in DOMAIN result : Deps(result[i]) \subseteq {result[j] : j \in 1..(i - 1)}

\* The RuntimeError of topological_order, "cycle may exist despite
\* validation", is never raised: an accepted graph is sorted completely.
NeverStuck == phase # "stuck" /\ (phase = "sorted" => On(result) = Tasks)
====
