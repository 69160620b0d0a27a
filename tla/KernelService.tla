----------------------------- MODULE KernelService -----------------------------
(***************************************************************************)
(* What a kernel that serves one call at a time promises: the result of a  *)
(* call depends on its goal, on the emergency switch and on whether models *)
(* are to be had, never on the calls served before it.  No worker, no      *)
(* audit list, no memory: a goal is served completely exactly when the     *)
(* registered workers, all of them free, can be given one task each.       *)
(***************************************************************************)
EXTENDS Naturals, Sequences

CONSTANTS Callers, Goals, NoGoal, Forbidden, PlanOf, Workers, Caps

VARIABLES asked,   \* the goal a caller waits for
          answer,  \* the result a caller has been given and not yet taken
          halted,  \* the emergency switch
          models,  \* some provider has a model to offer
          shown    \* number of tasks listed for the goal served last

vars == <<asked, answer, halted, models, shown>>

Tasks(g) == 1..Len(PlanOf[g])

\* each task can have a worker of its own that is able to do it
Fits(g) ==
  /\ Tasks(g) # {} => models
  /\ \E give \in [Tasks(g) -> Workers] :
       /\ \A i \in Tasks(g) : PlanOf[g][i] \in Caps[give[i]]
       /\ \A i, j \in Tasks(g) : give[i] = give[j] => i = j

Init ==
  /\ asked = [c \in Callers |-> NoGoal]
  /\ answer = [c \in Callers |-> "none"]
  /\ halted = FALSE
  /\ models = TRUE
  /\ shown = 0

Ask(c, g) ==
  /\ asked[c] = NoGoal
  /\ asked' = [asked EXCEPT ![c] = g]
  /\ UNCHANGED <<answer, halted, models, shown>>

Reply(c, r) ==
  /\ asked[c] # NoGoal
  /\ answer[c] = "none"
  /\ answer' = [answer EXCEPT ![c] = r]
  /\ UNCHANGED <<asked, halted, models>>

Refuse(c) ==
  /\ Reply(c, IF asked[c] \in Forbidden THEN "denied" ELSE "stopped")
  /\ asked[c] \in Forbidden \/ halted
  /\ UNCHANGED shown

Serve(c) ==
  /\ asked[c] \notin Forbidden
  /\ ~halted
  /\ Reply(c, IF Fits(asked[c]) THEN "complete" ELSE "partial")
  /\ shown' = Len(PlanOf[asked[c]])

Take(c) ==
  /\ answer[c] # "none"
  /\ asked' = [asked EXCEPT ![c] = NoGoal]
  /\ answer' = [answer EXCEPT ![c] = "none"]
  /\ UNCHANGED <<halted, models, shown>>

Switch(on) == halted' = on /\ UNCHANGED <<asked, answer, models, shown>>

Models(up) == models' = up /\ UNCHANGED <<asked, answer, halted, shown>>

Next ==
  \/ \E c \in Callers : Refuse(c) \/ Serve(c) \/ Take(c)
  \/ \E c \in Callers, g \in Goals : Ask(c, g)
  \/ \E on \in BOOLEAN : Switch(on) \/ Models(on)

Spec == Init /\ [][Next]_vars
=============================================================================
