---- MODULE Planner ----
(***************************************************************************)
(* The plans of the planner (app/planner/planner.py): one per pattern and   *)
(* the default.  A plan lists for every task what it depends on and the     *)
(* capability it needs; wording, types and the patterns are left out: which *)
(* pattern a goal matches decides only which plan is built.                 *)
(***************************************************************************)
EXTENDS Naturals, Sequences

Task(dep, capability) == [dep |-> dep, capability |-> capability]

\* The plans whose every task depends on the one before.
Chain(capabilities) ==
    [i \in DOMAIN capabilities |-> Task(IF i = 1 THEN <<>> ELSE <<i - 1>>, capabilities[i])]

\* server_check: the report depends on the metrics and on their analysis.
ServerCheck ==
    <<Task(<<>>, "monitor"), Task(<<1>>, "reasoning"), Task(<<1, 2>>, "reasoning")>>

Deploy == Chain(<<"shell", "shell", "shell", "monitor">>)
CodeReview == Chain(<<"filesystem", "reasoning", "reasoning">>)
BugFix == Chain(<<"diagnostic", "shell", "monitor">>)
CreateProject == Chain(<<"filesystem", "shell", "shell">>)
LogMonitor == Chain(<<"monitor", "diagnostic", "reasoning">>)
Backup == Chain(<<"filesystem", "shell", "monitor">>)
Search == Chain(<<"reasoning", "filesystem", "reasoning">>)
UpdateSystem == Chain(<<"shell", "filesystem", "shell", "monitor">>)
ApiTest == Chain(<<"reasoning", "shell", "reasoning">>)
PerformanceDiagnosis == LogMonitor
GenerateDoc == Chain(<<"reasoning", "reasoning", "reasoning">>)
DefaultPlan == Chain(<<"reasoning", "shell", "monitor">>)

Plans ==
    {ServerCheck, Deploy, CodeReview, BugFix, CreateProject, LogMonitor, Backup, Search,
     UpdateSystem, ApiTest, PerformanceDiagnosis, GenerateDoc, DefaultPlan}

\* create_plan builds the task graph of a plan.
Dependencies(plan) == [i \in DOMAIN plan |-> plan[i].dep]
PlannedGraphs == {Dependencies(plan) : plan \in Plans}
====
