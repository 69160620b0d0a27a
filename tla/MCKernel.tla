------------------------------- MODULE MCKernel -------------------------------
(***************************************************************************)
(* Instances of Kernel for TLC.  Workers and plans are those of the        *)
(* kernel's bootstrap and planner, cut down: two tool workers and a system *)
(* worker, a deployment that needs more tool workers than there are, plans *)
(* that fit, and a goal the Constitution denies.                           *)
(***************************************************************************)
EXTENDS Kernel

MCCapabilities == Declared.tool \cup Declared.system

MCPlans ==
  [deploy |-> <<"shell", "shell", "shell", "monitor">>,
   check |-> <<"monitor", "shell">>,
   backup |-> <<"shell", "filesystem">>,
   probe |-> <<"monitor">>,
   wipe |-> <<"shell", "monitor">>]

\* The Governor lets every goal pass but the one that deletes system files as root.
Gov == INSTANCE Governor
MCMessage(g) == [blank |-> FALSE, matches |-> IF g = "wipe" THEN {"no_delete_system", "no_bypass_permission"} ELSE {}]
MCForbidden == {g \in Goals : ~Gov!Check(1, MCMessage(g)).allowed}

MCPlanOf == [g \in Goals |-> MCPlans[g]]

MCCaps == [w \in Workers |-> IF w = "sys-1" THEN Declared.system ELSE Declared.tool]

RegisteredS == <<"sys-1">>
WorkersS == {"sys-1"}
Registered1 == <<"tool-1">>
Registered2 == <<"tool-1", "sys-1">>
Registered3 == <<"tool-1", "tool-2", "sys-1">>
Workers1 == {"tool-1"}
Workers2 == {"tool-1", "sys-1"}
Workers3 == {"tool-1", "tool-2", "sys-1"}
=============================================================================
