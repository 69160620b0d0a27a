---- MODULE MCTaskGraph ----
(* TaskGraph for TLC: the plans of the planner, all graphs of at most three  *)
(* tasks with up to two dependencies each, repeated or unknown ones among    *)
(* them, and all graphs of four tasks with up to one.  9 names no task.      *)
EXTENDS TaskGraph, Planner

Lists(S) == {<<>>} \union {<<a>> : a \in S} \union {<<a, b>> : a, b \in S}
SmallGraphs == UNION {[1..n -> Lists(1..n \union {9})] : n \in 1..3}
LongGraphs == [1..4 -> {<<>>} \union {<<a>> : a \in 1..4}]
AllGraphs == SmallGraphs \union LongGraphs \union PlannedGraphs
====
