------------------------------- MODULE Journal -------------------------------
(***************************************************************************)
(* What a kernel writes down about the calls it serves: the audit list     *)
(* that all calls share, and the memory the bridge fills from the events   *)
(* and again from the audit list.                                          *)
(*                                                                         *)
(* An audit line is kept only if the memory extractor reads its type; the  *)
(* text of a line is the goal of the call that published the event         *)
(* ("about"), which no field of the code records.                          *)
(***************************************************************************)
EXTENDS Integers, Sequences, FiniteSets

CONSTANTS Goals,     \* the messages users send
          NoGoal,    \* _active_goal before the first request
          MemoryCap  \* maxlen of the deque of memories

ASSUME MemoryCapAssumption == MemoryCap \in Nat

VARIABLES audit,       \* kernel._audit_entries
          activeGoal,  \* memory_bridge._active_goal
          memory       \* memory_store._entries, oldest first

journalVars == <<audit, activeGoal, memory>>

EventTypes == {"deny", "failed", "planned", "finish"}

AuditEntry == [type : EventTypes, about : Goals]

MemoryEntry == [type : {"decision", "failure", "experience", "success"},
                goal : Goals \cup {NoGoal},
                about : Goals]

JournalTypeOK ==
  /\ audit \in Seq(AuditEntry)
  /\ activeGoal \in Goals \cup {NoGoal}
  /\ memory \in Seq(MemoryEntry)
  /\ Len(memory) <= MemoryCap

JournalInit ==
  /\ audit = <<>>
  /\ activeGoal = NoGoal
  /\ memory = <<>>

-----------------------------------------------------------------------------
\* the entry type the extractor and the event handlers give to an event
MemoryType == [deny |-> "decision", failed |-> "failure",
               planned |-> "experience", finish |-> "success"]

\* deque(maxlen): the oldest entries fall out
Bounded(m) ==
  IF Len(m) <= MemoryCap THEN m ELSE SubSeq(m, Len(m) - MemoryCap + 1, Len(m))

\* a mutant: the lines of earlier calls stay
KeepAudit == UNCHANGED journalVars

ClearAudit == audit' = <<>> /\ UNCHANGED <<activeGoal, memory>>

PublishRequest(g) == activeGoal' = g /\ UNCHANGED <<audit, memory>>

\* The two handlers of an event, in the order they subscribed.
AuditHandler(type, g) == audit' = Append(audit, [type |-> type, about |-> g])

Remember(type, g) ==
  memory' = Bounded(Append(memory, [type |-> MemoryType[type],
                                    goal |-> activeGoal, about |-> g]))

\* EventBus.publish calls them one after the other in the publisher's thread.
Publish(type, g) == AuditHandler(type, g) /\ Remember(type, g) /\ UNCHANGED activeGoal

Extracted(g) == [i \in 1..Len(audit) |-> [type |-> MemoryType[audit[i].type],
                                          goal |-> g, about |-> audit[i].about]]

ProcessAuditLog(g) ==
  /\ memory' = Bounded(memory \o Extracted(g))
  /\ UNCHANGED <<audit, activeGoal>>

\* What the store answers about a goal, in an order left out, and the places of what it
\* answers about a type of memory: the newest there are, up to a limit.
QueryByGoal(g) == {memory[i] : i \in {j \in 1..Len(memory) : memory[j].goal = g}}
QueryByType(type, limit) ==
  LET all == {i \in 1..Len(memory) : memory[i].type = type}
  IN {i \in all : Cardinality({j \in all : j > i}) < limit}
=============================================================================
