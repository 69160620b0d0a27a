------------------------------ MODULE Governor ------------------------------
(***************************************************************************)
(* Governor.check of the kernel: what a message and its session decide     *)
(* before anything is planned.  A message is what the checks can tell of   *)
(* it: whether it is blank and which of the Constitution's patterns are    *)
(* found in it.  Nothing here has a state.                                 *)
(***************************************************************************)
EXTENDS Integers, Sequences

Rule(name, risk) == [name |-> name, risk |-> risk]
Constitution == <<Rule("no_token_leak", "critical"), Rule("no_delete_system", "critical"),
                  Rule("no_modify_security", "critical"), Rule("no_bypass_permission", "high"),
                  Rule("critical_auto_deny", "critical")>>

Allow == [allowed |-> TRUE, rule |-> "", risk |-> "none"]
Deny(rule) == [allowed |-> FALSE, rule |-> rule.name, risk |-> rule.risk]

\* Policy.evaluate: the first rule whose pattern is found denies.
Evaluate(message) ==
  LET found == SelectSeq(Constitution, LAMBDA rule : rule.name \in message.matches)
  IN IF found = <<>> THEN Allow ELSE Deny(Head(found))

Check(session, message) == CASE message.blank -> Deny(Rule("empty_message", "low"))
                             [] ~message.blank /\ session < 0 -> Deny(Rule("invalid_session", "low"))
                             [] OTHER -> Evaluate(message)
=============================================================================
