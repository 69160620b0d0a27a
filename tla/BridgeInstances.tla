-------------------------- MODULE BridgeInstances --------------------------
(***************************************************************************)
(* The MiClaw bridge instances of the control panel: the file              *)
(* miclaw_instances.json and the routes of admin/bridge_manager.py (and    *)
(* the instance routes of admin/router.py) that edit it.                   *)
(*                                                                         *)
(* Every route reads the whole file and writes the whole file.  A login    *)
(* (a coroutine) waits up to 15 s for the provider between the two, and a  *)
(* poll (a thread) up to 5 s for the bridge, so each holds a copy that the *)
(* other routes make stale; the others take no step between reading and    *)
(* writing here (PanelStore models that window).                           *)
(***************************************************************************)
EXTENDS Naturals

CONSTANTS BridgeCalls, \* logins and polls under way
          MaxInstances \* bound on applications

VARIABLES inst,    \* the file: id -> [status, loggedIn]
          applied, \* applications so far; ids are never used twice
          overdue, \* ids created more than 7200 s ago
          call     \* what each login or poll is doing: [at, id, copy]

bridgeVars == <<inst, applied, overdue, call>>

NoInst == <<>>
NoCall == [at |-> "idle", id |-> 0, copy |-> NoInst]
Fresh == [status |-> "pending", loggedIn |-> FALSE]
Ids == 1..MaxInstances

BridgeInit == /\ inst = NoInst /\ applied = 0 /\ overdue = {}
              /\ call = [c \in BridgeCalls |-> NoCall]

\* _cleanup_inst: what is not "ready" goes after two hours.
Expired(d) == {a \in DOMAIN d : d[a].status # "ready" /\ a \in overdue}
Cleaned(d) == [a \in DOMAIN d \ Expired(d) |-> d[a]]

With(d, a) == [b \in DOMAIN d \cup {a} |-> IF b = a THEN Fresh ELSE d[b]]
\* bridge_apply cleans up and adds a pending instance under a fresh id.
Apply == /\ applied < MaxInstances
         /\ applied' = applied + 1
         /\ inst' = With(Cleaned(inst), applied + 1)
         /\ UNCHANGED <<overdue, call>>

Without(d, a) == [b \in DOMAIN d \ {a} |-> d[b]]
Destroy(a) == /\ a \in DOMAIN inst /\ inst' = Without(inst, a)
              /\ UNCHANGED <<applied, overdue, call>>
Pause(a) == /\ a \in DOMAIN inst /\ inst' = [inst EXCEPT ![a].status = "stopped"]
            /\ UNCHANGED <<applied, overdue, call>>

\* The administrator's page cleans up before it lists.
ListPage == /\ Expired(inst) # {} /\ inst' = Cleaned(inst)
            /\ UNCHANGED <<applied, overdue, call>>

\* bridge_login_post: read the file, wait for the provider, write the copy with the
\* instance logged in, whatever the provider answered: its token or, as a fallback, a made-up one.
LoginBegins(c, a) == /\ call[c] = NoCall /\ a \in DOMAIN inst
                     /\ call' = [call EXCEPT ![c] = [at |-> "login", id |-> a, copy |-> inst]]
                     /\ UNCHANGED <<inst, applied, overdue>>
LoginEnds(c) == /\ call[c].at = "login"
                /\ inst' = [call[c].copy EXCEPT ![call[c].id].loggedIn = TRUE]
                /\ call' = [call EXCEPT ![c] = NoCall]
                /\ UNCHANGED <<applied, overdue>>

\* bridge_status: clean up, read the file, ask the bridge; if the bridge has a session the
\* polled instance is ready, otherwise an overdue one is deleted.
PollBegins(c, a) == /\ call[c] = NoCall /\ a \in DOMAIN Cleaned(inst)
                    /\ inst' = Cleaned(inst)
                    /\ call' = [call EXCEPT ![c] = [at |-> "poll", id |-> a, copy |-> Cleaned(inst)]]
                    /\ UNCHANGED <<applied, overdue>>
\* MUTANT: a poll that finds nothing cleans up its copy once more and saves it.
PollEndsCleaning(c) == /\ call[c].at = "poll"
                       /\ \/ inst' = [call[c].copy EXCEPT ![call[c].id].status = "ready"]
                          \/ inst' = Cleaned(Without(inst, call[c].id))
                       /\ call' = [call EXCEPT ![c] = NoCall]
                       /\ UNCHANGED <<applied, overdue>>
PollEnds(c) == /\ call[c].at = "poll"
               /\ \/ inst' = [call[c].copy EXCEPT ![call[c].id].status = "ready"]
                  \/ call[c].id \in overdue /\ inst' = Without(call[c].copy, call[c].id)
                  \/ call[c].id \notin overdue /\ UNCHANGED inst
               /\ call' = [call EXCEPT ![c] = NoCall]
               /\ UNCHANGED <<applied, overdue>>

TwoHours(a) == /\ a \in 1..applied \ overdue /\ overdue' = overdue \cup {a}
               /\ UNCHANGED <<inst, applied, call>>

BridgeNext == \/ Apply \/ ListPage
              \/ \E a \in Ids : Destroy(a) \/ Pause(a) \/ TwoHours(a)
              \/ \E c \in BridgeCalls : \/ LoginEnds(c) \/ PollEnds(c)
                                        \/ \E a \in Ids : LoginBegins(c, a) \/ PollBegins(c, a)
BridgeSpec == BridgeInit /\ [][BridgeNext]_bridgeVars

-----------------------------------------------------------------------------
Holding(c, a) == call[c].at # "idle" /\ a \in DOMAIN call[c].copy
Late(c) == LoginEnds(c) \/ PollEnds(c)

\* The damage a stale copy can do: an id that has left the file comes back only in the write
\* of a call that had read it before, and an id that is ready leaves it only when destroyed,
\* or in the write of a call that had read the file without it or had seen it overdue.
StaleWritesOnly ==
  [][\A a \in Ids :
       /\ a \in DOMAIN inst' \ DOMAIN inst =>
            a > applied \/ \E c \in BridgeCalls : Holding(c, a) /\ Late(c)
       /\ a \in DOMAIN inst \ DOMAIN inst' /\ inst[a].status = "ready" =>
            \/ Destroy(a)
            \/ \E c \in BridgeCalls : Late(c) /\ (~Holding(c, a) \/ (call[c].id = a /\ a \in overdue))
    ]_bridgeVars
=============================================================================
