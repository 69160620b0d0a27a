---------------------------- MODULE DeviceDebug ----------------------------
(***************************************************************************)
(* The remote commands of the control panel, admin/debug_api_v2.py: one    *)
(* pending command per device, in memory and in pending_commands.json.  A  *)
(* device polls until it has posted the result, so a command may reach it  *)
(* several times; commands older than 300 s are dropped.  The tools of the *)
(* administrator's chat (tools.py) put commands among them, and a switch   *)
(* in its heartbeat says whether a device lets itself be collected.        *)
(*                                                                         *)
(* A request changes the memory, then empties the file and writes it, then *)
(* answers; the process may stop between any two of these and reads the    *)
(* file when it starts again.                                              *)
(***************************************************************************)
EXTENDS Naturals

CONSTANTS Devices,    \* device codes
          DebugCalls, \* requests that may be under way at once
          MaxCommands \* bound on the commands sent

VARIABLES pending,  \* _debug_commands: device -> number of its send
          stored,   \* pending_commands.json, no command when it is torn
          late,     \* sends older than _CMD_TTL
          beats,    \* the last heartbeats: device -> collect_enabled in [file, memory]
          sent,     \* sends so far; its number and the device are a command's id
          handed,   \* the commands, [device, id], that devices have received
          answered, \* the commands whose result the panel has acknowledged
          saving    \* what each request is doing: [at, copy, done]

debugVars == <<pending, stored, late, beats, sent, handed, answered, saving>>

None == <<>>
Waiting == [at |-> "idle", copy |-> None, done |-> {}]
DebugInit == /\ pending = None /\ stored = None /\ late = {} /\ beats = None /\ sent = 0
             /\ handed = {} /\ answered = {}
             /\ saving = [c \in DebugCalls |-> Waiting]

Forget(code) == [d \in DOMAIN pending \ {code} |-> pending[d]]
Saves(c, done) == saving' = [saving EXCEPT ![c] = [at |-> "save", copy |-> None, done |-> done]]
Free(c) == saving[c] = Waiting
IsLate(code) == code \in DOMAIN pending /\ pending[code] \in late

\* debug_send_cmd replaces whatever was pending.  debug_send_collect does so for the devices
\* that have collecting enabled in memory and were heard of in the last 600 s, which may be
\* any of them; a heartbeat file counts only when it is newer, which it never is.  A tool
\* asks the file of its device instead, whenever that was written.
Commands(codes) == [d \in DOMAIN pending \cup codes |-> IF d \in codes THEN sent + 1 ELSE pending[d]]
Send(c, codes) == /\ Free(c) /\ sent < MaxCommands
                  /\ pending' = Commands(codes) /\ sent' = sent + 1
                  /\ Saves(c, {})
                  /\ UNCHANGED <<stored, late, beats, handed, answered>>
SendCmd(c) == \E d \in Devices : Send(c, {d})
Willing == {d \in DOMAIN beats : beats[d].memory}
SendCollect(c) == \E codes \in SUBSET Willing : Send(c, codes)
SendTool(c, d) == d \in DOMAIN beats /\ beats[d].file /\ Send(c, {d})

\* debug_poll_cmd hands the command out and keeps it; a late one is dropped instead.
Poll(c, d) == /\ Free(c) /\ d \in DOMAIN pending
              /\ \/ /\ ~IsLate(d) /\ handed' = handed \cup {[device |-> d, id |-> pending[d]]}
                    /\ UNCHANGED <<pending, saving>>
                 \/ /\ IsLate(d) /\ pending' = Forget(d) /\ Saves(c, {})
                    /\ UNCHANGED handed
              /\ UNCHANGED <<stored, late, beats, sent, answered>>

\* debug_heartbeat drops a late command too and puts what the device sends in memory and in
\* its file; the administrator's set-collect rewrites the file only.
Heartbeat(c, d) == /\ Free(c)
                   /\ \E b \in BOOLEAN : beats' = [e \in DOMAIN beats \cup {d} |-> IF e = d THEN [file |-> b, memory |-> b] ELSE beats[e]]
                   /\ IF IsLate(d) THEN pending' = Forget(d) /\ Saves(c, {})
                                   ELSE UNCHANGED <<pending, saving>>
                   /\ UNCHANGED <<stored, late, sent, handed, answered>>

SetCollect(d) == /\ d \in DOMAIN beats /\ beats' = [beats EXCEPT ![d].file = ~@]
                 /\ UNCHANGED <<pending, stored, late, sent, handed, answered, saving>>

\* MUTANT: the result is acknowledged before the file is written.
PostResultFirst(c, h) == /\ Free(c)
                         /\ IF h.device \in DOMAIN pending /\ pending[h.device] = h.id
                            THEN pending' = Forget(h.device) /\ Saves(c, {}) ELSE UNCHANGED <<pending, saving>>
                         /\ answered' = answered \cup {h}
                         /\ UNCHANGED <<stored, late, beats, sent, handed>>

\* debug_post_result drops the command if it is still the pending one.
PostResult(c, h) == /\ Free(c)
                    /\ IF h.device \in DOMAIN pending /\ pending[h.device] = h.id
                       THEN pending' = Forget(h.device) /\ Saves(c, {h}) /\ UNCHANGED answered
                       ELSE answered' = answered \cup {h} /\ UNCHANGED <<pending, saving>>
                    /\ UNCHANGED <<stored, late, beats, sent, handed>>

\* _save_commands opens the file, which empties it, and dumps the memory of that moment;
\* the request is answered once the file is written.
Dump(c) == /\ saving[c].at = "save"
           /\ stored' = None
           /\ saving' = [saving EXCEPT ![c] = [at |-> "flush", copy |-> pending, done |-> @.done]]
           /\ UNCHANGED <<pending, late, beats, sent, handed, answered>>
Flush(c) == /\ saving[c].at = "flush"
            /\ stored' = saving[c].copy
            /\ answered' = answered \cup saving[c].done
            /\ saving' = [saving EXCEPT ![c] = Waiting]
            /\ UNCHANGED <<pending, late, beats, sent, handed>>

FiveMinutes(id) == /\ id \in 1..sent \ late /\ late' = late \cup {id}
                   /\ UNCHANGED <<pending, stored, beats, sent, handed, answered, saving>>

\* The process stops and starts: _load_commands keeps what is in the file and not late.
Reload == [d \in {e \in DOMAIN stored : stored[e] \notin late} |-> stored[d]]
RestartPanel == /\ pending' = Reload /\ beats' = [d \in DOMAIN beats |-> [beats[d] EXCEPT !.memory = beats[d].file]]
                /\ saving' = [c \in DebugCalls |-> Waiting]
                /\ UNCHANGED <<stored, late, sent, handed, answered>>

DebugNext == \/ RestartPanel
             \/ \E id \in 1..MaxCommands : FiveMinutes(id)
             \/ \E d \in Devices : SetCollect(d)
             \/ \E c \in DebugCalls : \/ SendCmd(c) \/ SendCollect(c) \/ Dump(c) \/ Flush(c)
                                      \/ \E d \in Devices : SendTool(c, d) \/ Poll(c, d) \/ Heartbeat(c, d)
                                      \/ \E h \in handed : PostResult(c, h)

-----------------------------------------------------------------------------
\* With requests one at a time, whatever restarts come between their steps: what the next
\* poll of a device would hand out is a command whose result has not been acknowledged and
\* that is no older than any the device has had.
HandedRightly ==
  \A d \in DOMAIN pending : pending[d] \notin late =>
    /\ [device |-> d, id |-> pending[d]] \notin answered
    /\ \A h \in handed : h.device = d => h.id <= pending[d]
=============================================================================
