---------------------------- MODULE PanelProofs ----------------------------
(***************************************************************************)
(* What the components of the control panel keep, for any number of        *)
(* devices, requests, instances, uploads and files.  A behaviour is one of *)
(* a single component, so each theorem comes from an invariant of its      *)
(* component and the frame of ControlPanel.                                *)
(***************************************************************************)
EXTENDS ControlPanel, WellFoundedInduction, FiniteSetTheorems, TLAPS

-----------------------------------------------------------------------------
(* The remote commands (DeviceDebug), with requests one at a time.  What   *)
(* decides is the file: it must not hold a command that is outdated in     *)
(* memory, except while the request that outdated it has not answered.     *)

OneRequest == \A c, d \in DebugCalls : c = d

\* What a device may be handed out of the memory, and of the file after a restart.
PendingGood == \A d \in DOMAIN pending : pending[d] \in 1..sent /\ (pending[d] \notin late =>
                 /\ [device |-> d, id |-> pending[d]] \notin posted
                 /\ \A h \in handed : h.device = d => h.id <= pending[d])
StoredGood == \A d \in DOMAIN stored : stored[d] \in 1..sent /\ (stored[d] \notin late =>
                /\ [device |-> d, id |-> stored[d]] \notin posted
                /\ \A h \in handed : h.device = d => h.id <= stored[d])
IdsKnown == /\ sent \in Nat
            /\ \A h \in handed : h = [device |-> h.device, id |-> h.id] /\ h.id \in 1..sent
            /\ posted \subseteq handed
SavingTyped == /\ saving = [c \in DebugCalls |-> saving[c]]
               /\ \A c \in DebugCalls :
                    /\ saving[c] = [at |-> saving[c].at, copy |-> saving[c].copy, done |-> saving[c].done]
                    /\ saving[c].at \in {"idle", "save", "flush"} /\ saving[c].done \subseteq handed
                    /\ saving[c].at = "idle" => saving[c] = Debug!Waiting
\* No result is about to be acknowledged whose command is still pending.
DoneGone == \A c \in DebugCalls : \A h \in saving[c].done :
              h.device \in DOMAIN pending => pending[h.device] # h.id
\* Between requests the file has nothing but what is in memory, and late commands.
FileAgrees == \A c \in DebugCalls : saving[c] = Debug!Waiting =>
                \A d \in DOMAIN stored : stored[d] \in late \/ (d \in DOMAIN pending /\ pending[d] = stored[d])
CopyAgrees == \A c \in DebugCalls : saving[c].at = "flush" => saving[c].copy = pending
DebugInv == IdsKnown /\ PendingGood /\ StoredGood /\ SavingTyped /\ DoneGone /\ FileAgrees /\ CopyAgrees

LEMMA DebugStarts == Debug!DebugInit => DebugInv
BY DEF Debug!DebugInit, Debug!Waiting, Debug!None, DebugInv, IdsKnown, PendingGood, StoredGood, SavingTyped, DoneGone, FileAgrees, CopyAgrees

\* A new command is newer than all that were handed out, and the request that sends it is
\* busy until the file has it.
LEMMA SendKeeps ==
  ASSUME DebugInv, OneRequest, NEW c \in DebugCalls, NEW codes, Debug!Send(c, codes)
  PROVE  DebugInv'
<1> USE DEF DebugInv
<1>1. /\ saving[c] = Debug!Waiting /\ sent' = sent + 1
      /\ pending' = [d \in DOMAIN pending \cup codes |-> IF d \in codes THEN sent + 1 ELSE pending[d]]
      /\ saving' = [saving EXCEPT ![c] = [at |-> "save", copy |-> Debug!None, done |-> {}]]
      /\ UNCHANGED <<stored, late, beats, handed, posted>>
  BY DEF Debug!Send, Debug!Free, Debug!Commands, Debug!Saves
<1>2. IdsKnown'
  BY <1>1 DEF IdsKnown
<1>3. PendingGood'
  <2> SUFFICES ASSUME NEW d \in DOMAIN pending'
               PROVE  /\ pending'[d] \in 1..sent'
                      /\ pending'[d] \notin late' =>
                           /\ [device |-> d, id |-> pending'[d]] \notin posted'
                           /\ \A h \in handed' : h.device = d => h.id <= pending'[d]
    BY DEF PendingGood
  <2>1. CASE d \in codes
    <3>1. pending'[d] = sent + 1
      BY <1>1, <2>1
    <3>2. \A h \in handed : h.id <= sent
      BY DEF IdsKnown
    <3>3. [device |-> d, id |-> sent + 1] \notin handed
      BY <3>2 DEF IdsKnown
    <3> QED
      BY <1>1, <3>1, <3>2, <3>3 DEF IdsKnown
  <2>2. CASE d \notin codes
    BY <1>1, <2>2 DEF PendingGood, IdsKnown
  <2> QED
    BY <2>1, <2>2
<1>4. StoredGood'
  BY <1>1 DEF StoredGood, IdsKnown
<1>5. SavingTyped'
  BY <1>1 DEF SavingTyped
<1>6. DoneGone' /\ FileAgrees' /\ CopyAgrees'
  BY <1>1 DEF DoneGone, FileAgrees, CopyAgrees, OneRequest, SavingTyped, Debug!Waiting
<1> QED
  BY <1>2, <1>3, <1>4, <1>5, <1>6

\* A late command leaves the memory, and the request that met it writes the file.
LEMMA DropKeeps ==
  ASSUME DebugInv, OneRequest, NEW c \in DebugCalls, NEW d, Debug!Free(c), Debug!IsLate(d),
         pending' = Debug!Forget(d), Debug!Saves(c, {}),
         UNCHANGED <<stored, late, sent, handed, posted>>
  PROVE  DebugInv'
<1> USE DEF DebugInv
<1>1. /\ saving[c] = Debug!Waiting
      /\ pending' = [e \in DOMAIN pending \ {d} |-> pending[e]]
      /\ saving' = [saving EXCEPT ![c] = [at |-> "save", copy |-> Debug!None, done |-> {}]]
  BY DEF Debug!Free, Debug!Forget, Debug!Saves
<1>2. IdsKnown' /\ StoredGood'
  BY DEF IdsKnown, StoredGood
<1>3. PendingGood'
  BY <1>1 DEF PendingGood
<1>4. SavingTyped'
  BY <1>1 DEF SavingTyped
<1>5. DoneGone' /\ FileAgrees' /\ CopyAgrees'
  BY <1>1 DEF DoneGone, FileAgrees, CopyAgrees, OneRequest, SavingTyped, Debug!Waiting
<1> QED
  BY <1>2, <1>3, <1>4, <1>5

\* What is handed out is in the file as well, or the file has a late one.
LEMMA HandKeeps ==
  ASSUME DebugInv, OneRequest, NEW c \in DebugCalls, NEW d \in DOMAIN pending, Debug!Free(c),
         ~Debug!IsLate(d), handed' = handed \cup {[device |-> d, id |-> pending[d]]},
         UNCHANGED <<pending, saving, stored, late, sent, posted>>
  PROVE  DebugInv'
<1> USE DEF DebugInv
<1>1. pending[d] \notin late /\ saving[c] = Debug!Waiting
  BY DEF Debug!IsLate, Debug!Free
<1>2. IdsKnown'
  BY DEF IdsKnown, PendingGood
<1>3. PendingGood'
  BY DEF PendingGood, IdsKnown
<1>4. StoredGood'
  <2>1. \A e \in DOMAIN stored : stored[e] \notin late => e \in DOMAIN pending /\ pending[e] = stored[e]
    BY <1>1 DEF FileAgrees
  <2> QED
    BY <2>1, <1>3 DEF PendingGood, StoredGood
<1>5. SavingTyped' /\ DoneGone' /\ FileAgrees' /\ CopyAgrees'
  BY DEF SavingTyped, DoneGone, FileAgrees, CopyAgrees
<1> QED
  BY <1>2, <1>3, <1>4, <1>5

\* A result takes its command out of the memory and is acknowledged with the file, or has
\* nothing to take out.
LEMMA ResultKeeps ==
  ASSUME DebugInv, OneRequest, NEW c \in DebugCalls, NEW h \in handed, Debug!PostResult(c, h)
  PROVE  DebugInv'
<1> USE DEF DebugInv
<1>1. saving[c] = Debug!Waiting /\ UNCHANGED <<stored, late, sent, handed>>
  BY DEF Debug!PostResult, Debug!Free
<1>2. CASE h.device \in DOMAIN pending /\ pending[h.device] = h.id
  <2>1. /\ pending' = [e \in DOMAIN pending \ {h.device} |-> pending[e]] /\ posted' = posted
        /\ saving' = [saving EXCEPT ![c] = [at |-> "save", copy |-> Debug!None, done |-> {h}]]
    BY <1>2 DEF Debug!PostResult, Debug!Forget, Debug!Saves
  <2>2. IdsKnown' /\ StoredGood' /\ PendingGood'
    BY <1>1, <2>1 DEF IdsKnown, StoredGood, PendingGood
  <2>3. SavingTyped'
    BY <1>1, <2>1 DEF SavingTyped
  <2>4. DoneGone' /\ FileAgrees' /\ CopyAgrees'
    BY <1>1, <2>1 DEF DoneGone, FileAgrees, CopyAgrees, OneRequest, SavingTyped, Debug!Waiting
  <2> QED
    BY <2>2, <2>3, <2>4
<1>3. CASE ~(h.device \in DOMAIN pending /\ pending[h.device] = h.id)
  <2>1. posted' = posted \cup {h} /\ UNCHANGED <<pending, saving>>
    BY <1>3 DEF Debug!PostResult
  <2>2. IdsKnown' /\ SavingTyped' /\ DoneGone' /\ FileAgrees' /\ CopyAgrees'
    BY <1>1, <2>1 DEF IdsKnown, SavingTyped, DoneGone, FileAgrees, CopyAgrees
  <2>3. PendingGood'
    <3> SUFFICES ASSUME NEW d \in DOMAIN pending, pending[d] \notin late
                 PROVE  [device |-> d, id |-> pending[d]] # h
      BY <1>1, <2>1 DEF PendingGood
    <3> QED
      BY <1>3
  <2>4. StoredGood'
    <3>1. \A e \in DOMAIN stored : stored[e] \notin late => e \in DOMAIN pending /\ pending[e] = stored[e]
      BY <1>1 DEF FileAgrees
    <3> QED
      BY <1>1, <2>1, <2>3, <3>1 DEF StoredGood, PendingGood
  <2> QED
    BY <2>2, <2>3, <2>4
<1> QED
  BY <1>2, <1>3

\* The file is emptied, then it gets the memory, and the results of the request are out.
LEMMA SaveKeeps ==
  ASSUME DebugInv, OneRequest, NEW c \in DebugCalls, Debug!Dump(c) \/ Debug!Flush(c)
  PROVE  DebugInv'
<1> USE DEF DebugInv
<1>1. CASE Debug!Dump(c)
  <2>1. /\ saving[c].at = "save" /\ stored' = <<>>
        /\ saving' = [saving EXCEPT ![c] = [at |-> "flush", copy |-> pending, done |-> saving[c].done]]
        /\ UNCHANGED <<pending, late, sent, handed, posted>>
    BY <1>1 DEF Debug!Dump, Debug!None
  <2>2. saving'[c] = [at |-> "flush", copy |-> pending, done |-> saving[c].done] /\ saving[c].done \subseteq handed
    BY <2>1 DEF SavingTyped
  <2>3. IdsKnown' /\ PendingGood' /\ StoredGood'
    BY <2>1 DEF IdsKnown, PendingGood, StoredGood
  <2>4. SavingTyped'
    BY <2>1, <2>2 DEF SavingTyped
  <2>5. DoneGone' /\ FileAgrees' /\ CopyAgrees'
    BY <2>1, <2>2 DEF DoneGone, FileAgrees, CopyAgrees, OneRequest, SavingTyped, Debug!Waiting
  <2> QED
    BY <2>3, <2>4, <2>5
<1>2. CASE Debug!Flush(c)
  <2>1. /\ stored' = pending /\ posted' = posted \cup saving[c].done
        /\ saving' = [saving EXCEPT ![c] = Debug!Waiting]
        /\ UNCHANGED <<pending, late, sent, handed>>
    BY <1>2 DEF Debug!Flush, CopyAgrees
  <2>2. IdsKnown'
    BY <2>1 DEF IdsKnown, SavingTyped
  <2>3. PendingGood'
    <3> SUFFICES ASSUME NEW d \in DOMAIN pending
                 PROVE  [device |-> d, id |-> pending[d]] \notin saving[c].done
      BY <2>1 DEF PendingGood
    <3> QED
      BY DEF DoneGone
  <2>4. StoredGood'
    BY <2>1, <2>3 DEF PendingGood, StoredGood
  <2>5. SavingTyped'
    BY <2>1 DEF SavingTyped, Debug!Waiting, Debug!None
  <2>6. DoneGone' /\ FileAgrees' /\ CopyAgrees'
    BY <2>1 DEF DoneGone, FileAgrees, CopyAgrees, OneRequest, Debug!Waiting
  <2> QED
    BY <2>2, <2>3, <2>4, <2>5, <2>6
<1> QED
  BY <1>1, <1>2

\* Time only makes commands late, and a start takes the file for the memory.
LEMMA TimeKeeps ==
  ASSUME DebugInv, NEW id, Debug!FiveMinutes(id)
  PROVE  DebugInv'
<1>1. late' = late \cup {id} /\ UNCHANGED <<pending, stored, sent, handed, posted, saving>>
  BY DEF Debug!FiveMinutes
<1> QED
  BY <1>1 DEF DebugInv, IdsKnown, PendingGood, StoredGood, SavingTyped, DoneGone, FileAgrees, CopyAgrees
LEMMA StartKeeps ==
  ASSUME DebugInv, Debug!RestartPanel
  PROVE  DebugInv'
<1> USE DEF DebugInv
<1>1. /\ pending' = [d \in {e \in DOMAIN stored : stored[e] \notin late} |-> stored[d]]
      /\ saving' = [c \in DebugCalls |-> Debug!Waiting]
      /\ UNCHANGED <<stored, late, sent, handed, posted>>
  BY DEF Debug!RestartPanel, Debug!Reload
<1>2. IdsKnown' /\ StoredGood' /\ PendingGood'
  BY <1>1 DEF IdsKnown, StoredGood, PendingGood
<1>3. SavingTyped' /\ DoneGone' /\ FileAgrees' /\ CopyAgrees'
  BY <1>1 DEF SavingTyped, DoneGone, FileAgrees, CopyAgrees, Debug!Waiting, Debug!None
<1> QED
  BY <1>2, <1>3

LEMMA DebugKeeps ==
  ASSUME DebugInv, OneRequest, Debug!DebugNext
  PROVE  DebugInv'
<1>1. CASE Debug!RestartPanel
  BY <1>1, StartKeeps
<1>2. ASSUME NEW id, Debug!FiveMinutes(id) PROVE DebugInv'
  BY <1>2, TimeKeeps
<1>3. ASSUME NEW d, Debug!SetCollect(d) PROVE DebugInv'
  <2>1. UNCHANGED <<pending, stored, late, sent, handed, posted, saving>>
    BY <1>3 DEF Debug!SetCollect
  <2> QED
    BY <2>1 DEF DebugInv, IdsKnown, PendingGood, StoredGood, SavingTyped, DoneGone, FileAgrees, CopyAgrees
<1>4. ASSUME NEW c \in DebugCalls, NEW d, Debug!SendCmd(c) \/ Debug!SendCollect(c) \/ Debug!SendTool(c, d)
      PROVE  DebugInv'
  BY <1>4, SendKeeps DEF Debug!SendCmd, Debug!SendCollect, Debug!SendTool
<1>5. ASSUME NEW c \in DebugCalls, Debug!Dump(c) \/ Debug!Flush(c) PROVE DebugInv'
  BY <1>5, SaveKeeps
<1>6. ASSUME NEW c \in DebugCalls, NEW d, Debug!Poll(c, d) PROVE DebugInv'
  BY <1>6, HandKeeps, DropKeeps DEF Debug!Poll
<1>7. ASSUME NEW c \in DebugCalls, NEW d, Debug!Heartbeat(c, d) PROVE DebugInv'
  <2>1. CASE Debug!IsLate(d)
    BY <1>7, <2>1, DropKeeps DEF Debug!Heartbeat
  <2>2. CASE ~Debug!IsLate(d)
    <3>1. UNCHANGED <<pending, stored, late, sent, handed, posted, saving>>
      BY <1>7, <2>2 DEF Debug!Heartbeat
    <3> QED
      BY <3>1 DEF DebugInv, IdsKnown, PendingGood, StoredGood, SavingTyped, DoneGone, FileAgrees, CopyAgrees
  <2> QED
    BY <2>1, <2>2
<1>8. ASSUME NEW c \in DebugCalls, NEW h \in handed, Debug!PostResult(c, h) PROVE DebugInv'
  BY <1>8, ResultKeeps
<1> QED
  BY <1>1, <1>2, <1>3, <1>4, <1>5, <1>6, <1>7, <1>8 DEF Debug!DebugNext

\* With requests one at a time, whatever restarts come between the steps of a request: no
\* device is handed a command whose result was acknowledged, or one older than it has had.
\* This is debug_poll_cmd, debug_post_result, _save_commands and _load_commands together.
THEOREM CommandsHandedRightly == ASSUME OneRequest PROVE Spec => []HandedRightly
<1>1. Init => DebugInv
  BY DebugStarts DEF Init
<1>2. DebugInv /\ [Next]_vars => DebugInv'
  <2>1. ASSUME DebugInv, UNCHANGED debugVars PROVE DebugInv'
    BY <2>1 DEF debugVars, DebugInv, IdsKnown, PendingGood, StoredGood, SavingTyped, DoneGone, FileAgrees, CopyAgrees
  <2>2. ASSUME DebugInv, Next PROVE DebugInv'
    BY <2>1, <2>2, DebugKeeps DEF Next
  <2> QED
    BY <2>1, <2>2 DEF vars
<1>3. DebugInv => HandedRightly
  BY DEF DebugInv, PendingGood, HandedRightly, Debug!HandedRightly
<1> QED
  BY <1>1, <1>2, <1>3, PTL DEF Spec
-----------------------------------------------------------------------------
(* The bridge instances (BridgeInstances), for any number of calls.        *)

\* What one step may do to the id of an instance, as StaleWritesOnly says it.
StaleStep(a) ==
  /\ a \in DOMAIN inst' \ DOMAIN inst =>
       a > applied \/ \E c \in BridgeCalls : Bridge!Holding(c, a) /\ Bridge!Late(c)
  /\ a \in DOMAIN inst \ DOMAIN inst' /\ inst[a].status = "ready" =>
       \/ Bridge!Destroy(a)
       \/ \E c \in BridgeCalls : /\ Bridge!Late(c)
                                 /\ ~Bridge!Holding(c, a) \/ (call[c].id = a /\ a \in overdue)
AppliedIsNat == applied \in Nat

\* The page, the applications and the start of a poll only clean up, which spares what is ready.
LEMMA CleaningStep ==
  ASSUME AppliedIsNat, NEW a, Bridge!Apply \/ Bridge!ListPage \/ \E c, b : Bridge!PollBegins(c, b)
  PROVE  StaleStep(a)
<1>1. DOMAIN Bridge!Cleaned(inst) = DOMAIN inst \ Bridge!Expired(inst)
  BY DEF Bridge!Cleaned
<1>2. a \in Bridge!Expired(inst) => inst[a].status # "ready"
  BY DEF Bridge!Expired
<1>3. \/ DOMAIN inst' = (DOMAIN inst \ Bridge!Expired(inst)) \cup {applied + 1}
      \/ DOMAIN inst' = DOMAIN inst \ Bridge!Expired(inst)
  BY <1>1 DEF Bridge!Apply, Bridge!ListPage, Bridge!PollBegins, Bridge!With
<1>4. applied + 1 > applied
  BY DEF AppliedIsNat
<1> QED
  BY <1>2, <1>3, <1>4 DEF StaleStep

\* The end of a call writes its copy, without the instance itself when that was overdue.
LEMMA CallEndsStep ==
  ASSUME NEW c \in BridgeCalls, NEW a, Bridge!LoginEnds(c) \/ Bridge!PollEnds(c)
  PROVE  StaleStep(a)
<1>1. Bridge!Late(c) /\ call[c].at # "idle"
  BY DEF Bridge!Late, Bridge!LoginEnds, Bridge!PollEnds
<1>2. \/ DOMAIN inst' = DOMAIN call[c].copy
      \/ call[c].id \in overdue /\ DOMAIN inst' = DOMAIN call[c].copy \ {call[c].id}
      \/ inst' = inst
  BY DEF Bridge!LoginEnds, Bridge!PollEnds, Bridge!Without
<1> QED
  BY <1>1, <1>2 DEF StaleStep, Bridge!Holding

LEMMA BridgeStep ==
  ASSUME AppliedIsNat, NEW a, Bridge!BridgeNext
  PROVE  StaleStep(a)
<1>1. ASSUME NEW b, Bridge!Destroy(b) PROVE StaleStep(a)
  <2>1. DOMAIN inst' = DOMAIN inst \ {b}
    BY <1>1 DEF Bridge!Destroy, Bridge!Without
  <2> QED
    BY <1>1, <2>1 DEF StaleStep
<1>2. ASSUME DOMAIN inst' = DOMAIN inst PROVE StaleStep(a)
  BY <1>2 DEF StaleStep
<1>3. ASSUME NEW b, Bridge!Pause(b) \/ Bridge!TwoHours(b) PROVE DOMAIN inst' = DOMAIN inst
  BY <1>3 DEF Bridge!Pause, Bridge!TwoHours
<1>4. ASSUME NEW c, NEW b, Bridge!LoginBegins(c, b) PROVE DOMAIN inst' = DOMAIN inst
  BY <1>4 DEF Bridge!LoginBegins
<1> QED
  BY <1>1, <1>2, <1>3, <1>4, CleaningStep, CallEndsStep DEF Bridge!BridgeNext

\* However many logins and polls hold copies of the file of instances while other routes
\* change it: an id that left the file comes back only in the write of a call that had read
\* it before, and one that is ready leaves only by bridge_destroy, or in the write of a call
\* that had read the file without it or had seen it overdue.
THEOREM OnlyStaleWritesHurt == Spec => StaleWritesOnly
<1>1. Init => AppliedIsNat
  BY DEF Init, Bridge!BridgeInit, AppliedIsNat
<1>2. AppliedIsNat /\ [Next]_vars => AppliedIsNat'
  <2>1. ASSUME Bridge!BridgeNext PROVE applied' \in {applied, applied + 1}
    <3>1. Bridge!Apply => applied' = applied + 1
      BY DEF Bridge!Apply
    <3>2. Bridge!ListPage => applied' = applied
      BY DEF Bridge!ListPage
    <3>3. \A a : Bridge!Destroy(a) \/ Bridge!Pause(a) \/ Bridge!TwoHours(a) => applied' = applied
      BY DEF Bridge!Destroy, Bridge!Pause, Bridge!TwoHours
    <3>4. \A c, a : Bridge!LoginBegins(c, a) \/ Bridge!PollBegins(c, a) => applied' = applied
      BY DEF Bridge!LoginBegins, Bridge!PollBegins
    <3>5. \A c : Bridge!LoginEnds(c) \/ Bridge!PollEnds(c) => applied' = applied
      BY DEF Bridge!LoginEnds, Bridge!PollEnds
    <3> QED
      BY <2>1, <3>1, <3>2, <3>3, <3>4, <3>5 DEF Bridge!BridgeNext
  <2> QED
    BY <2>1 DEF Next, vars, bridgeVars, AppliedIsNat
<1>3. AppliedIsNat /\ [Next]_vars =>
        [\A a \in Bridge!Ids :
           /\ a \in DOMAIN inst' \ DOMAIN inst =>
                a > applied \/ \E c \in BridgeCalls : Bridge!Holding(c, a) /\ Bridge!Late(c)
           /\ a \in DOMAIN inst \ DOMAIN inst' /\ inst[a].status = "ready" =>
                \/ Bridge!Destroy(a)
                \/ \E c \in BridgeCalls :
                      Bridge!Late(c) /\ (~Bridge!Holding(c, a) \/ (call[c].id = a /\ a \in overdue))]_(Bridge!bridgeVars)
  <2>1. ASSUME AppliedIsNat, Bridge!BridgeNext PROVE \A a \in Bridge!Ids : StaleStep(a)
    BY <2>1, BridgeStep
  <2> QED
    BY <2>1 DEF Next, vars, bridgeVars, Bridge!bridgeVars, StaleStep
<1> QED
  BY <1>1, <1>2, <1>3, PTL DEF Spec, StaleWritesOnly, Bridge!StaleWritesOnly
-----------------------------------------------------------------------------
(* The uploaded files (Uploads).  A node that has lost its name may still  *)
(* be written to while another file of that name is opened; what keeps a   *)
(* file whole is that a node is only ever written under one name.          *)

Named(f) == Upload!NameOf(opened[f])
Reads(u) == up[u].at = "read"
\* The files that were read to their end, answered or not.
Finished == saved \cup UNION {up[u].list : u \in Uploaders}

OpenedTyped == clock \in Nat /\ opened \in Seq([folder : Folders, ms : Nat, file : FileNames, chunks : Sizes])
NodesTyped == nodes \in Seq(UNION {[D -> Nat] : D \in SUBSET Nat})
\* Names are of different nodes.
DiskTyped == /\ \A n \in DOMAIN disk : disk[n] \in DOMAIN nodes
             /\ \A m, n \in DOMAIN disk : disk[m] = disk[n] => m = n
UpTyped == /\ up = [u \in Uploaders |-> up[u]]
           /\ \A u \in Uploaders :
                /\ DOMAIN up[u] = {"at", "folder", "todo", "file", "node", "read", "list"}
                /\ up[u].at \in {"idle", "open", "read"}
                /\ up[u].at = "idle" => up[u].list = {}
                /\ up[u].at # "idle" => /\ up[u].folder \in Folders
                                        /\ up[u].todo \in Seq(Upload!Sent) /\ up[u].todo # <<>>
                /\ Reads(u) => /\ up[u].file \in DOMAIN opened /\ up[u].node \in DOMAIN nodes
                               /\ up[u].read \in 0..opened[up[u].file].chunks
\* A file is read by one upload, and not after its end.
FilesApart == /\ Finished \subseteq DOMAIN opened
              /\ \A u \in Uploaders : Reads(u) => up[u].file \notin Finished
              /\ \A u, v \in Uploaders : Reads(u) /\ Reads(v) /\ up[u].file = up[v].file => u = v
\* A node that is written to has the name of the file that is read, or none.
NodesNamed == \A u \in Uploaders : Reads(u) =>
                \A n \in DOMAIN disk : disk[n] = up[u].node => n = Named(up[u].file)
Whole(f, n) == /\ Named(f) \in DOMAIN disk /\ nodes[disk[Named(f)]] = [c \in 1..n |-> f]
FinishedWhole == \A f \in Finished \ deleted : Upload!Alone(f) => Whole(f, opened[f].chunks)
WholeSoFar == \A u \in Uploaders : Reads(u) /\ up[u].file \notin deleted /\ Upload!Alone(up[u].file) =>
                Whole(up[u].file, up[u].read) /\ disk[Named(up[u].file)] = up[u].node
UploadInv == /\ OpenedTyped /\ NodesTyped /\ DiskTyped /\ UpTyped
             /\ FilesApart /\ NodesNamed /\ FinishedWhole /\ WholeSoFar

Fields == {"at", "folder", "todo", "file", "node", "read", "list"}

LEMMA UploadsStart == Upload!UploadsInit => UploadInv
<1> SUFFICES ASSUME Upload!UploadsInit PROVE UploadInv
  OBVIOUS
<1>1. clock = 0 /\ opened = <<>> /\ nodes = <<>> /\ disk = <<>>
  BY DEF Upload!UploadsInit
<1>2. OpenedTyped /\ NodesTyped /\ DiskTyped
  <2>1. DOMAIN disk = {}
    BY <1>1
  <2>2. opened \in Seq([folder : Folders, ms : Nat, file : FileNames, chunks : Sizes])
    BY <1>1
  <2>3. nodes \in Seq(UNION {[D -> Nat] : D \in SUBSET Nat})
    BY <1>1
  <2> QED
    BY <1>1, <2>1, <2>2, <2>3 DEF OpenedTyped, NodesTyped, DiskTyped
<1>3. up = [u \in Uploaders |-> Upload!NoUpload] /\ saved = {}
  BY DEF Upload!UploadsInit
<1> USE DEF Upload!NoUpload
<1>4. \A u \in Uploaders : ~Reads(u) /\ up[u].list = {}
  BY <1>3 DEF Reads
<1>5. UpTyped
  BY <1>3, <1>4 DEF UpTyped
<1>6. Finished = {}
  BY <1>3, <1>4 DEF Finished
<1>7. FilesApart /\ NodesNamed /\ FinishedWhole /\ WholeSoFar
  BY <1>4, <1>6 DEF FilesApart, NodesNamed, FinishedWhole, WholeSoFar
<1> QED
  BY <1>2, <1>5, <1>7 DEF UploadInv

\* What is kept when no file is opened, written or deleted: the uploads that still read go on
\* with the files they read.
LEMMA IdleStep ==
  ASSUME UploadInv, UpTyped', UNCHANGED <<opened, nodes, disk, deleted>>,
         clock' \in Nat, Finished' \subseteq Finished \cup {up[u].file : u \in {v \in Uploaders : Reads(v) /\ up[v].read = opened[up[v].file].chunks}},
         \A u \in Uploaders : Reads(u)' => Reads(u) /\ up'[u] = up[u] /\ up[u].file \notin Finished'
  PROVE  UploadInv'
<1> USE DEF UploadInv
<1>1. OpenedTyped' /\ NodesTyped' /\ DiskTyped'
  BY DEF OpenedTyped, NodesTyped, DiskTyped
<1>2. FilesApart'
  BY DEF FilesApart, UpTyped, Reads
<1>3. NodesNamed'
  BY DEF NodesNamed, Named, Upload!NameOf, Reads
<1>4. FinishedWhole'
  <2> SUFFICES ASSUME NEW f \in Finished' \ deleted, Upload!Alone(f)
               PROVE  Whole(f, opened[f].chunks)
    BY DEF FinishedWhole, Upload!Alone, Whole, Named, Upload!NameOf
  <2>1. CASE f \in Finished
    BY <2>1 DEF FinishedWhole
  <2>2. CASE f \notin Finished
    BY <2>2 DEF WholeSoFar
  <2> QED
    BY <2>1, <2>2
<1>5. WholeSoFar'
  <2> SUFFICES ASSUME NEW u \in Uploaders, Reads(u), up'[u] = up[u], up[u].file \notin deleted, Upload!Alone(up[u].file)
               PROVE  Whole(up[u].file, up[u].read) /\ disk[Named(up[u].file)] = up[u].node
    BY DEF WholeSoFar, Upload!Alone, Whole, Named, Upload!NameOf, Reads
  <2> QED
    BY DEF WholeSoFar
<1> QED
  BY <1>1, <1>2, <1>3, <1>4, <1>5

\* What one upload does to the records of all.
LEMMA OneMoves ==
  ASSUME UpTyped, NEW u \in Uploaders, NEW r, up' = [up EXCEPT ![u] = r]
  PROVE  /\ up' = [v \in Uploaders |-> up'[v]] /\ up'[u] = r
         /\ \A v \in Uploaders \ {u} : up'[v] = up[v]
BY DEF UpTyped

LEMMA UploadKeeps ==
  ASSUME UploadInv, NEW u \in Uploaders, Upload!Upload(u)
  PROVE  UploadInv'
<1>1. PICK d \in Folders, first \in Upload!Sent, second \in Upload!Sent, n \in 1..2 :
        up' = [up EXCEPT ![u] = [Upload!NoUpload EXCEPT !.at = "open", !.folder = d, !.todo = SubSeq(<<first, second>>, 1, n)]]
  BY DEF Upload!Upload
<1>2. UNCHANGED <<clock, opened, nodes, disk, saved, deleted>> /\ up[u] = Upload!NoUpload
  BY DEF Upload!Upload
<1>3. SubSeq(<<first, second>>, 1, n) \in Seq(Upload!Sent) /\ SubSeq(<<first, second>>, 1, n) # <<>>
  <2>1. <<first, second>> \in Seq(Upload!Sent) /\ Len(<<first, second>>) = 2
    OBVIOUS
  <2>2. n \in {1, 2}
    OBVIOUS
  <2> QED
    BY <2>1, <2>2
<1>4. /\ DOMAIN up'[u] = Fields /\ up'[u].at = "open" /\ up'[u].list = {}
      /\ up'[u].folder = d /\ up'[u].todo = SubSeq(<<first, second>>, 1, n)
  BY <1>1, OneMoves DEF UploadInv, Upload!NoUpload, Fields
<1>5. up' = [v \in Uploaders |-> up'[v]] /\ \A v \in Uploaders \ {u} : up'[v] = up[v]
  BY <1>1, OneMoves DEF UploadInv
<1>6. UpTyped'
  <2> SUFFICES ASSUME NEW v \in Uploaders, v # u
               PROVE  /\ up'[v] = up[v] /\ (Reads(v)' <=> Reads(v))
    BY <1>2, <1>3, <1>4, <1>5 DEF UpTyped, UploadInv, Fields, Reads
  <2> QED
    BY <1>5 DEF Reads
<1>7. Finished' \subseteq Finished
  BY <1>2, <1>4, <1>5 DEF Finished
<1>8. \A v \in Uploaders : Reads(v)' => Reads(v) /\ up'[v] = up[v] /\ up[v].file \notin Finished'
  BY <1>4, <1>5, <1>7 DEF Reads, UploadInv, FilesApart
<1> QED
  BY <1>2, <1>6, <1>7, <1>8, IdleStep DEF UploadInv, OpenedTyped

LEMMA TailLeft ==
  ASSUME NEW S, NEW s \in Seq(S), s # <<>>, Len(s) # 1
  PROVE  Tail(s) \in Seq(S) /\ Tail(s) # <<>>
<1>1. Len(s) \in Nat /\ Len(s) # 0
  OBVIOUS
<1>2. Tail(s) \in Seq(S) /\ Len(Tail(s)) = Len(s) - 1
  BY <1>1
<1>3. Len(Tail(s)) # 0
  BY <1>1, <1>2
<1> QED
  BY <1>2, <1>3

LEMMA FileReadKeeps ==
  ASSUME UploadInv, NEW u \in Uploaders, Upload!FileRead(u)
  PROVE  UploadInv'
<1> DEFINE list == up[u].list \cup {up[u].file}
<1>1. /\ Reads(u) /\ up[u].read = opened[up[u].file].chunks
      /\ UNCHANGED <<clock, opened, nodes, disk, deleted>>
  BY DEF Upload!FileRead, Reads
<1>2. CASE Len(up[u].todo) = 1
  <2>1. saved' = saved \cup list /\ up' = [up EXCEPT ![u] = Upload!NoUpload]
    BY <1>2 DEF Upload!FileRead
  <2>2. up' = [v \in Uploaders |-> up'[v]] /\ up'[u] = Upload!NoUpload /\ \A v \in Uploaders \ {u} : up'[v] = up[v]
    BY <2>1, OneMoves DEF UploadInv
  <2>3. DOMAIN up'[u] = Fields /\ up'[u].at = "idle" /\ up'[u].list = {}
    <3>1. up'[u] = Upload!NoUpload
      BY <2>2
    <3>2. DOMAIN Upload!NoUpload = Fields /\ Upload!NoUpload.at = "idle" /\ Upload!NoUpload.list = {}
      BY DEF Upload!NoUpload, Fields
    <3> QED
      BY <3>1, <3>2
  <2>4. UpTyped'
    <3> SUFFICES ASSUME NEW v \in Uploaders, v # u
                 PROVE  up'[v] = up[v] /\ (Reads(v)' <=> Reads(v))
      BY <1>1, <2>2, <2>3 DEF UpTyped, UploadInv, Fields, Reads
    <3> QED
      BY <2>2 DEF Reads
  <2>5. Finished' \subseteq Finished \cup {up[u].file}
    BY <2>1, <2>2, <2>3 DEF Finished
  <2>6. \A v \in Uploaders : Reads(v)' => Reads(v) /\ up'[v] = up[v] /\ up[v].file \notin Finished'
    BY <1>1, <2>2, <2>3, <2>5 DEF Reads, UploadInv, FilesApart
  <2> QED
    BY <1>1, <2>4, <2>5, <2>6, IdleStep DEF UploadInv, OpenedTyped
<1>3. CASE Len(up[u].todo) # 1
  <2>1. /\ up' = [up EXCEPT ![u].at = "open", ![u].todo = Tail(@), ![u].list = list]
        /\ saved' = saved
    BY <1>3 DEF Upload!FileRead
  <2>2. up' = [v \in Uploaders |-> up'[v]] /\ \A v \in Uploaders \ {u} : up'[v] = up[v]
    BY <2>1 DEF UploadInv, UpTyped
  <2>3. /\ DOMAIN up'[u] = Fields /\ up'[u].at = "open" /\ up'[u].list = list
        /\ up'[u].folder = up[u].folder /\ up'[u].todo = Tail(up[u].todo)
    BY <2>1 DEF UploadInv, UpTyped, Fields
  <2>4. Tail(up[u].todo) \in Seq(Upload!Sent) /\ Tail(up[u].todo) # <<>>
    <3>1. up[u].todo \in Seq(Upload!Sent) /\ up[u].todo # <<>>
      BY <1>1 DEF UploadInv, UpTyped, Reads
    <3> QED
      BY <1>3, <3>1, TailLeft
  <2>5. UpTyped'
    <3>1. up[u].folder \in Folders
      BY <1>1 DEF UploadInv, UpTyped, Reads
    <3> SUFFICES ASSUME NEW v \in Uploaders, v # u
                 PROVE  up'[v] = up[v] /\ (Reads(v)' <=> Reads(v))
      BY <1>1, <2>2, <2>3, <2>4, <3>1 DEF UpTyped, UploadInv, Fields, Reads
    <3> QED
      BY <2>2 DEF Reads
  <2>6. Finished' \subseteq Finished \cup {up[u].file}
    <3>1. \A v \in Uploaders : up'[v].list \subseteq up[v].list \cup {up[u].file}
      BY <2>2, <2>3
    <3> QED
      BY <2>1, <3>1 DEF Finished
  <2>7. \A v \in Uploaders : Reads(v)' => Reads(v) /\ up'[v] = up[v] /\ up[v].file \notin Finished'
    BY <1>1, <2>2, <2>3, <2>6 DEF Reads, UploadInv, FilesApart
  <2> QED
    BY <1>1, <2>5, <2>6, <2>7, IdleStep DEF UploadInv, OpenedTyped
<1> QED
  BY <1>2, <1>3

LEMMA RestartKeeps ==
  ASSUME UploadInv, Upload!RestartUploads
  PROVE  UploadInv'
<1>1. up' = [v \in Uploaders |-> Upload!NoUpload] /\ UNCHANGED <<clock, opened, nodes, disk, saved, deleted>>
  BY DEF Upload!RestartUploads
<1>2. \A v \in Uploaders : DOMAIN up'[v] = Fields /\ up'[v].at = "idle" /\ up'[v].list = {}
  BY <1>1 DEF Upload!NoUpload, Fields
<1>3. UpTyped'
  BY <1>1, <1>2 DEF UpTyped, Fields, Reads
<1>4. Finished' \subseteq Finished /\ \A v \in Uploaders : ~Reads(v)'
  BY <1>1, <1>2 DEF Finished, Reads
<1> QED
  BY <1>1, <1>3, <1>4, IdleStep DEF UploadInv, OpenedTyped

LEMMA MillisecondKeeps ==
  ASSUME UploadInv, Upload!Millisecond
  PROVE  UploadInv'
<1>1. clock' = clock + 1 /\ UNCHANGED <<opened, nodes, disk, up, saved, deleted>>
  BY DEF Upload!Millisecond
<1>2. UpTyped' /\ Finished' = Finished /\ \A v \in Uploaders : Reads(v)' <=> Reads(v)
  BY <1>1 DEF UploadInv, UpTyped, Finished, Reads
<1> QED
  BY <1>1, <1>2, IdleStep DEF UploadInv, OpenedTyped, FilesApart

LEMMA AloneNamed ==
  ASSUME NEW f \in DOMAIN opened, Upload!Alone(f), NEW g \in DOMAIN opened, g # f
  PROVE  Named(g) # Named(f)
BY DEF Upload!Alone, Named, Upload!NameOf

\* A name that is deleted is of no file that stays.
LEMMA DeleteKeeps ==
  ASSUME UploadInv, NEW name, Upload!DeleteFile(name)
  PROVE  UploadInv'
<1> USE DEF UploadInv
<1>1. /\ disk' = [n \in DOMAIN disk \ {name} |-> disk[n]]
      /\ deleted' = deleted \cup {f \in DOMAIN opened : Named(f) = name}
      /\ UNCHANGED <<clock, opened, nodes, up, saved>>
  BY DEF Upload!DeleteFile, Upload!Unlinked, Named
<1>2. OpenedTyped' /\ NodesTyped' /\ DiskTyped' /\ UpTyped' /\ FilesApart'
  BY <1>1 DEF OpenedTyped, NodesTyped, DiskTyped, UpTyped, FilesApart, Finished, Reads
<1>3. NodesNamed'
  BY <1>1 DEF NodesNamed, Named, Reads
<1>4. Finished' = Finished /\ Finished \subseteq DOMAIN opened
  BY <1>1 DEF Finished, FilesApart
<1>5. \A f \in DOMAIN opened \ deleted' : \A n : Whole(f, n) => Whole(f, n)' /\ disk'[Named(f)] = disk[Named(f)]
  BY <1>1 DEF Whole, Named
<1>6. FinishedWhole'
  <2> SUFFICES ASSUME NEW f \in Finished \ deleted', Upload!Alone(f)
               PROVE  Whole(f, opened[f].chunks)'
    BY <1>1, <1>4 DEF FinishedWhole, Upload!Alone
  <2> QED
    BY <1>1, <1>4, <1>5 DEF FinishedWhole
<1>7. WholeSoFar'
  <2> SUFFICES ASSUME NEW u \in Uploaders, Reads(u), up[u].file \notin deleted', Upload!Alone(up[u].file)
               PROVE  Whole(up[u].file, up[u].read)' /\ disk'[Named(up[u].file)] = up[u].node
    BY <1>1 DEF WholeSoFar, Upload!Alone, Reads, Named
  <2>1. up[u].file \in DOMAIN opened
    BY DEF UpTyped
  <2> QED
    BY <1>1, <1>5, <2>1 DEF WholeSoFar
<1> QED
  BY <1>2, <1>3, <1>6, <1>7

\* A chunk too many: the name that goes is of the refused file only.
LEMMA RefuseKeeps ==
  ASSUME UploadInv, NEW u \in Uploaders, Upload!ReadChunk(u), up[u].read = MaxChunks
  PROVE  UploadInv'
<1> USE DEF UploadInv
<1>1. /\ Reads(u) /\ disk' = [n \in DOMAIN disk \ {Named(up[u].file)} |-> disk[n]]
      /\ up' = [up EXCEPT ![u] = Upload!NoUpload]
      /\ UNCHANGED <<clock, opened, nodes, saved, deleted>>
  BY DEF Upload!ReadChunk, Upload!Unlinked, Named, Reads
<1>2. up' = [v \in Uploaders |-> up'[v]] /\ up'[u] = Upload!NoUpload
  BY <1>1, OneMoves
<1>3. \A v \in Uploaders \ {u} : up'[v] = up[v]
  BY <1>1, OneMoves
<1>4. DOMAIN up'[u] = Fields /\ up'[u].at = "idle" /\ up'[u].list = {}
  <2>1. DOMAIN Upload!NoUpload = Fields /\ Upload!NoUpload.at = "idle" /\ Upload!NoUpload.list = {}
    BY DEF Upload!NoUpload, Fields
  <2> QED
    BY <1>2, <2>1
<1>5. ~Reads(u)' /\ \A v \in Uploaders : Reads(v)' => Reads(v) /\ v # u /\ up'[v] = up[v]
  BY <1>3, <1>4 DEF Reads
<1>6. OpenedTyped' /\ NodesTyped' /\ DiskTyped'
  BY <1>1 DEF OpenedTyped, NodesTyped, DiskTyped
<1>7. UpTyped'
  <2> SUFFICES ASSUME NEW v \in Uploaders, v # u
               PROVE  up'[v] = up[v] /\ (Reads(v)' <=> Reads(v))
    BY <1>1, <1>2, <1>4, <1>5 DEF UpTyped, Fields
  <2> QED
    BY <1>3 DEF Reads
<1>8. Finished' \subseteq Finished
  BY <1>1, <1>3, <1>4 DEF Finished
<1>9. FilesApart'
  BY <1>1, <1>5, <1>8 DEF FilesApart
<1>10. NodesNamed'
  BY <1>1, <1>5 DEF NodesNamed, Named
<1>11. up[u].file \in DOMAIN opened /\ up[u].file \notin Finished
  BY <1>1 DEF UpTyped, FilesApart
<1>12. \A f \in DOMAIN opened : Upload!Alone(f) /\ f # up[u].file =>
         \A n : Whole(f, n) => Whole(f, n)' /\ disk'[Named(f)] = disk[Named(f)]
  BY <1>1, <1>11, AloneNamed DEF Whole, Named
<1>13. FinishedWhole'
  <2> SUFFICES ASSUME NEW f \in Finished \ deleted, Upload!Alone(f)
               PROVE  Whole(f, opened[f].chunks)'
    BY <1>1, <1>8 DEF FinishedWhole, Upload!Alone
  <2>1. f \in DOMAIN opened /\ f # up[u].file
    BY <1>11 DEF FilesApart
  <2> QED
    BY <1>1, <1>12, <2>1 DEF FinishedWhole
<1>14. WholeSoFar'
  <2> SUFFICES ASSUME NEW v \in Uploaders, (Reads(v) /\ up[v].file \notin deleted /\ Upload!Alone(up[v].file))'
               PROVE  (Whole(up[v].file, up[v].read) /\ disk[Named(up[v].file)] = up[v].node)'
    BY DEF WholeSoFar
  <2>1. Reads(v) /\ v # u /\ up'[v] = up[v]
    BY <1>5
  <2>2. up[v].file \notin deleted /\ Upload!Alone(up[v].file)
    BY <1>1, <2>1 DEF Upload!Alone
  <2>3. up[v].file \in DOMAIN opened /\ up[v].file # up[u].file
    BY <1>1, <2>1 DEF UpTyped, FilesApart
  <2>4. Whole(up[v].file, up[v].read) /\ disk[Named(up[v].file)] = up[v].node
    BY <2>1, <2>2 DEF WholeSoFar
  <2> QED
    BY <1>1, <1>12, <2>1, <2>2, <2>3, <2>4 DEF Whole, Named
<1> QED
  BY <1>6, <1>7, <1>9, <1>10, <1>13, <1>14

LEMMA PutNext ==
  ASSUME NEW f, NEW n \in Nat, NEW w, w = [c \in 1..n |-> f]
  PROVE  Upload!Put(w, n + 1, f) = [c \in 1..(n + 1) |-> f]
<1>1. DOMAIN w \cup {n + 1} = 1..(n + 1)
  OBVIOUS
<1>2. Upload!Put(w, n + 1, f) = [c \in 1..(n + 1) |-> IF c = n + 1 THEN f ELSE w[c]]
  BY <1>1 DEF Upload!Put
<1>3. \A c \in 1..(n + 1) : (IF c = n + 1 THEN f ELSE w[c]) = f
  OBVIOUS
<1> QED
  BY <1>2, <1>3

LEMMA PutTyped ==
  ASSUME NEW w \in UNION {[D -> Nat] : D \in SUBSET Nat}, NEW k \in Nat, NEW v \in Nat
  PROVE  Upload!Put(w, k, v) \in UNION {[D -> Nat] : D \in SUBSET Nat}
<1>1. PICK D \in SUBSET Nat : w \in [D -> Nat]
  OBVIOUS
<1>2. Upload!Put(w, k, v) \in [D \cup {k} -> Nat] /\ D \cup {k} \in SUBSET Nat
  BY <1>1 DEF Upload!Put
<1> QED
  BY <1>2

\* A chunk goes to a node that no other whole file has.
LEMMA ChunkKeeps ==
  ASSUME UploadInv, NEW u \in Uploaders, Upload!ReadChunk(u), up[u].read # MaxChunks
  PROVE  UploadInv'
<1> USE DEF UploadInv
<1> DEFINE f == up[u].file
           node == up[u].node
           k == up[u].read
<1>1. /\ Reads(u) /\ k < opened[f].chunks
      /\ nodes' = [nodes EXCEPT ![node] = Upload!Put(@, k + 1, f)]
      /\ up' = [up EXCEPT ![u].read = @ + 1]
      /\ UNCHANGED <<clock, opened, disk, saved, deleted>>
  BY DEF Upload!ReadChunk, Reads
<1>2. up' = [v \in Uploaders |-> up'[v]] /\ \A v \in Uploaders \ {u} : up'[v] = up[v]
  BY <1>1 DEF UpTyped
<1>3. /\ DOMAIN up'[u] = Fields /\ up'[u].at = "read" /\ up'[u].read = k + 1
      /\ up'[u].file = f /\ up'[u].node = node /\ up'[u].folder = up[u].folder
      /\ up'[u].todo = up[u].todo /\ up'[u].list = up[u].list
  BY <1>1 DEF UpTyped, Fields, Reads
<1>4. \A v \in Uploaders : (Reads(v)' <=> Reads(v)) /\ up'[v].list = up[v].list
                            /\ up'[v].file = up[v].file /\ up'[v].node = up[v].node
  BY <1>1, <1>2, <1>3 DEF Reads
<1>5. f \in DOMAIN opened /\ node \in DOMAIN nodes /\ k \in 0..opened[f].chunks
  BY <1>1 DEF UpTyped
<1>6. opened[f].chunks \in Nat /\ k \in Nat /\ f \in Nat
  <2> DEFINE Files == [folder : Folders, ms : Nat, file : FileNames, chunks : Sizes]
  <2>1. opened \in Seq(Files)
    BY DEF OpenedTyped
  <2> HIDE DEF f, k, Files
  <2>2. opened[f] \in Files /\ f \in Nat
    BY <1>5, <2>1
  <2>3. opened[f].chunks \in Sizes
    BY <2>2 DEF Files
  <2>4. opened[f].chunks \in Nat
    BY <2>3, SizesAreNumbers
  <2> QED
    BY <1>5, <2>2, <2>4
<1>7. OpenedTyped' /\ DiskTyped'
  BY <1>1 DEF OpenedTyped, DiskTyped, NodesTyped
<1>8. NodesTyped'
  <2> DEFINE S == UNION {[D -> Nat] : D \in SUBSET Nat}
  <2>1. nodes \in Seq(S)
    BY DEF NodesTyped
  <2>2. Upload!Put(nodes[node], k + 1, f) \in S
    <3>1. nodes[node] \in S /\ k + 1 \in Nat
      BY <1>5, <1>6, <2>1
    <3> QED
      BY <1>6, <3>1, PutTyped
  <2> HIDE DEF S
  <2>3. [nodes EXCEPT ![node] = Upload!Put(@, k + 1, f)] \in Seq(S)
    BY <1>5, <2>1, <2>2
  <2> QED
    BY <1>1, <2>3 DEF NodesTyped, S
<1>9. DOMAIN nodes' = DOMAIN nodes
  BY <1>1
<1>10. UpTyped'
  <2>1. k + 1 \in 0..opened[f].chunks
    BY <1>1, <1>5, <1>6
  <2>2. up[u].folder \in Folders /\ up[u].todo \in Seq(Upload!Sent) /\ up[u].todo # <<>>
    BY <1>1 DEF UpTyped, Reads
  <2> SUFFICES ASSUME NEW v \in Uploaders, v # u
               PROVE  up'[v] = up[v] /\ (Reads(v)' <=> Reads(v))
    BY <1>1, <1>2, <1>3, <1>5, <1>9, <2>1, <2>2 DEF UpTyped, Fields
  <2> QED
    BY <1>2, <1>4
<1>11. FilesApart'
  <2>1. Finished' = Finished
    BY <1>1, <1>4 DEF Finished
  <2> QED
    BY <1>1, <1>4, <2>1 DEF FilesApart
<1>12. NodesNamed'
  BY <1>1, <1>4 DEF NodesNamed, Named
\* Another file that is whole so far has another node.
<1>13. ASSUME NEW g \in DOMAIN opened, g # f, Upload!Alone(g), NEW n, Whole(g, n)
       PROVE  Whole(g, n)'
  <2>1. disk[Named(g)] # node
    BY <1>1, <1>5, <1>13, AloneNamed DEF NodesNamed, Whole
  <2> QED
    BY <1>1, <1>13, <2>1 DEF Whole, Named
<1>14. FinishedWhole'
  <2> SUFFICES ASSUME NEW g \in Finished \ deleted, Upload!Alone(g)
               PROVE  Whole(g, opened[g].chunks)'
    BY <1>1, <1>4 DEF FinishedWhole, Upload!Alone, Finished
  <2>1. g \in DOMAIN opened /\ g # f
    BY <1>1 DEF FilesApart
  <2> QED
    BY <1>1, <1>13, <2>1 DEF FinishedWhole
<1>15. WholeSoFar'
  <2> SUFFICES ASSUME NEW v \in Uploaders, (Reads(v) /\ up[v].file \notin deleted /\ Upload!Alone(up[v].file))'
               PROVE  (Whole(up[v].file, up[v].read) /\ disk[Named(up[v].file)] = up[v].node)'
    BY DEF WholeSoFar
  <2>1. Reads(v) /\ up[v].file \notin deleted /\ Upload!Alone(up[v].file)
    BY <1>1, <1>4 DEF Upload!Alone
  <2>2. Whole(up[v].file, up[v].read) /\ disk[Named(up[v].file)] = up[v].node
    BY <2>1 DEF WholeSoFar
  <2>3. CASE v # u
    <3>1. up'[v] = up[v]
      BY <1>2, <2>3
    <3>2. up[v].file \in DOMAIN opened /\ up[v].file # f
      BY <1>1, <2>1, <2>3 DEF UpTyped, FilesApart
    <3>3. Whole(up[v].file, up[v].read) => nodes'[disk[Named(up[v].file)]] = nodes[disk[Named(up[v].file)]]
      <4>1. disk[Named(up[v].file)] # node
        BY <1>1, <1>5, <2>1, <2>2, <3>2, AloneNamed DEF NodesNamed, Whole
      <4> QED
        BY <1>1, <4>1 DEF NodesTyped
    <3> QED
      BY <1>1, <2>2, <3>1, <3>3 DEF Whole, Named
  <2>4. CASE v = u
    <3>1. nodes[node] = [c \in 1..k |-> f] /\ Named(f) \in DOMAIN disk /\ disk[Named(f)] = node
      BY <2>2, <2>4 DEF Whole
    <3>2. nodes'[node] = Upload!Put(nodes[node], k + 1, f)
      BY <1>1, <1>5
    <3>3. nodes'[node] = [c \in 1..(k + 1) |-> f]
      BY <1>6, <3>1, <3>2, PutNext
    <3>4. Named(up[u].file)' = Named(f) /\ up'[u].file = f /\ up'[u].read = k + 1 /\ up'[u].node = node
      BY <1>1, <1>3 DEF Named
    <3>5. disk' = disk /\ opened' = opened
      BY <1>1
    <3> HIDE DEF f, node, k
    <3> QED
      BY <2>4, <3>1, <3>3, <3>4, <3>5 DEF Whole
  <2> QED
    BY <2>3, <2>4
<1> QED
  BY <1>7, <1>8, <1>10, <1>11, <1>12, <1>14, <1>15

LEMMA OneMore ==
  ASSUME NEW S, NEW s \in Seq(S), NEW e \in S
  PROVE  /\ Append(s, e) \in Seq(S) /\ DOMAIN Append(s, e) = DOMAIN s \cup {Len(s) + 1}
         /\ Append(s, e)[Len(s) + 1] = e /\ \A i \in DOMAIN s : Append(s, e)[i] = s[i]
         /\ Len(s) + 1 \notin DOMAIN s
OBVIOUS

\* A file that is opened is new; it shares its node only with files of its own name, which
\* are then not alone.
LEMMA OpenKeeps ==
  ASSUME UploadInv, NEW u \in Uploaders, Upload!OpenFile(u)
  PROVE  UploadInv'
<1> USE DEF UploadInv
<1> DEFINE one == [folder |-> up[u].folder, ms |-> clock, file |-> up[u].todo[1].file, chunks |-> up[u].todo[1].chunks]
           name == Upload!NameOf(one)
           there == name \in DOMAIN disk
           node == IF there THEN disk[name] ELSE Len(nodes) + 1
           Files == [folder : Folders, ms : Nat, file : FileNames, chunks : Sizes]
           Written == UNION {[D -> Nat] : D \in SUBSET Nat}
<1> PICK new : new = Len(opened) + 1
  OBVIOUS
<1>1. /\ up[u].at = "open" /\ opened' = Append(opened, one)
      /\ nodes' = IF there THEN [nodes EXCEPT ![node] = <<>>] ELSE Append(nodes, <<>>)
      /\ disk' = Upload!Put(disk, name, node)
      /\ up' = [up EXCEPT ![u].at = "read", ![u].file = new, ![u].node = node, ![u].read = 0]
      /\ UNCHANGED <<clock, saved, deleted>>
  BY DEF Upload!OpenFile
<1>2. one \in Files
  <2>1. up[u].folder \in Folders /\ up[u].todo \in Seq(Upload!Sent) /\ up[u].todo # <<>> /\ clock \in Nat
    BY <1>1 DEF UpTyped, OpenedTyped
  <2>2. \A s \in Seq(Upload!Sent) : s # <<>> => s[1] \in Upload!Sent
    OBVIOUS
  <2>3. up[u].todo[1] \in Upload!Sent
    BY <2>1, <2>2
  <2> QED
    BY <2>1, <2>3 DEF Upload!Sent
<1>3. opened \in Seq(Files) /\ nodes \in Seq(Written) /\ <<>> \in Written
  <2>1. <<>> \in [{} -> Nat]
    OBVIOUS
  <2> QED
    BY <2>1 DEF OpenedTyped, NodesTyped
<1>4. /\ opened' \in Seq(Files) /\ DOMAIN opened' = DOMAIN opened \cup {new} /\ new \notin DOMAIN opened
      /\ opened'[new] = one /\ \A i \in DOMAIN opened : opened'[i] = opened[i]
  <2> HIDE DEF one, Files
  <2> QED
    BY <1>1, <1>2, <1>3, OneMore
<1>5. /\ nodes' \in Seq(Written) /\ node \in DOMAIN nodes' /\ DOMAIN nodes \subseteq DOMAIN nodes'
      /\ nodes'[node] = <<>> /\ \A i \in DOMAIN nodes \ {node} : nodes'[i] = nodes[i]
      /\ ~there => node \notin DOMAIN nodes
      /\ there => node = disk[name]
  <2> HIDE DEF name, Written
  <2>1. CASE there
    <3>1. node = disk[name] /\ node \in DOMAIN nodes
      BY <2>1 DEF DiskTyped
    <3> HIDE DEF node
    <3> QED
      BY <1>1, <1>3, <2>1, <3>1
  <2>2. CASE ~there
    <3>1. node = Len(nodes) + 1 /\ nodes' = Append(nodes, <<>>)
      BY <1>1, <2>2
    <3> QED
      BY <1>3, <2>2, <3>1, OneMore
  <2> QED
    BY <2>1, <2>2
<1>6. DOMAIN disk' = DOMAIN disk \cup {name} /\ disk'[name] = node /\ \A n \in DOMAIN disk \ {name} : disk'[n] = disk[n]
  BY <1>1 DEF Upload!Put
<1>7. up' = [v \in Uploaders |-> up'[v]] /\ \A v \in Uploaders \ {u} : up'[v] = up[v]
  BY <1>1 DEF UpTyped
<1>8. /\ DOMAIN up'[u] = Fields /\ up'[u].at = "read" /\ up'[u].read = 0
      /\ up'[u].file = new /\ up'[u].node = node /\ up'[u].folder = up[u].folder
      /\ up'[u].todo = up[u].todo /\ up'[u].list = up[u].list
  BY <1>1 DEF UpTyped, Fields
<1>9. \A f \in DOMAIN opened : Named(f)' = Named(f)
  BY <1>4 DEF Named
<1>10. Named(new)' = name
  BY <1>4 DEF Named
<1>11. \A f \in DOMAIN opened : Upload!Alone(f)' => Upload!Alone(f) /\ Named(f) # name
  <2> SUFFICES ASSUME NEW f \in DOMAIN opened, Upload!Alone(f)'
               PROVE  Upload!Alone(f) /\ Named(f) # name
    OBVIOUS
  <2>1. \A g \in DOMAIN opened' \ {f} : \/ opened'[g].folder # opened'[f].folder \/ opened'[g].ms # opened'[f].ms
                                          \/ opened'[g].file # opened'[f].file
    BY DEF Upload!Alone
  <2>2. Upload!Alone(f)
    BY <1>4, <2>1 DEF Upload!Alone
  <2>3. \/ one.folder # opened[f].folder \/ one.ms # opened[f].ms \/ one.file # opened[f].file
    <3> HIDE DEF one
    <3> QED
      BY <1>4, <2>1
  <2>4. Named(f) # name
    <3> HIDE DEF one
    <3> QED
      BY <2>3 DEF Named, Upload!NameOf
  <2> QED
    BY <2>2, <2>4
<1> HIDE DEF one, name, node, Files, Written
<1>12. OpenedTyped' /\ NodesTyped'
  BY <1>1, <1>4, <1>5 DEF OpenedTyped, NodesTyped, Files, Written
<1>13. DiskTyped'
  <2>1. \A n \in DOMAIN disk' : disk'[n] \in DOMAIN nodes'
    BY <1>5, <1>6 DEF DiskTyped
  <2>2. \A n \in DOMAIN disk' \ {name} : disk'[n] # node
    BY <1>5, <1>6 DEF DiskTyped
  <2>3. \A m, n \in DOMAIN disk' : disk'[m] = disk'[n] => m = n
    BY <1>6, <2>2 DEF DiskTyped
  <2> QED
    BY <2>1, <2>3 DEF DiskTyped
<1>14. \A v \in Uploaders : v # u => up'[v] = up[v] /\ (Reads(v)' <=> Reads(v))
  BY <1>7 DEF Reads
<1>15. UpTyped'
  <2>1. /\ up[u].folder \in Folders /\ up[u].todo \in Seq(Upload!Sent) /\ up[u].todo # <<>>
    BY <1>1 DEF UpTyped
  <2>2. opened'[new].chunks \in Nat
    <3>1. one.chunks \in Sizes
      BY <1>2 DEF Files
    <3> QED
      BY <1>4, <3>1, SizesAreNumbers
  <2>3. up'[u].read \in 0..opened'[up'[u].file].chunks
    BY <1>8, <2>2
  <2>4. up'[u].file \in DOMAIN opened' /\ up'[u].node \in DOMAIN nodes'
    BY <1>4, <1>5, <1>8
  <2>5. ASSUME NEW v \in Uploaders, v # u, Reads(v)
        PROVE  up[v].file \in DOMAIN opened' /\ up[v].node \in DOMAIN nodes' /\ up[v].read \in 0..opened'[up[v].file].chunks
    BY <1>4, <1>5, <2>5 DEF UpTyped
  <2> QED
    BY <1>7, <1>8, <1>14, <2>1, <2>3, <2>4, <2>5 DEF UpTyped, Fields
<1>16. Finished' = Finished
  <2>1. \A v \in Uploaders : up'[v].list = up[v].list
    BY <1>8, <1>14
  <2> QED
    BY <1>1, <2>1 DEF Finished
<1>17. FilesApart'
  <2>1. \A v \in Uploaders : v # u /\ Reads(v) => up[v].file # new
    BY <1>4 DEF UpTyped
  <2> QED
    BY <1>4, <1>8, <1>14, <1>16, <2>1 DEF FilesApart
<1>18. NodesNamed'
  <2> SUFFICES ASSUME NEW v \in Uploaders, Reads(v)', NEW n \in DOMAIN disk', disk'[n] = up'[v].node
               PROVE  n = Named(up[v].file)'
    BY DEF NodesNamed
  <2>1. CASE v = u
    <3>1. n = name
      BY <1>8, <1>6, <1>5, <2>1 DEF DiskTyped
    <3> QED
      BY <1>8, <1>10, <2>1, <3>1 DEF Named
  <2>2. CASE v # u
    <3>1. Reads(v) /\ up'[v] = up[v] /\ up[v].file \in DOMAIN opened /\ up[v].node \in DOMAIN nodes
      BY <1>14, <2>2 DEF UpTyped
    <3>2. n \in DOMAIN disk /\ disk[n] = up[v].node
      BY <1>5, <1>6, <3>1
    <3>3. n = Named(up[v].file)
      BY <3>1, <3>2 DEF NodesNamed
    <3> QED
      BY <1>4, <3>1, <3>3 DEF Named
  <2> QED
    BY <2>1, <2>2
<1>19. ASSUME NEW f \in DOMAIN opened, Upload!Alone(f)', NEW n, Whole(f, n)
       PROVE  Whole(f, n)' /\ disk'[Named(f)] = disk[Named(f)]
  <2>1. Named(f) # name
    BY <1>11, <1>19
  <2>2. disk'[Named(f)] = disk[Named(f)] /\ disk[Named(f)] \in DOMAIN nodes
    BY <1>6, <1>19, <2>1 DEF Whole, DiskTyped
  <2>3. disk[Named(f)] # node
    BY <1>5, <1>19, <2>1, <2>2 DEF Whole, DiskTyped
  <2>4. nodes'[disk'[Named(f)]] = [c \in 1..n |-> f]
    BY <1>5, <1>19, <2>2, <2>3 DEF Whole
  <2>5. Named(f) \in DOMAIN disk'
    BY <1>6, <1>19 DEF Whole
  <2> QED
    BY <1>9, <1>19, <2>2, <2>4, <2>5 DEF Whole
<1>20. FinishedWhole'
  <2> SUFFICES ASSUME NEW f \in Finished \ deleted, Upload!Alone(f)'
               PROVE  Whole(f, opened[f].chunks)'
    BY <1>1, <1>16 DEF FinishedWhole
  <2>1. f \in DOMAIN opened /\ Upload!Alone(f)
    BY <1>11 DEF FilesApart
  <2>2. Whole(f, opened[f].chunks)
    BY <2>1 DEF FinishedWhole
  <2> QED
    BY <1>4, <1>19, <2>1, <2>2
<1>21. WholeSoFar'
  <2> SUFFICES ASSUME NEW v \in Uploaders, (Reads(v) /\ up[v].file \notin deleted /\ Upload!Alone(up[v].file))'
               PROVE  (Whole(up[v].file, up[v].read) /\ disk[Named(up[v].file)] = up[v].node)'
    BY DEF WholeSoFar
  <2>1. CASE v = u
    <3>1. nodes'[node] = [c \in 1..0 |-> new]
      BY <1>5
    <3>2. Named(up[u].file)' = name /\ up'[u].file = new /\ up'[u].read = 0 /\ up'[u].node = node
      BY <1>8, <1>10 DEF Named
    <3> QED
      BY <1>6, <2>1, <3>1, <3>2 DEF Whole
  <2>2. CASE v # u
    <3>1. Reads(v) /\ up'[v] = up[v] /\ up[v].file \in DOMAIN opened
      BY <1>14, <2>2 DEF UpTyped
    <3>0. up[v].file \notin deleted
      <4>1. (up[v].file \notin deleted)'
        OBVIOUS
      <4>2. up'[v].file \notin deleted'
        BY <4>1
      <4>3. up'[v].file = up[v].file /\ deleted' = deleted
        BY <1>1, <3>1
      <4> QED
        BY <4>2, <4>3
    <3> DEFINE f == up[v].file
               r == up[v].read
    <3>2. Upload!Alone(f) /\ f \notin deleted
      <4>1. Upload!Alone(up[v].file)'
        OBVIOUS
      <4>2. \A g \in DOMAIN opened \ {f} :
              opened[g].folder # opened[f].folder \/ opened[g].ms # opened[f].ms \/ opened[g].file # opened[f].file
        BY <1>4, <3>1, <4>1 DEF Upload!Alone
      <4>3. Upload!Alone(f)
        BY <4>2 DEF Upload!Alone
      <4>4. f \notin deleted
        BY <3>0
      <4> QED
        BY <4>3, <4>4
    <3>3. Whole(f, r) /\ disk[Named(f)] = up[v].node
      BY <3>1, <3>2 DEF WholeSoFar
    <3>4. Named(f) # name
      BY <1>4, <1>11, <3>1 DEF Upload!Alone
    <3>5. disk'[Named(f)] = disk[Named(f)] /\ disk[Named(f)] \in DOMAIN nodes /\ disk[Named(f)] # node
      BY <1>5, <1>6, <3>3, <3>4 DEF Whole, DiskTyped
    <3>6. Named(up[v].file)' = Named(f)
      BY <1>4, <3>1 DEF Named
    <3> QED
      BY <1>5, <1>6, <3>1, <3>3, <3>5, <3>6 DEF Whole
  <2> QED
    BY <2>1, <2>2
<1> QED
  BY <1>12, <1>13, <1>15, <1>17, <1>18, <1>20, <1>21

LEMMA UploadsKeep == UploadInv /\ Upload!UploadsNext => UploadInv'
<1> SUFFICES ASSUME UploadInv, Upload!UploadsNext PROVE UploadInv'
  OBVIOUS
<1>1. CASE Upload!Millisecond \/ Upload!RestartUploads
  BY <1>1, MillisecondKeeps, RestartKeeps
<1>2. ASSUME NEW name, Upload!DeleteFile(name) PROVE UploadInv'
  BY <1>2, DeleteKeeps
<1>3. ASSUME NEW u \in Uploaders, Upload!Upload(u) \/ Upload!OpenFile(u) \/ Upload!ReadChunk(u) \/ Upload!FileRead(u)
      PROVE  UploadInv'
  BY <1>3, UploadKeeps, OpenKeeps, RefuseKeeps, ChunkKeeps, FileReadKeeps
<1> QED
  BY <1>1, <1>2, <1>3 DEF Upload!UploadsNext

\* The size that mother_uploads finds is the number of the last chunk.
LEMMA SizeOfWhole ==
  ASSUME NEW name, NEW n \in Nat, DOMAIN nodes[disk[name]] = 1..n
  PROVE  Upload!Size(name) = n
<1>1. DOMAIN nodes[disk[name]] = 1..n
  OBVIOUS
<1>2. CASE n = 0
  BY <1>1, <1>2 DEF Upload!Size
<1>3. CASE n # 0
  <2>1. n \in 1..n /\ 1..n # {} /\ \A d \in 1..n : d <= n
    BY <1>3
  <2>2. \A c \in 1..n : (\A d \in 1..n : d <= c) => c = n
    BY <2>1
  <2>3. (CHOOSE c \in 1..n : \A d \in 1..n : d <= c) = n
    BY <2>1, <2>2
  <2> QED
    BY <1>1, <2>1, <2>3 DEF Upload!Size
<1> QED
  BY <1>2, <1>3

\* Whatever uploads, refusals, deletions and restarts come between the chunks of a file: once
\* upload has answered it as saved, mother_uploads lists it with its size and its name holds
\* all that was sent and nothing else, until delete_file gets that name, and unless another
\* file of the name was opened in the same millisecond.
THEOREM SavedFilesStay == Spec => []SavedStay
<1>1. Init => UploadInv
  BY UploadsStart DEF Init
<1>2. UploadInv /\ [Next]_vars => UploadInv'
  <2>1. ASSUME UploadInv, UNCHANGED uploadVars PROVE UploadInv'
    <3>1. UNCHANGED <<clock, opened, nodes, disk, up, saved, deleted>>
      BY <2>1 DEF uploadVars
    <3>2. UpTyped' /\ Finished' = Finished /\ \A v \in Uploaders : Reads(v)' <=> Reads(v)
      BY <2>1, <3>1 DEF UploadInv, UpTyped, Finished, Reads
    <3> QED
      BY <2>1, <3>1, <3>2, IdleStep DEF UploadInv, OpenedTyped, FilesApart
  <2> QED
    BY <2>1, UploadsKeep DEF Next, vars
<1>3. UploadInv => SavedStay
  <2> SUFFICES ASSUME UploadInv, NEW f \in saved \ deleted, Upload!Alone(f)
               PROVE  /\ [name |-> Named(f), size |-> opened[f].chunks] \in Upload!MotherUploads(opened[f].folder)
                      /\ nodes[disk[Named(f)]] = [c \in 1..opened[f].chunks |-> f]
    BY DEF SavedStay, Upload!SavedStay, Named
  <2>1. f \in DOMAIN opened /\ Whole(f, opened[f].chunks)
    BY DEF UploadInv, FilesApart, FinishedWhole, Finished
  <2>2. opened[f].chunks \in Nat
    <3> DEFINE Files == [folder : Folders, ms : Nat, file : FileNames, chunks : Sizes]
    <3>1. opened \in Seq(Files)
      BY DEF UploadInv, OpenedTyped
    <3> HIDE DEF Files
    <3>2. opened[f] \in Files
      BY <2>1, <3>1
    <3>3. opened[f].chunks \in Sizes
      BY <3>2 DEF Files
    <3> QED
      BY <3>3, SizesAreNumbers
  <2>3. Upload!Size(Named(f)) = opened[f].chunks
    <3>1. nodes[disk[Named(f)]] = [c \in 1..opened[f].chunks |-> f]
      BY <2>1 DEF Whole
    <3>2. PICK name : name = Named(f)
      OBVIOUS
    <3>3. PICK n \in Nat : n = opened[f].chunks
      BY <2>2
    <3>4. DOMAIN nodes[disk[name]] = 1..n
      BY <3>1, <3>2, <3>3
    <3>5. Upload!Size(name) = n
      BY <3>4, SizeOfWhole
    <3> QED
      BY <3>2, <3>3, <3>5
  <2>4. Named(f) \in Upload!ListFiles(opened[f].folder)
    BY <2>1 DEF Whole, Upload!ListFiles, Named, Upload!NameOf
  <2> QED
    BY <2>1, <2>3, <2>4 DEF Whole, Upload!MotherUploads
<1> QED
  BY <1>1, <1>2, <1>3, PTL DEF Spec

-----------------------------------------------------------------------------
(* TokenClient.  The manager's choice is the first of an order on natural  *)
(* numbers, so it exists however many providers and models there are.      *)

\* A set of naturals has a least element.
LEMMA LeastNat == ASSUME NEW S \in SUBSET Nat, S # {} PROVE \E n \in S : \A m \in S : n <= m
<1> DEFINE R == OpToRel(<, Nat)
<1>1. IsWellFoundedOn(R, Nat)
  BY NatLessThanWellFounded
<1>2. R = {ss \in Nat \X Nat : ss[1] < ss[2]}
  BY DEF OpToRel
<1> HIDE DEF R
<1>3. PICK n \in S : \A m \in S : ~(<<m, n>> \in R)
  BY <1>1, WFMin
<1>4. \A m \in S : n <= m
  <2> SUFFICES ASSUME NEW m \in S PROVE n <= m
    OBVIOUS
  <2>1. <<m, n>> \in Nat \X Nat /\ <<m, n>>[1] = m /\ <<m, n>>[2] = n
    OBVIOUS
  <2>2. ~(m < n)
    BY <1>2, <1>3, <2>1
  <2> QED
    BY <2>2
<1> QED
  BY <1>4

Registered == [name : DOMAIN Catalog, quota : Int, failures : Nat]
ProvidersTyped == providers \in Seq(Registered)
ClientInv == ProvidersTyped /\ connected \in BOOLEAN /\ Client!ClientTells

\* What a candidate is: a provider that is registered, and one of its models.
LEMMA CandidateIs ==
  ASSUME ProvidersTyped, NEW w, NEW c \in Client!Candidates(w)
  PROVE  /\ c = <<c[1], c[2]>> /\ c[1] \in Nat /\ c[2] \in Nat
         /\ providers[c[1]].failures \in Nat
         /\ Catalog[providers[c[1]].name][c[2]].cost \in {"low", "medium", "high"}
         /\ Catalog[providers[c[1]].name][c[2]].latency \in {"fast", "normal", "slow"}
<1> DEFINE Pairs == (DOMAIN providers) \X UNION {DOMAIN Catalog[p] : p \in DOMAIN Catalog}
<1>0. c \in Pairs /\ c[2] \in DOMAIN Catalog[providers[c[1]].name]
  BY DEF Client!Candidates
<1>1. c = <<c[1], c[2]>> /\ c[1] \in DOMAIN providers /\ c[2] \in DOMAIN Catalog[providers[c[1]].name]
  BY <1>0
<1> HIDE DEF Pairs
<1> DEFINE i == c[1]
           n == c[2]
<1>2. providers[i] \in Registered /\ i \in Nat
  BY <1>1 DEF ProvidersTyped
<1>3. providers[i].name \in DOMAIN Catalog /\ providers[i].failures \in Nat
  BY <1>2 DEF Registered
<1> HIDE DEF i, n
<1>4. PICK p \in DOMAIN Catalog : p = providers[i].name
  BY <1>3
<1>5. n \in DOMAIN Catalog[p]
  BY <1>1, <1>4 DEF i, n
<1>6. DOMAIN Client!CostRank = {"low", "medium", "high"}
  BY DEF Client!CostRank
<1>7. DOMAIN Client!LatencyRank = {"fast", "normal", "slow"}
  BY DEF Client!LatencyRank
<1>8. n \in Nat /\ Catalog[p][n].cost \in {"low", "medium", "high"} /\ Catalog[p][n].latency \in {"fast", "normal", "slow"}
  BY <1>5, <1>6, <1>7, CatalogIsRanked
<1> QED
  BY <1>1, <1>2, <1>3, <1>4, <1>8 DEF i, n

LEMMA Ranks ==
  /\ Client!CostRank["low"] = 0 /\ Client!CostRank["medium"] = 1 /\ Client!CostRank["high"] = 2
  /\ Client!LatencyRank["fast"] = 0 /\ Client!LatencyRank["normal"] = 1 /\ Client!LatencyRank["slow"] = 2
  BY DEF Client!CostRank, Client!LatencyRank

\* The order of the scores, written out.
LexLess(a1, a2, a3, a4, a5, b1, b2, b3, b4, b5) ==
  \/ a1 < b1
  \/ a1 = b1 /\ a2 < b2
  \/ a1 = b1 /\ a2 = b2 /\ a3 < b3
  \/ a1 = b1 /\ a2 = b2 /\ a3 = b3 /\ a4 < b4
  \/ a1 = b1 /\ a2 = b2 /\ a3 = b3 /\ a4 = b4 /\ a5 < b5

LEMMA PrecedesIs ==
  ASSUME NEW a1, NEW a2, NEW a3, NEW a4, NEW a5, NEW b1, NEW b2, NEW b3, NEW b4, NEW b5
  PROVE  Client!Precedes(<<a1, a2, a3, a4, a5>>, <<b1, b2, b3, b4, b5>>)
           <=> LexLess(a1, a2, a3, a4, a5, b1, b2, b3, b4, b5)
<1> DEFINE s == <<a1, a2, a3, a4, a5>>
           t == <<b1, b2, b3, b4, b5>>
<1>1. s[1] = a1 /\ s[2] = a2 /\ s[3] = a3 /\ s[4] = a4 /\ s[5] = a5
  OBVIOUS
<1>2. t[1] = b1 /\ t[2] = b2 /\ t[3] = b3 /\ t[4] = b4 /\ t[5] = b5
  OBVIOUS
<1>3. 1..5 = {1, 2, 3, 4, 5} /\ 1..(1-1) = {} /\ 1..(2-1) = {1} /\ 1..(3-1) = {1,2} /\ 1..(4-1) = {1,2,3} /\ 1..(5-1) = {1,2,3,4}
  OBVIOUS
<1> HIDE DEF s, t
<1>4. Client!Precedes(s, t) <=>
        \/ s[1] < t[1]
        \/ s[2] < t[2] /\ s[1] = t[1]
        \/ s[3] < t[3] /\ s[1] = t[1] /\ s[2] = t[2]
        \/ s[4] < t[4] /\ s[1] = t[1] /\ s[2] = t[2] /\ s[3] = t[3]
        \/ s[5] < t[5] /\ s[1] = t[1] /\ s[2] = t[2] /\ s[3] = t[3] /\ s[4] = t[4]
  BY <1>3 DEF Client!Precedes
<1> QED
  BY <1>1, <1>2, <1>4 DEF s, t, LexLess

LEMMA LeastImage ==
  ASSUME NEW C, NEW D \in SUBSET C, D # {}, NEW f \in [C -> Nat]
  PROVE  \E c \in D : \A d \in D : f[c] <= f[d]
<1> DEFINE S == {f[c] : c \in D}
<1>1. S \in SUBSET Nat /\ S # {}
  OBVIOUS
<1>2. PICK n \in S : \A m \in S : n <= m
  BY <1>1, LeastNat
<1> QED
  BY <1>2

\* Of candidates that no two scores agree on, one precedes all the others.
LEMMA LexLeast ==
  ASSUME NEW C, C # {}, NEW f \in [C -> Nat], NEW g \in [C -> Nat], NEW h \in [C -> Nat],
         NEW i \in [C -> Nat], NEW j \in [C -> Nat],
         \A c, d \in C : i[c] = i[d] /\ j[c] = j[d] => c = d
  PROVE  \E c \in C : \A d \in C \ {c} : LexLess(f[c], g[c], h[c], i[c], j[c], f[d], g[d], h[d], i[d], j[d])
<1>1. PICK a \in C : \A d \in C : f[a] <= f[d]
  BY LeastImage
<1> DEFINE C1 == {c \in C : f[c] = f[a]}
<1>2. PICK b \in C1 : \A d \in C1 : g[b] <= g[d]
  <2>1. C1 # {} /\ C1 \in SUBSET C
    OBVIOUS
  <2> HIDE DEF C1
  <2> QED
    BY <2>1, LeastImage
<1> DEFINE C2 == {c \in C1 : g[c] = g[b]}
<1>3. PICK e \in C2 : \A d \in C2 : h[e] <= h[d]
  <2>1. C2 # {} /\ C2 \in SUBSET C
    OBVIOUS
  <2> HIDE DEF C2
  <2> QED
    BY <2>1, LeastImage
<1> DEFINE C3 == {c \in C2 : h[c] = h[e]}
<1>4. PICK k \in C3 : \A d \in C3 : i[k] <= i[d]
  <2>1. C3 # {} /\ C3 \in SUBSET C
    OBVIOUS
  <2> HIDE DEF C3
  <2> QED
    BY <2>1, LeastImage
<1> DEFINE C4 == {c \in C3 : i[c] = i[k]}
<1>5. PICK l \in C4 : \A d \in C4 : j[l] <= j[d]
  <2>1. C4 # {} /\ C4 \in SUBSET C
    OBVIOUS
  <2> HIDE DEF C4
  <2> QED
    BY <2>1, LeastImage
<1>6. SUFFICES ASSUME NEW d \in C \ {l} PROVE LexLess(f[l], g[l], h[l], i[l], j[l], f[d], g[d], h[d], i[d], j[d])
  OBVIOUS
<1>7. l \in C /\ f[l] = f[a] /\ g[l] = g[b] /\ h[l] = h[e] /\ i[l] = i[k]
  OBVIOUS
<1>8. f[l] <= f[d]
  BY <1>1, <1>7
<1>9. f[d] = f[l] => g[l] <= g[d]
  BY <1>2, <1>7
<1>10. f[d] = f[l] /\ g[d] = g[l] => h[l] <= h[d]
  BY <1>3, <1>7
<1>11. f[d] = f[l] /\ g[d] = g[l] /\ h[d] = h[l] => i[l] <= i[d]
  BY <1>4, <1>7
<1>12. f[d] = f[l] /\ g[d] = g[l] /\ h[d] = h[l] /\ i[d] = i[l] => j[l] <= j[d] /\ j[l] # j[d]
  BY <1>5, <1>7
<1>13. /\ f[l] \in Nat /\ g[l] \in Nat /\ h[l] \in Nat /\ i[l] \in Nat /\ j[l] \in Nat
       /\ f[d] \in Nat /\ g[d] \in Nat /\ h[d] \in Nat /\ i[d] \in Nat /\ j[d] \in Nat
  BY <1>7
<1> QED
  BY <1>8, <1>9, <1>10, <1>11, <1>12, <1>13 DEF LexLess

\* The parts of a score: where a boost can move them, and what it leaves alone.
Rank(c) == Client!CostRank[Catalog[providers[c[1]].name][c[2]].cost]
Slow(c) == Client!LatencyRank[Catalog[providers[c[1]].name][c[2]].latency]
Boosted(c, w) == IF Catalog[providers[c[1]].name][c[2]].cost = w.cost THEN 1 ELSE 0
Quicker(c, w) == IF Catalog[providers[c[1]].name][c[2]].latency = w.latency THEN 1 ELSE 0

LEMMA ScoreIs ==
  ASSUME NEW c, NEW w
  PROVE  Client!Score(c, w) = <<2 * Rank(c) - Boosted(c, w), 2 * Slow(c) - Quicker(c, w),
                                providers[c[1]].failures, c[1], c[2]>>
  BY DEF Client!Score, Rank, Slow, Boosted, Quicker

LEMMA PartsTyped ==
  ASSUME ProvidersTyped, NEW w, NEW c \in Client!Candidates(w), NEW v
  PROVE  /\ Rank(c) \in 0..2 /\ Slow(c) \in 0..2 /\ Boosted(c, v) \in 0..1 /\ Quicker(c, v) \in 0..1
         /\ providers[c[1]].failures \in Nat /\ c[1] \in Nat /\ c[2] \in Nat
<1>1. /\ providers[c[1]].failures \in Nat /\ c[1] \in Nat /\ c[2] \in Nat
      /\ Catalog[providers[c[1]].name][c[2]].cost \in {"low", "medium", "high"}
      /\ Catalog[providers[c[1]].name][c[2]].latency \in {"fast", "normal", "slow"}
  BY CandidateIs
<1>2. Rank(c) \in 0..2 /\ Slow(c) \in 0..2
  BY <1>1, Ranks DEF Rank, Slow
<1> QED
  BY <1>1, <1>2 DEF Boosted, Quicker

\* Two models of one rank get the same boost.
LEMMA SameBoost ==
  ASSUME ProvidersTyped, NEW w, NEW c \in Client!Candidates(w), NEW d \in Client!Candidates(w), NEW v
  PROVE  /\ Rank(c) = Rank(d) => Boosted(c, v) = Boosted(d, v)
         /\ Slow(c) = Slow(d) => Quicker(c, v) = Quicker(d, v)
<1> DEFINE m == Catalog[providers[c[1]].name][c[2]]
           n == Catalog[providers[d[1]].name][d[2]]
<1>1. /\ m.cost \in {"low", "medium", "high"} /\ n.cost \in {"low", "medium", "high"}
      /\ m.latency \in {"fast", "normal", "slow"} /\ n.latency \in {"fast", "normal", "slow"}
  BY CandidateIs
<1>2. Rank(c) = Client!CostRank[m.cost] /\ Rank(d) = Client!CostRank[n.cost]
  BY DEF Rank
<1>3. Slow(c) = Client!LatencyRank[m.latency] /\ Slow(d) = Client!LatencyRank[n.latency]
  BY DEF Slow
<1>4. Boosted(c, v) = (IF m.cost = v.cost THEN 1 ELSE 0) /\ Boosted(d, v) = (IF n.cost = v.cost THEN 1 ELSE 0)
  BY DEF Boosted
<1>5. Quicker(c, v) = (IF m.latency = v.latency THEN 1 ELSE 0) /\ Quicker(d, v) = (IF n.latency = v.latency THEN 1 ELSE 0)
  BY DEF Quicker
<1> HIDE DEF m, n
<1>6. Rank(c) = Rank(d) => m.cost = n.cost
  <2>1. PICK x \in {"low", "medium", "high"}, y \in {"low", "medium", "high"} : x = m.cost /\ y = n.cost
    BY <1>1
  <2>2. Rank(c) = Client!CostRank[x] /\ Rank(d) = Client!CostRank[y]
    BY <1>2, <2>1
  <2>3. Client!CostRank[x] = Client!CostRank[y] => x = y
    BY Ranks
  <2> QED
    BY <2>1, <2>2, <2>3
<1>7. Slow(c) = Slow(d) => m.latency = n.latency
  <2>1. PICK x \in {"fast", "normal", "slow"}, y \in {"fast", "normal", "slow"} : x = m.latency /\ y = n.latency
    BY <1>1
  <2>2. Slow(c) = Client!LatencyRank[x] /\ Slow(d) = Client!LatencyRank[y]
    BY <1>3, <2>1
  <2>3. Client!LatencyRank[x] = Client!LatencyRank[y] => x = y
    BY Ranks
  <2> QED
    BY <2>1, <2>2, <2>3
<1> QED
  BY <1>4, <1>5, <1>6, <1>7

\* A boost of half a rank changes nothing in the order of two candidates.
LEMMA BoostIsIdle ==
  ASSUME ProvidersTyped, NEW w, NEW c \in Client!Candidates(w), NEW d \in Client!Candidates(w), NEW v
  PROVE  Client!Precedes(Client!Score(c, v), Client!Score(d, v))
           <=> LexLess(Rank(c), Slow(c), providers[c[1]].failures, c[1], c[2],
                       Rank(d), Slow(d), providers[d[1]].failures, d[1], d[2])
<1>1. /\ Rank(c) \in 0..2 /\ Slow(c) \in 0..2 /\ Boosted(c, v) \in 0..1 /\ Quicker(c, v) \in 0..1
      /\ Rank(d) \in 0..2 /\ Slow(d) \in 0..2 /\ Boosted(d, v) \in 0..1 /\ Quicker(d, v) \in 0..1
  BY PartsTyped
<1>2. /\ Rank(c) = Rank(d) => Boosted(c, v) = Boosted(d, v)
      /\ Slow(c) = Slow(d) => Quicker(c, v) = Quicker(d, v)
  BY SameBoost
<1>3. Client!Precedes(Client!Score(c, v), Client!Score(d, v))
        <=> LexLess(2 * Rank(c) - Boosted(c, v), 2 * Slow(c) - Quicker(c, v), providers[c[1]].failures, c[1], c[2],
                    2 * Rank(d) - Boosted(d, v), 2 * Slow(d) - Quicker(d, v), providers[d[1]].failures, d[1], d[2])
  BY ScoreIs, PrecedesIs
<1>4. /\ 2 * Rank(c) - Boosted(c, v) < 2 * Rank(d) - Boosted(d, v) <=> Rank(c) < Rank(d)
      /\ 2 * Rank(c) - Boosted(c, v) = 2 * Rank(d) - Boosted(d, v) <=> Rank(c) = Rank(d)
  BY <1>1, <1>2
<1>5. /\ 2 * Slow(c) - Quicker(c, v) < 2 * Slow(d) - Quicker(d, v) <=> Slow(c) < Slow(d)
      /\ 2 * Slow(c) - Quicker(c, v) = 2 * Slow(d) - Quicker(d, v) <=> Slow(c) = Slow(d)
  BY <1>1, <1>2
<1> QED
  BY <1>3, <1>4, <1>5 DEF LexLess

Before(c, d) == LexLess(Rank(c), Slow(c), providers[c[1]].failures, c[1], c[2],
                        Rank(d), Slow(d), providers[d[1]].failures, d[1], d[2])

LEMMA FirstExists ==
  ASSUME ProvidersTyped, NEW w, Client!Candidates(w) # {}
  PROVE  \E c \in Client!Candidates(w) : \A d \in Client!Candidates(w) \ {c} : Before(c, d)
<1> DEFINE C == Client!Candidates(w)
           f == [c \in C |-> Rank(c)]
           g == [c \in C |-> Slow(c)]
           h == [c \in C |-> providers[c[1]].failures]
           i == [c \in C |-> c[1]]
           j == [c \in C |-> c[2]]
<1>1. \A c \in C : Rank(c) \in Nat /\ Slow(c) \in Nat /\ providers[c[1]].failures \in Nat /\ c[1] \in Nat /\ c[2] \in Nat
                   /\ c = <<c[1], c[2]>>
  BY PartsTyped, CandidateIs
<1> HIDE DEF C
<1>2. f \in [C -> Nat] /\ g \in [C -> Nat] /\ h \in [C -> Nat] /\ i \in [C -> Nat] /\ j \in [C -> Nat]
  BY <1>1
<1>3. \A c, d \in C : i[c] = i[d] /\ j[c] = j[d] => c = d
  BY <1>1
<1>4. C # {}
  BY DEF C
<1>5. \A c \in C : f[c] = Rank(c) /\ g[c] = Slow(c) /\ h[c] = providers[c[1]].failures /\ i[c] = c[1] /\ j[c] = c[2]
  OBVIOUS
<1> HIDE DEF f, g, h, i, j
<1>6. PICK c \in C : \A d \in C \ {c} : LexLess(f[c], g[c], h[c], i[c], j[c], f[d], g[d], h[d], i[d], j[d])
  BY <1>2, <1>3, <1>4, LexLeast
<1>7. \A d \in C \ {c} : Before(c, d)
  BY <1>5, <1>6 DEF Before
<1> QED
  BY <1>7 DEF C

LEMMA BoostNeverChooses ==
  ASSUME ProvidersTyped, NEW w \in Wishes, Client!Candidates(w) # {}
  PROVE  /\ Client!Best(w) = Client!Best([w EXCEPT !.cost = "", !.latency = ""])
         /\ \A c \in Client!Candidates(w) : Rank(Client!Best(w)) <= Rank(c)
<1>1. PICK v : v = [w EXCEPT !.cost = "", !.latency = ""]
  OBVIOUS
<1>2. v.cap = w.cap
  BY <1>1, WishesAreWishes
<1>3. Client!Candidates(v) = Client!Candidates(w)
  BY <1>2 DEF Client!Candidates
<1> DEFINE C == Client!Candidates(w)
<1>4. \A c, d \in C : (Client!Precedes(Client!Score(c, v), Client!Score(d, v)) <=> Before(c, d))
                     /\ (Client!Precedes(Client!Score(c, w), Client!Score(d, w)) <=> Before(c, d))
  BY BoostIsIdle DEF Before
<1>5. PICK b \in C : \A d \in C \ {b} : Before(b, d)
  BY FirstExists
<1>6. \A c \in C : Rank(c) \in 0..2 /\ Slow(c) \in 0..2 /\ providers[c[1]].failures \in Nat /\ c[1] \in Nat /\ c[2] \in Nat
  BY PartsTyped
<1> HIDE DEF C
<1>7. \A c, d \in C : c # d => ~(Before(c, d) /\ Before(d, c))
  BY <1>6 DEF Before, LexLess
<1>8. \A c \in C : (\A d \in C \ {c} : Before(c, d)) => c = b
  BY <1>5, <1>7
<1>9. Client!Best(w) = CHOOSE c \in C : \A d \in C \ {c} : Client!Precedes(Client!Score(c, w), Client!Score(d, w))
  BY DEF Client!Best, C
<1>10. Client!Best(v) = CHOOSE c \in C : \A d \in C \ {c} : Client!Precedes(Client!Score(c, v), Client!Score(d, v))
  BY <1>3 DEF Client!Best, C
<1>11. Client!Best(w) = b
  <2>1. \A d \in C \ {b} : Client!Precedes(Client!Score(b, w), Client!Score(d, w))
    BY <1>4, <1>5
  <2>2. \A c \in C : (\A d \in C \ {c} : Client!Precedes(Client!Score(c, w), Client!Score(d, w))) => c = b
    BY <1>4, <1>8
  <2> QED
    BY <1>9, <2>1, <2>2
<1>12. Client!Best(v) = b
  <2>1. \A d \in C \ {b} : Client!Precedes(Client!Score(b, v), Client!Score(d, v))
    BY <1>4, <1>5
  <2>2. \A c \in C : (\A d \in C \ {c} : Client!Precedes(Client!Score(c, v), Client!Score(d, v))) => c = b
    BY <1>4, <1>8
  <2> QED
    BY <1>10, <2>1, <2>2
<1>13. \A c \in C : Rank(b) <= Rank(c)
  BY <1>5, <1>6 DEF Before, LexLess
<1> QED
  BY <1>1, <1>11, <1>12, <1>13 DEF C

Consistent == connected \in BOOLEAN /\ connected = probed /\ (status = "offline" <=> ~connected)
Candid == answer.kind # "none" /\ answer.local /\ answer.status = "online" => answer.failed
LEMMA TellsIs == connected \in BOOLEAN /\ Client!ClientTells <=> Consistent /\ Candid
<1>1. Consistent => \A who \in {"client", "kernel", "nothing"} :
         Client!Overall(who) = "degraded" <=> who = "client" /\ ~probed
  <2> SUFFICES ASSUME Consistent, NEW g \in {"client", "kernel", "nothing"}
               PROVE  Client!Overall(g) = "degraded" <=> g = "client" /\ ~probed
    OBVIOUS
  <2>1. CASE g = "client"
    <3>1. Client!PoolInfo(g) = [connected |-> connected, status |-> status]
      BY <2>1 DEF Client!PoolInfo
    <3>2. Client!PoolInfo(g).connected = connected /\ Client!PoolInfo(g).status = status
      BY <3>1
    <3> QED
      BY <2>1, <3>2 DEF Client!Overall, Consistent
  <2>2. CASE g # "client"
    <3>1. Client!PoolInfo(g) \in {[connected |-> TRUE, status |-> "local_only"], [connected |-> TRUE, status |-> "offline"]}
      BY <2>2 DEF Client!PoolInfo
    <3>2. Client!PoolInfo(g).connected
      BY <3>1
    <3> QED
      BY <2>2, <3>2 DEF Client!Overall
  <2> QED
    BY <2>1, <2>2
<1> QED
  BY <1>1 DEF Client!ClientTells, Consistent, Candid

LEMMA TellsIsNext == connected' \in BOOLEAN /\ Client!ClientTells' <=> Consistent' /\ Candid'
<1>1. (connected \in BOOLEAN /\ Client!ClientTells <=> Consistent /\ Candid)'
  BY TellsIs, PTL
<1> QED
  BY <1>1

LEMMA NothingYet == ASSUME NEW S PROVE <<>> \in Seq(S)
  OBVIOUS

LEMMA ClientStarts == Client!ClientInit => ClientInv
<1> SUFFICES ASSUME Client!ClientInit PROVE ClientInv
  OBVIOUS
<1>1. providers = <<>> /\ answer = [kind |-> "none"]
  BY DEF Client!ClientInit, Client!NoAnswer
<1>2. PICK c \in {[connected |-> TRUE, status |-> "online", error |-> ""],
                  [connected |-> FALSE, status |-> "offline", error |-> "unreachable"]} :
        connected = c.connected /\ status = c.status /\ probed = c.connected
  BY DEF Client!ClientInit, Client!Connect
<1>3. Consistent
  <2>1. \/ connected = TRUE /\ status = "online" /\ probed = TRUE
        \/ connected = FALSE /\ status = "offline" /\ probed = FALSE
    <3>1. CASE c = [connected |-> TRUE, status |-> "online", error |-> ""]
      BY <1>2, <3>1
    <3>2. CASE c = [connected |-> FALSE, status |-> "offline", error |-> "unreachable"]
      BY <1>2, <3>2
    <3> QED
      BY <3>1, <3>2
  <2> QED
    BY <2>1 DEF Consistent
<1>4. Candid
  BY <1>1 DEF Candid
<1>5. ProvidersTyped
  <2>1. <<>> \in Seq(Registered)
    BY NothingYet
  <2> QED
    BY <1>1, <2>1, Zenon DEF ProvidersTyped
<1> QED
  BY <1>3, <1>4, <1>5, TellsIs DEF ClientInv

\* The place of a provider that is registered.
LEMMA PlaceOf ==
  ASSUME NEW name \in Client!Known
  PROVE  Client!At(name) \in DOMAIN providers /\ providers[Client!At(name)].name = name
  BY DEF Client!Known, Client!At

LEMMA ManagerTyped ==
  ASSUME ProvidersTyped, NEW p \in DOMAIN Catalog,
         \/ \E q \in Quotas : Client!Register(p, q)
         \/ Client!Unregister(p) \/ Client!RecordFailure(p) \/ Client!RecordSuccess(p)
  PROVE  ProvidersTyped'
<1>1. ASSUME NEW q \in Quotas, Client!Register(p, q) PROVE ProvidersTyped'
  <2>1. [name |-> p, quota |-> q, failures |-> 0] \in Registered
    BY QuotasAreNumbers DEF Registered
  <2>2. providers' = [providers EXCEPT ![Client!At(p)] = [name |-> p, quota |-> q, failures |-> 0]]
        \/ providers' = Append(providers, [name |-> p, quota |-> q, failures |-> 0])
    BY <1>1 DEF Client!Register
  <2> QED
    BY <2>1, <2>2 DEF ProvidersTyped
<1>2. ASSUME Client!Unregister(p) PROVE ProvidersTyped'
  <2>1. Client!At(p) \in DOMAIN providers
    BY <1>2, PlaceOf DEF Client!Unregister
  <2>2. providers' = SubSeq(providers, 1, Client!At(p) - 1) \o SubSeq(providers, Client!At(p) + 1, Len(providers))
    BY <1>2 DEF Client!Unregister, Client!RemoveAt
  <2>3. PICK n \in 1..Len(providers) : n = Client!At(p)
    BY <2>1 DEF ProvidersTyped
  <2>4. SubSeq(providers, 1, n - 1) \in Seq(Registered) /\ SubSeq(providers, n + 1, Len(providers)) \in Seq(Registered)
    BY <2>3 DEF ProvidersTyped
  <2> QED
    BY <2>2, <2>3, <2>4 DEF ProvidersTyped
<1>3. ASSUME Client!RecordFailure(p) \/ Client!RecordSuccess(p) PROVE ProvidersTyped'
  <2>1. Client!At(p) \in DOMAIN providers
    BY <1>3, PlaceOf DEF Client!RecordFailure, Client!RecordSuccess
  <2>2. providers[Client!At(p)] \in Registered
    BY <2>1 DEF ProvidersTyped
  <2>3. PICK r \in Registered : r = providers[Client!At(p)]
    BY <2>2
  <2>4. [r EXCEPT !.failures = @ + 1] \in Registered /\ [r EXCEPT !.failures = 0] \in Registered
    BY DEF Registered
  <2>5. providers' = [providers EXCEPT ![Client!At(p)] = [r EXCEPT !.failures = @ + 1]]
        \/ providers' = [providers EXCEPT ![Client!At(p)] = [r EXCEPT !.failures = 0]]
    BY <1>3, <2>1, <2>3 DEF Client!RecordFailure, Client!RecordSuccess
  <2> QED
    BY <2>1, <2>4, <2>5 DEF ProvidersTyped
<1> QED
  BY <1>1, <1>2, <1>3

LEMMA ManagerKeeps ==
  ASSUME ClientInv, NEW p \in DOMAIN Catalog,
         \/ \E q \in Quotas : Client!Register(p, q)
         \/ Client!Unregister(p) \/ Client!RecordFailure(p) \/ Client!RecordSuccess(p)
  PROVE  ClientInv'
<1>1. UNCHANGED <<connected, status, probed, answer>>
  BY DEF Client!Register, Client!Unregister, Client!RecordFailure, Client!RecordSuccess
<1>2. Consistent /\ Candid
  BY TellsIs DEF ClientInv
<1>3. Consistent' /\ Candid'
  BY <1>1, <1>2 DEF Consistent, Candid
<1> QED
  BY <1>3, ManagerTyped, TellsIsNext DEF ClientInv

LEMMA ProbesKeep ==
  ASSUME ClientInv, Client!HealthCheck \/ Client!GetStatus
  PROVE  ClientInv'
<1>1. ASSUME Client!HealthCheck PROVE Consistent'
  BY <1>1 DEF Client!HealthCheck, Client!Becomes, Consistent
<1>2. ASSUME Client!GetStatus PROVE Consistent'
  <2>1. PICK c \in Client!Connect(Client!Now) :
          \/ Client!Becomes([c EXCEPT !.connected = TRUE, !.status = "online"]) /\ probed' = TRUE
          \/ Client!Becomes([connected |-> FALSE, status |-> "offline", error |-> "unreachable"]) /\ probed' = FALSE
    BY <1>2 DEF Client!GetStatus
  <2>2. \E r : c = [connected |-> r.connected, status |-> r.status, error |-> r.error]
    BY DEF Client!Connect, Client!Now
  <2>3. [c EXCEPT !.connected = TRUE, !.status = "online"].connected = TRUE /\ [c EXCEPT !.connected = TRUE, !.status = "online"].status = "online"
    BY <2>2
  <2> QED
    BY <2>1, <2>3 DEF Client!Becomes, Consistent
<1>3. UNCHANGED <<providers, answer>>
  BY DEF Client!HealthCheck, Client!GetStatus
<1>4. Candid'
  BY <1>3, TellsIs DEF ClientInv, Candid
<1> QED
  BY <1>1, <1>2, <1>3, <1>4, TellsIsNext DEF ClientInv, ProvidersTyped

\* The client after a call that connects first: as it was if it was connected, else online or
\* offline.
LEMMA AfterConnect ==
  ASSUME Consistent, NEW c \in Client!Connect(Client!Now)
  PROVE  /\ c.connected \in BOOLEAN
         /\ c.status = "offline" <=> ~c.connected
         /\ c.connected = (IF connected THEN probed ELSE c.connected)
<1>1. CASE connected
  <2>1. c = [connected |-> connected, status |-> status, error |-> lastError]
    BY <1>1 DEF Client!Connect, Client!Now
  <2>2. c.connected = connected /\ c.status = status
    BY <2>1
  <2>3. connected = TRUE /\ probed = TRUE /\ status # "offline"
    BY <1>1 DEF Consistent
  <2> QED
    BY <2>2, <2>3
<1>2. CASE ~connected
  <2>1. c \in {[connected |-> TRUE, status |-> "online", error |-> ""],
               [connected |-> FALSE, status |-> "offline", error |-> "unreachable"]}
    BY <1>2 DEF Client!Connect, Client!Now
  <2>2. (c.connected = TRUE /\ c.status = "online") \/ (c.connected = FALSE /\ c.status = "offline")
    <3>1. CASE c = [connected |-> TRUE, status |-> "online", error |-> ""]
      BY <3>1
    <3>2. CASE c = [connected |-> FALSE, status |-> "offline", error |-> "unreachable"]
      BY <3>2
    <3> QED
      BY <2>1, <3>1, <3>2
  <2> QED
    BY <1>2, <2>2
<1> QED
  BY <1>1, <1>2

LEMMA SelectKeeps ==
  ASSUME ClientInv, NEW w, Client!SelectModel(w)
  PROVE  ClientInv'
<1>0. Consistent
  BY TellsIs DEF ClientInv
<1>1. PICK c \in Client!Connect(Client!Now), o \in {"ok", "failed"} :
  /\ Client!Probed(c)
  /\ IF c.connected /\ o = "ok"
     THEN Client!Becomes(c) /\ answer' = [kind |-> "select", success |-> TRUE, local |-> FALSE,
                                   status |-> "online", failed |-> FALSE]
     ELSE LET d == IF c.connected THEN [c EXCEPT !.status = "degraded"] ELSE c
              found == Client!Candidates(w) # {}
          IN /\ Client!Becomes(d)
             /\ answer' = [kind |-> "select", success |-> found, local |-> TRUE,
                           status |-> IF found THEN Client!Fallback(d) ELSE d.status,
                           failed |-> c.connected]
  BY DEF Client!SelectModel
<1>2. UNCHANGED providers
  BY DEF Client!SelectModel
<1>3. /\ c.connected \in BOOLEAN
      /\ c.status = "offline" <=> ~c.connected
      /\ c.connected = (IF connected THEN probed ELSE c.connected)
  BY <1>0, AfterConnect
<1>4. probed' = c.connected
  BY <1>1, <1>3 DEF Client!Probed
<1>5. CASE c.connected /\ o = "ok"
  <2>1. Client!Becomes(c) /\ answer' = [kind |-> "select", success |-> TRUE, local |-> FALSE, status |-> "online", failed |-> FALSE]
    BY <1>1, <1>5
  <2>2. Consistent'
    BY <1>3, <1>4, <2>1 DEF Client!Becomes, Consistent
  <2>3. Candid'
    BY <2>1 DEF Candid
  <2> QED
    BY <1>2, <2>2, <2>3, TellsIsNext DEF ClientInv, ProvidersTyped
<1>6. CASE ~(c.connected /\ o = "ok")
  <2>1. PICK d : d = IF c.connected THEN [c EXCEPT !.status = "degraded"] ELSE c
    OBVIOUS
  <2>2. d.connected = c.connected /\ (d.status = "offline" <=> ~c.connected) /\ (c.connected => d.status = "degraded")
    <3>1. \E a, b, e : c = [connected |-> a, status |-> b, error |-> e]
      BY DEF Client!Connect, Client!Now
    <3>2. PICK a, b, e : c = [connected |-> a, status |-> b, error |-> e]
      BY <3>1
    <3>3. [c EXCEPT !.status = "degraded"] = [connected |-> a, status |-> "degraded", error |-> e]
      BY <3>2
    <3>4. [c EXCEPT !.status = "degraded"].connected = c.connected /\ [c EXCEPT !.status = "degraded"].status = "degraded"
      BY <3>2, <3>3
    <3>5. CASE c.connected
      BY <2>1, <3>4, <3>5
    <3>6. CASE ~c.connected
      BY <1>3, <2>1, <3>6
    <3> QED
      BY <3>5, <3>6
  <2>3. Client!Becomes(d) /\ answer' = [kind |-> "select", success |-> Client!Candidates(w) # {}, local |-> TRUE,
                           status |-> IF Client!Candidates(w) # {} THEN Client!Fallback(d) ELSE d.status,
                           failed |-> c.connected]
    BY <1>1, <1>6, <2>1
  <2>4. Consistent'
    BY <1>3, <1>4, <2>2, <2>3 DEF Client!Becomes, Consistent
  <2>5. answer'.status # "online" \/ answer'.failed
    <3>1. answer'.status = (IF Client!Candidates(w) # {} THEN Client!Fallback(d) ELSE d.status) /\ answer'.failed = c.connected
      BY <2>3
    <3>2. CASE c.connected
      BY <3>1, <3>2
    <3>3. CASE ~c.connected
      BY <2>2, <3>1, <3>3 DEF Client!Fallback
    <3> QED
      BY <3>2, <3>3
  <2>6. Candid'
    BY <2>5 DEF Candid
  <2> QED
    BY <1>2, <2>4, <2>6, TellsIsNext DEF ClientInv, ProvidersTyped
<1> QED
  BY <1>5, <1>6

LEMMA ConsumeKeeps ==
  ASSUME ClientInv, NEW p \in DOMAIN Catalog, NEW n \in 1..2, Client!Consume(p, n)
  PROVE  ClientInv'
<1>0. Consistent
  BY TellsIs DEF ClientInv
<1>1. PICK c \in Client!Connect(Client!Now), o \in {"ok", "failed"} :
  /\ Client!Becomes(c) /\ Client!Probed(c)
  /\ LET local == ~(c.connected /\ o = "ok")
         paid  == local /\ Client!CanPay(p, n)
     IN /\ providers' = IF paid THEN [providers EXCEPT ![Client!At(p)].quota = @ - n] ELSE providers
        /\ answer' = [kind |-> "consume", success |-> ~local \/ paid, local |-> local,
                      status |-> IF local THEN Client!Fallback(c) ELSE "online",
                      failed |-> c.connected /\ local]
  BY DEF Client!Consume
<1>3. /\ c.connected \in BOOLEAN
      /\ c.status = "offline" <=> ~c.connected
      /\ c.connected = (IF connected THEN probed ELSE c.connected)
  BY <1>0, AfterConnect
<1>4. probed' = c.connected
  BY <1>1, <1>3 DEF Client!Probed
<1>5. Consistent'
  BY <1>1, <1>3, <1>4 DEF Client!Becomes, Consistent
<1>6. Candid'
  <2>1. PICK local : local = ~(c.connected /\ o = "ok")
    OBVIOUS
  <2>2. answer'.local = local /\ answer'.status = (IF local THEN Client!Fallback(c) ELSE "online")
        /\ answer'.failed = (c.connected /\ local)
    BY <1>1, <2>1
  <2>3. CASE local
    BY <2>2, <2>3 DEF Client!Fallback, Candid
  <2>4. CASE ~local
    BY <2>2, <2>4 DEF Candid
  <2> QED
    BY <2>3, <2>4
<1>7. ProvidersTyped'
  <2>1. providers' = providers \/ (p \in Client!Known /\ providers' = [providers EXCEPT ![Client!At(p)].quota = @ - n])
    BY <1>1 DEF Client!CanPay
  <2>2. CASE providers' = providers
    BY <2>2 DEF ClientInv, ProvidersTyped
  <2>3. CASE p \in Client!Known /\ providers' = [providers EXCEPT ![Client!At(p)].quota = @ - n]
    <3>1. Client!At(p) \in DOMAIN providers
      BY <2>3, PlaceOf
    <3>2. PICK r \in Registered : r = providers[Client!At(p)]
      BY <3>1 DEF ClientInv, ProvidersTyped
    <3>3. [r EXCEPT !.quota = @ - n] \in Registered
      BY DEF Registered
    <3>4. providers' = [providers EXCEPT ![Client!At(p)] = [r EXCEPT !.quota = @ - n]]
      BY <2>3, <3>1, <3>2
    <3> QED
      BY <3>1, <3>3, <3>4 DEF ClientInv, ProvidersTyped
  <2> QED
    BY <2>1, <2>2, <2>3
<1> QED
  BY <1>5, <1>6, <1>7, TellsIsNext DEF ClientInv

\* Whatever is registered, fails, is used up or cannot be reached between the calls: the client
\* says of the service what the last request to it showed, and a preference never makes the
\* manager's choice dearer.  This is TokenPoolClient and ResourceManager.select_model.
THEOREM ClientCanBeTrusted == Spec => []ClientSound
<1>1. Init => ClientInv
  BY ClientStarts DEF Init
<1>2. ClientInv /\ [Next]_vars => ClientInv'
  <2>1. ASSUME ClientInv, UNCHANGED clientVars PROVE ClientInv'
    <3>1. UNCHANGED <<providers, connected, status, probed, answer>>
      BY <2>1 DEF clientVars
    <3>2. Consistent /\ Candid
      BY <2>1, TellsIs DEF ClientInv
    <3>3. Consistent' /\ Candid'
      BY <3>1, <3>2 DEF Consistent, Candid
    <3> QED
      BY <2>1, <3>1, <3>3, TellsIsNext DEF ClientInv, ProvidersTyped
  <2>2. ASSUME ClientInv, Client!ClientNext PROVE ClientInv'
    BY <2>2, ProbesKeep, SelectKeeps, ManagerKeeps, ConsumeKeeps DEF Client!ClientNext
  <2> QED
    BY <2>1, <2>2 DEF Next, vars
<1>3. ClientInv => ClientSound
  <2> SUFFICES ASSUME ClientInv PROVE Client!CheapestWins
    BY DEF ClientSound, Client!ClientSound, ClientInv
  <2>1. ASSUME NEW w \in Wishes, Client!Candidates(w) # {}
        PROVE  /\ Client!Best(w) = Client!Best([w EXCEPT !.cost = "", !.latency = ""])
               /\ \A c \in Client!Candidates(w) : Rank(Client!Best(w)) <= Rank(c)
    BY <2>1, BoostNeverChooses DEF ClientInv
  <2> QED
    BY <2>1 DEF Client!CheapestWins, Rank
<1> QED
  BY <1>1, <1>2, <1>3, PTL DEF Spec

-----------------------------------------------------------------------------
(***************************************************************************)
(* The runtime (PanelRuntime).  A message carries the number of its        *)
(* request, so what has to be followed is where in the shared memory the   *)
(* messages of a request are: Story says it for a request that no other    *)
(* has overlapped, at every place of its code, and what halves the memory  *)
(* keeps at least its last two messages.                                   *)
(***************************************************************************)
Places == {"idle", "session", "create", "fetch", "append", "measure", "slice", "summary", "ask", "report"}
Msg == [role : {"user", "assistant", "tool", "system"}, of : Nat, tokens : Nat]
Request == [at : Places, id : Nat, wm : Nat, turn : Nat, errors : Nat, adds : Seq(Msg), half : Nat,
            then : Places, answered : BOOLEAN]

RuntimeTyped == /\ objects \in Seq(Seq(Msg)) /\ session \in 0..Len(objects)
                /\ runs \in Nat /\ run \in [PanelThreads -> Request]
\* No message is of a request to come.
Remembered(objs, n) == \A o \in DOMAIN objs : \A i \in DOMAIN objs[o] : objs[o][i].of <= n
OfRequests == /\ Remembered(objects, runs)
              /\ \A t \in PanelThreads : /\ run[t].id <= runs
                                         /\ \A i \in DOMAIN run[t].adds : run[t].adds[i].of <= runs
\* What a request has where it is.
Adding == {"append", "measure", "slice", "summary"}
Fits(r, objs, s) ==
  /\ r.at = "idle" => r = Runtime!Rest
  /\ r.at # "idle" => r.id >= 1
  /\ r.at = "fetch" => s # 0
  /\ r.at \in Adding \cup {"ask"} => r.wm \in DOMAIN objs
  /\ r.at \in Adding => r.adds # <<>> /\ r.then \in {"ask", "report"}
\* A request that no other has overlapped is the only one.
OnlyOne == \A t, u \in PanelThreads :
             run[t].at # "idle" /\ t \notin beside /\ run[u].at # "idle" => u = t

\* The memory as such a request finds it: its question at the end and no result of a tool, or
\* the text and the results of its tools at the end.
Unheard(ms, id) == \A i \in DOMAIN ms : ms[i].of # id
Is(msg, id, role) == msg.of = id /\ msg.role = role
Asking(ms, id) == /\ Len(ms) >= 1 /\ Is(ms[Len(ms)], id, "user")
                  /\ \A i \in DOMAIN ms : ~Is(ms[i], id, "tool")
Telling(ms, id) == Len(ms) >= 1 /\ Is(ms[Len(ms)], id, "assistant")
Told(ms, id) == /\ Len(ms) >= 2 /\ Is(ms[Len(ms) - 1], id, "assistant")
                /\ Is(ms[Len(ms)], id, "tool")
AddsQuestion(r) == Len(r.adds) = 1 /\ Is(r.adds[1], r.id, "user")
AddsBoth(r) == Len(r.adds) = 2 /\ Is(r.adds[1], r.id, "assistant") /\ Is(r.adds[2], r.id, "tool")
AddsResults(r) == Len(r.adds) = 1 /\ Is(r.adds[1], r.id, "tool")
Ended(r, ms) == \/ AddsQuestion(r) /\ Asking(ms, r.id)
                \/ AddsBoth(r) /\ Telling(ms, r.id)
                \/ AddsResults(r) /\ Told(ms, r.id)
Story(r, objs) ==
  /\ r.at \in {"session", "create", "fetch"} => \A o \in DOMAIN objs : Unheard(objs[o], r.id)
  /\ r.at = "slice" => Len(objs[r.wm]) >= 4 /\ r.half = Len(objs[r.wm]) \div 2
  /\ r.at = "append" /\ r.then = "ask" =>
       \/ AddsQuestion(r) /\ Unheard(objs[r.wm], r.id)
       \/ AddsBoth(r)
       \/ AddsResults(r) /\ Telling(objs[r.wm], r.id)
  /\ r.at \in {"measure", "slice", "summary"} /\ r.then = "ask" => Ended(r, objs[r.wm])
  /\ r.at = "ask" => Asking(objs[r.wm], r.id) \/ Told(objs[r.wm], r.id)

RuntimeInv ==
  /\ RuntimeTyped /\ OfRequests /\ OnlyOne
  /\ \A t \in PanelThreads : Fits(run[t], objects, session)
  /\ \A t \in PanelThreads : t \notin beside => Story(run[t], objects)

LEMMA MsgIs == ASSUME NEW ms \in Seq(Msg), NEW i \in DOMAIN ms PROVE ms[i] \in Msg /\ ms[i].of \in Nat
<1>1. ms[i] \in Msg
  OBVIOUS
<1> QED
  BY <1>1 DEF Msg

\* A step of one request: what is left to show of it.
LEMMA RequestSteps ==
  ASSUME RuntimeInv, NEW t \in PanelThreads, run[t].at # "idle", NEW r \in Request,
         run' = [run EXCEPT ![t] = r], beside' = beside, runs' = runs,
         objects' \in Seq(Seq(Msg)), session' \in 0..Len(objects'),
         session # 0 => session' # 0, DOMAIN objects \subseteq DOMAIN objects',
         Remembered(objects', runs), r.id <= runs, \A i \in DOMAIN r.adds : r.adds[i].of <= runs,
         Fits(r, objects', session'), t \notin beside => Story(r, objects')
  PROVE  RuntimeInv'
<1>1. run' \in [PanelThreads -> Request] /\ run'[t] = r /\ \A u \in PanelThreads \ {t} : run'[u] = run[u]
  BY DEF RuntimeInv, RuntimeTyped
<1>2. RuntimeTyped'
  BY <1>1 DEF RuntimeInv, RuntimeTyped
<1>3. OfRequests'
  BY <1>1 DEF RuntimeInv, OfRequests, Remembered
<1>4. OnlyOne'
  <2> SUFFICES ASSUME NEW v \in PanelThreads, NEW u \in PanelThreads,
                      run'[v].at # "idle", v \notin beside, run'[u].at # "idle"
               PROVE  u = v
    BY DEF OnlyOne
  <2>1. run[v].at # "idle" /\ run[u].at # "idle"
    BY <1>1
  <2> QED
    BY <2>1 DEF RuntimeInv, OnlyOne
<1>5. \A u \in PanelThreads : Fits(run'[u], objects', session')
  <2> SUFFICES ASSUME NEW u \in PanelThreads, u # t PROVE Fits(run'[u], objects', session')
    BY <1>1
  <2>1. Fits(run[u], objects, session) /\ run'[u] = run[u]
    BY <1>1 DEF RuntimeInv
  <2> QED
    BY <2>1 DEF Fits
<1>6. \A u \in PanelThreads : u \notin beside' => Story(run'[u], objects')
  <2> SUFFICES ASSUME NEW u \in PanelThreads, u # t, u \notin beside PROVE Story(run'[u], objects')
    BY <1>1
  <2>1. run[u].at = "idle" /\ run'[u] = run[u]
    BY <1>1 DEF RuntimeInv, OnlyOne
  <2> QED
    BY <2>1 DEF Story
<1> QED
  BY <1>2, <1>3, <1>4, <1>5, <1>6 DEF RuntimeInv

LEMMA RestIs == Runtime!Rest \in Request /\ Runtime!Rest.at = "idle" /\ Runtime!Rest.id = 0 /\ Runtime!Rest.adds = <<>>
<1>1. <<>> \in Seq(Msg)
  OBVIOUS
<1> QED
  BY <1>1 DEF Runtime!Rest, Request, Places

LEMMA RestFits == \A objs, s : Fits(Runtime!Rest, objs, s) /\ Story(Runtime!Rest, objs)
  BY RestIs DEF Fits, Story, Adding

\* A request that begins: alone, or beside all that are under way.
LEMMA BeginKeeps ==
  ASSUME RuntimeInv, NEW t \in PanelThreads, Runtime!Start(t)
  PROVE  RuntimeInv'
<1>1. run[t].at = "idle" /\ runs' = runs + 1 /\ UNCHANGED <<objects, session>>
  BY DEF Runtime!Start, Runtime!At
<1>2. PICK r : r = [Runtime!Rest EXCEPT !.at = "session", !.id = runs + 1]
  OBVIOUS
<1>3. r \in Request /\ r.at = "session" /\ r.id = runs + 1 /\ r.adds = <<>>
  <2>1. PICK z \in Request : z = Runtime!Rest
    BY RestIs
  <2>2. PICK n \in Nat : n = runs + 1
    BY DEF RuntimeInv, RuntimeTyped
  <2>3. r = [z EXCEPT !.at = "session", !.id = n]
    BY <1>2, <2>1, <2>2
  <2>4. r \in Request /\ r.at = "session" /\ r.id = n /\ r.adds = z.adds
    BY <2>3 DEF Request, Places
  <2> QED
    BY <2>1, <2>2, <2>4, RestIs
<1>4. run' = [run EXCEPT ![t] = r]
  BY <1>2 DEF Runtime!Start, Runtime!Goes
<1>5. run' \in [PanelThreads -> Request] /\ run'[t] = r /\ \A u \in PanelThreads \ {t} : run'[u] = run[u]
  BY <1>3, <1>4 DEF RuntimeInv, RuntimeTyped
<1>6. \A u \in PanelThreads : u \notin beside' => u \notin beside \/ (u = t /\ Runtime!Busy = {})
  BY DEF Runtime!Start
<1>7. \A u \in PanelThreads : run[u].at # "idle" => u \in Runtime!Busy
  BY RestIs DEF Runtime!Busy
<1>8. \A u \in PanelThreads : u \notin beside' /\ run'[u].at # "idle" => u = t /\ Runtime!Busy = {}
  BY <1>1, <1>5, <1>7 DEF Runtime!Start
<1>9. runs \in Nat /\ RuntimeTyped'
  BY <1>1, <1>5 DEF RuntimeInv, RuntimeTyped
<1>10. OfRequests'
  <2>1. Remembered(objects, runs) /\ objects \in Seq(Seq(Msg))
    BY DEF RuntimeInv, RuntimeTyped, OfRequests
  <2>2. \A o \in DOMAIN objects : \A i \in DOMAIN objects[o] : objects[o][i].of \in Nat
    BY <2>1, MsgIs
  <2>3. Remembered(objects, runs + 1)
    BY <1>9, <2>1, <2>2 DEF Remembered
  <2>4. ASSUME NEW u \in PanelThreads
        PROVE  run'[u].id <= runs + 1 /\ \A i \in DOMAIN run'[u].adds : run'[u].adds[i].of <= runs + 1
    <3>1. CASE u = t
      BY <1>3, <1>5, <1>9, <3>1
    <3>2. CASE u # t
      <4>1. run'[u] = run[u] /\ run[u] \in Request
        BY <1>5, <3>2 DEF RuntimeInv, RuntimeTyped
      <4>2. run[u].id <= runs /\ \A i \in DOMAIN run[u].adds : run[u].adds[i].of <= runs
        BY DEF RuntimeInv, OfRequests
      <4>3. run[u].id \in Nat /\ \A i \in DOMAIN run[u].adds : run[u].adds[i].of \in Nat
        <5>1. run[u].id \in Nat /\ run[u].adds \in Seq(Msg)
          BY <4>1 DEF Request
        <5> QED
          BY <5>1, MsgIs
      <4> QED
        BY <1>9, <4>1, <4>2, <4>3
    <3> QED
      BY <3>1, <3>2
  <2> QED
    BY <1>1, <2>3, <2>4 DEF OfRequests
<1>11. OnlyOne'
  BY <1>5, <1>7, <1>8 DEF OnlyOne
<1>12. \A u \in PanelThreads : Fits(run'[u], objects', session')
  <2>1. Fits(r, objects, session)
    BY <1>3, <1>9 DEF Fits, Adding
  <2> QED
    BY <1>1, <1>5, <2>1 DEF RuntimeInv
<1>13. \A u \in PanelThreads : u \notin beside' => Story(run'[u], objects')
  <2>1. Story(r, objects)
    <3>1. \A o \in DOMAIN objects : Unheard(objects[o], r.id)
      BY <1>3, <1>9 DEF RuntimeInv, RuntimeTyped, OfRequests, Remembered, Unheard, Msg
    <3> QED
      BY <1>3, <3>1 DEF Story
  <2>2. ASSUME NEW u \in PanelThreads, u # t, u \notin beside' PROVE Story(run'[u], objects)
    <3>1. run'[u].at = "idle"
      BY <1>8, <2>2
    <3> QED
      BY <3>1 DEF Story
  <2> QED
    BY <1>1, <1>5, <2>1, <2>2
<1> QED
  BY <1>9, <1>10, <1>11, <1>12, <1>13 DEF RuntimeInv

\* What an action of a request under way may count on.
LEMMA UnderWay ==
  ASSUME RuntimeInv, NEW t \in PanelThreads, run[t].at # "idle"
  PROVE  /\ run[t] \in Request /\ run[t].id \in Nat /\ run[t].id >= 1 /\ run[t].id <= runs
         /\ \A i \in DOMAIN run[t].adds : run[t].adds[i].of <= runs
         /\ Fits(run[t], objects, session) /\ (t \notin beside => Story(run[t], objects))
         /\ objects \in Seq(Seq(Msg)) /\ session \in 0..Len(objects) /\ runs \in Nat /\ Remembered(objects, runs)
<1>1. run[t] \in Request
  BY DEF RuntimeInv, RuntimeTyped
<1>2. run[t].id \in Nat
  BY <1>1 DEF Request
<1>3. Fits(run[t], objects, session)
  BY DEF RuntimeInv
<1> QED
  BY <1>1, <1>2, <1>3 DEF RuntimeInv, RuntimeTyped, OfRequests, Fits

LEMMA LookUpKeeps ==
  ASSUME RuntimeInv, NEW t \in PanelThreads, Runtime!LookUp(t)
  PROVE  RuntimeInv'
<1>1. run[t].at = "session" /\ UNCHANGED <<objects, session, runs, beside>>
  BY DEF Runtime!LookUp, Runtime!At
<1>2. PICK z \in Request : z = run[t]
  BY <1>1, UnderWay
<1>3. PICK to \in {"create", "fetch"} : (to = "fetch" => session # 0) /\ run' = [run EXCEPT ![t] = [z EXCEPT !.at = to]]
  BY <1>2 DEF Runtime!LookUp, Runtime!Goes
<1>4. PICK r : r = [z EXCEPT !.at = to]
  OBVIOUS
<1>5. r \in Request /\ r.at = to /\ r.id = z.id /\ r.adds = z.adds
  BY <1>4 DEF Request, Places
<1>6. Fits(r, objects, session)
  BY <1>1, <1>2, <1>3, <1>5, UnderWay DEF Fits, Adding
<1>7. t \notin beside => Story(r, objects)
  BY <1>1, <1>2, <1>5, UnderWay DEF Story
<1> QED
  BY <1>1, <1>2, <1>3, <1>4, <1>5, <1>6, <1>7, UnderWay, RequestSteps

LEMMA CreateKeeps ==
  ASSUME RuntimeInv, NEW t \in PanelThreads, Runtime!Create(t)
  PROVE  RuntimeInv'
<1>1. run[t].at = "create" /\ UNCHANGED <<runs, beside>> /\ objects' = Append(objects, <<>>) /\ session' = Len(objects) + 1
  BY DEF Runtime!Create, Runtime!At
<1>2. PICK z \in Request : z = run[t]
  BY <1>1, UnderWay
<1>3. PICK r : r = [z EXCEPT !.at = "fetch"]
  OBVIOUS
<1>4. run' = [run EXCEPT ![t] = r]
  BY <1>2, <1>3 DEF Runtime!Create, Runtime!Goes
<1>5. r \in Request /\ r.at = "fetch" /\ r.id = z.id /\ r.adds = z.adds
  BY <1>3 DEF Request, Places
<1>6. objects \in Seq(Seq(Msg)) /\ <<>> \in Seq(Msg)
  BY <1>1, UnderWay
<1>7. /\ objects' \in Seq(Seq(Msg)) /\ session' \in 0..Len(objects') /\ session' # 0
      /\ DOMAIN objects' = DOMAIN objects \cup {Len(objects) + 1} /\ objects'[Len(objects) + 1] = <<>>
      /\ \A o \in DOMAIN objects : objects'[o] = objects[o]
  BY <1>1, <1>6
<1>8. Remembered(objects', runs)
  BY <1>1, <1>7, UnderWay DEF Remembered
<1>9. Fits(r, objects', session')
  BY <1>1, <1>2, <1>5, <1>7, UnderWay DEF Fits, Adding
<1>10. t \notin beside => Story(r, objects')
  <2> SUFFICES ASSUME t \notin beside PROVE \A o \in DOMAIN objects' : Unheard(objects'[o], r.id)
    BY <1>5 DEF Story
  <2>1. \A o \in DOMAIN objects : Unheard(objects[o], r.id)
    BY <1>1, <1>2, <1>5, UnderWay DEF Story
  <2>2. Unheard(<<>>, r.id)
    BY DEF Unheard
  <2> QED
    BY <1>7, <2>1, <2>2
<1> QED
  BY <1>1, <1>2, <1>4, <1>5, <1>7, <1>8, <1>9, <1>10, UnderWay, RequestSteps

LEMMA FetchKeeps ==
  ASSUME RuntimeInv, NEW t \in PanelThreads, Runtime!Fetch(t)
  PROVE  RuntimeInv'
<1>1. run[t].at = "fetch" /\ UNCHANGED <<objects, session, runs, beside>>
  BY DEF Runtime!Fetch, Runtime!At
<1>2. PICK z \in Request : z = run[t]
  BY <1>1, UnderWay
<1>3. PICK n \in Lengths : run' = [run EXCEPT ![t] = [z EXCEPT !.at = "append", !.wm = session, !.then = "ask",
                                                     !.adds = <<Runtime!Message("user", z.id, n)>>]]
  BY <1>2 DEF Runtime!Fetch, Runtime!Goes
<1>4. PICK s \in Nat : s = session
  BY <1>1, UnderWay
<1>5. PICK m : m = Runtime!Message("user", z.id, n)
  OBVIOUS
<1>6. m \in Msg /\ m.of = z.id /\ m.role = "user"
  BY <1>1, <1>2, <1>5, UnderWay, LengthsAreNumbers DEF Msg, Runtime!Message
<1>7. PICK a \in Seq(Msg) : a = <<m>>
  <2>1. <<m>> \in Seq(Msg)
    BY <1>6
  <2> QED
    BY <2>1, Zenon
<1>8. PICK r : r = [z EXCEPT !.at = "append", !.wm = s, !.then = "ask", !.adds = a]
  OBVIOUS
<1>9. run' = [run EXCEPT ![t] = r]
  BY <1>3, <1>4, <1>5, <1>7, <1>8
<1>10. r \in Request /\ r.at = "append" /\ r.id = z.id /\ r.wm = s /\ r.adds = a /\ r.then = "ask"
  BY <1>8 DEF Request, Places
<1>11. Len(a) = 1 /\ a[1] = m /\ DOMAIN a = {1} /\ a # <<>>
  BY <1>7
<1>12. \A i \in DOMAIN a : a[i].of <= runs
  BY <1>1, <1>2, <1>6, <1>11, UnderWay
<1>13. s \in DOMAIN objects
  BY <1>1, <1>4, UnderWay DEF Fits
<1>14. Fits(r, objects, session)
  BY <1>1, <1>2, <1>10, <1>11, <1>13, UnderWay DEF Fits, Adding
<1>15. t \notin beside => Story(r, objects)
  <2>1. AddsQuestion(r)
    BY <1>6, <1>10, <1>11 DEF AddsQuestion, Is
  <2>2. t \notin beside => Unheard(objects[s], r.id)
    BY <1>1, <1>2, <1>10, <1>13, UnderWay DEF Story
  <2> QED
    BY <1>10, <2>1, <2>2 DEF Story
<1> QED
  BY <1>1, <1>2, <1>9, <1>10, <1>12, <1>14, <1>15, UnderWay, RequestSteps

-----------------------------------------------------------------------------
(* The working memory.                                                     *)

LEMMA Appended ==
  ASSUME NEW ms \in Seq(Msg), NEW e \in Msg
  PROVE  /\ Append(ms, e) \in Seq(Msg) /\ Len(Append(ms, e)) = Len(ms) + 1
         /\ DOMAIN Append(ms, e) = DOMAIN ms \cup {Len(ms) + 1}
         /\ Append(ms, e)[Len(ms) + 1] = e /\ \A i \in DOMAIN ms : Append(ms, e)[i] = ms[i]
         /\ Len(ms) \in Nat /\ DOMAIN ms = 1..Len(ms)
  OBVIOUS

LEMMA Heard ==
  ASSUME NEW ms \in Seq(Msg), NEW e \in Msg, NEW id
  PROVE  /\ Unheard(ms, id) /\ Is(e, id, "user") => Asking(Append(ms, e), id)
         /\ Is(e, id, "assistant") => Telling(Append(ms, e), id)
         /\ Telling(ms, id) /\ Is(e, id, "tool") => Told(Append(ms, e), id)
<1> DEFINE a == Append(ms, e)
           n == Len(ms)
<1>1. /\ Len(a) = n + 1 /\ DOMAIN a = DOMAIN ms \cup {n + 1} /\ a[n + 1] = e /\ \A i \in DOMAIN ms : a[i] = ms[i]
      /\ n \in Nat /\ DOMAIN ms = 1..n
  BY Appended
<1> HIDE DEF a, n
<1>2. Unheard(ms, id) /\ Is(e, id, "user") => Asking(a, id)
  BY <1>1 DEF Unheard, Asking, Is
<1>3. Is(e, id, "assistant") => Telling(a, id)
  BY <1>1 DEF Telling, Is
<1>4. Telling(ms, id) /\ Is(e, id, "tool") => Told(a, id)
  <2> SUFFICES ASSUME Telling(ms, id), Is(e, id, "tool") PROVE Told(a, id)
    OBVIOUS
  <2>1. n >= 1 /\ Is(ms[n], id, "assistant")
    BY DEF Telling, n
  <2>2. a[n] = ms[n] /\ Len(a) - 1 = n /\ Len(a) >= 2
    BY <1>1, <2>1
  <2> QED
    BY <1>1, <2>1, <2>2 DEF Told
<1> QED
  BY <1>2, <1>3, <1>4 DEF a

\* The newer half of a memory has at least two messages, so what ends it stays.
LEMMA Halved ==
  ASSUME NEW ms \in Seq(Msg), Len(ms) >= 4, NEW id, NEW h \in Nat, h = Len(ms) \div 2
  PROVE  LET k == SubSeq(ms, h + 1, Len(ms))
         IN  /\ k \in Seq(Msg) /\ \A i \in DOMAIN k : \E j \in DOMAIN ms : k[i] = ms[j]
             /\ Asking(ms, id) => Asking(k, id)
             /\ Telling(ms, id) => Telling(k, id)
             /\ Told(ms, id) => Told(k, id)
<1> DEFINE k == SubSeq(ms, h + 1, Len(ms))
           n == Len(ms)
<1>1. n \in Nat /\ n >= 4 /\ h >= 2 /\ n - h >= 2 /\ h + 1 <= n /\ DOMAIN ms = 1..n
  OBVIOUS
<1>2. k \in Seq(Msg) /\ Len(k) = n - h /\ DOMAIN k = 1..(n - h) /\ \A i \in 1..(n - h) : k[i] = ms[h + i]
  BY <1>1
<1> HIDE DEF k, n
<1>3. k[n - h] = ms[n] /\ k[n - h - 1] = ms[n - 1]
  <2>1. \A i \in 1..(n - h) : k[i] = ms[h + i]
    BY <1>2
  <2>2. n - h \in 1..(n - h) /\ h + (n - h) = n /\ n - h - 1 \in 1..(n - h) /\ h + (n - h - 1) = n - 1
    BY <1>1
  <2> QED
    BY <2>1, <2>2, Zenon
<1>4. \A i \in DOMAIN k : \E j \in DOMAIN ms : k[i] = ms[j]
  <2> SUFFICES ASSUME NEW i \in 1..(n - h) PROVE \E j \in DOMAIN ms : k[i] = ms[j]
    BY <1>2
  <2>1. h + i \in DOMAIN ms /\ k[i] = ms[h + i]
    BY <1>1, <1>2
  <2> QED
    BY <2>1
<1>5. Asking(ms, id) => Asking(k, id)
  BY <1>1, <1>2, <1>3, <1>4 DEF Asking, n
<1>6. Telling(ms, id) => Telling(k, id)
  BY <1>1, <1>2, <1>3 DEF Telling, n
<1>7. Told(ms, id) => Told(k, id)
  BY <1>1, <1>2, <1>3 DEF Told, n
<1> QED
  BY <1>2, <1>4, <1>5, <1>6, <1>7 DEF k, n

LEMMA Summed ==
  ASSUME NEW ms \in Seq(Msg), NEW e \in Msg, NEW id, e.of # id
  PROVE  LET k == <<e>> \o ms
         IN  /\ k \in Seq(Msg) /\ \A i \in DOMAIN k : k[i] = e \/ \E j \in DOMAIN ms : k[i] = ms[j]
             /\ Asking(ms, id) => Asking(k, id)
             /\ Telling(ms, id) => Telling(k, id)
             /\ Told(ms, id) => Told(k, id)
<1> DEFINE k == <<e>> \o ms
           n == Len(ms)
<1>1. n \in Nat /\ DOMAIN ms = 1..n
  OBVIOUS
<1>2. k \in Seq(Msg) /\ Len(k) = n + 1 /\ DOMAIN k = 1..(n + 1) /\ k[1] = e /\ \A i \in 1..n : k[i + 1] = ms[i]
  OBVIOUS
<1> HIDE DEF k, n
<1>3. \A i \in 2..(n + 1) : i - 1 \in 1..n /\ k[i] = ms[i - 1]
  <2> SUFFICES ASSUME NEW i \in 2..(n + 1) PROVE i - 1 \in 1..n /\ k[i] = ms[i - 1]
    OBVIOUS
  <2>1. i - 1 \in 1..n /\ (i - 1) + 1 = i
    BY <1>1
  <2> QED
    BY <1>2, <2>1
<1>4. \A i \in DOMAIN k : k[i] = e \/ \E j \in DOMAIN ms : k[i] = ms[j]
  <2> SUFFICES ASSUME NEW i \in DOMAIN k PROVE k[i] = e \/ \E j \in DOMAIN ms : k[i] = ms[j]
    OBVIOUS
  <2>1. i = 1 \/ i \in 2..(n + 1)
    BY <1>1, <1>2
  <2> QED
    BY <1>1, <1>2, <1>3, <2>1
<1>5. Asking(ms, id) => Asking(k, id)
  <2> SUFFICES ASSUME Asking(ms, id) PROVE Asking(k, id)
    OBVIOUS
  <2>1. n >= 1 /\ Is(ms[n], id, "user")
    BY DEF Asking, n
  <2>2. k[n + 1] = ms[n]
    BY <1>1, <1>2, <2>1
  <2>3. \A i \in DOMAIN k : ~Is(k[i], id, "tool")
    BY <1>4 DEF Asking, Is
  <2> QED
    BY <1>1, <1>2, <2>1, <2>2, <2>3 DEF Asking
<1>6. Telling(ms, id) => Telling(k, id)
  BY <1>1, <1>2, <1>3 DEF Telling, n
<1>7. Told(ms, id) => Told(k, id)
  BY <1>1, <1>2, <1>3 DEF Told, n
<1> QED
  BY <1>2, <1>4, <1>5, <1>6, <1>7 DEF k, n

LEMMA Stored ==
  ASSUME RuntimeInv, NEW w \in DOMAIN objects, NEW ms \in Seq(Msg), \A i \in DOMAIN ms : ms[i].of <= runs,
         objects' = [objects EXCEPT ![w] = ms]
  PROVE  /\ objects' \in Seq(Seq(Msg)) /\ DOMAIN objects' = DOMAIN objects /\ Len(objects') = Len(objects)
         /\ objects'[w] = ms /\ Remembered(objects', runs)
<1>1. objects \in Seq(Seq(Msg)) /\ Remembered(objects, runs)
  BY DEF RuntimeInv, RuntimeTyped, OfRequests
<1>2. /\ objects' \in Seq(Seq(Msg)) /\ DOMAIN objects' = DOMAIN objects /\ Len(objects') = Len(objects)
      /\ objects'[w] = ms /\ \A o \in DOMAIN objects \ {w} : objects'[o] = objects[o]
  BY <1>1
<1> QED
  BY <1>1, <1>2 DEF Remembered

\* Where a request is in its memory.
LEMMA InMemory ==
  ASSUME RuntimeInv, NEW t \in PanelThreads, run[t].at \in Adding \cup {"ask"}
  PROVE  /\ run[t].at # "idle" /\ run[t].wm \in DOMAIN objects /\ Runtime!Memory(t) = objects[run[t].wm]
         /\ Runtime!Memory(t) \in Seq(Msg) /\ \A i \in DOMAIN Runtime!Memory(t) : Runtime!Memory(t)[i].of <= runs
         /\ run[t].at \in Adding => /\ run[t].adds \in Seq(Msg) /\ run[t].adds # <<>> /\ run[t].then \in {"ask", "report"}
<1>1. run[t].at # "idle"
  BY DEF Adding
<1>2. run[t].wm \in DOMAIN objects /\ objects \in Seq(Seq(Msg)) /\ Remembered(objects, runs)
  BY <1>1, UnderWay DEF Fits
<1>3. run[t].at \in Adding => /\ run[t].adds \in Seq(Msg) /\ run[t].adds # <<>> /\ run[t].then \in {"ask", "report"}
  BY <1>1, UnderWay DEF Fits, Request
<1> QED
  BY <1>1, <1>2, <1>3 DEF Remembered, Runtime!Memory

LEMMA AddMessageKeeps ==
  ASSUME RuntimeInv, NEW t \in PanelThreads, Runtime!AddMessage(t)
  PROVE  RuntimeInv'
<1>1. run[t].at = "append" /\ UNCHANGED <<session, runs, beside>>
  BY DEF Runtime!AddMessage, Runtime!At
<1>2. PICK z \in Request : z = run[t]
  BY <1>1, UnderWay
<1>3. PICK w \in DOMAIN objects : w = z.wm
  BY <1>1, <1>2, InMemory DEF Adding
<1>4. PICK ms \in Seq(Msg) : ms = objects[w]
  BY <1>1, <1>2, <1>3, InMemory DEF Adding
<1>5. z.adds \in Seq(Msg) /\ z.adds # <<>> /\ z.then \in {"ask", "report"}
  BY <1>1, <1>2, InMemory DEF Adding
<1>6. PICK e \in Msg : e = z.adds[1] /\ e = Head(z.adds) /\ e.of <= runs
  BY <1>1, <1>2, <1>5, UnderWay
<1>7. PICK k : k = Append(ms, e)
  OBVIOUS
<1>8. objects' = [objects EXCEPT ![w] = k]
  BY <1>2, <1>3, <1>4, <1>6, <1>7 DEF Runtime!AddMessage, Runtime!StoreIn, Runtime!Memory
<1>9. PICK r : r = [z EXCEPT !.at = "measure"]
  OBVIOUS
<1>10. run' = [run EXCEPT ![t] = r]
  BY <1>2, <1>9 DEF Runtime!AddMessage, Runtime!Goes
<1>11. r \in Request /\ r.at = "measure" /\ r.id = z.id /\ r.wm = w /\ r.adds = z.adds /\ r.then = z.then
  BY <1>3, <1>9 DEF Request, Places
<1>12. k \in Seq(Msg) /\ \A i \in DOMAIN k : k[i].of <= runs
  <2>1. \A i \in DOMAIN ms : ms[i].of <= runs
    BY <1>1, <1>2, <1>3, <1>4, InMemory DEF Adding
  <2>2. /\ k \in Seq(Msg) /\ DOMAIN k = DOMAIN ms \cup {Len(ms) + 1} /\ k[Len(ms) + 1] = e
        /\ \A i \in DOMAIN ms : k[i] = ms[i]
    BY <1>7, Appended
  <2> QED
    BY <1>6, <2>1, <2>2
<1>13. /\ objects' \in Seq(Seq(Msg)) /\ DOMAIN objects' = DOMAIN objects /\ Len(objects') = Len(objects)
       /\ objects'[w] = k /\ Remembered(objects', runs)
  BY <1>8, <1>12, Stored
<1>14. Fits(r, objects', session')
  BY <1>1, <1>2, <1>5, <1>11, <1>13, UnderWay DEF Fits, Adding
<1>15. t \notin beside => Story(r, objects')
  <2> SUFFICES ASSUME t \notin beside, z.then = "ask" PROVE Ended(r, k)
    BY <1>11, <1>13 DEF Story
  <2>1. \/ AddsQuestion(z) /\ Unheard(ms, z.id)
        \/ AddsBoth(z)
        \/ AddsResults(z) /\ Telling(ms, z.id)
    BY <1>1, <1>2, <1>3, <1>4, UnderWay DEF Story
  <2>2. CASE AddsQuestion(z) /\ Unheard(ms, z.id)
    <3>1. Is(e, z.id, "user")
      BY <1>6, <2>2 DEF AddsQuestion
    <3> QED
      BY <1>7, <1>11, <2>2, <3>1, Heard DEF Ended, AddsQuestion
  <2>3. CASE AddsBoth(z)
    <3>1. Is(e, z.id, "assistant")
      BY <1>6, <2>3 DEF AddsBoth
    <3> QED
      BY <1>7, <1>11, <2>3, <3>1, Heard DEF Ended, AddsBoth
  <2>4. CASE AddsResults(z) /\ Telling(ms, z.id)
    <3>1. Is(e, z.id, "tool")
      BY <1>6, <2>4 DEF AddsResults
    <3> QED
      BY <1>7, <1>11, <2>4, <3>1, Heard DEF Ended, AddsResults
  <2> QED
    BY <2>1, <2>2, <2>3, <2>4
<1> QED
  BY <1>1, <1>2, <1>10, <1>11, <1>13, <1>14, <1>15, UnderWay, RequestSteps

LEMMA Shortened ==
  ASSUME NEW S, NEW q \in Seq(S), q # <<>>
  PROVE  /\ Tail(q) \in Seq(S) /\ Len(Tail(q)) = Len(q) - 1 /\ Len(q) \in Nat /\ Len(q) >= 1
         /\ \A i \in DOMAIN Tail(q) : i + 1 \in DOMAIN q /\ Tail(q)[i] = q[i + 1]
         /\ DOMAIN Tail(q) = 1..(Len(q) - 1)
<1>1. Len(q) \in Nat /\ Len(q) >= 1 /\ DOMAIN q = 1..Len(q)
  OBVIOUS
<1>2. Tail(q) \in Seq(S) /\ Len(Tail(q)) = Len(q) - 1 /\ DOMAIN Tail(q) = 1..(Len(q) - 1)
  OBVIOUS
<1>3. \A i \in 1..(Len(q) - 1) : Tail(q)[i] = q[i + 1]
  OBVIOUS
<1> QED
  BY <1>1, <1>2, <1>3

LEMMA NotNothing == ASSUME NEW S, NEW q \in Seq(S), Len(q) = 3 PROVE q # <<>>
  OBVIOUS

LEMMA AtLeastTwo == \A l \in Nat : l >= 1 /\ l # 1 => l - 1 >= 1
  OBVIOUS

\* A message that was added, and perhaps made room for: the next one, or on to what follows.
LEMMA AddedKeeps ==
  ASSUME RuntimeInv, NEW t \in PanelThreads, run[t].at \in Adding,
         run' = [run EXCEPT ![t] = Runtime!Added(t)], UNCHANGED <<session, runs, beside>>,
         objects' \in Seq(Seq(Msg)), DOMAIN objects' = DOMAIN objects, Len(objects') = Len(objects),
         Remembered(objects', runs),
         t \notin beside /\ run[t].then = "ask" => Ended(run[t], objects'[run[t].wm])
  PROVE  RuntimeInv'
<1>1. run[t].at # "idle"
  BY DEF Adding
<1>2. PICK z \in Request : z = run[t]
  BY <1>1, UnderWay
<1>3. z.adds \in Seq(Msg) /\ z.adds # <<>> /\ z.then \in {"ask", "report"} /\ z.wm \in DOMAIN objects
  BY <1>1, <1>2, InMemory
<1>4. <<>> \in Seq(Msg) /\ Tail(z.adds) \in Seq(Msg)
  BY <1>3
<1>5. CASE Len(z.adds) = 1
  <2>1. PICK e \in Seq(Msg) : e = <<>>
    BY <1>4
  <2>2. PICK r : r = [z EXCEPT !.at = z.then, !.adds = e, !.half = 0]
    OBVIOUS
  <2>3. run' = [run EXCEPT ![t] = r]
    BY <1>2, <1>5, <2>1, <2>2 DEF Runtime!Added
  <2>4. r \in Request /\ r.at = z.then /\ r.id = z.id /\ r.wm = z.wm /\ r.adds = e /\ r.then = z.then
    BY <1>3, <2>2 DEF Request, Places
  <2>5. Fits(r, objects', session')
    BY <1>1, <1>2, <1>3, <2>4, UnderWay DEF Fits, Adding
  <2>6. t \notin beside => Story(r, objects')
    <3> SUFFICES ASSUME t \notin beside, z.then = "ask"
                 PROVE  Asking(objects'[z.wm], z.id) \/ Told(objects'[z.wm], z.id)
      BY <1>3, <2>4 DEF Story
    <3>1. Ended(z, objects'[z.wm]) /\ ~AddsBoth(z)
      BY <1>2, <1>5 DEF AddsBoth
    <3> QED
      BY <3>1 DEF Ended
  <2>7. \A i \in DOMAIN r.adds : r.adds[i].of <= runs
    BY <2>1, <2>4
  <2>8. r.id <= runs /\ session' \in 0..Len(objects')
    BY <1>1, <1>2, <2>4, UnderWay
  <2> QED
    BY <1>1, <2>3, <2>4, <2>5, <2>6, <2>7, <2>8, RequestSteps
<1>6. CASE Len(z.adds) # 1
  <2>1. PICK e \in Seq(Msg) : e = Tail(z.adds)
    BY <1>4
  <2>2. PICK r : r = [z EXCEPT !.at = "append", !.adds = e, !.half = 0]
    OBVIOUS
  <2>3. run' = [run EXCEPT ![t] = r]
    BY <1>2, <1>6, <2>1, <2>2 DEF Runtime!Added
  <2>4. r \in Request /\ r.at = "append" /\ r.id = z.id /\ r.wm = z.wm /\ r.adds = e /\ r.then = z.then
    BY <1>3, <2>2 DEF Request, Places
  <2>5. Len(e) = Len(z.adds) - 1 /\ Len(e) >= 1 /\ \A i \in DOMAIN e : i + 1 \in DOMAIN z.adds /\ e[i] = z.adds[i + 1]
    <3>1. Len(z.adds) \in Nat /\ Len(z.adds) >= 1 /\ Len(z.adds) # 1
      BY <1>3, <1>6, Shortened
    <3>2. Len(e) = Len(z.adds) - 1 /\ \A i \in DOMAIN e : i + 1 \in DOMAIN z.adds /\ e[i] = z.adds[i + 1]
      BY <1>3, <2>1, Shortened
    <3>3. Len(z.adds) - 1 >= 1
      BY <3>1, AtLeastTwo, Zenon
    <3> QED
      BY <3>2, <3>3, Zenon
  <2>6. e # <<>> /\ \A i \in DOMAIN e : e[i].of <= runs
    BY <1>1, <1>2, <2>5, UnderWay
  <2>7. Fits(r, objects', session')
    BY <1>1, <1>2, <1>3, <2>4, <2>6, UnderWay DEF Fits, Adding
  <2>8. t \notin beside => Story(r, objects')
    <3> SUFFICES ASSUME t \notin beside, z.then = "ask"
                 PROVE  AddsResults(r) /\ Telling(objects'[z.wm], z.id)
      BY <2>4 DEF Story
    <3>1. Ended(z, objects'[z.wm]) /\ ~AddsQuestion(z) /\ ~AddsResults(z)
      BY <1>2, <1>6 DEF AddsQuestion, AddsResults
    <3>2. AddsBoth(z) /\ Telling(objects'[z.wm], z.id)
      BY <3>1 DEF Ended
    <3>3. Len(e) = 1 /\ e[1] = z.adds[2]
      BY <2>5, <3>2 DEF AddsBoth
    <3> QED
      BY <2>4, <3>2, <3>3 DEF AddsBoth, AddsResults
  <2> QED
    BY <1>1, <1>2, <2>3, <2>4, <2>6, <2>7, <2>8, UnderWay, RequestSteps
<1> QED
  BY <1>5, <1>6

LEMMA MeasureKeeps ==
  ASSUME RuntimeInv, NEW t \in PanelThreads, Runtime!Measure(t)
  PROVE  RuntimeInv'
<1>1. run[t].at = "measure" /\ UNCHANGED <<objects, session, runs, beside>>
  BY DEF Runtime!Measure, Runtime!At
<1>2. PICK z \in Request : z = run[t]
  BY <1>1, UnderWay
<1>3. t \notin beside /\ run[t].then = "ask" => Ended(run[t], objects[run[t].wm])
  BY <1>1, UnderWay DEF Story
<1>4. CASE ~Runtime!Over(Runtime!Memory(t))
  <2>1. run' = [run EXCEPT ![t] = Runtime!Added(t)]
    BY <1>4 DEF Runtime!Measure, Runtime!Goes
  <2> QED
    BY <1>1, <1>3, <2>1, UnderWay, AddedKeeps DEF Adding
<1>5. CASE Runtime!Over(Runtime!Memory(t))
  <2>1. PICK ms \in Seq(Msg) : ms = Runtime!Memory(t) /\ ms = objects[z.wm]
    BY <1>1, <1>2, InMemory DEF Adding
  <2>2. Len(ms) >= 4 /\ Len(ms) \in Nat
    BY <1>5, <2>1 DEF Runtime!Over
  <2>3. PICK h \in Nat : h = Len(ms) \div 2
    BY <2>2
  <2>4. PICK r : r = [z EXCEPT !.at = "slice", !.half = h]
    OBVIOUS
  <2>5. run' = [run EXCEPT ![t] = r]
    BY <1>2, <1>5, <2>1, <2>3, <2>4 DEF Runtime!Measure, Runtime!Goes, Runtime!Half
  <2>6. r \in Request /\ r.at = "slice" /\ r.half = h /\ r.id = z.id /\ r.wm = z.wm /\ r.adds = z.adds /\ r.then = z.then
    BY <2>4 DEF Request, Places
  <2>7. Fits(r, objects, session)
    BY <1>1, <1>2, <2>6, UnderWay DEF Fits, Adding
  <2>8. t \notin beside => Story(r, objects)
    <3> SUFFICES ASSUME t \notin beside PROVE r.then = "ask" => Ended(r, objects[r.wm])
      BY <2>1, <2>2, <2>3, <2>6 DEF Story
    <3> QED
      BY <1>2, <1>3, <2>6 DEF Ended, AddsQuestion, AddsBoth, AddsResults
  <2> QED
    BY <1>1, <1>2, <2>5, <2>6, <2>7, <2>8, UnderWay, RequestSteps
<1> QED
  BY <1>4, <1>5

LEMMA SliceKeeps ==
  ASSUME RuntimeInv, NEW t \in PanelThreads, Runtime!Slice(t)
  PROVE  RuntimeInv'
<1>1. run[t].at = "slice" /\ UNCHANGED <<session, runs, beside>>
  BY DEF Runtime!Slice, Runtime!At
<1>2. PICK z \in Request : z = run[t]
  BY <1>1, UnderWay
<1>3. PICK w \in DOMAIN objects : w = z.wm
  BY <1>1, <1>2, InMemory DEF Adding
<1>4. PICK ms \in Seq(Msg) : ms = objects[w] /\ \A i \in DOMAIN ms : ms[i].of <= runs
  BY <1>1, <1>2, <1>3, InMemory DEF Adding
<1>5. z.adds \in Seq(Msg) /\ z.adds # <<>> /\ z.then \in {"ask", "report"} /\ z.half \in Nat
  BY <1>1, <1>2, InMemory DEF Adding, Request
<1>6. PICK k : k = SubSeq(ms, z.half + 1, Len(ms))
  OBVIOUS
<1>7. objects' = [objects EXCEPT ![w] = k]
  BY <1>2, <1>3, <1>4, <1>6 DEF Runtime!Slice, Runtime!StoreIn, Runtime!Memory
<1>8. k \in Seq(Msg) /\ \A i \in DOMAIN k : k[i].of <= runs
  <2>1. PICK h \in Nat : h = z.half
    BY <1>5
  <2>2. k = SubSeq(ms, h + 1, Len(ms)) /\ Len(ms) \in Nat /\ DOMAIN ms = 1..Len(ms)
    BY <1>6, <2>1
  <2>3. CASE h + 1 > Len(ms)
    <3>1. k = <<>>
      BY <2>2, <2>3
    <3>2. <<>> \in Seq(Msg) /\ DOMAIN <<>> = {}
      OBVIOUS
    <3> QED
      BY <3>1, <3>2
  <2>4. CASE h + 1 <= Len(ms)
    <3>1. k \in Seq(Msg) /\ DOMAIN k = 1..(Len(ms) - h) /\ \A i \in 1..(Len(ms) - h) : k[i] = ms[h + i]
      BY <2>2, <2>4
    <3>2. \A i \in 1..(Len(ms) - h) : h + i \in DOMAIN ms
      BY <2>2, <2>4
    <3> QED
      BY <1>4, <3>1, <3>2
  <2> QED
    BY <2>2, <2>3, <2>4
<1>9. PICK r : r = [z EXCEPT !.at = "summary"]
  OBVIOUS
<1>10. run' = [run EXCEPT ![t] = r]
  BY <1>2, <1>9 DEF Runtime!Slice, Runtime!Goes
<1>11. r \in Request /\ r.at = "summary" /\ r.id = z.id /\ r.wm = w /\ r.adds = z.adds /\ r.then = z.then
  BY <1>3, <1>9 DEF Request, Places
<1>12. /\ objects' \in Seq(Seq(Msg)) /\ DOMAIN objects' = DOMAIN objects /\ Len(objects') = Len(objects)
       /\ objects'[w] = k /\ Remembered(objects', runs)
  BY <1>7, <1>8, Stored
<1>13. Fits(r, objects', session')
  BY <1>1, <1>2, <1>5, <1>11, <1>12, UnderWay DEF Fits, Adding
<1>14. t \notin beside => Story(r, objects')
  <2> SUFFICES ASSUME t \notin beside, z.then = "ask" PROVE Ended(r, k)
    BY <1>11, <1>12 DEF Story
  <2>1. Ended(z, ms) /\ Len(ms) >= 4 /\ z.half = Len(ms) \div 2
    BY <1>1, <1>2, <1>3, <1>4, UnderWay DEF Story
  <2>2. PICK h \in Nat : h = z.half
    BY <1>5
  <2>3. k = SubSeq(ms, h + 1, Len(ms)) /\ h = Len(ms) \div 2
    BY <1>6, <2>1, <2>2
  <2>4. /\ Asking(ms, z.id) => Asking(k, z.id)
        /\ Telling(ms, z.id) => Telling(k, z.id)
        /\ Told(ms, z.id) => Told(k, z.id)
    BY <2>1, <2>3, Halved
  <2> QED
    BY <1>11, <2>1, <2>4 DEF Ended, AddsQuestion, AddsBoth, AddsResults
<1> QED
  BY <1>1, <1>2, <1>10, <1>11, <1>12, <1>13, <1>14, UnderWay, RequestSteps

LEMMA SummariseKeeps ==
  ASSUME RuntimeInv, NEW t \in PanelThreads, Runtime!Summarise(t)
  PROVE  RuntimeInv'
<1>1. run[t].at = "summary" /\ UNCHANGED <<session, runs, beside>>
  BY DEF Runtime!Summarise, Runtime!At
<1>2. PICK z \in Request : z = run[t]
  BY <1>1, UnderWay
<1>3. PICK w \in DOMAIN objects : w = z.wm
  BY <1>1, <1>2, InMemory DEF Adding
<1>4. PICK ms \in Seq(Msg) : ms = objects[w] /\ \A i \in DOMAIN ms : ms[i].of <= runs
  BY <1>1, <1>2, <1>3, InMemory DEF Adding
<1>5. PICK e \in Msg : e = Runtime!Message("system", 0, 0) /\ e.of = 0
  <2>1. PICK m : m = [role |-> "system", of |-> 0, tokens |-> 0]
    OBVIOUS
  <2>2. m \in Msg /\ m.of = 0
    BY <2>1 DEF Msg
  <2>3. m = Runtime!Message("system", 0, 0)
    BY <2>1 DEF Runtime!Message
  <2> QED
    BY <2>2, <2>3, Zenon
<1>6. PICK k : k = <<e>> \o ms
  OBVIOUS
<1>7. objects' = [objects EXCEPT ![w] = k]
  BY <1>2, <1>3, <1>4, <1>5, <1>6 DEF Runtime!Summarise, Runtime!StoreIn, Runtime!Memory
<1>8. z.id # e.of /\ runs >= 0
  BY <1>1, <1>2, <1>5, UnderWay
<1>9. /\ k \in Seq(Msg) /\ \A i \in DOMAIN k : k[i] = e \/ \E j \in DOMAIN ms : k[i] = ms[j]
      /\ Asking(ms, z.id) => Asking(k, z.id)
      /\ Telling(ms, z.id) => Telling(k, z.id)
      /\ Told(ms, z.id) => Told(k, z.id)
  BY <1>6, <1>8, Summed
<1>10. \A i \in DOMAIN k : k[i].of <= runs
  BY <1>4, <1>5, <1>8, <1>9
<1>11. /\ objects' \in Seq(Seq(Msg)) /\ DOMAIN objects' = DOMAIN objects /\ Len(objects') = Len(objects)
       /\ objects'[w] = k /\ Remembered(objects', runs)
  BY <1>7, <1>9, <1>10, Stored
<1>12. t \notin beside /\ z.then = "ask" => Ended(z, k)
  <2> SUFFICES ASSUME t \notin beside, z.then = "ask" PROVE Ended(z, k)
    OBVIOUS
  <2>1. Ended(z, ms)
    BY <1>1, <1>2, <1>3, <1>4, UnderWay DEF Story
  <2> QED
    BY <1>9, <2>1 DEF Ended
<1>13. run' = [run EXCEPT ![t] = Runtime!Added(t)]
  BY DEF Runtime!Summarise, Runtime!Goes
<1> QED
  BY <1>1, <1>2, <1>3, <1>11, <1>12, <1>13, AddedKeeps DEF Adding

-----------------------------------------------------------------------------
(* The answers of the model.                                               *)

\* What a request that asked adds to its memory next.
LEMMA AsksOn ==
  ASSUME RuntimeInv, NEW t \in PanelThreads, run[t].at = "ask", UNCHANGED <<objects, session, runs, beside>>,
         NEW r \in Request, run' = [run EXCEPT ![t] = r], r.at = "append", r.id = run[t].id, r.wm = run[t].wm,
         r.adds # <<>>, \A i \in DOMAIN r.adds : r.adds[i].of = r.id, r.then \in {"ask", "report"},
         r.then = "ask" => Len(r.adds) = 2 /\ Is(r.adds[1], r.id, "assistant") /\ Is(r.adds[2], r.id, "tool")
  PROVE  RuntimeInv'
<1>1. PICK z \in Request : z = run[t]
  BY UnderWay
<1>2. r.id <= runs /\ \A i \in DOMAIN r.adds : r.adds[i].of <= runs
  BY UnderWay
<1>3. Fits(r, objects, session)
  BY <1>1, UnderWay DEF Fits, Adding
<1>4. t \notin beside => Story(r, objects)
  BY DEF Story, AddsBoth
<1> QED
  BY <1>2, <1>3, <1>4, UnderWay, RequestSteps

LEMMA OneMessage ==
  ASSUME NEW role \in {"user", "assistant", "tool", "system"}, NEW id \in Nat, NEW n \in Nat
  PROVE  /\ Runtime!Message(role, id, n) \in Msg /\ Runtime!Message(role, id, n).of = id
         /\ Runtime!Message(role, id, n).role = role
<1>1. PICK m : m = [role |-> role, of |-> id, tokens |-> n]
  OBVIOUS
<1>2. m \in Msg /\ m.of = id /\ m.role = role
  BY <1>1 DEF Msg
<1>3. m = Runtime!Message(role, id, n)
  BY <1>1 DEF Runtime!Message
<1> QED
  BY <1>2, <1>3, Zenon

\* The reply that ends a request.
LEMMA ReplyIs ==
  ASSUME NEW id \in Nat
  PROVE  \E a \in Seq(Msg) : /\ a = <<Runtime!Message("assistant", id, 1)>> /\ a # <<>>
                             /\ \A i \in DOMAIN a : a[i].of = id
<1>1. PICK m \in Msg : m = Runtime!Message("assistant", id, 1) /\ m.of = id
  BY OneMessage
<1>2. PICK a : a = <<m>>
  OBVIOUS
<1>3. a \in Seq(Msg) /\ a # <<>> /\ \A i \in DOMAIN a : a[i].of = id
  BY <1>1, <1>2
<1>4. a = <<Runtime!Message("assistant", id, 1)>>
  BY <1>1, <1>2
<1> QED
  BY <1>3, <1>4, Zenon

LEMMA AskAnswersKeeps ==
  ASSUME RuntimeInv, NEW t \in PanelThreads, Runtime!AskAnswers(t)
  PROVE  RuntimeInv'
<1>1. run[t].at = "ask" /\ UNCHANGED <<objects, session, runs, beside>>
  BY DEF Runtime!AskAnswers, Runtime!At
<1>2. PICK z \in Request : z = run[t]
  BY <1>1, UnderWay
<1>3. PICK a \in Seq(Msg) : /\ a = <<Runtime!Message("assistant", z.id, 1)>> /\ a # <<>>
                            /\ \A i \in DOMAIN a : a[i].of = z.id
  BY <1>1, <1>2, UnderWay, ReplyIs
<1>4. PICK y : y = [z EXCEPT !.at = "append", !.adds = a, !.then = "report"]
  OBVIOUS
<1>5. y \in Request /\ y.at = "append" /\ y.id = z.id /\ y.wm = z.wm /\ y.adds = a /\ y.then = "report"
  BY <1>4 DEF Request, Places
<1>6. PICK r : r = [y EXCEPT !.answered = TRUE]
  OBVIOUS
<1>7. r \in Request /\ r.at = "append" /\ r.id = z.id /\ r.wm = z.wm /\ r.adds = a /\ r.then = "report"
  BY <1>5, <1>6 DEF Request, Places
<1>8. run' = [run EXCEPT ![t] = r]
  BY <1>2, <1>3, <1>4, <1>6 DEF Runtime!AskAnswers, Runtime!Goes, Runtime!Reply, Runtime!Adds
<1> QED
  BY <1>1, <1>2, <1>3, <1>7, <1>8, AsksOn

LEMMA AskFailsKeeps ==
  ASSUME RuntimeInv, NEW t \in PanelThreads, Runtime!AskFails(t)
  PROVE  RuntimeInv'
<1>1. run[t].at = "ask" /\ UNCHANGED <<objects, session, runs, beside>>
  BY DEF Runtime!AskFails, Runtime!At
<1>2. PICK z \in Request : z = run[t]
  BY <1>1, UnderWay
<1>3. PICK a \in Seq(Msg) : /\ a = <<Runtime!Message("assistant", z.id, 1)>> /\ a # <<>>
                            /\ \A i \in DOMAIN a : a[i].of = z.id
  BY <1>1, <1>2, UnderWay, ReplyIs
<1>4. CASE Runtime!NoAnswerTwice(t)
  <2>1. PICK r : r = [z EXCEPT !.at = "append", !.adds = a, !.then = "report"]
    OBVIOUS
  <2>2. r \in Request /\ r.at = "append" /\ r.id = z.id /\ r.wm = z.wm /\ r.adds = a /\ r.then = "report"
    BY <2>1 DEF Request, Places
  <2>3. run' = [run EXCEPT ![t] = r]
    BY <1>2, <1>3, <1>4, <2>1 DEF Runtime!AskFails, Runtime!Goes, Runtime!Reply, Runtime!Adds
  <2> QED
    BY <1>1, <1>2, <1>3, <2>2, <2>3, AsksOn
<1>5. CASE ~Runtime!NoAnswerTwice(t)
  <2>1. PICK n \in Nat, f \in Nat : n = z.turn + 1 /\ f = z.errors + 1
    BY DEF Request
  <2>2. PICK y : y = [z EXCEPT !.errors = f]
    OBVIOUS
  <2>3. y \in Request /\ y.at = "ask" /\ y.id = z.id /\ y.wm = z.wm /\ y.turn = z.turn /\ y.adds = z.adds
    BY <1>1, <1>2, <2>2 DEF Request, Places
  <2>4. run' = [run EXCEPT ![t] = Runtime!NextTurn(y)]
    BY <1>2, <1>5, <2>1, <2>2 DEF Runtime!AskFails, Runtime!Goes
  <2>5. CASE n < Runtime!MaxTurns
    <3>1. PICK r : r = [y EXCEPT !.turn = n]
      OBVIOUS
    <3>2. r \in Request /\ r.at = "ask" /\ r.id = z.id /\ r.wm = z.wm /\ r.adds = z.adds
      BY <2>3, <3>1 DEF Request, Places
    <3>3. run' = [run EXCEPT ![t] = r]
      BY <2>1, <2>3, <2>4, <2>5, <3>1 DEF Runtime!NextTurn
    <3>4. Fits(r, objects, session)
      BY <1>1, <1>2, <3>2, UnderWay DEF Fits, Adding
    <3>5. t \notin beside => Story(r, objects)
      BY <1>1, <1>2, <3>2, UnderWay DEF Story
    <3>6. r.id <= runs /\ \A i \in DOMAIN r.adds : r.adds[i].of <= runs
      BY <1>1, <1>2, <3>2, UnderWay
    <3> QED
      BY <1>1, <3>2, <3>3, <3>4, <3>5, <3>6, UnderWay, RequestSteps
  <2>6. CASE ~(n < Runtime!MaxTurns)
    <3>1. PICK r : r = [y EXCEPT !.at = "append", !.then = "report", !.adds = a]
      OBVIOUS
    <3>2. r \in Request /\ r.at = "append" /\ r.id = z.id /\ r.wm = z.wm /\ r.adds = a /\ r.then = "report"
      BY <2>3, <3>1 DEF Request, Places
    <3>3. run' = [run EXCEPT ![t] = r]
      BY <1>3, <2>1, <2>3, <2>4, <2>6, <3>1 DEF Runtime!NextTurn
    <3> QED
      BY <1>1, <1>2, <1>3, <3>2, <3>3, AsksOn
  <2> QED
    BY <2>5, <2>6
<1> QED
  BY <1>4, <1>5

LEMMA AskToolsKeeps ==
  ASSUME RuntimeInv, NEW t \in PanelThreads, Runtime!AskTools(t)
  PROVE  RuntimeInv'
<1>1. run[t].at = "ask" /\ UNCHANGED <<objects, session, runs, beside>>
  BY DEF Runtime!AskTools, Runtime!At
<1>2. PICK z \in Request : z = run[t]
  BY <1>1, UnderWay
<1>3. PICK m \in Msg : m = Runtime!Message("assistant", z.id, 1) /\ m.of = z.id /\ m.role = "assistant"
  BY <1>1, <1>2, UnderWay, OneMessage
<1>4. PICK k \in Msg : k = Runtime!Message("tool", z.id, 0) /\ k.of = z.id /\ k.role = "tool"
  BY <1>1, <1>2, UnderWay, OneMessage
<1>5. \/ run' = [run EXCEPT ![t] = [[z EXCEPT !.at = "append", !.adds = <<m, k>>, !.then = "ask"] EXCEPT !.turn = @ + 1]]
      \/ run' = [run EXCEPT ![t] = [[z EXCEPT !.at = "append", !.adds = <<m, k>> \o <<m>>, !.then = "report"]
                                     EXCEPT !.answered = TRUE]]
  BY <1>2, <1>3, <1>4 DEF Runtime!AskTools, Runtime!Goes, Runtime!Adds
<1>6. CASE run' = [run EXCEPT ![t] = [[z EXCEPT !.at = "append", !.adds = <<m, k>>, !.then = "ask"] EXCEPT !.turn = @ + 1]]
  <2>1. PICK a : a = <<m, k>>
    OBVIOUS
  <2>2. a \in Seq(Msg) /\ a # <<>> /\ Len(a) = 2 /\ a[1] = m /\ a[2] = k /\ DOMAIN a = 1..2
    BY <2>1
  <2>3. \A i \in DOMAIN a : a[i].of = z.id
    BY <1>3, <1>4, <2>2
  <2>4. PICK y : y = [z EXCEPT !.at = "append", !.adds = a, !.then = "ask"]
    OBVIOUS
  <2>5. y \in Request /\ y.at = "append" /\ y.id = z.id /\ y.wm = z.wm /\ y.adds = a /\ y.then = "ask"
    BY <2>2, <2>4 DEF Request, Places
  <2>6. PICK n \in Nat : n = y.turn + 1
    BY <2>5 DEF Request
  <2>7. PICK r : r = [y EXCEPT !.turn = n]
    OBVIOUS
  <2>8. r \in Request /\ r.at = "append" /\ r.id = z.id /\ r.wm = z.wm /\ r.adds = a /\ r.then = "ask"
    BY <2>5, <2>7 DEF Request, Places
  <2>9. run' = [run EXCEPT ![t] = r]
    BY <1>6, <2>1, <2>4, <2>7, <2>6
  <2>10. Is(r.adds[1], r.id, "assistant") /\ Is(r.adds[2], r.id, "tool")
    BY <1>3, <1>4, <2>2, <2>8 DEF Is
  <2> QED
    BY <1>1, <1>2, <2>2, <2>3, <2>8, <2>9, <2>10, AsksOn
<1>7. CASE run' = [run EXCEPT ![t] = [[z EXCEPT !.at = "append", !.adds = <<m, k>> \o <<m>>, !.then = "report"]
                                       EXCEPT !.answered = TRUE]]
  <2>1. PICK a : a = <<m, k>> \o <<m>>
    OBVIOUS
  <2>2. <<m, k>> \in Seq(Msg) /\ <<m>> \in Seq(Msg) /\ Len(<<m, k>>) = 2 /\ Len(<<m>>) = 1
    OBVIOUS
  <2>3. a \in Seq(Msg) /\ Len(a) = 3 /\ \A i \in DOMAIN a : a[i] = m \/ a[i] = k
    BY <2>1, <2>2
  <2>4. a # <<>> /\ \A i \in DOMAIN a : a[i].of = z.id
    <3>1. a # <<>>
      BY <2>3, NotNothing
    <3> QED
      BY <1>3, <1>4, <2>3, <3>1, Zenon
  <2>5. PICK y : y = [z EXCEPT !.at = "append", !.adds = a, !.then = "report"]
    OBVIOUS
  <2>6. y \in Request /\ y.at = "append" /\ y.id = z.id /\ y.wm = z.wm /\ y.adds = a /\ y.then = "report"
    BY <2>3, <2>5 DEF Request, Places
  <2>7. PICK r : r = [y EXCEPT !.answered = TRUE]
    OBVIOUS
  <2>8. r \in Request /\ r.at = "append" /\ r.id = z.id /\ r.wm = z.wm /\ r.adds = a /\ r.then = "report"
    BY <2>6, <2>7 DEF Request, Places
  <2>9. run' = [run EXCEPT ![t] = r]
    BY <1>7, <2>1, <2>5, <2>7
  <2> QED
    BY <1>1, <1>2, <2>4, <2>8, <2>9, AsksOn
<1> QED
  BY <1>5, <1>6, <1>7

\* A request that ends, with a result or without one.
LEMMA EndKeeps ==
  ASSUME RuntimeInv, NEW t \in PanelThreads, run[t].at # "idle", run' = [run EXCEPT ![t] = Runtime!Rest],
         UNCHANGED <<objects, session, runs, beside>>
  PROVE  RuntimeInv'
<1>1. PICK r \in Request : r = Runtime!Rest /\ r.id = 0 /\ r.adds = <<>>
  BY RestIs
<1>2. Fits(r, objects, session) /\ Story(r, objects)
  BY <1>1, RestFits
<1>3. r.id <= runs /\ \A i \in DOMAIN r.adds : r.adds[i].of <= runs
  BY <1>1, UnderWay
<1>4. run' = [run EXCEPT ![t] = r]
  BY <1>1
<1> QED
  BY <1>2, <1>3, <1>4, UnderWay, RequestSteps

LEMMA DeniedKeeps ==
  ASSUME RuntimeInv, Runtime!Denied
  PROVE  RuntimeInv'
<1>1. runs' = runs + 1 /\ UNCHANGED <<objects, session, run, beside>>
  BY DEF Runtime!Denied
<1>2. runs \in Nat /\ objects \in Seq(Seq(Msg)) /\ run \in [PanelThreads -> Request]
  BY DEF RuntimeInv, RuntimeTyped
<1>3. OfRequests'
  <2>1. \A o \in DOMAIN objects : \A i \in DOMAIN objects[o] : objects[o][i].of \in Nat
    BY <1>2, MsgIs
  <2>2. Remembered(objects, runs + 1)
    BY <1>2, <2>1 DEF RuntimeInv, OfRequests, Remembered
  <2>3. ASSUME NEW t \in PanelThreads
        PROVE  run[t].id <= runs + 1 /\ \A i \in DOMAIN run[t].adds : run[t].adds[i].of <= runs + 1
    <3>1. run[t].id \in Nat /\ run[t].adds \in Seq(Msg)
      BY <1>2 DEF Request
    <3>2. \A i \in DOMAIN run[t].adds : run[t].adds[i].of \in Nat
      BY <3>1, MsgIs
    <3>3. run[t].id <= runs /\ \A i \in DOMAIN run[t].adds : run[t].adds[i].of <= runs
      BY DEF RuntimeInv, OfRequests
    <3> QED
      BY <1>2, <3>1, <3>2, <3>3
  <2> QED
    BY <1>1, <2>2, <2>3 DEF OfRequests
<1> QED
  BY <1>1, <1>2, <1>3 DEF RuntimeInv, RuntimeTyped, OnlyOne

LEMMA RunKeeps ==
  ASSUME RuntimeInv, NEW t \in PanelThreads, Runtime!RunStep(t)
  PROVE  RuntimeInv'
<1>1. CASE Runtime!Start(t)
  BY <1>1, BeginKeeps
<1>2. CASE Runtime!LookUp(t)
  BY <1>2, LookUpKeeps
<1>3. CASE Runtime!Create(t)
  BY <1>3, CreateKeeps
<1>4. CASE Runtime!Fetch(t)
  BY <1>4, FetchKeeps
<1>5. CASE Runtime!AddMessage(t)
  BY <1>5, AddMessageKeeps
<1>6. CASE Runtime!Measure(t)
  BY <1>6, MeasureKeeps
<1>7. CASE Runtime!Slice(t)
  BY <1>7, SliceKeeps
<1>8. CASE Runtime!Summarise(t)
  BY <1>8, SummariseKeeps
<1>9. CASE Runtime!AskFails(t)
  BY <1>9, AskFailsKeeps
<1>10. CASE Runtime!AskAnswers(t)
  BY <1>10, AskAnswersKeeps
<1>11. CASE Runtime!AskTools(t)
  BY <1>11, AskToolsKeeps
<1>12. CASE Runtime!AskRaises(t)
  BY <1>12, EndKeeps DEF Runtime!AskRaises, Runtime!At, Runtime!Goes
<1>13. CASE Runtime!Report(t)
  BY <1>13, EndKeeps DEF Runtime!Report, Runtime!At, Runtime!Goes
<1> QED
  BY <1>1, <1>2, <1>3, <1>4, <1>5, <1>6, <1>7, <1>8, <1>9, <1>10, <1>11, <1>12, <1>13 DEF Runtime!RunStep

LEMMA RuntimeStarts == Init => RuntimeInv
<1> SUFFICES ASSUME Init PROVE RuntimeInv
  OBVIOUS
<1>1. /\ objects \in {<<h>> : h \in Histories} /\ session = IF objects = <<<<>>>> THEN 0 ELSE 1
      /\ runs = 0 /\ beside = {} /\ run = [t \in PanelThreads |-> Runtime!Rest]
  BY DEF Init, Runtime!RuntimeInit
<1>2. PICK h \in Histories : objects = <<h>>
  BY <1>1
<1>3. h \in Seq(Msg) /\ \A i \in DOMAIN h : h[i].of = 0
  <2>1. PICK old : old = [role : {"user", "assistant", "tool", "system"}, of : {0}, tokens : Nat]
    OBVIOUS
  <2>2. \A m \in old : m \in Msg /\ m.of = 0
    BY <2>1 DEF Msg
  <2>3. h \in Seq(old)
    BY <2>1, HistoriesAreOld
  <2>4. Len(h) \in Nat /\ DOMAIN h = 1..Len(h) /\ \A i \in DOMAIN h : h[i] \in old
    BY <2>3
  <2> QED
    BY <2>2, <2>3, <2>4
<1>4. objects \in Seq(Seq(Msg)) /\ Len(objects) = 1 /\ DOMAIN objects = {1} /\ objects[1] = h
  BY <1>2, <1>3
<1>5. \A t \in PanelThreads : run[t] \in Request /\ run[t] = Runtime!Rest /\ run[t].id = 0 /\ run[t].adds = <<>>
  BY <1>1, RestIs
<1>6. run \in [PanelThreads -> Request]
  BY <1>1, <1>5
<1>7. session \in 0..1
  BY <1>1
<1>8. OfRequests
  BY <1>1, <1>3, <1>4, <1>5 DEF OfRequests, Remembered
<1>9. OnlyOne
  BY <1>5, RestIs DEF OnlyOne
<1>10. \A t \in PanelThreads : Fits(run[t], objects, session) /\ Story(run[t], objects)
  BY <1>5, RestFits
<1> QED
  BY <1>1, <1>4, <1>6, <1>7, <1>8, <1>9, <1>10 DEF RuntimeInv, RuntimeTyped

LEMMA RuntimeKeeps == RuntimeInv /\ [Next]_vars => RuntimeInv'
<1> SUFFICES ASSUME RuntimeInv, [Next]_vars PROVE RuntimeInv'
  OBVIOUS
<1>1. CASE UNCHANGED runtimeVars
  BY <1>1 DEF RuntimeInv, RuntimeTyped, OfRequests, OnlyOne, runtimeVars
<1>2. CASE Runtime!Denied
  BY <1>2, DeniedKeeps
<1>3. ASSUME NEW t \in PanelThreads, Runtime!RunStep(t) PROVE RuntimeInv'
  BY <1>3, RunKeeps
<1> QED
  BY <1>1, <1>2, <1>3 DEF Next, vars, Runtime!RuntimeNext

LEMMA LastTwenty ==
  ASSUME NEW n \in Nat, n >= 1, NEW f, f = IF n > 20 THEN n - 19 ELSE 1
  PROVE  f \in Nat /\ n - f + 1 \in Nat /\ f >= 1 /\ f <= n /\ n - f + 1 >= 1 /\ (n >= 2 => n - f + 1 >= 2)
<1>1. CASE n > 20
  BY <1>1
<1>2. CASE ~(n > 20)
  BY <1>2
<1> QED
  BY <1>1, <1>2

\* What the model is asked with ends as the memory does.
LEMMA PromptEnds ==
  ASSUME NEW ms \in Seq(Msg), Len(ms) >= 1, NEW p, p = Runtime!Prompt(ms)
  PROVE  /\ Len(p) \in Nat /\ Len(p) >= 1 /\ DOMAIN p = 1..Len(p) /\ p[Len(p)] = ms[Len(ms)]
         /\ Len(ms) >= 2 => Len(p) >= 2 /\ p[Len(p) - 1] = ms[Len(ms) - 1]
<1>1. PICK n \in Nat : n = Len(ms)
  OBVIOUS
<1>2. PICK f : f = IF n > 20 THEN n - 19 ELSE 1
  OBVIOUS
<1>3. PICK l : l = n - f + 1
  OBVIOUS
<1>4. f \in Nat /\ l \in Nat /\ f >= 1 /\ f <= n /\ l >= 1 /\ (n >= 2 => l >= 2)
  BY <1>1, <1>2, <1>3, LastTwenty, Zenon
<1>5. p = SubSeq(ms, f, n)
  BY <1>1, <1>2 DEF Runtime!Prompt
<1>6. Len(p) = l /\ DOMAIN p = 1..l /\ \A i \in 1..l : p[i] = ms[f + i - 1]
  BY <1>1, <1>3, <1>4, <1>5
<1>7. l \in 1..l /\ f + l - 1 = n
  BY <1>3, <1>4
<1>8. n >= 2 => l - 1 \in 1..l /\ f + (l - 1) - 1 = n - 1
  BY <1>3, <1>4
<1>9. p[l] = ms[n]
  BY <1>6, <1>7, Zenon
<1>10. n >= 2 => p[l - 1] = ms[n - 1]
  BY <1>6, <1>8, Zenon
<1> QED
  BY <1>1, <1>4, <1>6, <1>9, <1>10

LEMMA RuntimeShows == RuntimeInv => Runtime!AsksItsOwn
<1> SUFFICES ASSUME RuntimeInv, NEW t \in PanelThreads, run[t].at = "ask", t \notin beside,
                    NEW ms, ms = Runtime!Memory(t), NEW p, p = Runtime!Prompt(ms)
             PROVE  IF Runtime!Own(t, "tool", ms) THEN Runtime!Own(t, "assistant", p)
                    ELSE Runtime!Own(t, "user", p) /\ Runtime!Last(p).of = run[t].id
  BY DEF Runtime!AsksItsOwn, Runtime!At
<1>1. ms \in Seq(Msg) /\ ms = objects[run[t].wm]
  BY InMemory
<1>2. Asking(ms, run[t].id) \/ Told(ms, run[t].id)
  BY <1>1, UnderWay DEF Story
<1>3. Len(ms) \in Nat /\ DOMAIN ms = 1..Len(ms)
  BY <1>1
<1>4. CASE Asking(ms, run[t].id)
  <2>1. Len(ms) >= 1 /\ Is(ms[Len(ms)], run[t].id, "user") /\ ~Runtime!Own(t, "tool", ms)
    BY <1>4 DEF Asking, Is, Runtime!Own
  <2>2. Len(p) \in DOMAIN p /\ p[Len(p)] = ms[Len(ms)]
    BY <1>1, <2>1, PromptEnds
  <2>3. Runtime!Own(t, "user", p) /\ p[Len(p)].of = run[t].id
    BY <2>1, <2>2 DEF Is, Runtime!Own
  <2> QED
    BY <2>1, <2>3 DEF Runtime!Last
<1>5. CASE Told(ms, run[t].id)
  <2>1. /\ Len(ms) >= 2 /\ Len(ms) >= 1 /\ Is(ms[Len(ms) - 1], run[t].id, "assistant")
        /\ Is(ms[Len(ms)], run[t].id, "tool")
    BY <1>3, <1>5 DEF Told
  <2>2. Runtime!Own(t, "tool", ms)
    <3>1. Len(ms) \in DOMAIN ms
      BY <1>3, <2>1
    <3> QED
      BY <2>1, <3>1 DEF Is, Runtime!Own
  <2>3. Len(p) - 1 \in DOMAIN p /\ p[Len(p) - 1] = ms[Len(ms) - 1]
    BY <1>1, <2>1, PromptEnds
  <2>4. Runtime!Own(t, "assistant", p)
    BY <2>1, <2>3 DEF Is, Runtime!Own
  <2> QED
    BY <2>2, <2>4
<1> QED
  BY <1>2, <1>4, <1>5

\* A request that no other of its session has overlapped asks the model with its own question,
\* and after tools with their results and the text before them, for any number of threads,
\* messages of any length and any memory the session had before.
THEOREM RequestsAskTheirOwn == Spec => []AsksItsOwn
<1>1. Spec => []RuntimeInv
  BY RuntimeStarts, RuntimeKeeps, PTL DEF Spec
<1> QED
  BY <1>1, RuntimeShows, PTL DEF AsksItsOwn

-----------------------------------------------------------------------------
(* LegacyPool.  A key of a device that counts as working has passed a      *)
(* test, in every pool, file and copy; as long as requests follow one      *)
(* another, the pool and, between two writes, the file know of every key   *)
(* whose test has failed.                                                  *)

KeyStates == [status : {"working", "unknown", "failed"}, used : Nat]
Documents == UNION {[S -> KeyStates] : S \in SUBSET Legacy!Codes}
Saves == {"save", "emptied", "overtaken"}
Asks == [at : {"idle", "pool", "make", "fetch", "pick", "test", "count", "send"} \cup Saves,
         kind : {"none", "dispatch", "summary"}, obj : Nat, code : Legacy!Codes \cup {""},
         doc : Documents, then : {"idle", "count", "send"}, tries : {0, 1}]

OfDonor(c) == c \in Legacy!Range(Donors)
Good(c, p) == OfDonor(c) => c \in p
Tried(f, p) == \A c \in DOMAIN f : f[c].status = "working" => Good(c, p)
\* What a request that saves says of its key.
Refuses(r, ps) == IF r.at = "save" THEN ps[r.obj][r.code].status = "failed"
                  ELSE r.doc[r.code].status = "failed"

\* Where a request is, in the pools ps with sg as the shared one, after the tests passed in p.
Placed(r, ps, sg) ==
  /\ r.at = "fetch" => sg # 0
  /\ r.at \in {"pick", "test", "count"} \cup Saves => r.obj \in 1..Len(ps)
  /\ r.at \in {"test", "count"} \cup Saves => r.code \in DOMAIN ps[r.obj]
  /\ r.at \in {"pool", "make", "fetch", "pick"} => r.code = ""
  /\ r.at \in Saves => r.then \in {"count", "send"}
  /\ r.at \in {"emptied", "overtaken"} => r.code \in DOMAIN r.doc
Tested(r, ps, p) ==
  /\ r.at \in {"emptied", "overtaken"} => Tried(r.doc, p)
  /\ r.at \in {"count", "send"} => Good(r.code, p)
  /\ r.at \in Saves => Good(r.code, p) \/ (r.then = "send" /\ Refuses(r, ps))

\* One request at a time: what the one under way knows of the dead keys de.
Knows(f, de) == \A c \in de : c \in DOMAIN f /\ f[c].status = "failed"
Follows(r, ps, sg, de) ==
  /\ r.at # "overtaken"
  /\ r.at = "emptied" => Knows(r.doc, de)
  /\ r.at \in {"pick", "test", "count"} \cup Saves => r.obj = sg
  /\ r.at = "make" => sg = 0
  /\ r.at \in {"test", "count", "send"} => r.code \notin de
  /\ r.at \in Saves => r.code \notin de \/ (r.then = "send" /\ Refuses(r, ps))

LegacyTyped == /\ env \in Envs /\ given \subseteq Legacy!Codes /\ cache \in Documents
               /\ pools \in Seq(Documents) /\ single \in 0..Len(pools)
               /\ ask \in [LlmThreads -> Asks] /\ dead \subseteq given
TestedInv == /\ Tried(cache, passed) /\ \A i \in 1..Len(pools) : Tried(pools[i], passed)
             /\ \A t \in LlmThreads : Placed(ask[t], pools, single) /\ Tested(ask[t], pools, passed)
AloneInv == /\ \A t, u \in LlmThreads : ask[t].at = "idle" \/ ask[u].at = "idle" \/ t = u
            /\ single # 0 => Knows(pools[single], dead)
            /\ (\A t \in LlmThreads : ask[t].at \notin Saves) => Knows(cache, dead)
            /\ \A t \in LlmThreads : Follows(ask[t], pools, single, dead)
LegacyInv == LegacyTyped /\ TestedInv /\ (apart => AloneInv)

LEMMA DocumentIs ==
  ASSUME NEW f \in Documents
  PROVE  /\ DOMAIN f \subseteq Legacy!Codes
         /\ \A c \in DOMAIN f : f[c] \in KeyStates
         /\ \A c \in DOMAIN f : \A k \in KeyStates : [f EXCEPT ![c] = k] \in Documents
  BY DEF Documents

LEMMA EmptyDocument == <<>> \in Documents /\ DOMAIN <<>> = {}
<1>1. <<>> \in [{} -> KeyStates]
  OBVIOUS
<1> QED
  BY <1>1 DEF Documents

\* Both parts of a sequence put together.
LEMMA Joined ==
  ASSUME NEW S, NEW a \in Seq(S), NEW b \in Seq(S)
  PROVE  /\ a \o b \in Seq(S) /\ Len(a \o b) = Len(a) + Len(b)
         /\ \A i \in 1..Len(a) : (a \o b)[i] = a[i]
         /\ \A i \in 1..Len(b) : (a \o b)[Len(a) + i] = b[i]
  OBVIOUS

\* The order of the list tells any codes of a pool apart, so one of them is the first.
LEMMA FirstIs ==
  ASSUME NEW S \in SUBSET Legacy!Codes, S # {} PROVE Legacy!First(S) \in S
<1> DEFINE order == Instances \o Donors
<1>1. \A c \in Legacy!Codes : \E i \in DOMAIN order : order[i] = c
  <2> SUFFICES ASSUME NEW c \in Legacy!Codes PROVE \E i \in DOMAIN order : order[i] = c
    OBVIOUS
  <2>1. Instances \in Seq(STRING) /\ Donors \in Seq(STRING)
    BY CodesAreApart
  <2>2. /\ DOMAIN Instances = 1..Len(Instances) /\ DOMAIN Donors = 1..Len(Donors)
        /\ Len(Instances) \in Nat /\ Len(Donors) \in Nat
    BY <2>1
  <2>3. /\ order \in Seq(STRING) /\ Len(order) = Len(Instances) + Len(Donors)
        /\ \A i \in 1..Len(Instances) : order[i] = Instances[i]
        /\ \A i \in 1..Len(Donors) : order[Len(Instances) + i] = Donors[i]
    BY <2>1, Joined
  <2>4. DOMAIN order = 1..Len(order)
    BY <2>3
  <2> HIDE DEF order
  <2>5. CASE c \in Legacy!Range(Instances)
    <3>1. PICK i \in 1..Len(Instances) : Instances[i] = c
      BY <2>2, <2>5 DEF Legacy!Range
    <3>2. i \in 1..Len(order)
      BY <2>2, <2>3
    <3> QED BY <2>3, <2>4, <3>1, <3>2
  <2>6. CASE c \in Legacy!Range(Donors)
    <3>1. PICK i \in 1..Len(Donors) : Donors[i] = c
      BY <2>2, <2>6 DEF Legacy!Range
    <3>2. Len(Instances) + i \in 1..Len(order)
      BY <2>2, <2>3
    <3> QED BY <2>3, <2>4, <3>1, <3>2
  <2> QED
    BY <2>5, <2>6 DEF Legacy!Codes
<1>0. \A c \in Legacy!Codes : Legacy!Place(c) \in Nat
  <2>1. DOMAIN order \subseteq Nat
    <3>1. order \in Seq(STRING)
      BY CodesAreApart, Joined
    <3> QED BY <3>1
  <2>2. \A c \in Legacy!Codes : Legacy!Place(c) \in DOMAIN order
    BY <1>1 DEF Legacy!Place
  <2> QED BY <2>1, <2>2
<1> DEFINE place == [c \in Legacy!Codes |-> Legacy!Place(c)]
<1>2. place \in [Legacy!Codes -> Nat]
  BY <1>0
<1>3. PICK c \in S : \A d \in S : place[c] <= place[d]
  <2> HIDE DEF place
  <2> QED BY <1>2, LeastImage
<1>4. \A d \in S : Legacy!Place(c) <= Legacy!Place(d)
  BY <1>3
<1> QED
  BY <1>4 DEF Legacy!First

LEMMA ChoiceIs ==
  ASSUME NEW t, Legacy!Keys(t) \in Documents, Legacy!With(t, "working") # {}
  PROVE  Legacy!Choice(t) \in Legacy!With(t, "working")
<1> DEFINE f == Legacy!Keys(t)
<1>1. ASSUME NEW S \in SUBSET DOMAIN f, S # {} PROVE Legacy!LeastUsed(t, S) \in S
  <2> DEFINE used == [c \in DOMAIN f |-> f[c].used]
  <2>1. used \in [DOMAIN f -> Nat] /\ DOMAIN f \subseteq Legacy!Codes
    BY DocumentIs DEF KeyStates
  <2>2. PICK c \in S : \A d \in S : used[c] <= used[d]
    <3> HIDE DEF used
    <3> QED BY <1>1, <2>1, LeastImage
  <2> DEFINE least == {e \in S : \A d \in S : f[e].used <= f[d].used}
  <2>3. c \in least /\ least \subseteq S /\ least \subseteq Legacy!Codes
    BY <1>1, <2>1, <2>2
  <2>4. Legacy!LeastUsed(t, S) = Legacy!First(least)
    BY DEF Legacy!LeastUsed
  <2> HIDE DEF least
  <2> QED
    BY <2>3, <2>4, FirstIs
<1>2. Legacy!With(t, "working") \subseteq DOMAIN f
  BY DEF Legacy!With
<1> QED
  BY <1>1, <1>2 DEF Legacy!Choice

\* The fields of a request, which an update of some of them leaves or changes.
LEMMA AskIs ==
  ASSUME NEW r \in Asks
  PROVE  /\ r = [at |-> r.at, kind |-> r.kind, obj |-> r.obj, code |-> r.code, doc |-> r.doc,
                 then |-> r.then, tries |-> r.tries]
         /\ r.at \in {"idle", "pool", "make", "fetch", "pick", "test", "count", "send"} \cup Saves
         /\ r.kind \in {"none", "dispatch", "summary"} /\ r.obj \in Nat
         /\ r.code \in Legacy!Codes \cup {""} /\ r.doc \in Documents
         /\ r.then \in {"idle", "count", "send"} /\ r.tries \in {0, 1}
  BY DEF Asks

LEMMA IdleIs ==
  /\ Legacy!Idle \in Asks /\ Legacy!Idle.at = "idle" /\ Legacy!Idle.code = "" /\ Legacy!Idle.doc = <<>>
  /\ Legacy!Idle = [at |-> "idle", kind |-> "none", obj |-> 0, code |-> "", doc |-> <<>>,
                    then |-> "idle", tries |-> 0]
  BY EmptyDocument DEF Legacy!Idle, Legacy!None, Legacy!NoCache, Asks

\* No code is a name for none.
LEMMA NoneIsGood == ~OfDonor("") /\ "" \notin Legacy!Codes
  BY CodesAreApart DEF OfDonor, Legacy!Codes

LEMMA PoolsAre ==
  ASSUME LegacyTyped
  PROVE  Len(pools) \in Nat /\ \A i \in 1..Len(pools) : pools[i] \in Documents /\ i # 0
<1>1. pools \in Seq(Documents)
  BY DEF LegacyTyped
<1>2. PICK n \in Nat : n = Len(pools)
  BY <1>1
<1>3. \A i \in 1..n : i # 0
  OBVIOUS
<1> QED BY <1>1, <1>2, <1>3

\* Pools grow, and a failed key works again only after a test.
PoolsGrow ==
  /\ pools' \in Seq(Documents) /\ Len(pools) <= Len(pools')
  /\ single' \in 0..Len(pools') /\ (single # 0 => single' # 0)
  /\ passed \subseteq passed'
  /\ \A i \in 1..Len(pools) : /\ DOMAIN pools[i] \subseteq DOMAIN pools'[i]
                              /\ \A c \in DOMAIN pools[i] : pools[i][c].status = "failed" =>
                                   pools'[i][c].status = "failed" \/ Good(c, passed')

LEMMA AskStays ==
  ASSUME LegacyTyped, PoolsGrow, NEW r \in Asks, Placed(r, pools, single), Tested(r, pools, passed)
  PROVE  Placed(r, pools', single') /\ Tested(r, pools', passed')
<1>1. Len(pools) \in Nat /\ Len(pools') \in Nat /\ Len(pools) <= Len(pools')
  BY DEF LegacyTyped, PoolsGrow
<1>2. \A i \in 1..Len(pools) : i \in 1..Len(pools') /\ DOMAIN pools[i] \subseteq DOMAIN pools'[i]
  BY <1>1 DEF PoolsGrow
<1>3. Placed(r, pools', single')
  BY <1>2 DEF Placed, PoolsGrow, Saves
<1>4. \A c : Good(c, passed) => Good(c, passed')
  BY DEF Good, PoolsGrow
<1>5. r.at = "save" /\ Refuses(r, pools) => Refuses(r, pools') \/ Good(r.code, passed')
  BY DEF Refuses, Placed, PoolsGrow, Saves
<1>6. r.at # "save" /\ Refuses(r, pools) => Refuses(r, pools')
  BY DEF Refuses
<1>7. Tested(r, pools', passed')
  BY <1>4, <1>5, <1>6 DEF Tested, Tried, Saves
<1> QED
  BY <1>3, <1>7

\* A step of one request.
LEMMA OneRequestMoves ==
  ASSUME LegacyTyped, TestedInv, PoolsGrow, NEW t \in LlmThreads, NEW r \in Asks, ask' = [ask EXCEPT ![t] = r],
         Tried(cache', passed'), \A i \in 1..Len(pools') : Tried(pools'[i], passed'),
         Placed(r, pools', single'), Tested(r, pools', passed')
  PROVE  TestedInv' /\ ask' \in [LlmThreads -> Asks]
<1>1. ask \in [LlmThreads -> Asks]
  BY DEF LegacyTyped
<1>2. \A u \in LlmThreads : ask'[u] = IF u = t THEN r ELSE ask[u]
  BY <1>1
<1>3. \A u \in LlmThreads : Placed(ask'[u], pools', single') /\ Tested(ask'[u], pools', passed')
  <2> SUFFICES ASSUME NEW u \in LlmThreads
               PROVE  Placed(ask'[u], pools', single') /\ Tested(ask'[u], pools', passed')
    OBVIOUS
  <2>1. CASE u = t
    BY <1>2, <2>1
  <2>2. CASE u # t
    <3>1. ask'[u] = ask[u] /\ ask[u] \in Asks /\ Placed(ask[u], pools, single) /\ Tested(ask[u], pools, passed)
      BY <1>1, <1>2, <2>2 DEF TestedInv
    <3> QED BY <3>1, AskStays
  <2> QED BY <2>1, <2>2
<1> QED
  BY <1>1, <1>3 DEF TestedInv

LEMMA OneRequestMovesAlone ==
  ASSUME LegacyTyped, NEW t \in LlmThreads, NEW r \in Asks, ask' = [ask EXCEPT ![t] = r],
         \A u \in LlmThreads \ {t} : ask[u].at = "idle",
         Follows(r, pools', single', dead'),
         single' # 0 => Knows(pools'[single'], dead'),
         r.at \notin Saves => Knows(cache', dead')
  PROVE  AloneInv'
<1>1. \A u \in LlmThreads : ask'[u] = IF u = t THEN r ELSE ask[u]
  BY DEF LegacyTyped
<1>2. \A u \in LlmThreads : u = t \/ ask'[u].at = "idle"
  BY <1>1
<1>3. \A u \in LlmThreads : Follows(ask'[u], pools', single', dead')
  BY <1>1, <1>2 DEF Follows, Saves
<1> QED
  BY <1>1, <1>2, <1>3 DEF AloneInv

LEMMA OthersIdle ==
  ASSUME AloneInv, NEW t \in LlmThreads, ask[t].at # "idle"
  PROVE  \A u \in LlmThreads \ {t} : ask[u].at = "idle"
  BY DEF AloneInv

\* A request that looks at the pools, and changes nothing.
LEMMA PoolsStay == ASSUME LegacyTyped, UNCHANGED <<pools, single, passed>> PROVE PoolsGrow
  BY DEF LegacyTyped, PoolsGrow

LEMMA BeginKeepsKeys ==
  ASSUME LegacyInv, NEW t \in LlmThreads, NEW how \in {"dispatch", "summary"}, Legacy!Begin(t, how)
  PROVE  LegacyInv'
<1> DEFINE r == [Legacy!Idle EXCEPT !.at = IF Legacy!NeedsPool THEN "pool" ELSE "send", !.kind = how]
<1>1. /\ ask' = [ask EXCEPT ![t] = r] /\ UNCHANGED <<env, given, cache, pools, single, passed, dead>>
      /\ apart' => apart /\ \A u \in LlmThreads \ {t} : ask[u].at = "idle"
  BY DEF Legacy!Begin, Legacy!Goes, Legacy!At
<1>2. LegacyTyped /\ TestedInv /\ (apart => AloneInv)
  BY DEF LegacyInv
<1>3. r \in Asks /\ r.at \in {"pool", "send"} /\ r.code = ""
  BY IdleIs DEF Asks
<1> HIDE DEF r
<1>4. Placed(r, pools', single') /\ Tested(r, pools', passed')
  BY <1>3, NoneIsGood DEF Placed, Tested, Good, Saves
<1>5. TestedInv' /\ ask' \in [LlmThreads -> Asks]
  <2>1. Tried(cache', passed') /\ \A i \in 1..Len(pools') : Tried(pools'[i], passed')
    BY <1>1, <1>2 DEF TestedInv
  <2> QED BY <1>1, <1>2, <1>3, <1>4, <2>1, PoolsStay, OneRequestMoves
<1>6. apart' => AloneInv'
  <2> SUFFICES ASSUME apart' PROVE AloneInv'
    OBVIOUS
  <2>1. AloneInv /\ (\A u \in LlmThreads \ {t} : ask[u].at = "idle") /\ ask[t].at = "idle"
    BY <1>1, <1>2 DEF Legacy!Begin, Legacy!At
  <2>2. Knows(cache, dead)
    BY <2>1 DEF AloneInv, Saves
  <2>3. "" \notin dead
    BY <1>2, NoneIsGood DEF LegacyTyped
  <2>4. Follows(r, pools', single', dead')
    BY <1>1, <1>3, <2>3 DEF Follows, Saves
  <2>5. single' # 0 => Knows(pools'[single'], dead')
    BY <1>1, <2>1 DEF AloneInv
  <2> QED BY <1>1, <1>2, <1>3, <2>1, <2>2, <2>4, <2>5, OneRequestMovesAlone
<1> QED
  BY <1>1, <1>2, <1>5, <1>6 DEF LegacyInv, LegacyTyped

\* Requests that only look: into the variable of the pool, and into the pool.
LEMMA LookKeeps ==
  ASSUME LegacyInv, NEW t \in LlmThreads, NEW r \in Asks, ask' = [ask EXCEPT ![t] = r],
         UNCHANGED <<env, given, cache, pools, single, passed, dead, apart>>,
         ask[t].at # "idle", ask[t].at \notin Saves, r.at \notin {"emptied", "overtaken"},
         Placed(r, pools, single), Tested(r, pools, passed), AloneInv => Follows(r, pools, single, dead)
  PROVE  LegacyInv'
<1>1. LegacyTyped /\ TestedInv /\ (apart => AloneInv)
  BY DEF LegacyInv
<1>2. TestedInv' /\ ask' \in [LlmThreads -> Asks]
  <2>1. Tried(cache', passed') /\ \A i \in 1..Len(pools') : Tried(pools'[i], passed')
    BY <1>1 DEF TestedInv
  <2>2. Placed(r, pools', single') /\ Tested(r, pools', passed')
    OBVIOUS
  <2> QED BY <1>1, <2>1, <2>2, PoolsStay, OneRequestMoves
<1>3. apart' => AloneInv'
  <2> SUFFICES ASSUME AloneInv PROVE AloneInv'
    BY <1>1
  <2>1. \A u \in LlmThreads \ {t} : ask[u].at = "idle"
    BY OthersIdle
  <2>2. Knows(cache, dead)
    BY <2>1 DEF AloneInv, Saves
  <2>3. Follows(r, pools', single', dead') /\ (single' # 0 => Knows(pools'[single'], dead'))
    BY DEF AloneInv
  <2>4. Knows(cache', dead')
    BY <2>2
  <2> QED BY <1>1, <2>1, <2>3, <2>4, OneRequestMovesAlone
<1> QED
  BY <1>1, <1>2, <1>3 DEF LegacyInv, LegacyTyped

LEMMA GetKeeps ==
  ASSUME LegacyInv, NEW t \in LlmThreads, Legacy!GetPool(t) \/ Legacy!FetchPool(t)
  PROVE  LegacyInv'
<1>1. /\ ask[t] \in Asks /\ single \in 0..Len(pools) /\ Len(pools) \in Nat
      /\ Placed(ask[t], pools, single) /\ Tested(ask[t], pools, passed)
      /\ AloneInv => Follows(ask[t], pools, single, dead)
  BY DEF LegacyInv, LegacyTyped, TestedInv, AloneInv
<1>2. PICK where \in {"make", "pick"} : ask' = [ask EXCEPT ![t] = [ask[t] EXCEPT !.at = where, !.obj = single]]
  BY DEF Legacy!GetPool, Legacy!FetchPool, Legacy!Goes
<1> DEFINE r == [ask[t] EXCEPT !.at = where, !.obj = single]
<1>3. /\ r \in Asks /\ r.at = where /\ r.obj = single /\ r.code = ask[t].code
  <2>1. single \in Nat
    BY <1>1
  <2> QED BY <1>1, <1>2, <2>1, AskIs DEF Asks
<1>4. /\ UNCHANGED <<env, given, cache, pools, single, passed, dead, apart>>
      /\ ask[t].at \in {"pool", "fetch"} /\ ask' = [ask EXCEPT ![t] = r]
  BY <1>2 DEF Legacy!GetPool, Legacy!FetchPool, Legacy!At
<1>5. where = "make" <=> single = 0
  <2>1. CASE Legacy!GetPool(t)
    <3>1. ask'[t] = [ask[t] EXCEPT !.at = IF single = 0 THEN "make" ELSE "pick", !.obj = single]
      BY <2>1 DEF Legacy!GetPool, Legacy!Goes, LegacyInv, LegacyTyped
    <3>2. ask'[t] = r
      BY <1>4 DEF LegacyInv, LegacyTyped
    <3>3. ask'[t].at = IF single = 0 THEN "make" ELSE "pick"
      BY <1>1, <3>1, AskIs
    <3> QED BY <1>3, <3>2, <3>3
  <2>2. CASE Legacy!FetchPool(t)
    <3>1. ask'[t] = [ask[t] EXCEPT !.at = "pick", !.obj = single] /\ ask[t].at = "fetch"
      BY <2>2 DEF Legacy!FetchPool, Legacy!Goes, Legacy!At, LegacyInv, LegacyTyped
    <3>2. ask'[t] = r
      BY <1>4 DEF LegacyInv, LegacyTyped
    <3>3. ask'[t].at = "pick"
      BY <1>1, <3>1, AskIs
    <3> QED BY <1>1, <1>3, <3>1, <3>2, <3>3 DEF Placed
  <2> QED BY <2>1, <2>2
<1> HIDE DEF r
<1>6. ask[t].code = ""
  BY <1>1, <1>4 DEF Placed
<1>7. Placed(r, pools, single) /\ Tested(r, pools, passed)
  <2>1. r.at = "pick" => r.obj \in 1..Len(pools)
    BY <1>1, <1>2, <1>3, <1>5
  <2> QED BY <1>2, <1>3, <1>6, <2>1 DEF Placed, Tested, Saves
<1>8. Follows(r, pools, single, dead)
  BY <1>2, <1>3, <1>5 DEF Follows, Saves
<1>9. ask[t].at # "idle" /\ ask[t].at \notin Saves /\ r.at \notin {"emptied", "overtaken"}
  BY <1>2, <1>3, <1>4 DEF Saves
<1> QED
  BY <1>3, <1>4, <1>7, <1>8, <1>9, LookKeeps

LEMMA PickKeeps ==
  ASSUME LegacyInv, NEW t \in LlmThreads, Legacy!Pick(t)
  PROVE  LegacyInv'
<1>1. /\ ask[t] \in Asks /\ pools \in Seq(Documents) /\ ask[t].at = "pick"
      /\ Placed(ask[t], pools, single)
      /\ \A i \in 1..Len(pools) : Tried(pools[i], passed)
      /\ UNCHANGED <<env, given, cache, pools, single, passed, dead, apart>>
  BY DEF Legacy!Pick, Legacy!At, LegacyInv, LegacyTyped, TestedInv
<1>3. ask[t].obj \in 1..Len(pools) /\ ask[t].code = ""
  BY <1>1 DEF Placed
<1>2. PICK f \in Documents : f = Legacy!Keys(t) /\ f = pools[ask[t].obj] /\ Tried(f, passed)
  <2>1. pools[ask[t].obj] \in Documents
    BY <1>3, PoolsAre DEF LegacyInv
  <2> QED BY <1>1, <1>3, <2>1 DEF Legacy!Keys
<1>4. PICK where \in {"count", "test", "send"}, c \in Legacy!Codes \cup {""} :
        /\ ask' = [ask EXCEPT ![t] = [ask[t] EXCEPT !.at = where, !.code = c]]
        /\ where = "count" => c \in DOMAIN f /\ f[c].status = "working"
        /\ where = "test" => c \in DOMAIN f /\ f[c].status = "unknown"
        /\ where = "send" => c = ""
  <2>1. CASE Legacy!With(t, "working") # {}
    <3>1. Legacy!Choice(t) \in Legacy!With(t, "working")
      BY <1>2, <2>1, ChoiceIs
    <3>2. Legacy!Choice(t) \in DOMAIN f /\ f[Legacy!Choice(t)].status = "working"
      BY <1>2, <3>1 DEF Legacy!With
    <3>3. Legacy!Choice(t) \in Legacy!Codes
      BY <1>2, <3>2, DocumentIs
    <3>4. ask' = [ask EXCEPT ![t] = [ask[t] EXCEPT !.at = "count", !.code = Legacy!Choice(t)]]
      BY <2>1 DEF Legacy!Pick, Legacy!Goes
    <3> QED BY <3>2, <3>3, <3>4
  <2>2. CASE Legacy!With(t, "working") = {} /\ Legacy!With(t, "unknown") # {}
    <3> DEFINE c == Legacy!First(Legacy!With(t, "unknown"))
    <3>1. Legacy!With(t, "unknown") \subseteq Legacy!Codes
      BY <1>2, DocumentIs DEF Legacy!With
    <3>2. c \in Legacy!With(t, "unknown")
      BY <2>2, <3>1, FirstIs
    <3>3. c \in DOMAIN f /\ f[c].status = "unknown" /\ c \in Legacy!Codes
      BY <1>2, <3>1, <3>2 DEF Legacy!With
    <3>4. ask' = [ask EXCEPT ![t] = [ask[t] EXCEPT !.at = "test", !.code = c]]
      BY <2>2 DEF Legacy!Pick, Legacy!Goes
    <3> HIDE DEF c
    <3> QED BY <3>3, <3>4
  <2>3. CASE Legacy!With(t, "working") = {} /\ Legacy!With(t, "unknown") = {}
    <3>1. ask' = [ask EXCEPT ![t] = [ask[t] EXCEPT !.at = "send"]]
      BY <2>3 DEF Legacy!Pick, Legacy!Goes
    <3>2. [ask[t] EXCEPT !.at = "send"] = [ask[t] EXCEPT !.at = "send", !.code = ""]
      BY <1>1, <1>3, AskIs
    <3> QED BY <3>1, <3>2
  <2> QED BY <2>1, <2>2, <2>3
<1> DEFINE r == [ask[t] EXCEPT !.at = where, !.code = c]
<1>5. r \in Asks /\ r.at = where /\ r.code = c /\ r.obj = ask[t].obj
  BY <1>1, <1>4, AskIs DEF Asks
<1>6. ask' = [ask EXCEPT ![t] = r]
  BY <1>4
<1> HIDE DEF r
<1>7. Placed(r, pools, single)
  BY <1>2, <1>3, <1>4, <1>5 DEF Placed, Saves
<1>8. where # "test" => Good(c, passed)
  BY <1>2, <1>4, NoneIsGood DEF Tried, Good
<1>9. Tested(r, pools, passed)
  BY <1>4, <1>5, <1>8 DEF Tested, Saves
<1>10. AloneInv => Follows(r, pools, single, dead)
  <2> SUFFICES ASSUME AloneInv PROVE Follows(r, pools, single, dead)
    OBVIOUS
  <2>1. ask[t].obj = single
    BY <1>1 DEF AloneInv, Follows
  <2>2. single # 0
    <3>1. single \in 1..Len(pools)
      BY <1>3, <2>1
    <3> QED BY <3>1, PoolsAre DEF LegacyInv
  <2>3. Knows(f, dead)
    BY <1>2, <2>1, <2>2 DEF AloneInv
  <2>4. c \notin dead
    <3>1. dead \subseteq Legacy!Codes
      BY DEF LegacyInv, LegacyTyped
    <3> QED BY <1>4, <2>3, <3>1, NoneIsGood DEF Knows
  <2> QED BY <1>4, <1>5, <2>1, <2>4 DEF Follows, Saves
<1>11. ask[t].at # "idle" /\ ask[t].at \notin Saves /\ r.at \notin {"emptied", "overtaken"}
  BY <1>1, <1>4, <1>5 DEF Saves
<1> QED
  BY <1>1, <1>5, <1>6, <1>7, <1>9, <1>10, <1>11, LookKeeps

LEMMA SendKeepsKeys ==
  ASSUME LegacyInv, NEW t \in LlmThreads, Legacy!Send(t)
  PROVE  LegacyInv'
<1>1. /\ ask[t] \in Asks /\ ask[t].at = "send"
      /\ Placed(ask[t], pools, single) /\ Tested(ask[t], pools, passed)
      /\ AloneInv => Follows(ask[t], pools, single, dead)
      /\ UNCHANGED <<env, given, cache, pools, single, passed, dead, apart>>
  BY DEF Legacy!Send, Legacy!At, LegacyInv, LegacyTyped, TestedInv, AloneInv
<1>2. PICK r \in Asks : /\ ask' = [ask EXCEPT ![t] = r]
                        /\ r.at = "idle" \/ (r.at = "send" /\ r.code = ask[t].code)
  <2>1. CASE Legacy!Goes(t, Legacy!Idle)
    BY <2>1, IdleIs DEF Legacy!Goes
  <2>2. CASE Legacy!Goes(t, [ask[t] EXCEPT !.tries = 1])
    <3> DEFINE r == [ask[t] EXCEPT !.tries = 1]
    <3>1. r \in Asks /\ r.at = "send" /\ r.code = ask[t].code
      BY <1>1, AskIs DEF Asks
    <3>2. ask' = [ask EXCEPT ![t] = r]
      BY <2>2 DEF Legacy!Goes
    <3> HIDE DEF r
    <3> QED BY <3>1, <3>2
  <2> QED BY <2>1, <2>2 DEF Legacy!Send
<1>3. Placed(r, pools, single) /\ Tested(r, pools, passed)
  BY <1>1, <1>2 DEF Placed, Tested, Saves
<1>4. AloneInv => Follows(r, pools, single, dead)
  BY <1>1, <1>2 DEF Follows, Saves
<1>5. ask[t].at # "idle" /\ ask[t].at \notin Saves /\ r.at \notin {"emptied", "overtaken"}
  BY <1>1, <1>2 DEF Saves
<1> QED
  BY <1>1, <1>2, <1>3, <1>4, <1>5, LookKeeps

\* A pool that is made knows what the file knows.
LEMMA MakeKeeps ==
  ASSUME LegacyInv, NEW t \in LlmThreads, Legacy!MakePool(t)
  PROVE  LegacyInv'
<1>1. LegacyTyped /\ TestedInv /\ (apart => AloneInv)
  BY DEF LegacyInv
<1>2. /\ ask[t].at = "make" /\ pools' = Append(pools, Legacy!Loaded) /\ single' = Len(pools) + 1
      /\ ask' = [ask EXCEPT ![t] = [ask[t] EXCEPT !.at = "fetch"]]
      /\ UNCHANGED <<env, given, cache, passed, dead, apart>>
  BY DEF Legacy!MakePool, Legacy!At, Legacy!Goes
<1>3. PICK f : f = Legacy!Loaded
  OBVIOUS
<1>4. f \in Documents
  <2>1. \A c \in DOMAIN cache : cache[c] \in KeyStates
    BY <1>1, DocumentIs DEF LegacyTyped
  <2>2. \A c : Legacy!Fresh(c) \in KeyStates
    BY DEF Legacy!Fresh, KeyStates
  <2>3. f \in [given -> KeyStates] /\ given \in SUBSET Legacy!Codes
    BY <1>1, <1>3, <2>1, <2>2 DEF Legacy!Loaded, LegacyTyped
  <2> QED BY <2>3 DEF Documents
<1>5. Tried(f, passed)
  <2>1. \A c \in given : Legacy!Fresh(c).status = "working" => ~OfDonor(c)
    BY CodesAreApart DEF Legacy!Fresh, OfDonor, Legacy!Range
  <2>2. \A c \in given : c \in DOMAIN cache /\ cache[c].status = "working" => Good(c, passed)
    BY <1>1 DEF TestedInv, Tried
  <2>3. \A c \in DOMAIN f : c \in given /\ f[c] = IF c \in DOMAIN cache THEN cache[c] ELSE Legacy!Fresh(c)
    BY <1>3 DEF Legacy!Loaded
  <2> QED BY <2>1, <2>2, <2>3 DEF Tried, Good
<1>6. /\ pools' \in Seq(Documents) /\ Len(pools') = Len(pools) + 1 /\ Len(pools) \in Nat
      /\ \A i \in 1..Len(pools) : pools'[i] = pools[i]
      /\ pools'[Len(pools) + 1] = f
  BY <1>1, <1>2, <1>3, <1>4 DEF LegacyTyped
<1>7. PoolsGrow
  <2>1. single' \in 0..Len(pools') /\ single' # 0 /\ passed' = passed
    BY <1>2, <1>6
  <2> QED BY <1>6, <2>1 DEF PoolsGrow
<1>8. \A i \in 1..Len(pools') : Tried(pools'[i], passed')
  <2>1. \A i \in 1..Len(pools') : i \in 1..Len(pools) \/ i = Len(pools) + 1
    BY <1>6
  <2> QED BY <1>1, <1>2, <1>5, <1>6, <2>1 DEF TestedInv
<1> DEFINE r == [ask[t] EXCEPT !.at = "fetch"]
<1>9. r \in Asks /\ r.at = "fetch" /\ r.code = ask[t].code
  <2>1. ask[t] \in Asks
    BY <1>1 DEF LegacyTyped
  <2> QED BY <2>1, AskIs DEF Asks
<1>10. ask[t].code = ""
  BY <1>1, <1>2 DEF TestedInv, Placed
<1>11. ask' = [ask EXCEPT ![t] = r]
  BY <1>2
<1> HIDE DEF r
<1>12. Placed(r, pools', single') /\ Tested(r, pools', passed')
  <2>1. single' # 0
    BY <1>2, <1>6
  <2> QED BY <1>9, <1>10, <2>1 DEF Placed, Tested, Saves
<1>13. TestedInv' /\ ask' \in [LlmThreads -> Asks]
  <2>1. Tried(cache', passed')
    BY <1>1, <1>2 DEF TestedInv
  <2> QED BY <1>1, <1>7, <1>8, <1>9, <1>11, <1>12, <2>1, OneRequestMoves
<1>14. apart' => AloneInv'
  <2> SUFFICES ASSUME AloneInv PROVE AloneInv'
    BY <1>1, <1>2
  <2>1. \A u \in LlmThreads \ {t} : ask[u].at = "idle"
    BY <1>2, OthersIdle
  <2>2. Knows(cache, dead)
    BY <1>2, <2>1 DEF AloneInv, Saves
  <2>3. Knows(f, dead)
    <3>1. dead \subseteq given
      BY <1>1 DEF LegacyTyped
    <3> QED BY <1>3, <2>2, <3>1 DEF Knows, Legacy!Loaded
  <2>4. Knows(cache', dead') /\ Knows(pools'[single'], dead')
    BY <1>2, <1>6, <2>2, <2>3
  <2>5. Follows(r, pools', single', dead')
    BY <1>9 DEF Follows, Saves
  <2> QED BY <1>1, <1>9, <1>11, <2>1, <2>4, <2>5, OneRequestMovesAlone
<1>15. LegacyTyped'
  BY <1>1, <1>2, <1>7, <1>13 DEF LegacyTyped, PoolsGrow
<1> QED
  BY <1>13, <1>14, <1>15 DEF LegacyInv

\* What is written of a key, in the pool of its request.
LEMMA SetKeyIs ==
  ASSUME LegacyInv, NEW t \in LlmThreads, NEW key \in KeyStates, Legacy!SetKey(t, key),
         ask[t].at \in {"test", "count"}, single' = single, passed \subseteq passed',
         key.status = "working" => Good(ask[t].code, passed'),
         key.status # "failed" => \/ Good(ask[t].code, passed')
                                  \/ pools[ask[t].obj][ask[t].code].status # "failed"
  PROVE  /\ PoolsGrow /\ \A i \in 1..Len(pools') : Tried(pools'[i], passed')
         /\ Len(pools') = Len(pools) /\ ask[t].obj \in 1..Len(pools)
         /\ \A i \in 1..Len(pools) : i # ask[t].obj => pools'[i] = pools[i]
         /\ ask[t].code \in DOMAIN pools[ask[t].obj]
         /\ pools'[ask[t].obj] = [pools[ask[t].obj] EXCEPT ![ask[t].code] = key]
<1>1. LegacyTyped /\ TestedInv
  BY DEF LegacyInv
<1>2. PICK n \in Nat : n = Len(pools)
  BY <1>1, PoolsAre
<1>0. PICK c : c = ask[t].code
  OBVIOUS
<1>3. PICK o \in 1..n : o = ask[t].obj /\ c = ask[t].code /\ c \in DOMAIN pools[o]
  BY <1>0, <1>1, <1>2 DEF TestedInv, Placed
<1>4. PICK f \in Documents : f = pools[o] /\ Tried(f, passed) /\ c \in DOMAIN f
  BY <1>1, <1>2, <1>3, PoolsAre DEF TestedInv
<1>5. PICK g \in Documents : g = [f EXCEPT ![c] = key]
  BY <1>4, DocumentIs
<1>6. pools' = [pools EXCEPT ![o] = g]
  BY <1>3, <1>4, <1>5 DEF Legacy!SetKey
<1>7. /\ pools' \in Seq(Documents) /\ Len(pools') = n
      /\ \A i \in 1..n : pools'[i] = IF i = o THEN g ELSE pools[i]
  <2>1. pools \in Seq(Documents)
    BY <1>1 DEF LegacyTyped
  <2> QED BY <1>2, <1>6, <2>1
<1>8. DOMAIN g = DOMAIN f /\ \A d \in DOMAIN f : g[d] = IF d = c THEN key ELSE f[d]
  BY <1>4, <1>5
<1>9. Tried(g, passed')
  BY <1>3, <1>4, <1>8 DEF Tried, Good
<1>10. \A i \in 1..n : Tried(pools'[i], passed')
  <2>1. \A i \in 1..n : Tried(pools[i], passed')
    BY <1>1, <1>2 DEF TestedInv, Tried, Good
  <2> QED BY <1>7, <1>9, <2>1
<1>11. PoolsGrow
  <2>1. \A i \in 1..n : /\ DOMAIN pools[i] \subseteq DOMAIN pools'[i]
                        /\ \A d \in DOMAIN pools[i] : pools[i][d].status = "failed" =>
                             pools'[i][d].status = "failed" \/ Good(d, passed')
    BY <1>3, <1>4, <1>7, <1>8
  <2>2. single' \in 0..Len(pools')
    BY <1>1, <1>2, <1>7 DEF LegacyTyped
  <2> QED BY <1>2, <1>7, <2>1, <2>2 DEF PoolsGrow
<1> QED
  BY <1>2, <1>3, <1>4, <1>5, <1>7, <1>10, <1>11

LEMMA KeyStateIs ==
  ASSUME NEW k \in KeyStates
  PROVE  /\ k.used + 1 \in Nat
         /\ [k EXCEPT !.used = @ + 1] \in KeyStates /\ [k EXCEPT !.used = @ + 1].status = k.status
         /\ \A s \in {"working", "failed"} : /\ [k EXCEPT !.status = s] \in KeyStates
                                             /\ [k EXCEPT !.status = s].status = s
  BY DEF KeyStates

LEMMA TestKeeps ==
  ASSUME LegacyInv, NEW t \in LlmThreads, NEW ok \in BOOLEAN, Legacy!TestKey(t, ok)
  PROVE  LegacyInv'
<1>1. LegacyTyped /\ TestedInv /\ (apart => AloneInv) /\ ask[t] \in Asks
  BY DEF LegacyInv, LegacyTyped
<1>2. PICK c : c = ask[t].code
  OBVIOUS
<1>3. /\ ask[t].at = "test"
      /\ Legacy!SetKey(t, [pools[ask[t].obj][c] EXCEPT !.status = IF ok THEN "working" ELSE "failed"])
      /\ passed' = IF ok THEN passed \cup {c} ELSE passed
      /\ dead' = IF ok THEN dead ELSE dead \cup ({c} \cap given)
      /\ ask' = [ask EXCEPT ![t] = [ask[t] EXCEPT !.at = "save", !.then = IF ok THEN "count" ELSE "send"]]
      /\ UNCHANGED <<env, given, cache, single, apart>>
  BY <1>2 DEF Legacy!TestKey, Legacy!At, Legacy!Goes, Legacy!Keys
<1>4. PICK o \in 1..Len(pools) : o = ask[t].obj /\ c \in DOMAIN pools[o]
  BY <1>1, <1>2, <1>3 DEF TestedInv, Placed
<1>5. pools[o][c] \in KeyStates
  <2>1. pools[o] \in Documents
    BY <1>1, PoolsAre
  <2> QED BY <1>4, <2>1, DocumentIs
<1>6. PICK key \in KeyStates : /\ key = [pools[o][c] EXCEPT !.status = IF ok THEN "working" ELSE "failed"]
                               /\ key.status = IF ok THEN "working" ELSE "failed"
  <2>1. PICK k \in KeyStates : k = pools[o][c]
    BY <1>5
  <2>2. PICK s \in {"working", "failed"} : s = IF ok THEN "working" ELSE "failed"
    OBVIOUS
  <2>3. [k EXCEPT !.status = s] \in KeyStates /\ [k EXCEPT !.status = s].status = s
    BY KeyStateIs
  <2> QED BY <2>1, <2>2, <2>3
<1>7. Legacy!SetKey(t, key) /\ passed \subseteq passed' /\ (ok => Good(c, passed'))
  BY <1>3, <1>4, <1>6 DEF Good
<1>8. /\ PoolsGrow /\ \A i \in 1..Len(pools') : Tried(pools'[i], passed')
      /\ Len(pools') = Len(pools)
      /\ \A i \in 1..Len(pools) : i # o => pools'[i] = pools[i]
      /\ pools'[o] = [pools[o] EXCEPT ![c] = key]
  <2>1. key.status = "failed" \/ Good(ask[t].code, passed')
    BY <1>2, <1>6, <1>7
  <2>2. single' = single /\ passed \subseteq passed' /\ ask[t].at = "test" /\ Legacy!SetKey(t, key)
    BY <1>3, <1>7
  <2> QED BY <1>2, <1>4, <2>1, <2>2, SetKeyIs
<1> DEFINE r == [ask[t] EXCEPT !.at = "save", !.then = IF ok THEN "count" ELSE "send"]
<1>9. r \in Asks /\ r.at = "save" /\ r.then = (IF ok THEN "count" ELSE "send") /\ r.obj = o /\ r.code = c
  BY <1>1, <1>2, <1>4, AskIs DEF Asks, Saves
<1>10. ask' = [ask EXCEPT ![t] = r]
  BY <1>3
<1> HIDE DEF r
<1>11. DOMAIN pools'[o] = DOMAIN pools[o] /\ pools'[o][c] = key
  BY <1>4, <1>8
<1>12. Placed(r, pools', single')
  BY <1>4, <1>8, <1>9, <1>11 DEF Placed, Saves
<1>13. Tested(r, pools', passed')
  BY <1>6, <1>7, <1>9, <1>11 DEF Tested, Saves, Refuses
<1>14. TestedInv' /\ ask' \in [LlmThreads -> Asks]
  <2>1. Tried(cache', passed')
    BY <1>1, <1>3, <1>7 DEF TestedInv, Tried, Good
  <2> QED BY <1>1, <1>8, <1>9, <1>10, <1>12, <1>13, <2>1, OneRequestMoves
<1>15. apart' => AloneInv'
  <2> SUFFICES ASSUME AloneInv PROVE AloneInv'
    BY <1>1, <1>3
  <2>1. \A u \in LlmThreads \ {t} : ask[u].at = "idle"
    BY <1>3, OthersIdle
  <2>2. o = single /\ c \notin dead
    BY <1>2, <1>3, <1>4 DEF AloneInv, Follows
  <2>3. Knows(pools[o], dead)
    BY <1>1, <2>2, PoolsAre DEF AloneInv
  <2>4. Knows(pools'[o], dead')
    BY <1>3, <1>4, <1>6, <1>8, <2>2, <2>3 DEF Knows
  <2>5. Follows(r, pools', single', dead')
    BY <1>3, <1>6, <1>9, <1>11, <2>2 DEF Follows, Saves, Refuses
  <2>6. r.at \in Saves /\ single' = o
    BY <1>3, <1>9, <2>2 DEF Saves
  <2> QED BY <1>1, <1>9, <1>10, <2>1, <2>4, <2>5, <2>6, OneRequestMovesAlone
<1>16. LegacyTyped'
  BY <1>1, <1>3, <1>8, <1>14 DEF LegacyTyped, PoolsGrow
<1> QED
  BY <1>14, <1>15, <1>16 DEF LegacyInv

LEMMA CountKeeps ==
  ASSUME LegacyInv, NEW t \in LlmThreads, Legacy!Count(t)
  PROVE  LegacyInv'
<1>1. LegacyTyped /\ TestedInv /\ (apart => AloneInv) /\ ask[t] \in Asks
  BY DEF LegacyInv, LegacyTyped
<1>2. PICK c : c = ask[t].code
  OBVIOUS
<1>3. /\ ask[t].at = "count"
      /\ Legacy!SetKey(t, [pools[ask[t].obj][c] EXCEPT !.used = @ + 1])
      /\ ask' = [ask EXCEPT ![t] = [ask[t] EXCEPT !.at = "save", !.then = "send"]]
      /\ UNCHANGED <<env, given, cache, single, passed, dead, apart>>
  BY <1>2 DEF Legacy!Count, Legacy!At, Legacy!Goes, Legacy!Keys
<1>4. PICK o \in 1..Len(pools) : o = ask[t].obj /\ c \in DOMAIN pools[o]
  BY <1>1, <1>2, <1>3 DEF TestedInv, Placed
<1>5. pools[o][c] \in KeyStates
  <2>1. pools[o] \in Documents
    BY <1>1, PoolsAre
  <2> QED BY <1>4, <2>1, DocumentIs
<1>6. PICK key \in KeyStates : /\ key = [pools[o][c] EXCEPT !.used = @ + 1]
                               /\ key.status = pools[o][c].status
  BY <1>5, KeyStateIs
<1>7. Legacy!SetKey(t, key) /\ Good(c, passed)
  BY <1>1, <1>2, <1>3, <1>4, <1>6 DEF TestedInv, Tested
<1>8. /\ PoolsGrow /\ \A i \in 1..Len(pools') : Tried(pools'[i], passed')
      /\ Len(pools') = Len(pools)
      /\ \A i \in 1..Len(pools) : i # o => pools'[i] = pools[i]
      /\ pools'[o] = [pools[o] EXCEPT ![c] = key]
  BY <1>2, <1>3, <1>4, <1>6, <1>7, SetKeyIs
<1> DEFINE r == [ask[t] EXCEPT !.at = "save", !.then = "send"]
<1>9. r \in Asks /\ r.at = "save" /\ r.then = "send" /\ r.obj = o /\ r.code = c
  BY <1>1, <1>2, <1>4, AskIs DEF Asks, Saves
<1>10. ask' = [ask EXCEPT ![t] = r]
  BY <1>3
<1> HIDE DEF r
<1>11. DOMAIN pools'[o] = DOMAIN pools[o] /\ \A d \in DOMAIN pools[o] : pools'[o][d].status = pools[o][d].status
  BY <1>4, <1>6, <1>8
<1>12. Placed(r, pools', single')
  BY <1>4, <1>8, <1>9, <1>11 DEF Placed, Saves
<1>13. Tested(r, pools', passed')
  BY <1>3, <1>7, <1>9 DEF Tested, Saves
<1>14. TestedInv' /\ ask' \in [LlmThreads -> Asks]
  <2>1. Tried(cache', passed')
    BY <1>1, <1>3 DEF TestedInv
  <2> QED BY <1>1, <1>8, <1>9, <1>10, <1>12, <1>13, <2>1, OneRequestMoves
<1>15. apart' => AloneInv'
  <2> SUFFICES ASSUME AloneInv PROVE AloneInv'
    BY <1>1, <1>3
  <2>1. \A u \in LlmThreads \ {t} : ask[u].at = "idle"
    BY <1>3, OthersIdle
  <2>2. o = single /\ c \notin dead
    BY <1>2, <1>3, <1>4 DEF AloneInv, Follows
  <2>3. Knows(pools[o], dead)
    BY <1>1, <2>2, PoolsAre DEF AloneInv
  <2>4. Knows(pools'[o], dead')
    BY <1>3, <1>11, <2>3 DEF Knows
  <2>5. Follows(r, pools', single', dead')
    BY <1>3, <1>9, <2>2 DEF Follows, Saves
  <2>6. r.at \in Saves /\ single' = o
    BY <1>3, <1>9, <2>2 DEF Saves
  <2> QED BY <1>1, <1>9, <1>10, <2>1, <2>4, <2>5, <2>6, OneRequestMovesAlone
<1>16. LegacyTyped'
  BY <1>1, <1>3, <1>8, <1>14 DEF LegacyTyped, PoolsGrow
<1> QED
  BY <1>14, <1>15, <1>16 DEF LegacyInv

\* The file is emptied by a request that has a copy of its pool to write.
LEMMA EmptyKeeps ==
  ASSUME LegacyInv, NEW t \in LlmThreads, Legacy!EmptyCache(t)
  PROVE  LegacyInv'
<1>1. LegacyTyped /\ TestedInv /\ (apart => AloneInv) /\ ask[t] \in Asks
  BY DEF LegacyInv, LegacyTyped
<1>2. /\ ask[t].at = "save" /\ cache' = <<>>
      /\ ask' = [ask EXCEPT ![t] = [ask[t] EXCEPT !.at = "emptied", !.doc = pools[ask[t].obj]]]
      /\ UNCHANGED <<env, given, pools, single, passed, dead, apart>>
  BY DEF Legacy!EmptyCache, Legacy!At, Legacy!Goes, Legacy!Keys, Legacy!NoCache
<1>3. PICK o \in 1..Len(pools) : o = ask[t].obj /\ ask[t].code \in DOMAIN pools[o]
  BY <1>1, <1>2 DEF TestedInv, Placed, Saves
<1>4. PICK f \in Documents : f = pools[o] /\ Tried(f, passed)
  BY <1>1, PoolsAre DEF TestedInv
<1> DEFINE r == [ask[t] EXCEPT !.at = "emptied", !.doc = f]
<1>5. /\ r \in Asks /\ r.at = "emptied" /\ r.then = ask[t].then /\ r.obj = o /\ r.code = ask[t].code
      /\ r.doc = f
  BY <1>1, <1>3, AskIs DEF Asks, Saves
<1>6. ask' = [ask EXCEPT ![t] = r]
  BY <1>2, <1>3, <1>4
<1> HIDE DEF r
<1>7. Placed(r, pools, single) /\ Tested(r, pools, passed)
  <2>1. /\ ask[t].then \in {"count", "send"}
        /\ Good(ask[t].code, passed) \/ (ask[t].then = "send" /\ f[ask[t].code].status = "failed")
    BY <1>1, <1>2, <1>3, <1>4 DEF TestedInv, Placed, Tested, Saves, Refuses
  <2> QED BY <1>3, <1>4, <1>5, <2>1 DEF Placed, Tested, Saves, Refuses
<1>8. Placed(r, pools', single') /\ Tested(r, pools', passed')
  BY <1>2, <1>7
<1>9. TestedInv' /\ ask' \in [LlmThreads -> Asks]
  <2>1. Tried(cache', passed')
    BY <1>2, EmptyDocument DEF Tried
  <2>2. \A i \in 1..Len(pools') : Tried(pools'[i], passed')
    BY <1>1, <1>2 DEF TestedInv
  <2> QED BY <1>1, <1>2, <1>5, <1>6, <1>8, <2>1, <2>2, PoolsStay, OneRequestMoves
<1>10. apart' => AloneInv'
  <2> SUFFICES ASSUME AloneInv PROVE AloneInv'
    BY <1>1, <1>2
  <2>1. \A u \in LlmThreads \ {t} : ask[u].at = "idle"
    BY <1>2, OthersIdle
  <2>2. /\ o = single
        /\ ask[t].code \notin dead \/ (ask[t].then = "send" /\ f[ask[t].code].status = "failed")
    BY <1>2, <1>3, <1>4 DEF AloneInv, Follows, Saves, Refuses
  <2>3. Knows(f, dead)
    BY <1>1, <1>4, <2>2, PoolsAre DEF AloneInv
  <2>4. Follows(r, pools', single', dead')
    BY <1>2, <1>5, <2>2, <2>3 DEF Follows, Saves, Refuses
  <2>5. r.at \in Saves /\ (single' # 0 => Knows(pools'[single'], dead'))
    BY <1>2, <1>5 DEF Saves, AloneInv
  <2> QED BY <1>1, <1>5, <1>6, <2>1, <2>4, <2>5, OneRequestMovesAlone
<1>11. LegacyTyped'
  BY <1>1, <1>2, <1>9, EmptyDocument DEF LegacyTyped
<1> QED
  BY <1>9, <1>10, <1>11 DEF LegacyInv

\* The copy is written, or is lost to another request that wrote at the same time.
LEMMA WriteKeeps ==
  ASSUME LegacyInv, NEW t \in LlmThreads, Legacy!WriteCache(t)
  PROVE  LegacyInv'
<1>1. /\ LegacyTyped /\ TestedInv /\ (apart => AloneInv) /\ ask[t] \in Asks
      /\ Placed(ask[t], pools, single) /\ Tested(ask[t], pools, passed)
  BY DEF LegacyInv, LegacyTyped, TestedInv
<1>2. /\ ask[t].at \in {"emptied", "overtaken"}
      /\ \/ cache' = ask[t].doc
         \/ ask[t].at = "overtaken" /\ cache' = <<>>
      /\ UNCHANGED <<env, given, pools, single, passed, dead, apart>>
  BY DEF Legacy!WriteCache, Legacy!At, Legacy!NoCache
<1> DEFINE refused == ask[t].then = "send" /\ ask[t].doc[ask[t].code].status = "failed"
           r == [ask[t] EXCEPT !.at = ask[t].then, !.doc = <<>>, !.then = "idle",
                               !.code = IF refused THEN "" ELSE ask[t].code]
           turned(u) == IF ask[u].at = "emptied" THEN [ask[u] EXCEPT !.at = "overtaken"] ELSE ask[u]
<1>3. Legacy!Saved(t) = r
  BY <1>1, AskIs DEF Legacy!Saved, Legacy!NoCache, Legacy!None
<1>4. ask' = [u \in LlmThreads |-> IF u = t THEN r ELSE turned(u)]
  BY <1>3 DEF Legacy!WriteCache
<1>5. ask[t].then \in {"count", "send"} /\ ask[t].at \in Saves
  BY <1>1, <1>2 DEF Placed, Saves
<1>6. /\ r \in Asks /\ r.at = ask[t].then /\ r.obj = ask[t].obj
      /\ r.code = IF refused THEN "" ELSE ask[t].code
  BY <1>1, <1>5, AskIs, EmptyDocument DEF Asks
<1>7. \A u \in LlmThreads : /\ turned(u) \in Asks /\ turned(u).obj = ask[u].obj /\ turned(u).code = ask[u].code
                            /\ turned(u).doc = ask[u].doc /\ turned(u).then = ask[u].then
                            /\ turned(u).at = IF ask[u].at = "emptied" THEN "overtaken" ELSE ask[u].at
  <2> SUFFICES ASSUME NEW u \in LlmThreads
               PROVE  /\ turned(u) \in Asks /\ turned(u).obj = ask[u].obj /\ turned(u).code = ask[u].code
                      /\ turned(u).doc = ask[u].doc /\ turned(u).then = ask[u].then
                      /\ turned(u).at = IF ask[u].at = "emptied" THEN "overtaken" ELSE ask[u].at
    OBVIOUS
  <2>1. ask[u] \in Asks
    BY <1>1 DEF LegacyTyped
  <2> QED BY <2>1, AskIs DEF Asks, Saves
<1> HIDE DEF r, turned
<1>8. \A u \in LlmThreads : Placed(turned(u), pools, single) /\ Tested(turned(u), pools, passed)
  <2> SUFFICES ASSUME NEW u \in LlmThreads
               PROVE  Placed(turned(u), pools, single) /\ Tested(turned(u), pools, passed)
    OBVIOUS
  <2>1. Placed(ask[u], pools, single) /\ Tested(ask[u], pools, passed)
    BY <1>1 DEF TestedInv
  <2>2. CASE ask[u].at = "emptied"
    BY <1>7, <2>1, <2>2 DEF Placed, Tested, Refuses, Saves
  <2>3. CASE ask[u].at # "emptied"
    <3>1. turned(u) = ask[u]
      BY <2>3 DEF turned
    <3> QED BY <2>1, <3>1
  <2> QED BY <2>2, <2>3
<1>9. Good(r.code, passed)
  <2>1. CASE refused
    BY <1>6, <2>1, NoneIsGood DEF Good
  <2>2. CASE ~refused
    BY <1>1, <1>2, <1>5, <1>6, <2>2 DEF Tested, Refuses
  <2> QED BY <2>1, <2>2
<1>10. Placed(r, pools, single) /\ Tested(r, pools, passed)
  <2>1. r.at = "count" => r.code = ask[t].code
    BY <1>6
  <2> QED BY <1>1, <1>5, <1>6, <1>9, <2>1 DEF Placed, Tested, Saves
<1>11. ask' \in [LlmThreads -> Asks]
  BY <1>4, <1>6, <1>7
<1>12. TestedInv'
  <2>1. Tried(cache', passed')
    BY <1>1, <1>2, EmptyDocument DEF Tested, Tried
  <2>2. \A u \in LlmThreads : Placed(ask'[u], pools, single) /\ Tested(ask'[u], pools, passed)
    BY <1>4, <1>8, <1>10
  <2> QED BY <1>1, <1>2, <2>1, <2>2 DEF TestedInv
<1>13. apart' => AloneInv'
  <2> SUFFICES ASSUME AloneInv PROVE AloneInv'
    BY <1>1, <1>2
  <2>1. \A u \in LlmThreads \ {t} : ask[u].at = "idle"
    BY <1>2, OthersIdle
  <2>2. ask' = [ask EXCEPT ![t] = r]
    <3>1. \A u \in LlmThreads \ {t} : turned(u) = ask[u]
      BY <2>1 DEF turned
    <3> QED BY <1>1, <1>4, <3>1 DEF LegacyTyped
  <2>3. Follows(ask[t], pools, single, dead) /\ ask[t].at = "emptied"
    BY <1>2 DEF AloneInv, Follows
  <2>4. Knows(cache', dead')
    BY <1>2, <2>3 DEF Follows
  <2>5. "" \notin dead
    BY <1>1, NoneIsGood DEF LegacyTyped
  <2>6. r.code \notin dead
    BY <1>5, <1>6, <2>3, <2>5 DEF Follows, Saves, Refuses
  <2>7. Follows(r, pools', single', dead')
    BY <1>2, <1>5, <1>6, <2>3, <2>6 DEF Follows, Saves
  <2>8. single' # 0 => Knows(pools'[single'], dead')
    BY <1>2 DEF AloneInv
  <2> QED BY <1>1, <1>6, <2>1, <2>2, <2>4, <2>7, <2>8, OneRequestMovesAlone
<1>14. LegacyTyped'
  <2>1. cache' \in Documents
    BY <1>1, <1>2, AskIs, EmptyDocument
  <2> QED BY <1>1, <1>2, <1>11, <2>1 DEF LegacyTyped
<1> QED
  BY <1>12, <1>13, <1>14 DEF LegacyInv

\* Keys come and go; a key that goes is not dead any more.
LEMMA DonorsKeep ==
  ASSUME LegacyInv, NEW c \in Legacy!Codes, Legacy!Contribute(c) \/ Legacy!Withdraw(c)
  PROVE  LegacyInv'
<1>1. /\ UNCHANGED <<env, cache, pools, single, ask, passed, apart>>
      /\ given' \subseteq Legacy!Codes /\ dead' \subseteq dead /\ dead' \subseteq given'
  BY DEF Legacy!Contribute, Legacy!Withdraw, LegacyInv, LegacyTyped
<1>2. AloneInv => AloneInv'
  <2> SUFFICES ASSUME AloneInv PROVE AloneInv'
    OBVIOUS
  <2>1. \A f : Knows(f, dead) => Knows(f, dead')
    BY <1>1 DEF Knows
  <2>2. \A t \in LlmThreads : Follows(ask[t], pools, single, dead')
    BY <1>1, <2>1 DEF AloneInv, Follows
  <2> QED BY <1>1, <2>1, <2>2 DEF AloneInv
<1> QED
  BY <1>1, <1>2 DEF LegacyInv, LegacyTyped, TestedInv

LEMMA AllIdle ==
  ASSUME ask = [t \in LlmThreads |-> Legacy!Idle], NEW ps, NEW sg, NEW p, NEW de
  PROVE  /\ ask \in [LlmThreads -> Asks] /\ \A t \in LlmThreads : ask[t].at = "idle"
         /\ \A t \in LlmThreads : Placed(ask[t], ps, sg) /\ Tested(ask[t], ps, p) /\ Follows(ask[t], ps, sg, de)
  BY IdleIs DEF Placed, Tested, Follows, Saves

LEMMA NoPools == <<>> \in Seq(Documents) /\ Len(<<>>) = 0
  OBVIOUS

\* A restart in the middle of a request may lose what a test has said, and forgets the dead.
LEMMA RestartKeepsKeys == ASSUME LegacyInv, Legacy!RestartPanel PROVE LegacyInv'
<1>1. LegacyTyped /\ TestedInv /\ (apart => AloneInv)
  BY DEF LegacyInv
<1>2. /\ pools' = <<>> /\ single' = 0 /\ ask' = [t \in LlmThreads |-> Legacy!Idle]
      /\ dead' \in {dead, {}}
      /\ dead' # {} => apart /\ \A t \in LlmThreads : ask[t].at \in {"idle", "send"}
      /\ UNCHANGED <<env, given, cache, passed>>
  BY DEF Legacy!RestartPanel, Legacy!At
<1>3. /\ ask' \in [LlmThreads -> Asks] /\ \A t \in LlmThreads : ask'[t].at = "idle"
      /\ \A t \in LlmThreads : /\ Placed(ask'[t], pools', single') /\ Tested(ask'[t], pools', passed')
                               /\ Follows(ask'[t], pools', single', dead')
  BY <1>2, IdleIs DEF Placed, Tested, Follows, Saves
<1>4. pools' \in Seq(Documents) /\ Len(pools') = 0
  BY <1>2, NoPools
<1>5. Knows(cache', dead')
  <2>1. CASE dead' = {}
    BY <2>1 DEF Knows
  <2>2. CASE dead' # {}
    BY <1>1, <1>2, <2>2 DEF AloneInv, Saves
  <2> QED BY <2>1, <2>2
<1>6. TestedInv'
  <2>1. \A i \in 1..Len(pools') : FALSE
    BY <1>4
  <2> QED BY <1>1, <1>2, <1>3, <2>1 DEF TestedInv
<1>7. AloneInv'
  BY <1>2, <1>3, <1>5 DEF AloneInv
<1>8. LegacyTyped'
  BY <1>1, <1>2, <1>3, <1>4 DEF LegacyTyped
<1> QED
  BY <1>6, <1>7, <1>8 DEF LegacyInv

LEMMA LegacyStarts == Legacy!LegacyInit => LegacyInv
<1> SUFFICES ASSUME Legacy!LegacyInit PROVE LegacyInv
  OBVIOUS
<1>1. /\ env \in Envs /\ given \subseteq Legacy!Codes /\ cache = <<>> /\ pools = <<>> /\ single = 0
      /\ ask = [t \in LlmThreads |-> Legacy!Idle] /\ dead = {}
  BY DEF Legacy!LegacyInit, Legacy!NoCache, Legacy!Codes
<1>2. /\ ask \in [LlmThreads -> Asks] /\ \A t \in LlmThreads : ask[t].at = "idle"
      /\ \A t \in LlmThreads : /\ Placed(ask[t], pools, single) /\ Tested(ask[t], pools, passed)
                               /\ Follows(ask[t], pools, single, dead)
  BY <1>1, AllIdle
<1>3. pools \in Seq(Documents) /\ Len(pools) = 0 /\ cache \in Documents /\ DOMAIN cache = {}
  BY <1>1, NoPools, EmptyDocument
<1>4. LegacyTyped
  BY <1>1, <1>2, <1>3 DEF LegacyTyped
<1>5. TestedInv
  <2>1. \A i \in 1..Len(pools) : FALSE
    BY <1>3
  <2> QED BY <1>2, <1>3, <2>1 DEF TestedInv, Tried
<1>6. AloneInv
  BY <1>1, <1>2 DEF AloneInv, Knows
<1> QED BY <1>4, <1>5, <1>6 DEF LegacyInv

LEMMA LegacyKeeps == ASSUME LegacyInv, [Next]_vars PROVE LegacyInv'
<1>1. CASE UNCHANGED legacyVars
  BY <1>1 DEF legacyVars, LegacyInv, LegacyTyped, TestedInv, AloneInv
<1>2. CASE Legacy!LegacyNext
  BY <1>2, BeginKeepsKeys, GetKeeps, PickKeeps, SendKeepsKeys, MakeKeeps, TestKeeps, CountKeeps, EmptyKeeps,
     WriteKeeps, DonorsKeep, RestartKeepsKeys DEF Legacy!LegacyNext
<1> QED
  BY <1>1, <1>2 DEF Next, vars

\* A device's key is sent only after it has passed a test, never again after it has failed one
\* (as long as requests follow one another), and only to its own endpoint: whatever keys come
\* and go, wherever two pools and two writes of the file overlap, and wherever the panel dies.
THEOREM KeysAreSentRightly == Spec => []KeysSentRightly
<1>1. Init => LegacyInv
  BY LegacyStarts DEF Init
<1>2. LegacyInv => KeysSentRightly
  <2> SUFFICES ASSUME LegacyInv PROVE KeysSentRightly
    OBVIOUS
  <2>1. ASSUME NEW t \in LlmThreads, ask[t].at = "send", ask[t].code \in Legacy!Range(Donors)
        PROVE  ask[t].code \in passed /\ (apart => ask[t].code \notin dead)
    BY <2>1 DEF LegacyInv, TestedInv, Tested, Good, OfDonor, AloneInv, Follows
  <2>2. ASSUME NEW t \in LlmThreads, Legacy!Client(t).key # ""
        PROVE  Legacy!Client(t).base = IF Legacy!Client(t).key = "env" /\ env.base = "" THEN "openai"
                                       ELSE Legacy!Client(t).key
    <3>1. /\ ask[t].code \in Legacy!Codes \cup {""} /\ env.base \in {"", "env"} /\ env.key \in {"", "env"}
      BY AskIs, EnvsAreEnvs DEF LegacyInv, LegacyTyped
    <3>2. "env" \notin Legacy!Codes
      BY CodesAreApart
    <3>3. CASE ask[t].code # ""
      BY <3>1, <3>2, <3>3 DEF Legacy!Client, Legacy!None
    <3>4. CASE ask[t].code = ""
      BY <2>2, <3>1, <3>4 DEF Legacy!Client, Legacy!None
    <3> QED BY <3>3, <3>4
  <2> QED
    BY <2>1, <2>2 DEF KeysSentRightly, Legacy!KeysSentRightly, Legacy!TestedFirst, Legacy!KeyAtHome, Legacy!At
<1> QED
  BY <1>1, <1>2, LegacyKeeps, PTL DEF Spec

-----------------------------------------------------------------------------
(* PanelStore.  What must hold of a document holds of every copy of it     *)
(* that a handler is about to write, however old: no edit breaks it, and   *)
(* a copy never looks at another one.                                      *)

Voted == [ip : Clients, votes : Nat, voters : Seq(Clients), pinned : BOOLEAN, status : {"open", "resolved"}]
\* One more vote may be refused to somebody, but is never counted twice.
OnceEach(voters) == \A m, n \in 1..Len(voters) : voters[m] = voters[n] => m = n
BoardGood(doc, p) ==
  /\ \A i \in DOMAIN doc : doc[i] \in Voted /\ OnceEach(doc[i].voters)
  /\ \A i, j \in DOMAIN doc : i # j /\ doc[i].ip = doc[j].ip => i \in p \/ j \in p
KeysGood(doc) ==
  /\ \A p \in DOMAIN doc : doc[p] \in [enabled : BOOLEAN, default : BOOLEAN]
  /\ \A p, q \in DOMAIN doc : doc[p].default /\ doc[q].default => p = q
ToolsGood(doc) == \A u, v \in DOMAIN doc : doc[u] = doc[v] => u = v
DownloadsGood(doc) == \A f \in DOMAIN doc : doc[f] \in [total : Nat, today : Nat] /\ doc[f].today <= doc[f].total
PluginsGood(doc) == DOMAIN doc \in {{}, Clients}
\* The counts in f add up to n.
Tallied(f, n) == IsFiniteSet(Store!Counted(f)) /\ Cardinality(Store!Counted(f)) = n
StatsGood(doc) == /\ Store!Stats(doc).total \in Nat /\ Store!Stats(doc).daily \in Seq(Nat)
                  /\ \A q \in DOMAIN Store!Stats(doc).providers : Store!Stats(doc).providers[q] \in Nat
                  /\ Tallied(Store!Stats(doc).daily, Store!Stats(doc).total)
                  /\ Tallied(Store!Stats(doc).providers, Store!Stats(doc).total)
Held(doc, k, p) ==
  CASE k = "board" -> BoardGood(doc, p)
    [] k = "keys" -> KeysGood(doc)
    [] k = "tools" -> ToolsGood(doc)
    [] k = "downloads" -> DownloadsGood(doc)
    [] k = "plugins" -> PluginsGood(doc)
    [] k = "stats" -> StatsGood(doc)
    [] OTHER -> TRUE

RequestsTyped == /\ req = [t \in Store!Handlers |-> req[t]]
                 /\ \A t \in Store!Handlers :
                      /\ req[t] = [at |-> req[t].at, doc |-> req[t].doc]
                      /\ req[t].at \in {"idle", "edited", "emptied", "overtaken"}
                      /\ req[t].at = "idle" => req[t] = Store!Ready
\* The statistics are the loop's alone; its copy counts one request more than the file did.
CountsOf(doc, n) == /\ Store!Stats(doc).total = n /\ Store!Stats(doc).errors \in Nat
                    /\ Store!Stats(doc).errors <= n
StatsAlone ==
  kind = "stats" =>
    /\ \A t \in Store!Handlers : t # "loop" => req[t].at = "idle"
    /\ req["loop"].at # "overtaken"
    /\ req["loop"].at # "idle" => CountsOf(req["loop"].doc, tracked + 1)
    /\ IF req["loop"].at = "emptied" THEN file = Store!NoDoc ELSE CountsOf(file, tracked)
StoreInv == /\ kind \in Store!Kinds /\ count \in Nat /\ tracked \in Nat /\ past \subseteq 1..count
            /\ RequestsTyped /\ StatsAlone
            /\ Held(file, kind, past) /\ \A t \in Store!Handlers : Held(req[t].doc, kind, past)

LEMMA NothingCounted == ASSUME NEW doc, DOMAIN doc = {} PROVE StatsGood(doc)
<1>1. PICK none : none = <<>>
  OBVIOUS
<1>2. DOMAIN none = {} /\ none \in Seq(Nat)
  BY <1>1
<1>3. Store!Stats(doc).total = 0 /\ Store!Stats(doc).daily = none /\ Store!Stats(doc).providers = none
  BY <1>1 DEF Store!Stats, Store!NoDoc
<1>4. Store!Counted(none) = {}
  BY <1>2 DEF Store!Counted
<1>5. Tallied(none, 0)
  BY <1>4, FS_EmptySet DEF Tallied
<1> QED
  BY <1>2, <1>3, <1>5 DEF StatsGood

\* A document without entries is always right.
LEMMA EmptyIsHeld ==
  ASSUME NEW doc, DOMAIN doc = {}, NEW k, NEW p PROVE Held(doc, k, p)
  BY NothingCounted DEF Held, BoardGood, KeysGood, ToolsGood, DownloadsGood, PluginsGood

LEMMA NoDocIs == DOMAIN Store!NoDoc = {} /\ Store!Stats(Store!NoDoc).total = 0 /\ Store!Stats(Store!NoDoc).errors = 0
  BY DEF Store!NoDoc, Store!Stats

\* What a drop leaves of a document.
LEMMA DropIs ==
  ASSUME NEW doc, NEW k
  PROVE  /\ DOMAIN Store!Drop(doc, k) = DOMAIN doc \ {k}
         /\ \A j \in DOMAIN doc \ {k} : Store!Drop(doc, k)[j] = doc[j]
  BY DEF Store!Drop

\* A vote of somebody new.
LEMMA OnceMore ==
  ASSUME NEW voters \in Seq(Clients), OnceEach(voters), NEW ip \in Clients,
         \A n \in 1..Len(voters) : voters[n] # ip
  PROVE  Append(voters, ip) \in Seq(Clients) /\ OnceEach(Append(voters, ip))
<1>1. PICK l \in Nat : l = Len(voters)
  OBVIOUS
<1>2. /\ Append(voters, ip) \in Seq(Clients) /\ Len(Append(voters, ip)) = l + 1
      /\ \A n \in 1..(l + 1) : Append(voters, ip)[n] = IF n = l + 1 THEN ip ELSE voters[n]
  BY <1>1
<1>3. \A n \in 1..(l + 1) : n # l + 1 => n \in 1..l
  BY <1>1
<1> QED BY <1>1, <1>2, <1>3 DEF OnceEach

\* The board: an edit of one entry, a new one, one less.
LEMMA BoardKeeps ==
  ASSUME NEW doc, BoardGood(doc, past), NEW new \in Store!BoardEdits(doc)
  PROVE  BoardGood(new, past)
<1>1. ASSUME NEW i \in DOMAIN doc, NEW item \in Voted, item.ip = doc[i].ip, OnceEach(item.voters),
             new = [doc EXCEPT ![i] = item]
      PROVE  BoardGood(new, past)
  <2>1. DOMAIN new = DOMAIN doc /\ \A j \in DOMAIN doc : new[j] = IF j = i THEN item ELSE doc[j]
    BY <1>1
  <2>2. \A j \in DOMAIN doc : new[j] \in Voted /\ OnceEach(new[j].voters) /\ new[j].ip = doc[j].ip
    BY <1>1, <2>1 DEF BoardGood
  <2> QED BY <2>1, <2>2 DEF BoardGood
<1>2. ASSUME NEW ip \in Clients, new \in Store!Create(doc, ip) PROVE BoardGood(new, past)
  <2> DEFINE item == [ip |-> ip, votes |-> 0, voters |-> <<>>, pinned |-> FALSE, status |-> "open"]
  <2>1. ~Store!Submitted(doc, ip) /\ new \in Store!Put(doc, Store!New, item)
    BY <1>2 DEF Store!Create
  <2>2. item \in Voted /\ item.ip = ip /\ OnceEach(item.voters)
    <3>1. <<>> \in Seq(Clients) /\ Len(<<>>) = 0
      OBVIOUS
    <3>2. OnceEach(<<>>)
      BY <3>1 DEF OnceEach
    <3> QED BY <3>1, <3>2 DEF Voted
  <2> HIDE DEF item
  <2>3. PICK n : n = Store!New
    OBVIOUS
  <2>4. new \in Store!Put(doc, n, item)
    BY <2>1, <2>3
  <2>5. DOMAIN new = DOMAIN doc \cup {n} /\ \A j \in DOMAIN new : new[j] = IF j = n THEN item ELSE doc[j]
    BY <2>4 DEF Store!Put
  <2>6. \A i \in DOMAIN doc : doc[i].ip = ip => i \in past
    BY <2>1 DEF Store!Submitted
  <2> QED BY <2>2, <2>5, <2>6 DEF BoardGood
<1>3. ASSUME NEW i \in DOMAIN doc, NEW ip \in Clients, ~Store!HasVoted(doc[i], ip),
             new = [doc EXCEPT ![i].votes = @ + 1, ![i].voters = Append(@, ip)]
      PROVE  BoardGood(new, past)
  <2>1. doc[i] \in Voted /\ OnceEach(doc[i].voters)
    BY DEF BoardGood
  <2>2. doc[i].voters \in Seq(Clients)
    BY <2>1 DEF Voted
  <2>3. Append(doc[i].voters, ip) \in Seq(Clients) /\ OnceEach(Append(doc[i].voters, ip))
    BY <1>3, <2>1, <2>2, OnceMore DEF Store!HasVoted
  <2>4. PICK voters : voters = Append(doc[i].voters, ip)
    OBVIOUS
  <2>5. PICK item : item = [[doc[i] EXCEPT !.votes = @ + 1] EXCEPT !.voters = voters]
    OBVIOUS
  <2>6. item \in Voted /\ item.ip = doc[i].ip /\ OnceEach(item.voters)
    <3>1. voters \in Seq(Clients) /\ OnceEach(voters)
      BY <2>3, <2>4
    <3>2. PICK voted : voted = [doc[i] EXCEPT !.votes = @ + 1]
      OBVIOUS
    <3>3. voted \in Voted /\ voted.ip = doc[i].ip
      BY <2>1, <3>2 DEF Voted
    <3>4. item = [voted EXCEPT !.voters = voters]
      BY <2>5, <3>2
    <3>5. item \in Voted /\ item.ip = voted.ip /\ item.voters = voters
      BY <3>1, <3>3, <3>4 DEF Voted
    <3> QED BY <3>1, <3>3, <3>5
  <2>7. new = [doc EXCEPT ![i] = item]
    BY <1>3, <2>4, <2>5
  <2> QED BY <1>1, <2>6, <2>7
<1>4. ASSUME NEW i, new \in Store!Remove(doc, i) PROVE BoardGood(new, past)
  <2>1. new = Store!Drop(doc, i)
    BY <1>4 DEF Store!Remove
  <2>2. DOMAIN new = DOMAIN doc \ {i} /\ \A j \in DOMAIN new : new[j] = doc[j]
    BY <2>1, DropIs
  <2> QED BY <2>2 DEF BoardGood
<1>5. ASSUME NEW i \in DOMAIN doc, NEW pinned \in BOOLEAN, new = [doc EXCEPT ![i].pinned = pinned]
      PROVE  BoardGood(new, past)
  <2>1. doc[i] \in Voted /\ OnceEach(doc[i].voters)
    BY DEF BoardGood
  <2>2. PICK item : item = [doc[i] EXCEPT !.pinned = pinned]
    OBVIOUS
  <2>3. item \in Voted /\ item.ip = doc[i].ip /\ OnceEach(item.voters)
    BY <2>1, <2>2 DEF Voted
  <2> QED BY <1>1, <1>5, <2>2, <2>3
<1>6. ASSUME NEW i \in DOMAIN doc, NEW s \in {"open", "resolved"}, new = [doc EXCEPT ![i].status = s]
      PROVE  BoardGood(new, past)
  <2>1. doc[i] \in Voted /\ OnceEach(doc[i].voters)
    BY DEF BoardGood
  <2>2. PICK item : item = [doc[i] EXCEPT !.status = s]
    OBVIOUS
  <2>3. item \in Voted /\ item.ip = doc[i].ip /\ OnceEach(item.voters)
    BY <2>1, <2>2 DEF Voted
  <2> QED BY <1>1, <1>6, <2>2, <2>3
<1>7. ASSUME NEW i \in DOMAIN doc, NEW n \in {0, 9}, new = [doc EXCEPT ![i].votes = n]
      PROVE  BoardGood(new, past)
  <2>1. doc[i] \in Voted /\ OnceEach(doc[i].voters)
    BY DEF BoardGood
  <2>2. PICK item : item = [doc[i] EXCEPT !.votes = n]
    OBVIOUS
  <2>3. item \in Voted /\ item.ip = doc[i].ip /\ OnceEach(item.voters)
    BY <2>1, <2>2 DEF Voted
  <2> QED BY <1>1, <1>7, <2>2, <2>3
<1>8. ASSUME NEW i, NEW ip \in Clients, new \in Store!Vote(doc, i, ip) PROVE BoardGood(new, past)
  BY <1>3, <1>8 DEF Store!Vote, Store!IfThere
<1>9. ASSUME NEW i, new \in Store!Pin(doc, i) PROVE BoardGood(new, past)
  <2>1. i \in DOMAIN doc /\ new = [doc EXCEPT ![i].pinned = ~@]
    BY <1>9 DEF Store!Pin, Store!IfThere
  <2>2. PICK pinned \in BOOLEAN : pinned = ~doc[i].pinned
    OBVIOUS
  <2>3. new = [doc EXCEPT ![i].pinned = pinned]
    BY <2>1, <2>2
  <2> QED BY <1>5, <2>1, <2>3
<1>10. ASSUME NEW i, new \in Store!Resolve(doc, i) PROVE BoardGood(new, past)
  <2>1. i \in DOMAIN doc /\ new = [doc EXCEPT ![i].status = IF @ = "resolved" THEN "open" ELSE "resolved"]
    BY <1>10 DEF Store!Resolve, Store!IfThere
  <2>2. PICK s \in {"open", "resolved"} : s = IF doc[i].status = "resolved" THEN "open" ELSE "resolved"
    OBVIOUS
  <2>3. new = [doc EXCEPT ![i].status = s]
    BY <2>1, <2>2
  <2> QED BY <1>6, <2>1, <2>3
<1>11. ASSUME NEW i, new \in Store!SetVotes(doc, i) PROVE BoardGood(new, past)
  BY <1>7, <1>11 DEF Store!SetVotes, Store!IfThere
<1> QED
  BY <1>2, <1>4, <1>8, <1>9, <1>10, <1>11 DEF Store!BoardEdits

\* Keys: the new default takes the mark from the others.
LEMMA KeysKeep ==
  ASSUME NEW doc, KeysGood(doc), NEW new \in Store!KeyEdits(doc) PROVE KeysGood(new)
<1>1. ASSUME NEW p, NEW on \in BOOLEAN, NEW default \in BOOLEAN, new \in Store!SetKey(doc, p, on, default)
      PROVE  KeysGood(new)
  <2>1. PICK old : old = [q \in DOMAIN doc |-> IF default THEN [doc[q] EXCEPT !.default = FALSE] ELSE doc[q]]
    OBVIOUS
  <2>2. PICK key : key = [enabled |-> on, default |-> default]
    OBVIOUS
  <2>3. new \in Store!Put(old, p, key)
    BY <1>1, <2>1, <2>2 DEF Store!SetKey
  <2>4. DOMAIN new = DOMAIN old \cup {p} /\ \A j \in DOMAIN new : new[j] = IF j = p THEN key ELSE old[j]
    BY <2>3 DEF Store!Put
  <2>5. \A q \in DOMAIN old : old[q] \in [enabled : BOOLEAN, default : BOOLEAN]
    BY <2>1 DEF KeysGood
  <2>6. CASE default
    <3>1. \A q \in DOMAIN old : ~old[q].default
      BY <2>1, <2>6 DEF KeysGood
    <3> QED BY <2>2, <2>4, <2>5, <3>1 DEF KeysGood
  <2>7. CASE ~default
    <3>1. \A q \in DOMAIN old : q \in DOMAIN doc /\ old[q] = doc[q]
      BY <2>1, <2>7
    <3>2. ~key.default
      BY <2>2, <2>7
    <3>3. \A q \in DOMAIN new : new[q] \in [enabled : BOOLEAN, default : BOOLEAN]
      BY <2>2, <2>4, <2>5
    <3> QED BY <2>4, <3>1, <3>2, <3>3 DEF KeysGood
  <2> QED BY <2>6, <2>7
<1>2. ASSUME NEW p, new \in Store!DeleteKey(doc, p) PROVE KeysGood(new)
  <2>1. new = Store!Drop(doc, p)
    BY <1>2 DEF Store!DeleteKey
  <2>2. DOMAIN new = DOMAIN doc \ {p} /\ \A j \in DOMAIN new : new[j] = doc[j]
    BY <2>1, DropIs
  <2> QED BY <2>2 DEF KeysGood
<1> QED BY <1>1, <1>2 DEF Store!KeyEdits

\* Tools, downloads and plugins.
LEMMA ToolsKeep ==
  ASSUME NEW doc, ToolsGood(doc), NEW new \in Store!ToolEdits(doc) PROVE ToolsGood(new)
<1>1. PICK n \in Clients : new \in Store!UploadTool(doc, n)
  BY DEF Store!ToolEdits
<1>2. PICK old : old = [u \in {v \in DOMAIN doc : doc[v] # n} |-> doc[u]]
  OBVIOUS
<1>3. PICK k : k = Store!New
  OBVIOUS
<1>4. new \in Store!Put(old, k, n)
  BY <1>1, <1>2, <1>3 DEF Store!UploadTool
<1>5. DOMAIN new = DOMAIN old \cup {k} /\ \A j \in DOMAIN new : new[j] = IF j = k THEN n ELSE old[j]
  BY <1>4 DEF Store!Put
<1>6. \A u \in DOMAIN old : u \in DOMAIN doc /\ old[u] = doc[u] /\ old[u] # n
  BY <1>2
<1> QED BY <1>5, <1>6 DEF ToolsGood

LEMMA DownloadsKeep ==
  ASSUME NEW doc, DownloadsGood(doc), NEW new \in Store!DownloadEdits(doc) PROVE DownloadsGood(new)
<1>1. CASE new \in Store!ResetDaily(doc)
  <2>1. new = [f \in DOMAIN doc |-> [doc[f] EXCEPT !.today = 0]]
    BY <1>1 DEF Store!ResetDaily
  <2> SUFFICES ASSUME NEW f \in DOMAIN new
               PROVE  new[f] \in [total : Nat, today : Nat] /\ new[f].today <= new[f].total
    BY DEF DownloadsGood
  <2>2. f \in DOMAIN doc /\ new[f] = [doc[f] EXCEPT !.today = 0]
    BY <2>1
  <2>3. doc[f] \in [total : Nat, today : Nat]
    BY <2>2 DEF DownloadsGood
  <2> QED BY <2>2, <2>3
<1>2. ASSUME NEW f, new \in Store!TrackDownload(doc, f) PROVE DownloadsGood(new)
  <2>1. PICK d : d = IF f \in DOMAIN doc THEN doc[f] ELSE [total |-> 0, today |-> 0]
    OBVIOUS
  <2>2. d \in [total : Nat, today : Nat] /\ d.today <= d.total
    BY <2>1 DEF DownloadsGood
  <2>3. PICK v : v = [total |-> d.total + 1, today |-> d.today + 1]
    OBVIOUS
  <2>4. new \in Store!Put(doc, f, v)
    BY <1>2, <2>1, <2>3 DEF Store!TrackDownload
  <2>5. DOMAIN new = DOMAIN doc \cup {f} /\ \A j \in DOMAIN new : new[j] = IF j = f THEN v ELSE doc[j]
    BY <2>4 DEF Store!Put
  <2>6. v \in [total : Nat, today : Nat] /\ v.today <= v.total
    BY <2>2, <2>3
  <2> QED BY <2>5, <2>6 DEF DownloadsGood
<1> QED BY <1>1, <1>2 DEF Store!DownloadEdits

LEMMA PluginsKeep ==
  ASSUME NEW doc, PluginsGood(doc), NEW new \in Store!PluginEdits(doc) PROVE PluginsGood(new)
<1>1. DOMAIN new = DOMAIN doc
  BY DEF Store!PluginEdits
<1> QED BY <1>1 DEF PluginsGood

\* A count one higher, or a new one of 1, stands for one request more.
LEMMA OneTallied ==
  ASSUME NEW f, NEW n \in Nat, Tallied(f, n), \A q \in DOMAIN f : f[q] \in Nat,
         NEW g, NEW k, DOMAIN g = DOMAIN f \cup {k}, \A q \in DOMAIN f \ {k} : g[q] = f[q],
         g[k] = IF k \in DOMAIN f THEN f[k] + 1 ELSE 1
  PROVE  Tallied(g, n + 1)
<1>1. g[k] \in Nat /\ g[k] # 0
  OBVIOUS
<1>2. PICK e : e = <<k, g[k]>>
  OBVIOUS
<1>3. \A h, x : x \in Store!Counted(h) <=> \E q \in DOMAIN h : \E m \in 1..h[q] : x = <<q, m>>
  <2> SUFFICES ASSUME NEW h, NEW x PROVE x \in Store!Counted(h) <=> \E q \in DOMAIN h : \E m \in 1..h[q] : x = <<q, m>>
    OBVIOUS
  <2>1. x \in Store!Counted(h) <=> \E q \in DOMAIN h : x \in {q} \X (1..h[q])
    BY DEF Store!Counted
  <2> QED
    BY <2>1
<1>4. e \notin Store!Counted(f)
  <2> SUFFICES ASSUME NEW q \in DOMAIN f, NEW m \in 1..f[q], e = <<q, m>> PROVE FALSE
    BY <1>3
  <2>1. q = k /\ m = g[k] /\ m = f[k] + 1 /\ f[k] \in Nat
    BY <1>2
  <2> QED
    BY <2>1
<1>5. Store!Counted(g) \subseteq Store!Counted(f) \cup {e}
  <2> SUFFICES ASSUME NEW q \in DOMAIN g, NEW m \in 1..g[q], <<q, m>> # e PROVE <<q, m>> \in Store!Counted(f)
    BY <1>3
  <2>1. CASE q # k
    BY <1>3, <2>1
  <2>2. CASE q = k
    <3>1. m # g[k] /\ m \in 1..g[k]
      BY <1>2, <2>2
    <3>2. k \in DOMAIN f /\ m \in 1..f[k]
      BY <3>1
    <3> QED
      BY <1>3, <2>2, <3>2
  <2> QED
    BY <2>1, <2>2
<1>6. Store!Counted(f) \cup {e} \subseteq Store!Counted(g)
  <2>1. ASSUME NEW q \in DOMAIN f, NEW m \in 1..f[q] PROVE <<q, m>> \in Store!Counted(g)
    <3>1. q \in DOMAIN g /\ m \in 1..g[q]
      BY <2>1
    <3> QED
      BY <1>3, <3>1
  <2>2. k \in DOMAIN g /\ g[k] \in 1..g[k]
    BY <1>1
  <2>3. e \in Store!Counted(g)
    BY <1>2, <1>3, <2>2
  <2>4. Store!Counted(f) \subseteq Store!Counted(g)
    BY <1>3, <2>1
  <2> QED
    BY <2>3, <2>4
<1>7. PICK S, T : S = Store!Counted(f) /\ T = S \cup {e} /\ T = Store!Counted(g)
  BY <1>5, <1>6
<1>8. IsFiniteSet(S) /\ Cardinality(S) = n /\ e \notin S
  BY <1>4, <1>7 DEF Tallied
<1>9. IsFiniteSet(S \cup {e}) /\ Cardinality(S \cup {e}) = Cardinality(S) + 1
  BY <1>8, FS_AddElement
<1> QED
  BY <1>7, <1>8, <1>9 DEF Tallied

LEMMA DaysTallied ==
  ASSUME NEW daily \in Seq(Nat), NEW n \in Nat, Tallied(daily, n), NEW d \in Store!Days(daily)
  PROVE  d \in Seq(Nat) /\ Tallied(d, n + 1)
<1>1. PICK l \in Nat : l = Len(daily) /\ DOMAIN daily = 1..l
  OBVIOUS
<1>2. \A q \in DOMAIN daily : daily[q] \in Nat
  OBVIOUS
<1>3. CASE d = Append(daily, 1)
  <2>1. d \in Seq(Nat) /\ DOMAIN d = 1..(l + 1) /\ d[l + 1] = 1 /\ \A q \in 1..l : d[q] = daily[q]
    BY <1>1, <1>3
  <2>2. DOMAIN d = DOMAIN daily \cup {l + 1} /\ l + 1 \notin DOMAIN daily
    BY <1>1, <2>1
  <2>3. /\ \A q \in DOMAIN daily \ {l + 1} : d[q] = daily[q]
        /\ d[l + 1] = IF l + 1 \in DOMAIN daily THEN daily[l + 1] + 1 ELSE 1
    BY <1>1, <2>1, <2>2
  <2>4. Tallied(d, n + 1)
    BY <1>2, <2>2, <2>3, OneTallied
  <2> QED
    BY <2>1, <2>4
<1>4. CASE l # 0 /\ d = [daily EXCEPT ![l] = @ + 1]
  <2>1. l \in DOMAIN daily /\ daily[l] \in Nat
    BY <1>1, <1>2, <1>4
  <2>2. DOMAIN d = DOMAIN daily /\ d[l] = daily[l] + 1 /\ \A q \in DOMAIN daily \ {l} : d[q] = daily[q]
    BY <1>4, <2>1
  <2>3. d \in Seq(Nat)
    BY <1>4, <2>1
  <2>4. DOMAIN d = DOMAIN daily \cup {l} /\ d[l] = IF l \in DOMAIN daily THEN daily[l] + 1 ELSE 1
    BY <2>1, <2>2
  <2>5. Tallied(d, n + 1)
    BY <1>2, <2>2, <2>4, OneTallied
  <2> QED
    BY <2>3, <2>5
<1> QED
  BY <1>1, <1>3, <1>4 DEF Store!Days

LEMMA StatsKeep ==
  ASSUME NEW doc, StatsGood(doc), NEW p, NEW error \in BOOLEAN, NEW new \in Store!RecordRequest(doc, p, error)
  PROVE  StatsGood(new)
<1>1. PICK s : s = Store!Stats(doc)
  OBVIOUS
<1>12. PICK ps : ps = [q \in DOMAIN s.providers \cup {p} |->
                         (IF q \in DOMAIN s.providers THEN s.providers[q] ELSE 0) + (IF q = p THEN 1 ELSE 0)]
  OBVIOUS
<1>2. PICK d \in Store!Days(s.daily) :
        new = [total |-> s.total + 1, errors |-> s.errors + (IF error THEN 1 ELSE 0), daily |-> d, providers |-> ps]
  BY <1>1, <1>12 DEF Store!RecordRequest
<1>3. DOMAIN new # {} /\ new.total = s.total + 1 /\ new.daily = d /\ new.providers = ps
  BY <1>2
<1>4. Store!Stats(new) = new
  BY <1>3 DEF Store!Stats
<1>5. /\ s.total \in Nat /\ s.daily \in Seq(Nat) /\ Tallied(s.daily, s.total) /\ Tallied(s.providers, s.total)
      /\ \A q \in DOMAIN s.providers : s.providers[q] \in Nat
  BY <1>1 DEF StatsGood
<1>6. d \in Seq(Nat) /\ Tallied(d, s.total + 1)
  BY <1>2, <1>5, DaysTallied
<1>7. PICK f : f = s.providers
  OBVIOUS
<1>8. DOMAIN ps = DOMAIN f \cup {p} /\ \A q \in DOMAIN ps : ps[q] = (IF q \in DOMAIN f THEN f[q] ELSE 0) + (IF q = p THEN 1 ELSE 0)
  BY <1>7, <1>12
<1>9. /\ \A q \in DOMAIN f : f[q] \in Nat /\ ps[q] \in Nat
      /\ \A q \in DOMAIN f \ {p} : ps[q] = f[q]
      /\ ps[p] = IF p \in DOMAIN f THEN f[p] + 1 ELSE 1
  BY <1>5, <1>7, <1>8
<1>10. Tallied(ps, s.total + 1)
  BY <1>5, <1>7, <1>8, <1>9, OneTallied
<1>11. \A q \in DOMAIN ps : ps[q] \in Nat
  BY <1>8, <1>9
<1> QED
  BY <1>3, <1>4, <1>5, <1>6, <1>10, <1>11 DEF StatsGood

\* Whatever a handler may save is as right as what it read.
LEMMA EditsKeep ==
  ASSUME kind \in Store!Kinds, NEW doc, Held(doc, kind, past), NEW t, NEW new \in Store!Edits(t, doc)
  PROVE  Held(new, kind, past)
<1>1. kind = "board" => new \in Store!BoardEdits(doc)
  BY DEF Store!Edits, Store!ThreadEdits
<1>2. kind = "keys" => new \in Store!KeyEdits(doc)
  BY DEF Store!Edits, Store!ThreadEdits
<1>3. kind = "tools" => new \in Store!ToolEdits(doc)
  BY DEF Store!Edits, Store!ThreadEdits
<1>4. kind = "downloads" => new \in Store!DownloadEdits(doc)
  BY DEF Store!Edits, Store!ThreadEdits
<1>5. kind = "plugins" => new \in Store!PluginEdits(doc)
  BY DEF Store!Edits, Store!ThreadEdits
<1>6. kind = "stats" => \E p \in Clients, error \in BOOLEAN : new \in Store!RecordRequest(doc, p, error)
  BY DEF Store!Edits, Store!StatsEdits
<1> QED
  BY <1>1, <1>2, <1>3, <1>4, <1>5, <1>6, BoardKeeps, KeysKeep, ToolsKeep, DownloadsKeep, PluginsKeep, StatsKeep DEF Held

\* A call more.
LEMMA OneCounted ==
  ASSUME NEW doc, NEW n \in Nat, CountsOf(doc, n), NEW p, NEW error \in BOOLEAN,
         NEW new \in Store!RecordRequest(doc, p, error)
  PROVE  CountsOf(new, n + 1)
<1>1. PICK d, ps : new = [total |-> Store!Stats(doc).total + 1,
                          errors |-> Store!Stats(doc).errors + (IF error THEN 1 ELSE 0), daily |-> d, providers |-> ps]
  BY DEF Store!RecordRequest
<1>2. DOMAIN new # {}
  BY <1>1
<1>3. Store!Stats(new) = new
  BY <1>2 DEF Store!Stats
<1> QED BY <1>1, <1>3 DEF CountsOf

\* One request moves on.
LEMMA OneHandlerMoves ==
  ASSUME NEW t \in Store!Handlers, NEW r, RequestsTyped, req' = [req EXCEPT ![t] = r],
         r = [at |-> r.at, doc |-> r.doc], r.at \in {"idle", "edited", "emptied", "overtaken"},
         r.at = "idle" => r = Store!Ready
  PROVE  RequestsTyped' /\ \A u \in Store!Handlers : req'[u] = IF u = t THEN r ELSE req[u]
<1>1. req' = [u \in Store!Handlers |-> req'[u]] /\ \A u \in Store!Handlers : req'[u] = IF u = t THEN r ELSE req[u]
  BY DEF RequestsTyped
<1> QED BY <1>1 DEF RequestsTyped, Store!Handlers

LEMMA LoopHandles == "loop" \in Store!Handlers
  BY DEF Store!Handlers, Store!Loop

LEMMA ReadKeeps == ASSUME StoreInv, NEW t \in Store!Handlers, Store!Read(t) PROVE StoreInv'
<1>1. PICK doc \in Store!Edits(t, file) : req' = [req EXCEPT ![t] = [at |-> "edited", doc |-> doc]]
  BY DEF Store!Read
<1>2. count' = count + 1 /\ UNCHANGED <<kind, file, past, tracked>> /\ req[t] = Store!Ready
  BY DEF Store!Read
<1>3. PICK r : r = [at |-> "edited", doc |-> doc]
  OBVIOUS
<1>4. req' = [req EXCEPT ![t] = r] /\ r = [at |-> r.at, doc |-> r.doc] /\ r.at = "edited" /\ r.doc = doc
  BY <1>1, <1>3
<1>5. RequestsTyped' /\ \A u \in Store!Handlers : req'[u] = IF u = t THEN r ELSE req[u]
  BY <1>4, OneHandlerMoves DEF StoreInv
<1>6. Held(doc, kind, past)
  BY EditsKeep DEF StoreInv
<1>7. StatsAlone'
  <2> SUFFICES ASSUME kind = "stats" PROVE StatsAlone'
    BY <1>2 DEF StatsAlone
  <2>1. req["loop"].at = "idle" \/ t # "loop"
    BY <1>2 DEF Store!Ready
  <2>2. Store!Edits(t, file) = Store!StatsEdits(t, file)
    BY DEF Store!Edits
  <2>3. t = "loop"
    BY <2>2 DEF Store!StatsEdits, Store!Loop
  <2>4. CountsOf(file, tracked)
    BY <2>1, <2>3 DEF StoreInv, StatsAlone
  <2>5. PICK p \in Clients, e \in BOOLEAN : doc \in Store!RecordRequest(file, p, e)
    BY <2>2, <2>3 DEF Store!StatsEdits, Store!Loop
  <2>6. CountsOf(doc, tracked + 1)
    BY <2>4, <2>5, OneCounted DEF StoreInv
  <2> QED BY <1>2, <1>4, <1>5, <2>3, <2>4, <2>6, LoopHandles DEF StoreInv, StatsAlone, CountsOf, Store!Handlers
<1>8. \A u \in Store!Handlers : Held(req'[u].doc, kind, past)
  BY <1>4, <1>5, <1>6 DEF StoreInv
<1>9. past \subseteq 1..count'
  BY <1>2 DEF StoreInv
<1> QED BY <1>2, <1>5, <1>7, <1>8, <1>9 DEF StoreInv, Store!Handlers

LEMMA EmptyKeepsDocument == ASSUME StoreInv, NEW t \in Store!Handlers, Store!Empty(t) PROVE StoreInv'
<1>1. /\ req[t].at = "edited" /\ file' = Store!NoDoc /\ req' = [req EXCEPT ![t].at = "emptied"]
      /\ UNCHANGED <<kind, past, count, tracked>>
  BY DEF Store!Empty
<1>2. PICK r : r = [at |-> "emptied", doc |-> req[t].doc]
  OBVIOUS
<1>3. req' = [req EXCEPT ![t] = r] /\ r = [at |-> r.at, doc |-> r.doc] /\ r.at = "emptied" /\ r.doc = req[t].doc
  <2>1. req[t] = [at |-> req[t].at, doc |-> req[t].doc]
    BY DEF StoreInv, RequestsTyped
  <2>2. [req[t] EXCEPT !.at = "emptied"] = r
    BY <1>2, <2>1
  <2> QED BY <1>1, <1>2, <2>2
<1>4. RequestsTyped' /\ \A u \in Store!Handlers : req'[u] = IF u = t THEN r ELSE req[u]
  BY <1>3, OneHandlerMoves DEF StoreInv
<1>5. Held(file', kind, past)
  BY <1>1, EmptyIsHeld, NoDocIs
<1>6. StatsAlone'
  <2> SUFFICES ASSUME kind = "stats" PROVE StatsAlone'
    BY <1>1 DEF StatsAlone
  <2>1. t = "loop"
    BY <1>1 DEF StoreInv, StatsAlone
  <2> QED BY <1>1, <1>3, <1>4, <2>1, LoopHandles DEF StoreInv, StatsAlone, CountsOf, Store!Handlers
<1>7. \A u \in Store!Handlers : Held(req'[u].doc, kind, past)
  BY <1>3, <1>4 DEF StoreInv
<1> QED BY <1>1, <1>4, <1>5, <1>6, <1>7 DEF StoreInv, Store!Handlers

LEMMA WriteKeepsDocument == ASSUME StoreInv, NEW t \in Store!Handlers, Store!Write(t) PROVE StoreInv'
<1>1. /\ req[t].at \in {"emptied", "overtaken"} /\ UNCHANGED <<kind, past, count>>
      /\ file' = req[t].doc \/ (req[t].at = "overtaken" /\ file' = Store!NoDoc)
      /\ tracked' = IF kind = "stats" THEN tracked + 1 ELSE 0
      /\ req' = [u \in Store!Handlers |-> IF u = t THEN Store!Ready
                                          ELSE IF req[u].at = "emptied" THEN [req[u] EXCEPT !.at = "overtaken"]
                                          ELSE req[u]]
  BY DEF Store!Write
<1>2. \A u \in Store!Handlers : /\ u = t => req'[u] = Store!Ready
                                /\ u # t /\ req[u].at = "emptied" =>
                                     req'[u] = [at |-> "overtaken", doc |-> req[u].doc]
                                /\ u # t /\ req[u].at # "emptied" => req'[u] = req[u]
  BY <1>1 DEF StoreInv, RequestsTyped
<1>3. Store!Ready = [at |-> "idle", doc |-> Store!NoDoc]
  BY DEF Store!Ready
<1>4. ASSUME NEW u \in Store!Handlers
      PROVE  /\ req'[u] = [at |-> req'[u].at, doc |-> req'[u].doc]
             /\ req'[u].at \in {"idle", "edited", "emptied", "overtaken"}
             /\ req'[u].at = "idle" => req'[u] = Store!Ready
             /\ req'[u].doc \in {Store!NoDoc, req[u].doc}
             /\ u = t \/ req[u].at = "idle" => req'[u].at = "idle"
  <2>1. CASE u = t
    <3>1. req'[u] = [at |-> "idle", doc |-> Store!NoDoc]
      BY <1>2, <1>3, <2>1
    <3> QED BY <1>3, <3>1
  <2>2. CASE u # t /\ req[u].at = "emptied"
    <3>1. req'[u] = [at |-> "overtaken", doc |-> req[u].doc]
      BY <1>2, <2>2
    <3> QED BY <2>2, <3>1
  <2>3. CASE u # t /\ req[u].at # "emptied"
    <3>1. req'[u] = req[u]
      BY <1>2, <2>3
    <3> QED BY <2>3, <3>1 DEF StoreInv, RequestsTyped
  <2> QED BY <2>1, <2>2, <2>3
<1>5. RequestsTyped'
  <2>1. req' = [u \in Store!Handlers |-> req'[u]]
    BY <1>1
  <2> QED BY <1>4, <2>1 DEF RequestsTyped, Store!Handlers, Store!Ready, Store!NoDoc
<1>6. Held(Store!NoDoc, kind, past)
  BY EmptyIsHeld, NoDocIs
<1>7. Held(file', kind, past) /\ \A u \in Store!Handlers : Held(req'[u].doc, kind, past)
  BY <1>1, <1>4, <1>6 DEF StoreInv
<1>8. StatsAlone'
  <2> SUFFICES ASSUME kind = "stats" PROVE StatsAlone'
    BY <1>1 DEF StatsAlone
  <2>1. t = "loop" /\ req[t].at = "emptied" /\ CountsOf(req[t].doc, tracked + 1)
    BY <1>1 DEF StoreInv, StatsAlone
  <2>2. file' = req[t].doc /\ tracked' = tracked + 1
    BY <1>1, <2>1
  <2>3. \A u \in Store!Handlers : req'[u].at = "idle"
    BY <1>4, <2>1 DEF StoreInv, StatsAlone
  <2>4. CountsOf(file', tracked')
    BY <2>1, <2>2
  <2> QED BY <1>1, <2>3, <2>4, LoopHandles DEF StatsAlone, CountsOf, Store!Handlers, Store!Stats
<1>9. tracked' \in Nat
  BY <1>1 DEF StoreInv
<1> QED BY <1>1, <1>5, <1>7, <1>8, <1>9 DEF StoreInv, Store!Handlers

LEMMA AgeKeeps == ASSUME StoreInv, Store!Age PROVE StoreInv'
<1>1. PICK i \in 1..count : past' = past \cup {i} /\ UNCHANGED <<kind, file, count, req, tracked>>
  BY DEF Store!Age
<1>2. \A doc : Held(doc, kind, past) => Held(doc, kind, past')
  BY <1>1 DEF Held, BoardGood
<1> QED BY <1>1, <1>2 DEF StoreInv, RequestsTyped, StatsAlone, CountsOf

LEMMA RestartKeepsDocument == ASSUME StoreInv, Store!RestartStore PROVE StoreInv'
<1>1. /\ req' = [t \in Store!Handlers |-> Store!Ready] /\ UNCHANGED <<kind, file, past, count>>
      /\ tracked' = IF req["loop"].at = "emptied" THEN 0 ELSE tracked
  BY DEF Store!RestartStore, Store!Loop
<1>2. Store!Ready = [at |-> "idle", doc |-> Store!NoDoc]
  BY DEF Store!Ready
<1>3. \A t \in Store!Handlers : req'[t] = Store!Ready /\ req'[t].at = "idle" /\ req'[t].doc = Store!NoDoc
  BY <1>1, <1>2
<1>4. RequestsTyped'
  BY <1>1, <1>2, <1>3 DEF RequestsTyped, Store!Handlers, Store!Ready, Store!NoDoc
<1>5. \A t \in Store!Handlers : Held(req'[t].doc, kind, past)
  BY <1>3, EmptyIsHeld, NoDocIs
<1>6. StatsAlone'
  <2> SUFFICES ASSUME kind = "stats" PROVE StatsAlone'
    BY <1>1 DEF StatsAlone
  <2>1. CountsOf(file, tracked')
    BY <1>1, NoDocIs DEF StoreInv, StatsAlone, CountsOf
  <2> QED BY <1>1, <1>3, <2>1, LoopHandles DEF StatsAlone, CountsOf, Store!Handlers, Store!Stats
<1>7. tracked' \in Nat
  BY <1>1 DEF StoreInv
<1> QED BY <1>1, <1>4, <1>5, <1>6, <1>7 DEF StoreInv, Store!Handlers

LEMMA StoreStarts == Store!StoreInit => StoreInv
<1> SUFFICES ASSUME Store!StoreInit PROVE StoreInv
  OBVIOUS
<1>1. /\ kind \in Store!Kinds /\ past = {} /\ count = 0 /\ tracked = 0
      /\ file = IF kind = "plugins" THEN [p \in Clients |-> 0] ELSE Store!NoDoc
      /\ req = [t \in Store!Handlers |-> Store!Ready]
  BY DEF Store!StoreInit
<1>2. Store!Ready = [at |-> "idle", doc |-> Store!NoDoc]
  BY DEF Store!Ready
<1>3. \A t \in Store!Handlers : req[t] = Store!Ready /\ req[t].at = "idle" /\ req[t].doc = Store!NoDoc
  BY <1>1, <1>2
<1>4. Held(Store!NoDoc, kind, past)
  BY EmptyIsHeld, NoDocIs
<1>5. Held(file, kind, past)
  <2>1. kind = "plugins" => DOMAIN file = Clients
    BY <1>1
  <2> QED BY <1>1, <1>4, <2>1 DEF Held, PluginsGood
<1>6. RequestsTyped
  BY <1>1, <1>2, <1>3 DEF RequestsTyped
<1>7. StatsAlone
  BY <1>1, <1>3, NoDocIs, LoopHandles DEF StatsAlone, CountsOf
<1> QED BY <1>1, <1>3, <1>4, <1>5, <1>6, <1>7 DEF StoreInv

LEMMA StoreKeeps == ASSUME StoreInv, [Next]_vars PROVE StoreInv'
<1>1. CASE UNCHANGED storeVars
  BY <1>1 DEF storeVars, StoreInv, RequestsTyped, StatsAlone, CountsOf, Store!Handlers, Store!Stats
<1>2. CASE Store!StoreNext
  BY <1>2, ReadKeeps, EmptyKeepsDocument, WriteKeepsDocument, AgeKeeps, RestartKeepsDocument DEF Store!StoreNext
<1> QED
  BY <1>1, <1>2 DEF Next, vars

LEMMA StoreShows == StoreInv => DocumentSound
<1> SUFFICES ASSUME StoreInv PROVE DocumentSound
  OBVIOUS
<1>1. Held(file, kind, past) /\ StatsAlone
  BY DEF StoreInv
<1>2. ASSUME kind = "board", NEW i \in DOMAIN file
      PROVE  /\ \A m, n \in 1..Len(file[i].voters) : file[i].voters[m] = file[i].voters[n] => m = n
             /\ \A j \in DOMAIN file \ {i} : file[i].ip = file[j].ip => i \in past \/ j \in past
  BY <1>1, <1>2 DEF Held, BoardGood, OnceEach
<1>3. ASSUME kind = "keys", NEW p \in DOMAIN file, file[p].default
      PROVE  /\ \A q \in DOMAIN file \ {p} : ~file[q].default
             /\ file[p].enabled => Store!Served(file) = {p}
  <2>1. \A q \in DOMAIN file : file[q].default => q = p
    BY <1>1, <1>3 DEF Held, KeysGood
  <2>2. ASSUME file[p].enabled PROVE Store!Served(file) = {p}
    <3>1. {q \in {r \in DOMAIN file : file[r].enabled} : file[q].default} = {p}
      BY <1>3, <2>1, <2>2
    <3> QED BY <3>1 DEF Store!Served
  <2> QED BY <2>1, <2>2
<1>4. kind = "tools" => \A u, v \in DOMAIN file : file[u] = file[v] => u = v
  BY <1>1 DEF Held, ToolsGood
<1>5. kind = "downloads" => \A f \in DOMAIN file : file[f].today <= file[f].total
  BY <1>1 DEF Held, DownloadsGood
<1>6. kind = "plugins" => DOMAIN file \in {{}, Clients}
  BY <1>1 DEF Held, PluginsGood
<1>7. kind = "stats" /\ req["loop"].at # "emptied" =>
        Store!Stats(file).total = tracked /\ Store!Stats(file).errors <= tracked
  BY <1>1 DEF StatsAlone, CountsOf
<1>8. kind = "stats" => /\ Store!SumOf(Store!Stats(file).daily) = Store!Stats(file).total
                        /\ Store!SumOf(Store!Stats(file).providers) = Store!Stats(file).total
  <2> SUFFICES ASSUME kind = "stats"
               PROVE  /\ Store!SumOf(Store!Stats(file).daily) = Store!Stats(file).total
                      /\ Store!SumOf(Store!Stats(file).providers) = Store!Stats(file).total
    OBVIOUS
  <2>1. StatsGood(file)
    BY <1>1 DEF Held
  <2>2. \A f, n : Tallied(f, n) => Store!SumOf(f) = n
    BY DEF Tallied, Store!SumOf, Store!Cardinality, Cardinality
  <2> QED
    BY <2>1, <2>2 DEF StatsGood
<1> QED
  BY <1>2, <1>3, <1>4, <1>5, <1>6, <1>7, <1>8 DEF DocumentSound, Store!DocumentSound, Store!Sound, Store!Loop

\* Whatever copies the handlers hold, however old, and wherever two writes overlap or the panel
\* dies: nobody votes twice, the suggestions of an address are apart, one key is the default
\* and is the one served, no tool is listed twice, the statistics miss no request
\* and their counts add up, also when a request is the first of its day or of its provider.
THEOREM DocumentsStaySound == Spec => []DocumentSound
<1>1. Init => StoreInv
  BY StoreStarts DEF Init
<1> QED
  BY <1>1, StoreShows, StoreKeeps, PTL DEF Spec
=============================================================================
