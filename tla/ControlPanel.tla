---------------------------- MODULE ControlPanel ----------------------------
(***************************************************************************)
(* The components of the control panel and of its kernel: the JSON         *)
(* documents, the bridge instances, the remote commands, the runtime of a  *)
(* session, the WeChat channel, the uploaded files, the client of the      *)
(* token pool and the pool of contributed keys.  They share no file and no *)
(* variable, so a behaviour is one of the component `part`, from its own   *)
(* initial state, and the states are the sum of theirs.                    *)
(***************************************************************************)
EXTENDS WechatChannel

CONSTANTS StoreThreads, Clients, MaxRequests
VARIABLES kind, file, past, count, req, tracked
Store == INSTANCE PanelStore
storeVars == <<kind, file, past, count, req, tracked>>

CONSTANTS BridgeCalls, MaxInstances
VARIABLES inst, applied, overdue, call
Bridge == INSTANCE BridgeInstances
bridgeVars == <<inst, applied, overdue, call>>

CONSTANTS Devices, DebugCalls, MaxCommands
VARIABLES pending, stored, late, beats, sent, handed, posted, saving
Debug == INSTANCE DeviceDebug WITH answered <- posted
debugVars == <<pending, stored, late, beats, sent, handed, posted, saving>>

CONSTANTS PanelThreads, MaxRuns, TokenLimit, Lengths, Histories
VARIABLES objects, session, runs, run, beside, results
Runtime == INSTANCE PanelRuntime
ASSUME LengthsAreNumbers == Lengths \subseteq Nat
\* What a session remembers from before is no message of a request to come.
ASSUME HistoriesAreOld == Histories \subseteq Seq([role : {"user", "assistant", "tool", "system"}, of : {0}, tokens : Nat])
runtimeVars == <<objects, session, runs, run, beside, results>>

CONSTANTS Catalog, Quotas, Wishes, MaxFailures
VARIABLES providers, connected, status, lastError, probed, answer
Client == INSTANCE TokenClient
ASSUME CatalogIsRanked == \A p \in DOMAIN Catalog : \A i \in DOMAIN Catalog[p] :
  /\ i \in Nat
  /\ Catalog[p][i].cost \in DOMAIN Client!CostRank /\ Catalog[p][i].latency \in DOMAIN Client!LatencyRank
ASSUME QuotasAreNumbers == Quotas \subseteq Nat
ASSUME WishesAreWishes == Wishes \subseteq [cap : STRING, cost : STRING, latency : STRING]
clientVars == <<providers, connected, status, lastError, probed, answer>>

CONSTANTS Uploaders, Folders, FileNames, MaxChunks, Sizes, MaxFiles, MaxMs
VARIABLES clock, opened, nodes, disk, up, saved, deleted
ASSUME SizesAreNumbers == Sizes \subseteq Nat
Upload == INSTANCE Uploads
uploadVars == <<clock, opened, nodes, disk, up, saved, deleted>>

CONSTANTS LlmThreads, MaxAsked, Instances, Donors, Envs
VARIABLES env, given, cache, pools, single, ask, asked, passed, dead, apart
Legacy == INSTANCE LegacyPool
\* Codes of instances begin with "miclaw-"; devices name themselves, none of them so.
ASSUME CodesAreApart == /\ Instances \in Seq(STRING) /\ Donors \in Seq(STRING)
                        /\ Legacy!Codes \cap {"", "env"} = {} /\ \A i \in DOMAIN Instances, d \in DOMAIN Donors : Instances[i] # Donors[d]
ASSUME EnvsAreEnvs == Envs \subseteq [base : {"", "env"}, key : {"", "env"}]
legacyVars == <<env, given, cache, pools, single, ask, asked, passed, dead, apart>>

VARIABLE part
vars == <<storeVars, bridgeVars, debugVars, runtimeVars, wxVars, clientVars, uploadVars, legacyVars, part>>

Init == /\ part \in {"store", "bridge", "debug", "runtime", "wechat", "client", "uploads", "legacy"}
        /\ Store!StoreInit /\ (part # "store" => kind = "board")
        /\ Bridge!BridgeInit /\ Debug!DebugInit
        /\ Runtime!RuntimeInit /\ (part # "runtime" => session = 0)
        /\ WxInit
        /\ Client!ClientInit /\ (part # "client" => connected)
        /\ Upload!UploadsInit
        /\ Legacy!LegacyInit /\ (part # "legacy" => env = (CHOOSE e \in Envs : TRUE) /\ given = {})

Next == /\ UNCHANGED part
        /\ \/ /\ part = "store" /\ Store!StoreNext
              /\ UNCHANGED <<bridgeVars, debugVars, runtimeVars, wxVars, clientVars, uploadVars, legacyVars>>
           \/ /\ part = "bridge" /\ Bridge!BridgeNext
              /\ UNCHANGED <<storeVars, debugVars, runtimeVars, wxVars, clientVars, uploadVars, legacyVars>>
           \/ /\ part = "debug" /\ Debug!DebugNext
              /\ UNCHANGED <<storeVars, bridgeVars, runtimeVars, wxVars, clientVars, uploadVars, legacyVars>>
           \/ /\ part = "runtime" /\ Runtime!RuntimeNext
              /\ UNCHANGED <<storeVars, bridgeVars, debugVars, wxVars, clientVars, uploadVars, legacyVars>>
           \/ /\ part = "wechat" /\ WxNext
              /\ UNCHANGED <<storeVars, bridgeVars, debugVars, runtimeVars, clientVars, uploadVars, legacyVars>>
           \/ /\ part = "client" /\ Client!ClientNext
              /\ UNCHANGED <<storeVars, bridgeVars, debugVars, runtimeVars, wxVars, uploadVars, legacyVars>>
           \/ /\ part = "uploads" /\ Upload!UploadsNext
              /\ UNCHANGED <<storeVars, bridgeVars, debugVars, runtimeVars, wxVars, clientVars, legacyVars>>
           \/ /\ part = "legacy" /\ Legacy!LegacyNext
              /\ UNCHANGED <<storeVars, bridgeVars, debugVars, runtimeVars, wxVars, clientVars, uploadVars>>
Spec == Init /\ [][Next]_vars
-----------------------------------------------------------------------------
\* What survives overlapping writes of a document (PanelStore).
DocumentSound == Store!DocumentSound
\* What a stale copy of the instances can do, and what it cannot (BridgeInstances).
StaleWritesOnly == Bridge!StaleWritesOnly
\* No command is handed out again after its result (DeviceDebug).
HandedRightly == Debug!HandedRightly
\* A request that runs alone asks the model its own question (PanelRuntime).
AsksItsOwn == Runtime!AsksItsOwn
\* The word of the token pool's client can be taken (TokenClient).
ClientSound == Client!ClientSound
\* Files that were answered as saved stay (Uploads).
SavedStay == Upload!SavedStay
\* Which contributed key a request may be sent with, and where (LegacyPool).
KeysSentRightly == Legacy!KeysSentRightly
=============================================================================
