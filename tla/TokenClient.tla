---------------------------- MODULE TokenClient ----------------------------
(***************************************************************************)
(* The kernel's client of the TokenPool service (token_pool/client.py),    *)
(* the providers it falls back to (token_pool/resource_manager.py) and the *)
(* verdict of the health report on both (health.py).                       *)
(*                                                                         *)
(* The kernel's constructor and its callers use the client from one thread,*)
(* so a call is one step.  The service is external: each request to it is  *)
(* answered or fails; one that times out may have taken effect there, and  *)
(* its units are then charged here as well.                                *)
(***************************************************************************)
EXTENDS Integers, Sequences, SequencesExt

CONSTANTS Catalog,    \* provider -> its models, [caps, cost, latency, available] in order
          Quotas,     \* quota a provider is registered with
          Wishes,     \* requirements: [cap, cost, latency], "" where nothing is asked
          MaxFailures \* bound on the failures counted per provider

VARIABLES providers,  \* _providers: [name, quota, failures] in insertion order
          connected, status, lastError, \* of the client
          probed,     \* whether the last request to /status or /health was answered
          answer      \* the last response of select_model or consume

clientVars == <<providers, connected, status, lastError, probed, answer>>

NoAnswer == [kind |-> "none"]

\* _connect as part of a call: what the client is after it.
Connect(c) == IF c.connected THEN {c}
              ELSE {[connected |-> TRUE, status |-> "online", error |-> ""],
                    [connected |-> FALSE, status |-> "offline", error |-> "unreachable"]}
Now == [connected |-> connected, status |-> status, error |-> lastError]
Becomes(c) == connected' = c.connected /\ status' = c.status /\ lastError' = c.error

ClientInit == /\ providers = <<>> /\ answer = NoAnswer
              /\ \E c \in Connect([connected |-> FALSE, status |-> "offline", error |-> ""]) :
                   /\ connected = c.connected /\ status = c.status /\ lastError = c.error
                   /\ probed = c.connected

-----------------------------------------------------------------------------
(* The resource manager.                                                   *)

Known == {providers[i].name : i \in DOMAIN providers}
At(name) == CHOOSE i \in DOMAIN providers : providers[i].name = name

\* Registering again replaces the record where it is.
Register(name, quota) ==
  LET p == [name |-> name, quota |-> quota, failures |-> 0]
  IN /\ providers' = IF name \in Known THEN [providers EXCEPT ![At(name)] = p] ELSE Append(providers, p)
     /\ UNCHANGED <<connected, status, lastError, probed, answer>>
Unregister(name) == /\ name \in Known
                    /\ providers' = RemoveAt(providers, At(name))
                    /\ UNCHANGED <<connected, status, lastError, probed, answer>>
RecordFailure(name) == /\ name \in Known /\ providers[At(name)].failures < MaxFailures
                       /\ providers' = [providers EXCEPT ![At(name)].failures = @ + 1]
                       /\ UNCHANGED <<connected, status, lastError, probed, answer>>
RecordSuccess(name) == /\ name \in Known
                       /\ providers' = [providers EXCEPT ![At(name)].failures = 0]
                       /\ UNCHANGED <<connected, status, lastError, probed, answer>>

\* select_model of the manager: usable models, the first of the lowest score.
Candidates(wish) ==
  {c \in (DOMAIN providers) \X UNION {DOMAIN Catalog[p] : p \in DOMAIN Catalog} :
     LET models == Catalog[providers[c[1]].name]
     IN /\ providers[c[1]].quota > 0 /\ c[2] \in DOMAIN models /\ models[c[2]].available
        /\ wish.cap # "" => wish.cap \in models[c[2]].caps}
CostRank == [low |-> 0, medium |-> 1, high |-> 2]
LatencyRank == [fast |-> 0, normal |-> 1, slow |-> 2]
\* MUTANT: the boost of a preference is worth more than a rank.
ScoreBoosted(c, wish) ==
  LET m == Catalog[providers[c[1]].name][c[2]]
  IN <<2 * CostRank[m.cost] - (IF m.cost = wish.cost THEN 3 ELSE 0), 2 * LatencyRank[m.latency],
       providers[c[1]].failures, c[1], c[2]>>
Score(c, wish) ==   \* doubled, so that the bonus of 0.5 is an integer
  LET m == Catalog[providers[c[1]].name][c[2]]
  IN <<2 * CostRank[m.cost] - (IF m.cost = wish.cost THEN 1 ELSE 0),
       2 * LatencyRank[m.latency] - (IF m.latency = wish.latency THEN 1 ELSE 0),
       providers[c[1]].failures, c[1], c[2]>>
Precedes(s, t) == \E k \in 1..5 : s[k] < t[k] /\ \A n \in 1..(k - 1) : s[n] = t[n]
Best(wish) == CHOOSE c \in Candidates(wish) :
                \A d \in Candidates(wish) \ {c} : Precedes(Score(c, wish), Score(d, wish))

\* consume_quota: all of the amount or nothing.
CanPay(name, amount) == name \in Known /\ providers[At(name)].quota >= amount

-----------------------------------------------------------------------------
(* The client.                                                             *)

\* health_check asks once; get_status reconnects first, and keeps the error of a connection
\* that failed when its own request is then answered.
HealthCheck == /\ \/ Becomes([connected |-> TRUE, status |-> "online", error |-> ""]) /\ probed' = TRUE
                  \/ Becomes([connected |-> FALSE, status |-> "offline", error |-> "unreachable"]) /\ probed' = FALSE
               /\ UNCHANGED <<providers, answer>>
GetStatus == \E c \in Connect(Now) :
               /\ \/ Becomes([c EXCEPT !.connected = TRUE, !.status = "online"]) /\ probed' = TRUE
                  \/ Becomes([connected |-> FALSE, status |-> "offline", error |-> "unreachable"]) /\ probed' = FALSE
               /\ UNCHANGED <<providers, answer>>

Probed(c) == probed' = IF connected THEN probed ELSE c.connected
Fallback(c) == IF c.connected THEN "online" ELSE "degraded"

\* select_model: the service, else the manager.  A request that fails leaves the client
\* connected and marks it degraded; no later success takes that mark away.
SelectModel(wish) == \E c \in Connect(Now), o \in {"ok", "failed"} :
  /\ Probed(c)
  /\ IF c.connected /\ o = "ok"
     THEN Becomes(c) /\ answer' = [kind |-> "select", success |-> TRUE, local |-> FALSE,
                                   status |-> "online", failed |-> FALSE]
     ELSE LET d == IF c.connected THEN [c EXCEPT !.status = "degraded"] ELSE c
              found == Candidates(wish) # {}
          IN /\ Becomes(d)
             /\ answer' = [kind |-> "select", success |-> found, local |-> TRUE,
                           status |-> IF found THEN Fallback(d) ELSE d.status,
                           failed |-> c.connected]
  /\ UNCHANGED providers

\* consume: the service, else the manager; its own failures leave the status alone.
Consume(name, amount) == \E c \in Connect(Now), o \in {"ok", "failed"} :
  /\ Becomes(c) /\ Probed(c)
  /\ LET local == ~(c.connected /\ o = "ok")
         paid  == local /\ CanPay(name, amount)
     IN /\ providers' = IF paid THEN [providers EXCEPT ![At(name)].quota = @ - amount] ELSE providers
        /\ answer' = [kind |-> "consume", success |-> ~local \/ paid, local |-> local,
                      status |-> IF local THEN Fallback(c) ELSE "online",
                      failed |-> c.connected /\ local]

\* The verdict of full_health without a stop, by what its checker was given: this client, else
\* a kernel with its resource manager, else nothing.  Who names no connection counts as connected.
PoolInfo(given) == CASE given = "client" -> [connected |-> connected, status |-> status]
                     [] given = "kernel" -> [connected |-> TRUE, status |-> "local_only"]
                     [] OTHER            -> [connected |-> TRUE, status |-> "offline"]
Overall(given) == LET pool == PoolInfo(given)
                  IN IF ~pool.connected /\ pool.status = "offline" THEN "degraded" ELSE "healthy"

ClientNext ==
  \/ HealthCheck \/ GetStatus
  \/ \E w \in Wishes : SelectModel(w)
  \/ \E p \in DOMAIN Catalog : \/ \E q \in Quotas : Register(p, q)
                               \/ Unregister(p) \/ RecordFailure(p) \/ RecordSuccess(p)
                               \/ \E n \in 1..2 : Consume(p, n)

-----------------------------------------------------------------------------
\* What the client says of itself, over calls whose requests fail at any point: it is offline
\* exactly when the last probe of the service failed; a health report is degraded exactly then,
\* and only if its checker was given the client; and a local answer carries "online" only when
\* this very call's request was the one that failed.
ClientTells ==
  /\ connected = probed
  /\ status = "offline" <=> ~connected
  /\ \A given \in {"client", "kernel", "nothing"} :
       Overall(given) = "degraded" <=> given = "client" /\ ~probed
  /\ answer.kind # "none" /\ answer.local /\ answer.status = "online" => answer.failed

\* The lowest cost always wins: the boost of a preference, half a rank, never changes which
\* model is chosen, whatever the requirement prefers.
CheapestWins == \A w \in Wishes : Candidates(w) # {} =>
  /\ Best(w) = Best([w EXCEPT !.cost = "", !.latency = ""])
  /\ \A c \in Candidates(w) : CostRank[Catalog[providers[Best(w)[1]].name][Best(w)[2]].cost]
                               <= CostRank[Catalog[providers[c[1]].name][c[2]].cost]

\* The client's word can be taken: on the state of the service and on the local choice, over
\* registrations, failures and quota that change between the calls.
ClientSound == ClientTells /\ CheapestWins
=============================================================================
