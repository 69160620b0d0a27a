------------------------------ MODULE MCPanel ------------------------------
(***************************************************************************)
(* ControlPanel for TLC: the catalogue of models, the histories and the    *)
(* contributed keys of a small panel.                                      *)
(***************************************************************************)
EXTENDS ControlPanel

\* A new session, and one whose memory compresses with the next message.
Exchange == <<[role |-> "user", of |-> 0, tokens |-> 1], [role |-> "assistant", of |-> 0, tokens |-> 1]>>
MCHistories == {<<>>, Exchange}

Model(caps, cost, latency) == [caps |-> caps, cost |-> cost, latency |-> latency, available |-> TRUE]
MCCatalog == [zhipu    |-> <<Model({"text"}, "medium", "normal"), Model({"text", "vision"}, "medium", "fast")>>,
              deepseek |-> <<Model({"text"}, "low", "slow")>>,
              openai   |-> <<Model({"text", "vision"}, "high", "fast")>>]
MCWishes == [cap : {"", "vision"}, cost : {"", "high"}, latency : {"slow"}]

\* One instance and one device; the environment gives both, one or none of endpoint and key.
MCInstances == <<"i">>
MCDonors == <<"d">>
MCEnvs == [base : {"", "env"}, key : {"", "env"}]
=============================================================================
