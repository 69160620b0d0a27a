----------------------------- MODULE MCSessions -----------------------------
(* Instances of Sessions for TLC. *)
EXTENDS Sessions

CONSTANTS h1, h2, d1
=============================================================================
