----------------------------- MODULE MCDevPod -----------------------------
(* Instances of DevPod for TLC. *)
EXTENDS DevPod
=============================================================================
