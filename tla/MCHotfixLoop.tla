---------------------------- MODULE MCHotfixLoop ----------------------------
(* HotfixLoop on one pod. *)
EXTENDS HotfixLoop
=============================================================================
