----------------------------- MODULE MCLsuMmio -----------------------------
(***************************************************************************)
(* LsuMmio for TLC: one load and one store, or two loads and one store for *)
(* the stale answer; the answers are told apart by two model values.       *)
(***************************************************************************)
EXTENDS LsuMmio
=============================================================================
