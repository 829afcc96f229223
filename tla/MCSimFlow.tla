----------------------------- MODULE MCSimFlow ------------------------------
(***************************************************************************)
(* SimFlow for TLC: two versions of the inputs and of the sources, two     *)
(* tests, every way to start a script.                                     *)
(***************************************************************************)
EXTENDS SimFlow
=============================================================================
