---------------------------- MODULE MCReferences ----------------------------
(***************************************************************************)
(* References for TLC: the two dependencies of the reference model, in the *)
(* order of the script, one of them with submodules, and two commits of    *)
(* each lock.                                                              *)
(***************************************************************************)
EXTENDS References

MCOrder == <<"spike", "ibex">>
=============================================================================
