----------------------------- MODULE MCIsaData ------------------------------
(***************************************************************************)
(* IsaData for TLC: two versions of every input; the second selection has  *)
(* another test, and the legacy data overlaps with the first.              *)
(***************************************************************************)
EXTENDS IsaData, TLC

OneReplaced == (1 :> {"add"}) @@ (2 :> {"div"})
=============================================================================
