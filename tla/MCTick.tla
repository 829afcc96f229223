------------------------------- MODULE MCTick -------------------------------
(***************************************************************************)
(* TickSystem for TLC: the low word of mtime overflows three times.        *)
(***************************************************************************)
EXTENDS TickSystem
=============================================================================
