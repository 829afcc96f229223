------------------------------- MODULE MCUart -------------------------------
(***************************************************************************)
(* UartDriver for TLC: bytes of two bits; each writer prints a character   *)
(* of its own, so that bytes of one thread and of the other differ.        *)
(***************************************************************************)
EXTENDS UartDriver

CONSTANTS w1, w2

MCWriters == {w1, w2}
MCChars   == [t \in MCWriters |-> IF t = w1 THEN {<<0, 1>>} ELSE {<<1, 0>>}]
=============================================================================
