--------------------------- MODULE MCBridgeSystem ---------------------------
(***************************************************************************)
(* BridgeSystem for TLC: three requests and two answers are enough for a   *)
(* stale payload or a stale answer to differ from the current one.         *)
(***************************************************************************)
EXTENDS BridgeSystem
=============================================================================
