------------------------- MODULE MCBridgeLifecycle -------------------------
(***************************************************************************)
(* Instances of BridgeLifecycle for TLC.                                   *)
(***************************************************************************)
EXTENDS BridgeLifecycle

CONSTANT MaxPid

MCPids == 1..MaxPid
=============================================================================
