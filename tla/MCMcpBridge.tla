---------------------------- MODULE MCMcpBridge ----------------------------
(***************************************************************************)
(* Instances of McpBridge for TLC: two clients that number their calls     *)
(* alike, and two browsers.                                                *)
(***************************************************************************)
EXTENDS McpBridge

CONSTANTS A, B, k1, k2, m1, m2, one

MCClientOf == [c \in Calls |-> IF c = k2 THEN m2 ELSE m1]
MCToolOf == [c \in Calls |-> IF c = k2 THEN "list_tabs" ELSE "single"]
MCRpcId == [c \in Calls |-> one]
MCBrand == [b \in Browsers |-> IF b = A THEN "chrome" ELSE "edge"]
MCTargets == {A, "chrome", "default"}
=============================================================================
