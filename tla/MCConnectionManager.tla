------------------------- MODULE MCConnectionManager -------------------------
(***************************************************************************)
(* Instances of ConnectionManager for TLC.                                 *)
(***************************************************************************)
EXTENDS ConnectionManager, TLC

CONSTANTS s1, s2, s3, b1, b2

SockSymmetry == Permutations(Socks)

\* Found; not there though the helper is; no helper.
TheDiscoveries == {"connecting", "bridge_not_started", "helper_unavailable"}

\* Also a discovery that throws, which changes nothing.
AllDiscoveries == TheDiscoveries \cup {None}
=============================================================================
