---------------------------- MODULE MCBridgeRelay ----------------------------
(***************************************************************************)
(* Instances of BridgeRelay for TLC.                                       *)
(***************************************************************************)
EXTENDS BridgeRelay, TLC

CONSTANTS A, B, Probed, s1, s2, s3, r1, r2, c1, c2

Relay(i, g, l) ==
    [browserId |-> i, canonical |-> TRUE, ident |-> [gen |-> g, rawLifeUuid |-> l]]

\* What an extension without role=relay, or the helper's probe, declares.
Plain(i) ==
    [browserId |-> i, canonical |-> FALSE, ident |-> [gen |-> NoGen, rawLifeUuid |-> 0]]

\* Two profiles of one brand, and the probe, which is a brand of its own.
MCBrand == [i \in Ids |-> IF i = Probed THEN Probed ELSE "chrome"]

\* Every way a newcomer can rank: lower and higher gen, lower and higher life
\* of one gen, no gen, not canonical.
AllRanks ==
    {Relay(A, 1, 1), Relay(A, 2, 1), Relay(A, 2, 2), Relay(A, NoGen, 0), Plain(A)}

TwoProfiles == {Relay(A, 1, 1), Relay(B, 1, 2), Plain(Probed)}

OneClient == [r \in Requests |-> c1]
TwoClients == [r \in Requests |-> IF r = r1 THEN c1 ELSE c2]

RoutingTargets == Ids \cup {"chrome", "default"}

SockSymmetry == Permutations(Socks)
=============================================================================
