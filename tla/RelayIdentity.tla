---------------------------- MODULE RelayIdentity ----------------------------
(***************************************************************************)
(* The identity of one extension service-worker life, and the order by     *)
(* which the bridge ranks two lives that claim the same browserId          *)
(* (service.ts, RelayIdentity and compareRelayIdentity).                   *)
(*                                                                         *)
(* gen is Date.now() taken when the service worker loads, NoGen for an     *)
(* extension that sends none.  rawLifeUuid is compared byte for byte, so   *)
(* it is abstracted to its rank in that order.                             *)
(***************************************************************************)
EXTENDS Integers

NoGen == -1

RelayIdentities == [gen : Nat \cup {NoGen}, rawLifeUuid : Nat]

\* > 0 when a outranks b, < 0 when b outranks a, 0 on an exact tie.
CompareRelayIdentity(a, b) ==
    IF a.gen # b.gen
    THEN IF a.gen = NoGen THEN -1
         ELSE IF b.gen = NoGen THEN 1
         ELSE IF a.gen > b.gen THEN 1 ELSE -1
    ELSE IF a.rawLifeUuid = b.rawLifeUuid THEN 0
         ELSE IF a.rawLifeUuid > b.rawLifeUuid THEN 1 ELSE -1

Outranks(a, b) == CompareRelayIdentity(a, b) > 0
=============================================================================
