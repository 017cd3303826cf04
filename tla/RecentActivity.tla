--------------------------- MODULE RecentActivity ---------------------------
(***************************************************************************)
(* The ring of recent tool requests the dashboard shows (class             *)
(* RecentActivity of packages/native-host/src/diag-server.ts): operators   *)
(* on a sequence of at most MaxRows rows, the oldest first.  Steps, times  *)
(* and rejected origins are left out.                                      *)
(***************************************************************************)
EXTENDS Integers, Sequences, SequencesExt

CONSTANT MaxRows   \* MAX

ASSUME MaxRowsAssumption == MaxRows \in Nat \ {0}

\* Rows of the requests ids (one, or one for each target of a fan-out).
Started(ids) ==
    LET order == SetToSeq(ids)
    IN  [i \in DOMAIN order |-> [id |-> order[i], status |-> "pending"]]

\* (Mutant: nothing is shifted out.)
StartUnbounded(buf, ids) == buf \o Started(ids)
StartRequests(buf, ids) ==
    LET all == buf \o Started(ids)
        excess == IF Len(all) > MaxRows THEN Len(all) - MaxRows ELSE 0
    IN  SubSeq(all, excess + 1, Len(all))

\* A row already evicted is not brought back (mutant: finishing is forgotten).
FinishNone(buf, ids, status) == buf
FinishRequests(buf, ids, status) ==
    [i \in DOMAIN buf |->
        IF buf[i].id \in ids THEN [buf[i] EXCEPT !.status = status] ELSE buf[i]]
=============================================================================
