-------------------------- MODULE StartCoordinator --------------------------
(***************************************************************************)
(* The extension's single-flight start coordinator                         *)
(* (packages/extension/src/background/start-coordinator.ts), as operators  *)
(* on its state.  The time since the last attempt matters only against the *)
(* cool-down (cooling), the count of failures only up to MaxAutoAttempts.  *)
(* What a caller that starts nothing is told has no effect on the state.   *)
(***************************************************************************)
EXTENDS Integers, FiniteSetsExt

CONSTANT MaxAutoAttempts   \* maxAutoAttempts, 3 in the code

ASSUME AttemptsAssumption == MaxAutoAttempts \in Nat \ {0}

Coordinators ==
    [inFlight : BOOLEAN, byUser : BOOLEAN, failures : 0..MaxAutoAttempts,
     autoLocked : BOOLEAN, cooling : BOOLEAN]

NewCoordinator ==
    [inFlight |-> FALSE, byUser |-> FALSE, failures |-> 0,
     autoLocked |-> FALSE, cooling |-> FALSE]

\* Does tryStart run an attempt of its own?  A call during one joins it.
Attempts(k, byUser) ==
    ~k.inFlight /\ (byUser \/ ~(k.autoLocked \/ k.cooling))

Attempting(k, byUser) ==
    [k EXCEPT !.inFlight = TRUE, !.byUser = byUser, !.cooling = TRUE,
              !.autoLocked = @ /\ ~byUser]

\* .finally (mutant: the promise stays).
Forever(k) == TRUE
StillInFlight(k) == FALSE

\* The end of runAttempt.
Attempted(k, ok) ==
    LET failures == IF ok THEN 0 ELSE Min({k.failures + 1, MaxAutoAttempts})
    IN  [k EXCEPT
           !.inFlight = StillInFlight(k),
           !.byUser = FALSE,
           !.failures = failures,
           !.autoLocked = ~ok /\ (@ \/ (~k.byUser /\ failures = MaxAutoAttempts))]

Cooled(k) == [k EXCEPT !.cooling = FALSE]
=============================================================================
