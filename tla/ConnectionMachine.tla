-------------------------- MODULE ConnectionMachine --------------------------
(***************************************************************************)
(* The state chart of the extension's connection (packages/extension/src/  *)
(* background/connection-machine.ts): a pure function of the context and   *)
(* an event.  An event the current state does not list is ignored.         *)
(*                                                                         *)
(* lastConnectedAt is abstracted to whether there was a connection.        *)
(* failureCount only chooses the backoff delay, which no longer grows from *)
(* MaxFailures on, so it stops there.  reconnectsThisSession, error and    *)
(* the time stamps are display only and left out.                          *)
(***************************************************************************)
EXTENDS Integers

CONSTANTS MaxFailures, Bridges, None

ASSUME MachineAssumption == MaxFailures \in Nat \ {0} /\ None \notin Bridges

States == {"disconnected", "connecting", "connected", "degraded", "reconnecting"}

Events == {"CONNECT", "AUTO_CONNECT", "WS_OPEN", "WS_ERROR", "WS_CLOSE", "TIMEOUT",
           "HEARTBEAT_OK", "HEARTBEAT_MISS", "DISCONNECT", "BACKOFF_EXPIRED"}

\* no_lock_file and protocol_timeout are treated as bridge_not_started is.
DiagnosticReasons ==
    {"connecting", "bridge_not_started", "server_not_responding",
     "helper_unavailable", "was_connected", "awaiting_sw_recovery"}

Contexts ==
    [state : States, failureCount : 0..MaxFailures, missedHeartbeats : Nat,
     diagnosticReason : DiagnosticReasons \cup {None},
     serverInfo : Bridges \cup {None}, everConnected : BOOLEAN]

InitialContext ==
    [state |-> "disconnected", failureCount |-> 0, missedHeartbeats |-> 0,
     diagnosticReason |-> None, serverInfo |-> None, everConnected |-> FALSE]

ToConnecting ==
    {"disconnected", "reconnecting"} \X {"CONNECT", "AUTO_CONNECT"}
        \cup {<<"reconnecting", "BACKOFF_EXPIRED">>}

\* WS_OPEN is accepted in reconnecting too, "rather than getting stuck".
ToConnected ==
    {"connecting", "reconnecting"} \X {"WS_OPEN"}
        \cup {"connected", "degraded"} \X {"HEARTBEAT_OK"}

ToReconnecting ==
    {"connecting"} \X {"WS_ERROR", "TIMEOUT", "WS_CLOSE"}
        \cup {"connected", "degraded"} \X {"WS_CLOSE"}

ToDisconnected == {"connected", "reconnecting"} \X {"DISCONNECT"}

Capped(n) == IF n < MaxFailures THEN n + 1 ELSE n

\* The first miss degrades a connection, the second gives it up.
Missed(ctx) ==
    IF ctx.state = "degraded" /\ ctx.missedHeartbeats >= 1
    THEN [ctx EXCEPT !.state = "reconnecting", !.missedHeartbeats = 0,
                     !.failureCount = Capped(@)]
    ELSE [ctx EXCEPT !.state = "degraded", !.missedHeartbeats = @ + 1]

\* What resets failureCount: only a pong (mutant: an open socket does).
ResetByOpen == {"WS_OPEN", "HEARTBEAT_OK"}
Stabilises == {"HEARTBEAT_OK"}

Transition(ctx, event) ==
    LET move == <<ctx.state, event>>
    IN  IF move \in ToConnecting
        THEN [ctx EXCEPT !.state = "connecting"]
        ELSE IF move \in ToConnected
        THEN [ctx EXCEPT !.state = "connected", !.missedHeartbeats = 0,
                         !.failureCount = IF event \in Stabilises THEN 0 ELSE @]
        ELSE IF move \in ToReconnecting
        THEN [ctx EXCEPT !.state = "reconnecting",
                         !.failureCount = Capped(@)]
        ELSE IF move \in ToDisconnected
        THEN [ctx EXCEPT !.state = "disconnected"]
        ELSE IF event = "HEARTBEAT_MISS" /\ ctx.state \in {"connected", "degraded"}
        THEN Missed(ctx)
        ELSE ctx
=============================================================================
