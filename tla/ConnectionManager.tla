-------------------------- MODULE ConnectionManager --------------------------
(***************************************************************************)
(* The connection manager of one extension (packages/extension/src/        *)
(* background/connection-manager.ts) with its relay sockets, heartbeat,    *)
(* backoff timer and relay lock, from one service-worker start to the next.*)
(*                                                                         *)
(* JavaScript handlers are atomic, so one action is one event.  What       *)
(* interleaves is what waits for the native helper (refreshUrl) or for the *)
(* bridge's /api/state: pending counts those waits by what they do next,   *)
(* and nothing cancels them.                                               *)
(*                                                                         *)
(* The log flush timer runs exactly while heartbeat # None and is not a    *)
(* variable.  The URL matters only in that a change of it resets           *)
(* failureCount.                                                           *)
(***************************************************************************)
EXTENDS ConnectionMachine, FiniteSets

CONSTANTS
    Socks,          \* WebSocket slots; a closed one can be used again
    Discoveries,    \* outcomes of discoverUrl: a reason, or None if it threw
    MaxPending,     \* bound on the continuations waiting at once
    MaxPings,       \* bound on the unanswered pings counted
    MaxAsked,       \* bound on unanswered lock requests; 0: no Web Locks API
    Retries,        \* whether retry() is called (user, or after a bridge start)
    Disconnects     \* whether disconnect() is called

ASSUME ManagerAssumption ==
    /\ None \notin Socks
    /\ Discoveries \subseteq
         {"connecting", "bridge_not_started", "server_not_responding",
          "helper_unavailable", None}
    /\ MaxPending \in Nat \ {0} /\ MaxPings \in Nat \ {0} /\ MaxAsked \in Nat
    /\ Retries \in BOOLEAN /\ Disconnects \in BOOLEAN

(***************************************************************************)
(* What a wait is followed by: "open" opens a relay in any case (connect,  *)
(* retry, backoff); "reconcile" opens one if discovery found a bridge;     *)
(* "refresh" does nothing more; "probe" is reconcile's recovery probe.     *)
(***************************************************************************)
Waits == {"open", "reconcile", "refresh", "probe"}

\* missed is HeartbeatMonitor.missedCount.
maxMissed == 3
Heartbeats ==
    [running : BOOLEAN, pendingPong : BOOLEAN, missed : 0..maxMissed]
FreshHeartbeat == [running |-> TRUE, pendingPong |-> FALSE, missed |-> 0]

VARIABLES
    context,
    ws,               \* readyState of each socket
    relay,            \* the socket of the current relay, or None
    heartbeat,        \* the monitor of the informed relay, or None
    pings,            \* pings of the current relay not yet answered
    backoff,          \* the backoff timer is armed
    serverInfoTimer,  \* the server_info timer is armed
    lockAsked,        \* requests of the relay lock not yet answered
    lockHeld,         \* releaseRelayLock # null
    pending,          \* waits in progress
    superseded,       \* this identity was refused with 4002
    bridge,           \* "flaky", or "steady" from some moment on
    attempt           \* history: what became of the latest relay

timers == <<backoff, serverInfoTimer>>
locks == <<lockAsked, lockHeld>>
link == <<ws, relay, heartbeat, pings>>
environment == <<superseded, bridge>>
vars == <<context, link, timers, locks, pending, environment, attempt>>

(***************************************************************************)
(* attempt: failureCount when the latest relay was opened, whether it got  *)
(* its server_info, and whether its count was excused since (a pong, or a  *)
(* bridge at another URL).                                                 *)
(***************************************************************************)
Attempts ==
    [count : 0..MaxFailures, informed : BOOLEAN, excused : BOOLEAN]

TypeOK ==
    /\ context \in Contexts
    /\ ws \in [Socks -> {"closed", "connecting", "open", "closing"}]
    /\ relay \in Socks \cup {None}
    /\ heartbeat \in Heartbeats \cup {None}
    /\ pings \in 0..MaxPings
    /\ backoff \in BOOLEAN /\ serverInfoTimer \in BOOLEAN
    /\ lockAsked \in 0..MaxAsked /\ lockHeld \in BOOLEAN
    /\ pending \in [Waits -> 0..MaxPending]
    /\ superseded \in BOOLEAN /\ bridge \in {"flaky", "steady"}
    /\ attempt \in Attempts

NoWaits == [w \in Waits |-> 0]
NoAttempt == [count |-> 0, informed |-> FALSE, excused |-> TRUE]

\* A service worker has loaded and called connect(), which waits for discovery.
Init ==
    /\ context = Transition(InitialContext, "CONNECT")
    /\ ws = [s \in Socks |-> "closed"]
    /\ relay = None /\ heartbeat = None /\ pings = 0
    /\ backoff = FALSE /\ serverInfoTimer = FALSE
    /\ lockAsked = 0 /\ lockHeld = FALSE
    /\ pending = [NoWaits EXCEPT !["open"] = 1]
    /\ superseded = FALSE /\ bridge = "flaky"
    /\ attempt = NoAttempt

\* The bound on concurrent waits, on those of each kind.
Room(w) == pending[w] < MaxPending
Begun(w) == [pending EXCEPT ![w] = @ + 1]
Ended(w) == [pending EXCEPT ![w] = @ - 1]

\* relay.isConnected(), relay.isConnecting()
IsConnected == relay # None /\ ws[relay] = "open"
IsConnecting == relay # None /\ ws[relay] = "connecting"

\* The relay has its server_info and is not closing.
RelayAlive == IsConnected /\ heartbeat # None

-----------------------------------------------------------------------------
(***************************************************************************)
(* Helpers.                                                                *)
(***************************************************************************)

\* After a connection, reasons that name no remedy collapse to was_connected.
Actionable ==
    {"bridge_not_started", "server_not_responding", "helper_unavailable",
     "awaiting_sw_recovery"}

\* (Mutant: so does "connecting".)
CollapsesAll(ctx, reason) == ctx.serverInfo # None /\ reason \notin Actionable
Collapses(ctx, reason) ==
    ctx.serverInfo # None /\ reason # "connecting" /\ reason \notin Actionable

SetDiagnostic(ctx, reason) ==
    [ctx EXCEPT !.diagnosticReason =
        IF Collapses(ctx, reason) THEN "was_connected" ELSE reason]

\* refreshUrl: moved says the bridge is at another URL than before.
Refreshed(ctx, found, moved) ==
    IF found = None THEN ctx
    ELSE LET c == SetDiagnostic(ctx, found)
         IN  IF moved THEN [c EXCEPT !.failureCount = 0] ELSE c

\* relay.discard(): the socket is closed without handlers (mutant: the reference
\* is dropped, the socket left open).
Forgotten == ws
Discarded == IF relay = None THEN ws ELSE [ws EXCEPT ![relay] = "closing"]

\* What teardownRelay leaves of the backoff timer (mutant: it is not cancelled).
KeepsBackoff == backoff
CancelsBackoff == FALSE

\* What teardownRelay leaves of the server_info timer (mutant: it leaks).
LeaksInfoTimer == serverInfoTimer
ClearsInfoTimer == FALSE

TeardownRelay ==
    /\ heartbeat' = None
    /\ pings' = 0
    /\ backoff' = CancelsBackoff
    /\ serverInfoTimer' = ClearsInfoTimer
    /\ lockHeld' = FALSE

StopAll ==
    /\ TeardownRelay
    /\ ws' = Discarded
    /\ relay' = None
    /\ UNCHANGED <<lockAsked, attempt>>

\* openRelay with the context it finds: the old relay is torn down, the lock
\* asked for without waiting, and a socket opened.
OpenRelay(ctx) ==
    /\ TeardownRelay
    /\ \E s \in Socks :
         /\ ws[s] = "closed"
         /\ ws' = [Discarded EXCEPT ![s] = "connecting"]
         /\ relay' = s
    /\ lockAsked' = IF lockAsked < MaxAsked THEN lockAsked + 1 ELSE lockAsked
    /\ attempt' = [count |-> ctx.failureCount, informed |-> FALSE,
                   excused |-> FALSE]

\* safeSend of a ping on the current relay.
PingSent == IF IsConnected /\ pings < MaxPings THEN pings + 1 ELSE pings

-----------------------------------------------------------------------------
(***************************************************************************)
(* Discovery and what follows it.                                          *)
(***************************************************************************)

\* A steady bridge is found.
Finds(found) == found \in Discoveries /\ (bridge = "steady" => found = "connecting")

Excuse(moved) == [attempt EXCEPT !.excused = @ \/ moved]

ThenOpen(found, moved) ==
    LET ctx == Refreshed(context, found, moved)
    IN  /\ pending["open"] > 0 /\ Finds(found)
        /\ pending' = Ended("open")
        /\ context' = ctx
        /\ OpenRelay(ctx)
        /\ UNCHANGED environment

ThenReconcile(found, moved) ==
    LET ctx == Refreshed(context, found, moved)
    IN  /\ pending["reconcile"] > 0 /\ Finds(found)
        /\ pending' = Ended("reconcile")
        /\ IF ctx.diagnosticReason = "connecting"
           THEN /\ context' = Transition(ctx, "CONNECT")
                /\ OpenRelay(ctx)
           ELSE /\ context' = Transition(ctx, "DISCONNECT")
                /\ attempt' = Excuse(moved /\ found # None)
                /\ UNCHANGED <<link, timers, locks>>
        /\ UNCHANGED environment

ThenNothing(found, moved) ==
    /\ pending["refresh"] > 0 /\ Finds(found)
    /\ pending' = Ended("refresh")
    /\ context' = Refreshed(context, found, moved)
    /\ attempt' = Excuse(moved /\ found # None)
    /\ UNCHANGED <<link, timers, locks, environment>>

\* BACKOFF_EXPIRED, then refreshUrl and openRelay.
BackoffExpired ==
    /\ backoff /\ Room("open")
    /\ backoff' = FALSE
    /\ context' = Transition(context, "BACKOFF_EXPIRED")
    /\ pending' = Begun("open")
    /\ UNCHANGED <<link, serverInfoTimer, locks, environment, attempt>>

Retry ==
    /\ Retries /\ Room("open")
    /\ StopAll
    /\ context' = Transition(context, "CONNECT")
    /\ pending' = Begun("open")
    /\ UNCHANGED environment

Disconnect ==
    /\ Disconnects
    /\ StopAll
    /\ context' = Transition(context, "DISCONNECT")
    /\ UNCHANGED <<pending, environment>>

(***************************************************************************)
(* reconcile(): called by the alarm, by the side panel and by its fast     *)
(* poll.  An open relay is pinged, a connecting one left alone; a refused  *)
(* identity first asks the bridge; otherwise everything is torn down and   *)
(* discovery asked again.                                                  *)
(***************************************************************************)
ReconcilePings ==
    /\ IsConnected
    /\ pings' = PingSent
    /\ UNCHANGED <<context, ws, relay, heartbeat, timers, locks, pending,
                   environment, attempt>>

ReconcileProbes ==
    /\ ~IsConnected /\ ~IsConnecting /\ Room("probe")
    /\ context.diagnosticReason = "awaiting_sw_recovery"
    /\ pending' = Begun("probe")
    /\ UNCHANGED <<context, link, timers, locks, environment, attempt>>

ReconcileRestarts ==
    /\ ~IsConnected /\ ~IsConnecting /\ Room("reconcile")
    /\ context.diagnosticReason # "awaiting_sw_recovery"
    /\ StopAll
    /\ pending' = Begun("reconcile")
    /\ UNCHANGED <<context, environment>>

\* /api/state answered: a relay of this browser is live, or none is, or nobody
\* knows.
ProbeSaysLive ==
    /\ pending["probe"] > 0 /\ (bridge = "flaky" \/ RelayAlive)
    /\ pending' = Ended("probe")
    /\ UNCHANGED <<context, link, timers, locks, environment, attempt>>

ProbeSaysNone ==
    /\ pending["probe"] > 0 /\ Room("reconcile")
    /\ pending' = [Ended("probe") EXCEPT !["reconcile"] = @ + 1]
    /\ superseded' = FALSE  \* mintFreshRelayIdentity
    /\ StopAll
    /\ UNCHANGED <<context, bridge>>

-----------------------------------------------------------------------------
(***************************************************************************)
(* Callbacks of the relay.                                                 *)
(***************************************************************************)

\* The socket opens; the server_info timer starts.
Opened ==
    /\ IsConnecting
    /\ ws' = [ws EXCEPT ![relay] = "open"]
    /\ serverInfoTimer' = TRUE
    /\ UNCHANGED <<context, relay, heartbeat, pings, backoff, locks, pending,
                   environment, attempt>>

\* server_info of bridge b; one of another pid has the status fetched anew.
ServerInfo(b) ==
    LET ctx == [context EXCEPT !.serverInfo = b, !.everConnected = TRUE,
                               !.diagnosticReason = None, !.missedHeartbeats = 0]
        another == context.serverInfo \notin {None, b}
    IN  /\ IsConnected /\ heartbeat = None
        /\ another => Room("refresh")
        /\ context' = Transition(ctx, "WS_OPEN")
        /\ heartbeat' = FreshHeartbeat
        /\ serverInfoTimer' = FALSE
        /\ lockHeld' = FALSE
        /\ pending' = IF another THEN Begun("refresh") ELSE pending
        /\ attempt' = [attempt EXCEPT !.informed = TRUE]
        /\ UNCHANGED <<ws, relay, pings, backoff, lockAsked, environment>>

\* No server_info in 10 s: relay.disconnect(), whose close event will follow.
ServerInfoTimeout ==
    /\ serverInfoTimer /\ bridge = "flaky"
    /\ serverInfoTimer' = FALSE
    /\ ws' = [ws EXCEPT ![relay] = IF @ = "open" THEN "closing" ELSE @]
    /\ UNCHANGED <<context, relay, heartbeat, pings, backoff, locks, pending,
                   environment, attempt>>

Pong ==
    /\ RelayAlive /\ pings > 0
    /\ pings' = pings - 1
    /\ heartbeat' = IF heartbeat.running THEN FreshHeartbeat ELSE heartbeat
    /\ context' = Transition(context, "HEARTBEAT_OK")
    /\ attempt' = Excuse(context.state \in {"connected", "degraded"})
    /\ UNCHANGED <<ws, relay, timers, locks, pending, environment>>

\* One more miss is the last (mutant: off by one).
IsLateDead == heartbeat.missed > maxMissed
IsDead == heartbeat.missed + 1 >= maxMissed

(***************************************************************************)
(* The heartbeat interval: a ping not answered since the last one is a     *)
(* miss, and after maxMissed of them onDead disconnects the relay.         *)
(***************************************************************************)
HeartbeatTick ==
    /\ heartbeat # None /\ heartbeat.running
    /\ bridge = "steady" => ~heartbeat.pendingPong
    /\ UNCHANGED <<relay, timers, locks, pending, environment, attempt>>
    /\ \/ /\ ~heartbeat.pendingPong
          /\ heartbeat' = [heartbeat EXCEPT !.pendingPong = TRUE]
          /\ pings' = PingSent
          /\ UNCHANGED <<context, ws>>
       \/ /\ heartbeat.pendingPong /\ ~IsDead
          /\ heartbeat' = [heartbeat EXCEPT !.missed = @ + 1]
          /\ context' = Transition(context, "HEARTBEAT_MISS")
          /\ pings' = PingSent
          /\ UNCHANGED ws
       \/ /\ heartbeat.pendingPong /\ IsDead
          /\ heartbeat' = [running |-> FALSE, pendingPong |-> FALSE, missed |-> 0]
          /\ context' = Transition(context, "HEARTBEAT_MISS")
          /\ ws' = [ws EXCEPT ![relay] = IF @ = "open" THEN "closing" ELSE @]
          /\ UNCHANGED pings

(***************************************************************************)
(* onClose.  4002 is final for this identity: no backoff.  Otherwise a     *)
(* backoff is scheduled if the close led to reconnecting.                  *)
(***************************************************************************)
ClosedContext(ctx, code) ==
    LET c == [ctx EXCEPT !.serverInfo = None]
    IN  IF code = 4002
        THEN SetDiagnostic(Transition(c, "WS_CLOSE"), "awaiting_sw_recovery")
        ELSE Transition(IF c.everConnected THEN SetDiagnostic(c, "was_connected")
                        ELSE c, "WS_CLOSE")

BackoffAfter(ctx, code) == backoff \/ (code # 4002 /\ ctx.state = "reconnecting")
RefusedAfter(code) == superseded \/ code = 4002

OnClose(ctx, code) ==
    /\ context' = ClosedContext(ctx, code)
    /\ backoff' = BackoffAfter(context', code)
    /\ relay' = None /\ heartbeat' = None /\ pings' = 0
    /\ serverInfoTimer' = FALSE
    /\ lockHeld' = FALSE
    /\ superseded' = RefusedAfter(code)
    /\ UNCHANGED <<lockAsked, pending, bridge, attempt>>

\* onError, which in the same task precedes the close of a failed socket.
\* The backoff it schedules is the one onClose schedules again.
ErrorContext(ctx) ==
    IF ctx.state # "connecting" THEN ctx
    ELSE Transition(IF ctx.diagnosticReason = "connecting"
                    THEN SetDiagnostic(ctx, "server_not_responding") ELSE ctx,
                    "WS_ERROR")

\* The connection fails, before or after it opened.
Failed ==
    /\ IsConnecting \/ IsConnected
    /\ bridge = "flaky"
    /\ ws' = [ws EXCEPT ![relay] = "closed"]
    /\ OnClose(ErrorContext(context), 1006)

\* 12 s without an answer: the relay closes its socket and reports a close.
ConnectingTimeout ==
    /\ IsConnecting /\ bridge = "flaky"
    /\ ws' = Discarded
    /\ OnClose(context, 4098)

\* The bridge's close frame has arrived; the close event will follow.
ClosedByBridge ==
    /\ IsConnected /\ bridge = "flaky"
    /\ ws' = [ws EXCEPT ![relay] = "closing"]
    /\ UNCHANGED <<context, relay, heartbeat, pings, timers, locks, pending,
                   environment, attempt>>

\* The close event.  The bridge refuses an identity before any server_info.
CloseEvent(s, code) ==
    /\ ws[s] = "closing"
    /\ ws' = [ws EXCEPT ![s] = "closed"]
    /\ IF s = relay
       THEN (code = 4002 => serverInfoTimer) /\ OnClose(context, code)
       ELSE /\ code # 4002
            /\ UNCHANGED <<context, relay, heartbeat, pings, timers, locks,
                           pending, environment, attempt>>

\* The Web Lock is granted, or it is held (by this life or another) and is not
\* waited for.
LockAnswered(granted) ==
    /\ lockAsked > 0
    /\ granted => ~lockHeld
    /\ lockAsked' = lockAsked - 1
    /\ lockHeld' = (lockHeld \/ granted)
    /\ UNCHANGED <<context, link, timers, pending, environment, attempt>>

-----------------------------------------------------------------------------
(***************************************************************************)
(* The environment.                                                        *)
(***************************************************************************)

\* The browser stops the service worker and starts it again.
Restarted ==
    /\ bridge = "flaky"
    /\ context' = Transition(InitialContext, "CONNECT")
    /\ ws' = Discarded
    /\ relay' = None /\ heartbeat' = None /\ pings' = 0
    /\ backoff' = FALSE /\ serverInfoTimer' = FALSE
    /\ lockAsked' = 0 /\ lockHeld' = FALSE
    /\ pending' = [NoWaits EXCEPT !["open"] = 1]
    /\ superseded' = FALSE
    /\ attempt' = NoAttempt
    /\ UNCHANGED bridge

\* From now on there is one bridge that answers, and no rival relay.
BridgeSteadies ==
    /\ bridge = "flaky"
    /\ bridge' = "steady"
    /\ UNCHANGED <<context, link, timers, locks, pending, superseded, attempt>>

Discovered ==
    \E found \in Discoveries, moved \in BOOLEAN :
        ThenOpen(found, moved) \/ ThenReconcile(found, moved) \/ ThenNothing(found, moved)

Probed == ProbeSaysLive \/ ProbeSaysNone
Reconcile == ReconcilePings \/ ReconcileProbes \/ ReconcileRestarts
Closed == \E s \in Socks, code \in {1006, 4002} : CloseEvent(s, code)

Next ==
    \/ Discovered \/ Probed \/ BackoffExpired
    \/ Retry \/ Disconnect \/ Reconcile
    \/ Opened \/ Failed \/ ConnectingTimeout \/ ClosedByBridge \/ Closed
    \/ \E b \in Bridges : ServerInfo(b)
    \/ ServerInfoTimeout \/ Pong \/ HeartbeatTick
    \/ \E granted \in BOOLEAN : LockAnswered(granted)
    \/ Restarted \/ BridgeSteadies

Spec == Init /\ [][Next]_vars

(***************************************************************************)
(* Timers fire, the alarm calls reconcile for ever, the native helper and  *)
(* the bridge's state endpoint answer or fail (the latter within 3 s), and *)
(* the browser ends every close.  What the bridge does is assumed only of  *)
(* a steady one, for a flaky one fails instead.                            *)
(***************************************************************************)
Fairness ==
    /\ WF_vars(\E f \in Discoveries, m \in BOOLEAN : ThenOpen(f, m))
    /\ WF_vars(\E f \in Discoveries, m \in BOOLEAN : ThenReconcile(f, m))
    /\ WF_vars(\E f \in Discoveries, m \in BOOLEAN : ThenNothing(f, m))
    /\ WF_vars(Probed)
    /\ WF_vars(BackoffExpired)
    /\ WF_vars(Reconcile)
    /\ WF_vars(HeartbeatTick)
    /\ WF_vars(Closed)
    /\ WF_vars(Opened)
    /\ WF_vars(\E b \in Bridges : ServerInfo(b))
    /\ WF_vars(Pong)

FairSpec == Spec /\ Fairness

-----------------------------------------------------------------------------
(***************************************************************************)
(* Properties.                                                             *)
(***************************************************************************)

\* No socket is left open, or opening, that the manager has no reference to: the
\* bridge would route requests to it and nobody would answer (teardownRelay).
NoForgottenSocket ==
    \A s \in Socks : ws[s] \in {"connecting", "open"} => s = relay

\* A backoff is armed only when there is no relay: it is never a second driver
\* beside an attempt in progress or a live link (teardownRelay, onClose).
BackoffOnlyWithoutRelay == backoff => relay = None

\* The server_info timer and the heartbeat belong to the current relay, one
\* before its server_info and the other after: neither ever disconnects a later
\* relay (openRelay, "no serverInfoTimer leak").
TimersBelongToRelay ==
    /\ serverInfoTimer => relay # None /\ heartbeat = None
                          /\ ws[relay] \in {"open", "closing"}
    /\ heartbeat # None => relay # None /\ ws[relay] \in {"open", "closing"}

\* A link that got its server_info and died before it was proven stable raises
\* the failure count it was opened with, so the delays of a reconnect storm grow
\* to their cap (section 6.1 of the storm design), in whatever order closes,
\* heartbeats, reconciles and late discoveries come.
UnstableLinkCounts ==
    backoff /\ attempt.informed /\ ~attempt.excused =>
        context.failureCount > attempt.count \/ context.failureCount = MaxFailures

\* Whatever happened before, once there is a bridge that answers and no rival,
\* the extension gets a relay and keeps it.
RelayComesBack == [](bridge = "steady" => <>[]RelayAlive)

=============================================================================
