----------------------- MODULE ConnectionManager_proofs -----------------------
(***************************************************************************)
(* Proofs about ConnectionManager, for any number of sockets and bridges   *)
(* and any bounds on what waits.                                           *)
(***************************************************************************)
EXTENDS ConnectionManager, TLAPS

-----------------------------------------------------------------------------
(***************************************************************************)
(* The state chart.                                                        *)
(***************************************************************************)

\* The cap of failureCount (calculateBackoff) keeps it in its range.
LEMMA CappedType ==
    ASSUME NEW n \in 0..MaxFailures
    PROVE  /\ Capped(n) \in 0..MaxFailures /\ Capped(n) >= n
           /\ Capped(n) > n \/ Capped(n) = MaxFailures
BY MachineAssumption DEF Capped

\* What an event does: one of the chart's moves, a miss, or nothing.
LEMMA TransitionCases ==
    ASSUME NEW ctx \in Contexts, NEW e \in Events
    PROVE  \/ /\ <<ctx.state, e>> \in ToConnecting
              /\ Transition(ctx, e) = [ctx EXCEPT !.state = "connecting"]
           \/ /\ <<ctx.state, e>> \in ToConnected
              /\ Transition(ctx, e) =
                   [ctx EXCEPT !.state = "connected", !.missedHeartbeats = 0,
                               !.failureCount = IF e \in Stabilises THEN 0 ELSE @]
           \/ /\ <<ctx.state, e>> \in ToReconnecting
              /\ Transition(ctx, e) =
                   [ctx EXCEPT !.state = "reconnecting", !.failureCount = Capped(@)]
           \/ /\ <<ctx.state, e>> \in ToDisconnected
              /\ Transition(ctx, e) = [ctx EXCEPT !.state = "disconnected"]
           \/ /\ e = "HEARTBEAT_MISS" /\ ctx.state \in {"connected", "degraded"}
              /\ Transition(ctx, e) = Missed(ctx)
           \/ /\ <<ctx.state, e>> \notin ToConnecting \cup ToConnected
                    \cup ToReconnecting \cup ToDisconnected
              /\ ~(e = "HEARTBEAT_MISS" /\ ctx.state \in {"connected", "degraded"})
              /\ Transition(ctx, e) = ctx
BY Zenon DEF Transition

\* A miss degrades a connection or gives it up, counting a failure.
LEMMA MissedCases ==
    ASSUME NEW ctx \in Contexts
    PROVE  /\ Missed(ctx) \in Contexts
           /\ \/ /\ Missed(ctx).state = "reconnecting"
                 /\ Missed(ctx).failureCount = Capped(ctx.failureCount)
              \/ /\ Missed(ctx).state = "degraded"
                 /\ Missed(ctx).failureCount = ctx.failureCount
<1>1. ctx.failureCount \in 0..MaxFailures /\ Capped(ctx.failureCount) \in 0..MaxFailures
  BY CappedType DEF Contexts
<1>2. CASE ctx.state = "degraded" /\ ctx.missedHeartbeats >= 1
  <2>1. Missed(ctx) = [ctx EXCEPT !.state = "reconnecting", !.missedHeartbeats = 0,
                                  !.failureCount = Capped(@)]
    BY <1>2 DEF Missed
  <2> DEFINE c == [ctx EXCEPT !.state = "reconnecting", !.missedHeartbeats = 0,
                              !.failureCount = Capped(@)]
  <2>2. c \in Contexts
    BY <1>1 DEF Contexts, States
  <2>3. c.state = "reconnecting" /\ c.failureCount = Capped(ctx.failureCount)
    BY DEF Contexts
  <2> QED
    BY <2>1, <2>2, <2>3
<1>3. CASE ~(ctx.state = "degraded" /\ ctx.missedHeartbeats >= 1)
  <2>1. PICK n \in Nat :
          Missed(ctx) = [ctx EXCEPT !.state = "degraded", !.missedHeartbeats = n]
    <3>1. ctx.missedHeartbeats + 1 \in Nat
      BY DEF Contexts
    <3>2. Missed(ctx) =
            [ctx EXCEPT !.state = "degraded", !.missedHeartbeats = ctx.missedHeartbeats + 1]
      BY <1>3 DEF Missed
    <3> QED
      BY <3>1, <3>2
  <2> DEFINE c == [ctx EXCEPT !.state = "degraded", !.missedHeartbeats = n]
  <2>2. c \in Contexts
    BY DEF Contexts, States
  <2>3. c.state = "degraded" /\ c.failureCount = ctx.failureCount
    BY DEF Contexts
  <2> QED
    BY <2>1, <2>2, <2>3
<1> QED
  BY <1>2, <1>3

\* A context after any event is a context.
LEMMA TransitionType ==
    ASSUME NEW ctx \in Contexts, NEW e \in Events
    PROVE  Transition(ctx, e) \in Contexts
<1>1. ctx.failureCount \in 0..MaxFailures /\ Capped(ctx.failureCount) \in 0..MaxFailures
  BY CappedType DEF Contexts
<1>2. 0 \in 0..MaxFailures
  BY MachineAssumption
<1>3. Missed(ctx) \in Contexts
  BY MissedCases
<1>4. [ctx EXCEPT !.state = "connected", !.missedHeartbeats = 0,
                  !.failureCount = IF e \in Stabilises THEN 0 ELSE @] \in Contexts
  BY <1>1, <1>2 DEF Contexts, States
<1>5. [ctx EXCEPT !.state = "reconnecting", !.failureCount = Capped(@)] \in Contexts
  BY <1>1 DEF Contexts, States
<1>6. /\ [ctx EXCEPT !.state = "connecting"] \in Contexts
      /\ [ctx EXCEPT !.state = "disconnected"] \in Contexts
  BY DEF Contexts, States
<1> QED
  BY <1>3, <1>4, <1>5, <1>6, TransitionCases

\* A failure is counted past n, or the count is at its cap.
CountedPast(ctx, n) == ctx.failureCount > n \/ ctx.failureCount = MaxFailures

\* Misses and closes never lower the failure count, and count one when they
\* lead to reconnecting (transition).
LEMMA FailureCounts ==
    ASSUME NEW ctx \in Contexts, NEW e \in {"HEARTBEAT_MISS", "WS_CLOSE", "WS_ERROR"}
    PROVE  LET c == Transition(ctx, e)
           IN  /\ c.failureCount >= ctx.failureCount
               /\ c.state # "connecting"
                    \/ (ctx.state = "connecting" /\ e = "HEARTBEAT_MISS")
               /\ c.state = "reconnecting" =>
                    \/ CountedPast(c, ctx.failureCount)
                    \/ ctx.state = "reconnecting" /\ c = ctx
<1>1. ctx.failureCount \in 0..MaxFailures
  BY DEF Contexts
<1>2. Capped(ctx.failureCount) >= ctx.failureCount
      /\ (Capped(ctx.failureCount) > ctx.failureCount
            \/ Capped(ctx.failureCount) = MaxFailures)
  BY <1>1, CappedType
<1>3. e \in Events /\ e \notin Stabilises
  BY DEF Events, Stabilises
<1>4. CASE e = "HEARTBEAT_MISS" /\ ctx.state \in {"connected", "degraded"}
           /\ Transition(ctx, e) = Missed(ctx)
  <2>1. /\ Missed(ctx).failureCount = Capped(ctx.failureCount)
        /\ Missed(ctx).state = "reconnecting"
     \/ /\ Missed(ctx).failureCount = ctx.failureCount
        /\ Missed(ctx).state = "degraded"
    BY MissedCases
  <2> QED
    BY <1>1, <1>2, <1>4, <2>1 DEF CountedPast
<1>5. CASE Transition(ctx, e) =
             [ctx EXCEPT !.state = "reconnecting", !.failureCount = Capped(@)]
  BY <1>1, <1>2, <1>5 DEF CountedPast, Contexts
<1>6. CASE Transition(ctx, e) = ctx
           /\ <<ctx.state, e>> \notin ToReconnecting
  BY <1>1, <1>6 DEF CountedPast, Contexts, ToReconnecting
<1>7. <<ctx.state, e>> \notin ToConnecting \cup ToConnected \cup ToDisconnected
  BY DEF ToConnecting, ToConnected, ToDisconnected
<1> QED
  BY <1>3, <1>4, <1>5, <1>6, <1>7, TransitionCases

\* Requests to connect or disconnect and a server_info leave the count alone;
\* after a server_info the state is neither connecting nor reconnecting.
LEMMA MoveCounts ==
    ASSUME NEW ctx \in Contexts,
           NEW e \in {"CONNECT", "BACKOFF_EXPIRED", "DISCONNECT", "WS_OPEN"}
    PROVE  LET c == Transition(ctx, e)
           IN  /\ c.failureCount = ctx.failureCount
               /\ e = "WS_OPEN" => c.state \notin {"connecting", "reconnecting"}
               /\ e = "DISCONNECT" => c.state = "disconnected" \/ c = ctx
<1>1. e \in Events /\ e \notin Stabilises /\ e # "HEARTBEAT_MISS"
  BY DEF Events, Stabilises
<1>2. <<ctx.state, e>> \notin ToReconnecting
  BY DEF ToReconnecting
<1>3. e = "WS_OPEN" => <<ctx.state, e>> \notin ToConnecting \cup ToDisconnected
                       /\ (ctx.state \in {"connecting", "reconnecting"}
                             => <<ctx.state, e>> \in ToConnected)
  BY DEF ToConnecting, ToDisconnected, ToConnected
<1>4. e = "DISCONNECT" => <<ctx.state, e>> \notin ToConnecting \cup ToConnected
  BY DEF ToConnecting, ToConnected
<1> DEFINE Fields(c, state) == c.state = state /\ c.failureCount = ctx.failureCount
<1>5. /\ Fields([ctx EXCEPT !.state = "connecting"], "connecting")
      /\ Fields([ctx EXCEPT !.state = "connected", !.missedHeartbeats = 0,
                            !.failureCount = IF e \in Stabilises THEN 0 ELSE @], "connected")
      /\ Fields([ctx EXCEPT !.state = "disconnected"], "disconnected")
  BY <1>1 DEF Contexts
<1>6. \/ Transition(ctx, e) = ctx /\ <<ctx.state, e>> \notin ToConnected
      \/ /\ Fields(Transition(ctx, e), "connecting")
         /\ <<ctx.state, e>> \in ToConnecting
      \/ Fields(Transition(ctx, e), "connected")
         /\ <<ctx.state, e>> \in ToConnected
      \/ /\ Fields(Transition(ctx, e), "disconnected")
         /\ <<ctx.state, e>> \in ToDisconnected
  <2> HIDE DEF Fields
  <2> QED
    BY <1>1, <1>2, <1>5, TransitionCases
<1> QED
  BY <1>3, <1>4, <1>6

\* A pong that counts resets the failure count, any other does nothing.
LEMMA PongCases ==
    ASSUME NEW ctx \in Contexts, ctx.state \notin {"connected", "degraded"}
    PROVE  Transition(ctx, "HEARTBEAT_OK") = ctx
<1>1. "HEARTBEAT_OK" \in Events
  BY DEF Events
<1>2. <<ctx.state, "HEARTBEAT_OK">> \notin
        ToConnecting \cup ToConnected \cup ToReconnecting \cup ToDisconnected
  BY DEF ToConnecting, ToConnected, ToReconnecting, ToDisconnected
<1> QED
  BY <1>1, <1>2, TransitionCases

-----------------------------------------------------------------------------
(***************************************************************************)
(* The inductive invariant.                                                *)
(***************************************************************************)

(***************************************************************************)
(* Why UnstableLinkCounts holds: while the relay of an attempt that was    *)
(* not excused lives, the count is at least what it was opened with; once  *)
(* informed, the chart is not in connecting, and it is in reconnecting, or *)
(* a backoff is armed, only after the attempt itself was counted.          *)
(***************************************************************************)
AttemptCounted ==
    ~attempt.excused /\ (relay # None \/ backoff) =>
        /\ context.failureCount >= attempt.count
        /\ attempt.informed =>
             /\ context.state # "connecting" \/ relay = None
             /\ context.state = "reconnecting" \/ backoff =>
                  CountedPast(context, attempt.count)

IInv ==
    /\ TypeOK
    /\ NoForgottenSocket
    /\ BackoffOnlyWithoutRelay
    /\ TimersBelongToRelay
    /\ AttemptCounted

\* The diagnostic changes nothing else of the context (setDiagnostic).
LEMMA DiagnosticType ==
    ASSUME NEW ctx \in Contexts, NEW reason \in DiagnosticReasons
    PROVE  /\ SetDiagnostic(ctx, reason) \in Contexts
           /\ SetDiagnostic(ctx, reason).state = ctx.state
           /\ SetDiagnostic(ctx, reason).failureCount = ctx.failureCount
<1> DEFINE r == IF Collapses(ctx, reason) THEN "was_connected" ELSE reason
<1>1. r \in DiagnosticReasons \cup {None}
  BY DEF DiagnosticReasons
<1>2. SetDiagnostic(ctx, reason) = [ctx EXCEPT !.diagnosticReason = r]
  BY DEF SetDiagnostic
<1> HIDE DEF r
<1> QED
  BY <1>1, <1>2 DEF Contexts

\* Only a bridge at another URL lowers the failure count (refreshUrl).
LEMMA RefreshedType ==
    ASSUME NEW ctx \in Contexts, NEW found \in Discoveries, NEW moved \in BOOLEAN
    PROVE  /\ Refreshed(ctx, found, moved) \in Contexts
           /\ Refreshed(ctx, found, moved).state = ctx.state
           /\ ~(moved /\ found # None) =>
                Refreshed(ctx, found, moved).failureCount = ctx.failureCount
<1>1. CASE found = None
  BY <1>1 DEF Refreshed
<1>2. CASE found # None
  <2>1. found \in DiagnosticReasons
    BY <1>2, ManagerAssumption DEF DiagnosticReasons
  <2> DEFINE c == SetDiagnostic(ctx, found)
  <2>2. c \in Contexts /\ c.state = ctx.state /\ c.failureCount = ctx.failureCount
    BY <2>1, DiagnosticType
  <2>3. Refreshed(ctx, found, moved) = IF moved THEN [c EXCEPT !.failureCount = 0] ELSE c
    BY <1>2 DEF Refreshed
  <2>4. 0 \in 0..MaxFailures
    BY MachineAssumption
  <2> HIDE DEF c
  <2>5. [c EXCEPT !.failureCount = 0] \in Contexts
        /\ [c EXCEPT !.failureCount = 0].state = c.state
    BY <2>2, <2>4 DEF Contexts
  <2> QED
    BY <1>2, <2>2, <2>3, <2>5
<1> QED
  BY <1>1, <1>2

\* The invariant holds when a service worker starts.
LEMMA InitIInv == Init => IInv
<1> SUFFICES ASSUME Init PROVE IInv
  OBVIOUS
<1>1. InitialContext \in Contexts
  BY MachineAssumption DEF InitialContext, Contexts, States
<1>2. context \in Contexts
  BY <1>1, TransitionType DEF Init, Events
<1>3. pending \in [Waits -> 0..MaxPending]
  BY ManagerAssumption DEF Init, NoWaits, Waits
<1>4. attempt \in Attempts /\ attempt.excused
  BY MachineAssumption DEF Init, NoAttempt, Attempts
<1>5. 0 \in 0..MaxPings /\ 0 \in 0..MaxAsked
  BY ManagerAssumption
<1>6. TypeOK
  BY <1>2, <1>3, <1>4, <1>5 DEF Init, TypeOK
<1> QED
  BY <1>4, <1>6
  DEF Init, IInv, NoForgottenSocket, BackoffOnlyWithoutRelay,
      TimersBelongToRelay, AttemptCounted

-----------------------------------------------------------------------------
(***************************************************************************)
(* Steps.                                                                  *)
(***************************************************************************)

\* Waits begun and ended stay within their bound.
LEMMA WaitsType ==
    ASSUME TypeOK, NEW w \in Waits
    PROVE  /\ Room(w) => Begun(w) \in [Waits -> 0..MaxPending]
           /\ pending[w] > 0 => Ended(w) \in [Waits -> 0..MaxPending]
BY ManagerAssumption DEF TypeOK, Room, Begun, Ended

\* After relay.discard() no socket is open or opening.
LEMMA DiscardedType ==
    ASSUME TypeOK, NoForgottenSocket
    PROVE  /\ Discarded \in [Socks -> {"closed", "closing"}]
           /\ \A s \in Socks : ws[s] = "closed" => Discarded[s] \in {"closed", "closing"}
BY ManagerAssumption DEF TypeOK, NoForgottenSocket, Discarded

\* stopAll, whatever the caller does with the context and the waits.
LEMMA StopAllKeeps ==
    ASSUME IInv, StopAll, context' \in Contexts,
           pending' \in [Waits -> 0..MaxPending],
           superseded' \in BOOLEAN, bridge' = bridge
    PROVE  IInv'
<1>1. /\ heartbeat' = None /\ ~backoff' /\ ~serverInfoTimer'
      /\ ws' = Discarded /\ relay' = None /\ UNCHANGED <<lockAsked, attempt>>
      /\ backoff' \in BOOLEAN /\ serverInfoTimer' \in BOOLEAN /\ lockHeld' \in BOOLEAN
      /\ pings' = 0
  BY DEF StopAll, TeardownRelay, CancelsBackoff, ClearsInfoTimer
<1>2. ws' \in [Socks -> {"closed", "closing"}]
  BY <1>1, DiscardedType DEF IInv
<1>3. ws' \in [Socks -> {"closed", "connecting", "open", "closing"}]
  BY <1>2
<1>4. TypeOK'
  <2>1. pings' \in 0..MaxPings
    BY <1>1, ManagerAssumption
  <2> QED
    BY <1>1, <1>3, <2>1 DEF IInv, TypeOK
<1> QED
  BY <1>1, <1>2, <1>4
  DEF IInv, NoForgottenSocket, BackoffOnlyWithoutRelay, TimersBelongToRelay,
      AttemptCounted

\* openRelay: the new attempt starts from the count it finds.
LEMMA OpenRelayKeeps ==
    ASSUME IInv, NEW ctx \in Contexts, OpenRelay(ctx), context' \in Contexts,
           context'.failureCount = ctx.failureCount,
           pending' \in [Waits -> 0..MaxPending], UNCHANGED environment
    PROVE  IInv'
<1>1. /\ heartbeat' = None /\ ~backoff' /\ ~serverInfoTimer'
      /\ backoff' \in BOOLEAN /\ serverInfoTimer' \in BOOLEAN /\ lockHeld' \in BOOLEAN
      /\ pings' = 0
  BY DEF OpenRelay, TeardownRelay, CancelsBackoff, ClearsInfoTimer
<1>2. PICK s \in Socks : /\ ws' = [Discarded EXCEPT ![s] = "connecting"]
                         /\ relay' = s
  BY DEF OpenRelay
<1>3. Discarded \in [Socks -> {"closed", "closing"}]
  BY DiscardedType DEF IInv
<1>4. ws' \in [Socks -> {"closed", "connecting", "open", "closing"}] /\ NoForgottenSocket'
  BY <1>2, <1>3 DEF NoForgottenSocket
<1>5. lockAsked' \in 0..MaxAsked
  BY ManagerAssumption DEF OpenRelay, IInv, TypeOK
<1>6. /\ attempt' \in Attempts /\ attempt'.count = ctx.failureCount
      /\ ~attempt'.informed
  BY DEF OpenRelay, Attempts, Contexts
<1>7. TypeOK'
  <2>1. pings' \in 0..MaxPings
    BY <1>1, ManagerAssumption
  <2> QED
    BY <1>1, <1>2, <1>4, <1>5, <1>6, <2>1 DEF IInv, TypeOK, environment
<1>8. AttemptCounted'
  BY <1>6, <1>7 DEF AttemptCounted, TypeOK, Contexts
<1> QED
  BY <1>1, <1>4, <1>7, <1>8
  DEF IInv, BackoffOnlyWithoutRelay, TimersBelongToRelay

\* What onClose makes of the context ctx the relay's error left.
LEMMA ClosedContextType ==
    ASSUME NEW ctx \in Contexts, NEW code \in {1006, 4002, 4098}
    PROVE  /\ ClosedContext(ctx, code) \in Contexts
           /\ ClosedContext(ctx, code).failureCount >= ctx.failureCount
           /\ ClosedContext(ctx, code).state = "reconnecting" =>
                \/ CountedPast(ClosedContext(ctx, code), ctx.failureCount)
                \/ /\ ctx.state = "reconnecting"
                   /\ ClosedContext(ctx, code).failureCount = ctx.failureCount
<1> DEFINE c == [ctx EXCEPT !.serverInfo = None]
           d == SetDiagnostic(c, "was_connected")
<1>1. c \in Contexts /\ c.state = ctx.state /\ c.failureCount = ctx.failureCount
  BY DEF Contexts
<1>2. /\ "was_connected" \in DiagnosticReasons
      /\ "awaiting_sw_recovery" \in DiagnosticReasons
      /\ "WS_CLOSE" \in Events
  BY DEF DiagnosticReasons, Events
<1>3. d \in Contexts /\ d.state = ctx.state /\ d.failureCount = ctx.failureCount
  <2> HIDE DEF c
  <2> QED
    BY <1>1, <1>2, DiagnosticType
<1>4. ClosedContext(ctx, code) =
        IF code = 4002 THEN SetDiagnostic(Transition(c, "WS_CLOSE"), "awaiting_sw_recovery")
        ELSE Transition(IF c.everConnected THEN d ELSE c, "WS_CLOSE")
  BY DEF ClosedContext
<1> HIDE DEF c, d
<1>5. CASE code = 4002
  <2> DEFINE e == Transition(c, "WS_CLOSE")
  <2>1. /\ e \in Contexts /\ e.failureCount >= c.failureCount
        /\ e.state = "reconnecting" =>
             CountedPast(e, c.failureCount) \/ (c.state = "reconnecting" /\ e = c)
    BY <1>1, <1>2, TransitionType, FailureCounts
  <2> HIDE DEF e
  <2>2. /\ SetDiagnostic(e, "awaiting_sw_recovery") \in Contexts
        /\ SetDiagnostic(e, "awaiting_sw_recovery").state = e.state
        /\ SetDiagnostic(e, "awaiting_sw_recovery").failureCount = e.failureCount
    BY <1>2, <2>1, DiagnosticType
  <2>3. ClosedContext(ctx, code) = SetDiagnostic(e, "awaiting_sw_recovery")
    BY <1>4, <1>5 DEF e
  <2> QED
    BY <1>1, <2>1, <2>2, <2>3 DEF CountedPast
<1>6. CASE code # 4002
  <2>1. PICK e \in {c, d} : ClosedContext(ctx, code) = Transition(e, "WS_CLOSE")
    BY <1>4, <1>6
  <2>2. e \in Contexts /\ e.state = ctx.state /\ e.failureCount = ctx.failureCount
    BY <1>1, <1>3
  <2>3. /\ Transition(e, "WS_CLOSE") \in Contexts
        /\ Transition(e, "WS_CLOSE").failureCount >= e.failureCount
        /\ Transition(e, "WS_CLOSE").state = "reconnecting" =>
             \/ CountedPast(Transition(e, "WS_CLOSE"), e.failureCount)
             \/ e.state = "reconnecting" /\ Transition(e, "WS_CLOSE") = e
    BY <1>2, <2>2, TransitionType, FailureCounts
  <2> QED
    BY <2>1, <2>2, <2>3
<1> QED
  BY <1>5, <1>6

\* onError counts a failed attempt and never touches a link past it.
LEMMA ErrorContextType ==
    ASSUME NEW ctx \in Contexts
    PROVE  /\ ErrorContext(ctx) \in Contexts
           /\ ErrorContext(ctx).failureCount >= ctx.failureCount
           /\ ctx.state # "connecting" => ErrorContext(ctx) = ctx
<1> DEFINE d == SetDiagnostic(ctx, "server_not_responding")
<1>1. d \in Contexts /\ d.failureCount = ctx.failureCount
  BY DiagnosticType DEF DiagnosticReasons
<1>2. PICK e \in {ctx, d} :
        ErrorContext(ctx) = IF ctx.state # "connecting" THEN ctx ELSE Transition(e, "WS_ERROR")
  BY DEF ErrorContext
<1>3. e \in Contexts /\ e.failureCount = ctx.failureCount
  BY <1>1
<1>4. Transition(e, "WS_ERROR") \in Contexts
      /\ Transition(e, "WS_ERROR").failureCount >= e.failureCount
  BY <1>3, TransitionType, FailureCounts DEF Events
<1> QED
  BY <1>2, <1>3, <1>4 DEF Contexts

\* onClose stops the server_info timer and releases the lock.
LEMMA OnCloseDisarms ==
    ASSUME NEW ctx, NEW code, OnClose(ctx, code)
    PROVE  ~serverInfoTimer' /\ serverInfoTimer' \in BOOLEAN /\ lockHeld' \in BOOLEAN
BY DEF OnClose

\* onClose: a link that dies unproven arms its backoff with its failure counted.
LEMMA OnCloseKeeps ==
    ASSUME IInv, relay \in Socks, NEW ctx \in Contexts,
           NEW code \in {1006, 4002, 4098}, OnClose(ctx, code),
           ctx.failureCount >= context.failureCount,
           context.state # "connecting" => ctx = context,
           ws' \in [Socks -> {"closed", "connecting", "open", "closing"}],
           \A s \in Socks : ws'[s] \in {"connecting", "open"} =>
                              s # relay /\ ws[s] = ws'[s]
    PROVE  IInv'
<1>1. /\ context' = ClosedContext(ctx, code)
      /\ relay' = None /\ heartbeat' = None /\ pings' = 0
      /\ ~serverInfoTimer' /\ serverInfoTimer' \in BOOLEAN /\ lockHeld' \in BOOLEAN
      /\ UNCHANGED <<lockAsked, pending, bridge, attempt>>
      /\ backoff' \in BOOLEAN /\ superseded' \in BOOLEAN
      /\ backoff' => backoff \/ context'.state = "reconnecting"
  <2>1. /\ backoff' = BackoffAfter(context', code)
        /\ superseded' = RefusedAfter(code)
        /\ context' = ClosedContext(ctx, code)
        /\ relay' = None /\ heartbeat' = None /\ pings' = 0
        /\ UNCHANGED <<lockAsked, pending, bridge, attempt>>
    BY DEF OnClose
  <2>5. ~serverInfoTimer' /\ serverInfoTimer' \in BOOLEAN /\ lockHeld' \in BOOLEAN
    BY OnCloseDisarms
  <2>2. RefusedAfter(code) \in BOOLEAN
    BY DEF RefusedAfter
  <2>3. BackoffAfter(context', code) \in BOOLEAN
    BY DEF BackoffAfter
  <2>4. BackoffAfter(context', code) => backoff \/ context'.state = "reconnecting"
    BY DEF BackoffAfter
  <2> QED
    BY <2>1, <2>2, <2>3, <2>4, <2>5
<1>2. /\ context' \in Contexts
      /\ context'.failureCount >= ctx.failureCount
      /\ context'.state = "reconnecting" =>
           \/ CountedPast(context', ctx.failureCount)
           \/ ctx.state = "reconnecting" /\ context'.failureCount = ctx.failureCount
  BY <1>1, ClosedContextType
<1>3. TypeOK'
  <2>1. pings' \in 0..MaxPings
    BY <1>1, ManagerAssumption
  <2> QED
    BY <1>1, <1>2, <2>1 DEF IInv, TypeOK
<1>4. NoForgottenSocket'
  BY DEF IInv, NoForgottenSocket
<1>5. AttemptCounted'
  <2> SUFFICES ASSUME ~attempt.excused, backoff'
               PROVE  /\ context'.failureCount >= attempt.count
                      /\ attempt.informed => CountedPast(context', attempt.count)
    BY <1>1 DEF AttemptCounted
  <2>1. /\ relay # None /\ ~backoff
        /\ context.failureCount >= attempt.count
        /\ attempt.informed =>
             /\ context.state # "connecting"
             /\ context.state = "reconnecting" => CountedPast(context, attempt.count)
    BY ManagerAssumption DEF IInv, AttemptCounted, BackoffOnlyWithoutRelay
  <2>2. /\ context.failureCount \in Nat /\ ctx.failureCount \in Nat
        /\ context'.failureCount \in 0..MaxFailures /\ attempt.count \in Nat
    BY <1>2 DEF IInv, TypeOK, Contexts, Attempts
  <2>3. context'.failureCount >= attempt.count
    BY <1>2, <2>1, <2>2
  <2>4. context'.state = "reconnecting"
    BY <1>1, <2>1
  <2>5. ASSUME attempt.informed PROVE CountedPast(context', attempt.count)
    <3>1. ctx = context /\ ctx.failureCount = context.failureCount
      BY <2>1, <2>5
    <3> QED
      BY <1>2, <2>1, <2>2, <2>4, <2>5, <3>1 DEF CountedPast
  <2> QED
    BY <2>3, <2>5
<1> QED
  BY <1>1, <1>3, <1>4, <1>5
  DEF IInv, BackoffOnlyWithoutRelay, TimersBelongToRelay

\* A result of discovery keeps the invariant.
LEMMA DiscoveredKeeps ==
    ASSUME IInv, Discovered
    PROVE  IInv'
<1>1. PICK found \in Discoveries, moved \in BOOLEAN :
        \/ ThenOpen(found, moved) \/ ThenReconcile(found, moved)
        \/ ThenNothing(found, moved)
  BY DEF Discovered
<1> DEFINE ctx == Refreshed(context, found, moved)
<1>2. /\ ctx \in Contexts /\ ctx.state = context.state
      /\ ~(moved /\ found # None) => ctx.failureCount = context.failureCount
  BY RefreshedType DEF IInv, TypeOK
<1>3. /\ Excuse(moved /\ found # None) \in Attempts
      /\ Excuse(moved /\ found # None).count = attempt.count
      /\ Excuse(moved /\ found # None).informed = attempt.informed
      /\ moved /\ found # None => Excuse(moved /\ found # None).excused
      /\ attempt.excused => Excuse(moved /\ found # None).excused
  BY DEF IInv, TypeOK, Excuse, Attempts
<1>4. CASE ThenOpen(found, moved)
  <2>1. /\ context' = ctx /\ OpenRelay(ctx) /\ UNCHANGED environment
        /\ pending' \in [Waits -> 0..MaxPending]
    BY <1>4, WaitsType DEF ThenOpen, IInv, Waits
  <2> HIDE DEF ctx
  <2> QED
    BY <1>2, <2>1, OpenRelayKeeps
<1>5. CASE ThenReconcile(found, moved)
  <2>1. /\ UNCHANGED environment
        /\ pending' \in [Waits -> 0..MaxPending]
        /\ \/ context' = Transition(ctx, "CONNECT") /\ OpenRelay(ctx)
           \/ /\ context' = Transition(ctx, "DISCONNECT")
              /\ attempt' = Excuse(moved /\ found # None)
              /\ UNCHANGED <<link, timers, locks>>
    BY <1>5, WaitsType DEF ThenReconcile, IInv, Waits
  <2> HIDE DEF ctx
  <2>2. /\ Transition(ctx, "CONNECT") \in Contexts
        /\ Transition(ctx, "CONNECT").failureCount = ctx.failureCount
        /\ Transition(ctx, "DISCONNECT") \in Contexts
        /\ Transition(ctx, "DISCONNECT").failureCount = ctx.failureCount
        /\ \/ Transition(ctx, "DISCONNECT").state = "disconnected"
           \/ Transition(ctx, "DISCONNECT") = ctx
    BY <1>2, TransitionType, MoveCounts DEF Events
  <2>3. CASE context' = Transition(ctx, "CONNECT") /\ OpenRelay(ctx)
    BY <1>2, <2>1, <2>2, <2>3, OpenRelayKeeps
  <2>4. CASE /\ context' = Transition(ctx, "DISCONNECT")
             /\ attempt' = Excuse(moved /\ found # None)
             /\ UNCHANGED <<link, timers, locks>>
    <3>1. TypeOK'
      BY <1>3, <2>1, <2>2, <2>4 DEF IInv, TypeOK, link, timers, locks, environment
    <3>2. AttemptCounted'
      BY <1>2, <1>3, <2>2, <2>4
      DEF IInv, AttemptCounted, CountedPast, link, timers, locks
    <3> QED
      BY <2>4, <3>1, <3>2
      DEF IInv, NoForgottenSocket, BackoffOnlyWithoutRelay, TimersBelongToRelay,
          link, timers, locks
  <2> QED
    BY <2>1, <2>3, <2>4
<1>6. CASE ThenNothing(found, moved)
  <2>1. /\ context' = ctx /\ attempt' = Excuse(moved /\ found # None)
        /\ UNCHANGED <<link, timers, locks, environment>>
        /\ pending' \in [Waits -> 0..MaxPending]
    BY <1>6, WaitsType DEF ThenNothing, IInv, Waits
  <2> HIDE DEF ctx
  <2>2. TypeOK'
    BY <1>2, <1>3, <2>1 DEF IInv, TypeOK, link, timers, locks, environment
  <2>3. AttemptCounted'
    BY <1>2, <1>3, <2>1 DEF IInv, AttemptCounted, CountedPast, link, timers, locks
  <2> QED
    BY <2>1, <2>2, <2>3
    DEF IInv, NoForgottenSocket, BackoffOnlyWithoutRelay, TimersBelongToRelay,
        link, timers, locks
<1> QED
  BY <1>1, <1>4, <1>5, <1>6

\* A step that changes only what waits, the lock or the bridge keeps the
\* invariant.
LEMMA BystanderKeeps ==
    ASSUME IInv, UNCHANGED <<context, ws, relay, heartbeat, timers, attempt>>,
           pings' \in 0..MaxPings, pending' \in [Waits -> 0..MaxPending],
           lockAsked' \in 0..MaxAsked, lockHeld' \in BOOLEAN,
           superseded' \in BOOLEAN, bridge' \in {"flaky", "steady"}
    PROVE  IInv'
<1>1. TypeOK'
  BY DEF IInv, TypeOK, timers
<1> QED
  BY <1>1
  DEF IInv, NoForgottenSocket, BackoffOnlyWithoutRelay, TimersBelongToRelay,
      AttemptCounted, CountedPast, timers

\* What the manager does of its own keeps the invariant: backoff, retry,
\* disconnect, reconcile and its recovery probe.
LEMMA DriversKeep ==
    ASSUME IInv, BackoffExpired \/ Retry \/ Disconnect \/ Reconcile \/ Probed
    PROVE  IInv'
<1>1. /\ TypeOK /\ pings \in 0..MaxPings /\ pending \in [Waits -> 0..MaxPending]
      /\ lockAsked \in 0..MaxAsked /\ lockHeld \in BOOLEAN
      /\ superseded \in BOOLEAN /\ bridge \in {"flaky", "steady"}
      /\ context \in Contexts
  BY DEF IInv, TypeOK
<1>2. \A e \in Events : Transition(context, e) \in Contexts
  BY <1>1, TransitionType
<1>3. /\ \A w \in Waits : Room(w) => Begun(w) \in [Waits -> 0..MaxPending]
      /\ \A w \in Waits : pending[w] > 0 => Ended(w) \in [Waits -> 0..MaxPending]
  BY <1>1, WaitsType
<1>4. CASE BackoffExpired
  <2>1. /\ backoff /\ ~backoff' /\ backoff' \in BOOLEAN
        /\ context' \in Contexts /\ pending' \in [Waits -> 0..MaxPending]
        /\ UNCHANGED <<link, serverInfoTimer, locks, environment, attempt>>
    BY <1>2, <1>3, <1>4 DEF BackoffExpired, Events, Waits
  <2>2. relay = None
    BY <2>1 DEF IInv, BackoffOnlyWithoutRelay
  <2>3. TypeOK'
    BY <2>1 DEF IInv, TypeOK, link, locks, environment
  <2> QED
    BY <2>1, <2>2, <2>3
    DEF IInv, NoForgottenSocket, BackoffOnlyWithoutRelay, TimersBelongToRelay,
        AttemptCounted, link
<1>5. CASE Retry
  <2>1. context' \in Contexts /\ pending' \in [Waits -> 0..MaxPending]
    BY <1>2, <1>3, <1>5 DEF Retry, Events, Waits
  <2> QED
    BY <1>1, <1>5, <2>1, StopAllKeeps DEF Retry, environment
<1>6. CASE Disconnect
  <2>1. context' \in Contexts
    BY <1>2, <1>6 DEF Disconnect, Events
  <2> QED
    BY <1>1, <1>6, <2>1, StopAllKeeps DEF Disconnect, environment
<1>7. CASE ReconcilePings
  <2>1. pings' \in 0..MaxPings
    BY <1>1, <1>7, ManagerAssumption DEF ReconcilePings, PingSent
  <2> QED
    BY <1>1, <1>7, <2>1, BystanderKeeps DEF ReconcilePings, timers, locks, environment
<1>8. CASE ReconcileProbes
  <2>1. pending' \in [Waits -> 0..MaxPending]
    BY <1>3, <1>8 DEF ReconcileProbes, Waits
  <2> QED
    BY <1>1, <1>8, <2>1, BystanderKeeps DEF ReconcileProbes, link, timers, locks, environment
<1>9. CASE ReconcileRestarts
  <2>1. pending' \in [Waits -> 0..MaxPending]
    BY <1>3, <1>9 DEF ReconcileRestarts, Waits
  <2> QED
    BY <1>1, <1>9, <2>1, StopAllKeeps DEF ReconcileRestarts, environment
<1>10. CASE ProbeSaysLive
  <2>1. pending' \in [Waits -> 0..MaxPending]
    BY <1>3, <1>10 DEF ProbeSaysLive, Waits
  <2> QED
    BY <1>1, <1>10, <2>1, BystanderKeeps DEF ProbeSaysLive, link, timers, locks, environment
<1>11. CASE ProbeSaysNone
  <2>1. Ended("probe") \in [Waits -> 0..MaxPending]
    BY <1>3, <1>11 DEF ProbeSaysNone, Waits
  <2>2. Ended("probe")["reconcile"] = pending["reconcile"]
    BY <1>1 DEF Ended, Waits
  <2>3. pending' \in [Waits -> 0..MaxPending]
    BY <1>11, <2>1, <2>2, ManagerAssumption DEF ProbeSaysNone, Room, Waits
  <2> QED
    BY <1>1, <1>11, <2>3, StopAllKeeps DEF ProbeSaysNone
<1> QED
  BY <1>4, <1>5, <1>6, <1>7, <1>8, <1>9, <1>10, <1>11 DEF Reconcile, Probed

\* The relay's callbacks before it dies keep the invariant.
LEMMA CallbacksKeep ==
    ASSUME IInv,
           \/ Opened \/ \E b \in Bridges : ServerInfo(b)
           \/ ServerInfoTimeout \/ Pong \/ HeartbeatTick \/ ClosedByBridge
    PROVE  IInv'
<1>1. /\ context \in Contexts /\ attempt \in Attempts
      /\ ws \in [Socks -> {"closed", "connecting", "open", "closing"}]
      /\ pings \in 0..MaxPings
      /\ relay # None => relay \in Socks /\ ~backoff
      /\ None \notin Socks
  BY ManagerAssumption DEF IInv, TypeOK, BackoffOnlyWithoutRelay
<1>2. CASE Opened
  <2>1. TypeOK'
    BY <1>1, <1>2 DEF Opened, IsConnecting, IInv, TypeOK, locks, environment
  <2> QED
    BY <1>1, <1>2, <2>1
    DEF Opened, IsConnecting, IInv, NoForgottenSocket, BackoffOnlyWithoutRelay,
        TimersBelongToRelay, AttemptCounted, CountedPast
<1>3. CASE \E b \in Bridges : ServerInfo(b)
  <2>1. PICK b \in Bridges : ServerInfo(b)
    BY <1>3
  <2> DEFINE ctx == [context EXCEPT !.serverInfo = b, !.everConnected = TRUE,
                                    !.diagnosticReason = None, !.missedHeartbeats = 0]
  <2>2. ctx \in Contexts /\ ctx.failureCount = context.failureCount
    BY <1>1 DEF Contexts
  <2>3. /\ relay # None /\ ws[relay] = "open"
        /\ context' = Transition(ctx, "WS_OPEN")
        /\ heartbeat' = FreshHeartbeat /\ serverInfoTimer' = FALSE /\ lockHeld' = FALSE
        /\ pending' \in [Waits -> 0..MaxPending]
        /\ attempt' = [attempt EXCEPT !.informed = TRUE]
        /\ UNCHANGED <<ws, relay, pings, backoff, lockAsked, environment>>
    BY <2>1, WaitsType DEF ServerInfo, IsConnected, IInv, TypeOK, Waits
  <2> HIDE DEF ctx
  <2>4. /\ context' \in Contexts /\ context'.failureCount = context.failureCount
        /\ context'.state \notin {"connecting", "reconnecting"}
    BY <2>2, <2>3, TransitionType, MoveCounts DEF Events
  <2>5. /\ attempt' \in Attempts /\ attempt'.count = attempt.count
        /\ attempt'.excused = attempt.excused
    BY <1>1, <2>3 DEF Attempts
  <2>6. FreshHeartbeat \in Heartbeats
    BY DEF FreshHeartbeat, Heartbeats, maxMissed
  <2>7. TypeOK'
    BY <2>3, <2>4, <2>5, <2>6 DEF IInv, TypeOK, environment
  <2>8. AttemptCounted'
    BY <1>1, <2>3, <2>4, <2>5 DEF IInv, AttemptCounted
  <2> QED
    BY <1>1, <2>3, <2>7, <2>8
    DEF IInv, NoForgottenSocket, BackoffOnlyWithoutRelay, TimersBelongToRelay
<1>4. CASE ServerInfoTimeout
  <2>1. relay \in Socks /\ ws[relay] \in {"open", "closing"}
    BY <1>1, <1>4 DEF ServerInfoTimeout, IInv, TimersBelongToRelay
  <2>2. /\ ws' \in [Socks -> {"closed", "connecting", "open", "closing"}]
        /\ \A s \in Socks : ws'[s] = ws[s] \/ (s = relay /\ ws'[s] = "closing")
    BY <1>1, <1>4, <2>1 DEF ServerInfoTimeout
  <2>3. TypeOK'
    BY <1>4, <2>2 DEF ServerInfoTimeout, IInv, TypeOK, locks, environment
  <2> QED
    BY <1>1, <1>4, <2>1, <2>2, <2>3
    DEF ServerInfoTimeout, IInv, NoForgottenSocket, BackoffOnlyWithoutRelay,
        TimersBelongToRelay, AttemptCounted, CountedPast
<1>5. CASE Pong
  <2>1. /\ context' = Transition(context, "HEARTBEAT_OK")
        /\ attempt' = Excuse(context.state \in {"connected", "degraded"})
        /\ heartbeat # None /\ heartbeat' \in {heartbeat, FreshHeartbeat}
        /\ pings > 0 /\ pings' = pings - 1
        /\ UNCHANGED <<ws, relay, timers, locks, pending, environment>>
    BY <1>5 DEF Pong, RelayAlive
  <2>2. /\ attempt' \in Attempts /\ attempt'.count = attempt.count
        /\ attempt'.informed = attempt.informed
        /\ context.state \in {"connected", "degraded"} => attempt'.excused
        /\ attempt.excused => attempt'.excused
    BY <1>1, <2>1 DEF Excuse, Attempts
  <2>3. /\ context' \in Contexts
        /\ context.state \notin {"connected", "degraded"} => context' = context
    BY <1>1, <2>1, TransitionType, PongCases DEF Events
  <2>4. FreshHeartbeat \in Heartbeats
    BY DEF FreshHeartbeat, Heartbeats, maxMissed
  <2>5. pings' \in 0..MaxPings
    BY <1>1, <2>1, ManagerAssumption
  <2>6. TypeOK'
    BY <2>1, <2>2, <2>3, <2>4, <2>5 DEF IInv, TypeOK, timers, locks, environment
  <2>7. AttemptCounted'
    BY <2>1, <2>2, <2>3 DEF IInv, AttemptCounted, CountedPast, timers
  <2>8. TimersBelongToRelay'
    BY <2>1 DEF IInv, TimersBelongToRelay, timers
  <2> QED
    BY <2>1, <2>6, <2>7, <2>8
    DEF IInv, NoForgottenSocket, BackoffOnlyWithoutRelay, timers
<1>6. CASE HeartbeatTick
  <2>1. /\ heartbeat # None /\ heartbeat \in Heartbeats
        /\ relay \in Socks /\ ws[relay] \in {"open", "closing"} /\ ~backoff
        /\ ~serverInfoTimer
        /\ UNCHANGED <<relay, timers, locks, pending, environment, attempt>>
    BY <1>1, <1>6 DEF HeartbeatTick, IInv, TypeOK, TimersBelongToRelay
  <2>2. /\ ws' \in [Socks -> {"closed", "connecting", "open", "closing"}]
        /\ \A s \in Socks : ws'[s] = ws[s] \/ (s = relay /\ ws'[s] = "closing")
    BY <1>1, <1>6, <2>1 DEF HeartbeatTick
  <2>3. heartbeat' \in Heartbeats
    <3>1. ~IsDead => heartbeat.missed + 1 \in 0..maxMissed
      BY <2>1 DEF IsDead, Heartbeats, maxMissed
    <3>2. /\ [heartbeat EXCEPT !.pendingPong = TRUE] \in Heartbeats
          /\ [running |-> FALSE, pendingPong |-> FALSE, missed |-> 0] \in Heartbeats
      <4>1. [heartbeat EXCEPT !.pendingPong = TRUE] \in Heartbeats
        BY <2>1, Zenon DEF Heartbeats
      <4>2. 0 \in 0..maxMissed
        BY DEF maxMissed
      <4> QED
        BY <4>1, <4>2 DEF Heartbeats
    <3>3. ~IsDead => [heartbeat EXCEPT !.missed = @ + 1] \in Heartbeats
      BY <2>1, <3>1 DEF Heartbeats
    <3> QED
      BY <1>6, <3>2, <3>3 DEF HeartbeatTick
  <2>4. pings' \in 0..MaxPings
    BY <1>1, <1>6, ManagerAssumption DEF HeartbeatTick, PingSent
  <2>5. context' = context \/ context' = Transition(context, "HEARTBEAT_MISS")
    BY <1>6 DEF HeartbeatTick
  <2>6. /\ context' \in Contexts
        /\ context'.failureCount >= context.failureCount
        /\ context'.state # "connecting" \/ context.state = "connecting"
        /\ context'.state = "reconnecting" =>
             \/ CountedPast(context', context.failureCount)
             \/ context.state = "reconnecting" /\ context' = context
    <3>1. context.failureCount \in Nat /\ "HEARTBEAT_MISS" \in Events
      BY <1>1 DEF Contexts, Events
    <3>2. CASE context' = context
      BY <1>1, <3>1, <3>2
    <3>3. CASE context' = Transition(context, "HEARTBEAT_MISS")
      BY <1>1, <3>1, <3>3, TransitionType, FailureCounts
    <3> QED
      BY <2>5, <3>2, <3>3
  <2>7. TypeOK'
    BY <2>1, <2>2, <2>3, <2>4, <2>6 DEF IInv, TypeOK, timers, locks, environment
  <2>8. AttemptCounted'
    <3>1. /\ context.failureCount \in Nat /\ context'.failureCount \in Nat
          /\ attempt.count \in Nat
      BY <1>1, <2>6 DEF Contexts, Attempts
    <3> QED
      BY <2>1, <2>6, <3>1, ManagerAssumption
      DEF IInv, AttemptCounted, CountedPast, timers
  <2> QED
    BY <1>1, <2>1, <2>2, <2>7, <2>8
    DEF IInv, NoForgottenSocket, BackoffOnlyWithoutRelay, TimersBelongToRelay, timers
<1>7. CASE ClosedByBridge
  <2>1. TypeOK'
    BY <1>1, <1>7 DEF ClosedByBridge, IsConnected, IInv, TypeOK, timers, locks, environment
  <2> QED
    BY <1>1, <1>7, <2>1
    DEF ClosedByBridge, IsConnected, IInv, NoForgottenSocket, BackoffOnlyWithoutRelay,
        TimersBelongToRelay, AttemptCounted, CountedPast, timers
<1> QED
  BY <1>2, <1>3, <1>4, <1>5, <1>6, <1>7

\* A relay that fails, before or after it opened, or that nobody answers keeps
\* the invariant.
LEMMA FailuresKeep ==
    ASSUME IInv, Failed \/ ConnectingTimeout
    PROVE  IInv'
<1>1. /\ context \in Contexts /\ relay \in Socks /\ None \notin Socks
      /\ ws \in [Socks -> {"closed", "connecting", "open", "closing"}]
      /\ context.failureCount \in Nat
  BY ManagerAssumption
  DEF IInv, TypeOK, Failed, ConnectingTimeout, IsConnecting, IsConnected, Contexts
<1>2. \A s \in Socks : ws[s] \in {"connecting", "open"} => s = relay
  BY DEF IInv, NoForgottenSocket
<1>3. CASE Failed
  <2>1. /\ ws' = [ws EXCEPT ![relay] = "closed"]
        /\ OnClose(ErrorContext(context), 1006)
    BY <1>3 DEF Failed
  <2>2. /\ ws' \in [Socks -> {"closed", "connecting", "open", "closing"}]
        /\ \A s \in Socks : ws'[s] \in {"connecting", "open"} =>
                              s # relay /\ ws[s] = ws'[s]
    BY <1>1, <1>2, <2>1
  <2> QED
    BY <1>1, <2>1, <2>2, ErrorContextType, OnCloseKeeps
<1>4. CASE ConnectingTimeout
  <2>1. ws' = Discarded /\ OnClose(context, 4098)
    BY <1>4 DEF ConnectingTimeout
  <2>2. /\ ws' \in [Socks -> {"closed", "connecting", "open", "closing"}]
        /\ \A s \in Socks : ws'[s] \in {"connecting", "open"} =>
                              s # relay /\ ws[s] = ws'[s]
    BY <1>1, <1>2, <2>1 DEF Discarded
  <2>3. context.failureCount >= context.failureCount
    BY <1>1
  <2> QED
    BY <1>1, <2>1, <2>2, <2>3, OnCloseKeeps
<1> QED
  BY <1>3, <1>4

\* The close event of the relay, or of a socket it has replaced, keeps the
\* invariant.
LEMMA ClosedKeeps ==
    ASSUME IInv, Closed
    PROVE  IInv'
<1>1. PICK s \in Socks, code \in {1006, 4002} : CloseEvent(s, code)
  BY DEF Closed
<1>2. /\ context \in Contexts /\ None \notin Socks
      /\ ws \in [Socks -> {"closed", "connecting", "open", "closing"}]
      /\ context.failureCount \in Nat
      /\ \A r \in Socks : ws[r] \in {"connecting", "open"} => r = relay
  BY ManagerAssumption DEF IInv, TypeOK, NoForgottenSocket, Contexts
<1>3. ws[s] = "closing" /\ ws' = [ws EXCEPT ![s] = "closed"]
  BY <1>1 DEF CloseEvent
<1>4. /\ ws' \in [Socks -> {"closed", "connecting", "open", "closing"}]
      /\ ws'[s] = "closed" /\ \A r \in Socks : r # s => ws'[r] = ws[r]
  BY <1>2, <1>3
<1>5. CASE s = relay
  <2>1. OnClose(context, code)
    BY <1>1, <1>5 DEF CloseEvent
  <2>2. \A r \in Socks : ws'[r] \in {"connecting", "open"} =>
                            r # relay /\ ws[r] = ws'[r]
    BY <1>2, <1>4, <1>5
  <2>3. context.failureCount >= context.failureCount
    BY <1>2
  <2> QED
    BY <1>2, <1>4, <1>5, <2>1, <2>2, <2>3, OnCloseKeeps
<1>6. CASE s # relay
  <2>1. UNCHANGED <<context, relay, heartbeat, pings, timers, locks, pending,
                    environment, attempt>>
    BY <1>1, <1>6 DEF CloseEvent
  <2>2. TypeOK'
    BY <1>4, <2>1 DEF IInv, TypeOK, timers, locks, environment
  <2> QED
    BY <1>2, <1>4, <1>6, <2>1, <2>2
    DEF IInv, TypeOK, NoForgottenSocket, BackoffOnlyWithoutRelay, TimersBelongToRelay,
        AttemptCounted, CountedPast, timers
<1> QED
  BY <1>5, <1>6

\* An answered lock request and a bridge that steadies touch no link.
LEMMA BystandersKeep ==
    ASSUME IInv, (\E granted \in BOOLEAN : LockAnswered(granted)) \/ BridgeSteadies
    PROVE  IInv'
<1>1. /\ pings \in 0..MaxPings /\ pending \in [Waits -> 0..MaxPending]
      /\ lockAsked \in 0..MaxAsked /\ lockHeld \in BOOLEAN
      /\ superseded \in BOOLEAN /\ bridge \in {"flaky", "steady"}
  BY DEF IInv, TypeOK
<1>2. CASE \E granted \in BOOLEAN : LockAnswered(granted)
  <2>1. PICK granted \in BOOLEAN : LockAnswered(granted)
    BY <1>2
  <2>2. /\ lockAsked > 0 /\ lockAsked' = lockAsked - 1
        /\ UNCHANGED <<context, link, timers, pending, environment, attempt>>
    BY <2>1 DEF LockAnswered
  <2>3. lockAsked' \in 0..MaxAsked
    BY <1>1, <2>2, ManagerAssumption
  <2>4. lockHeld' \in BOOLEAN
    BY <2>1 DEF LockAnswered
  <2> QED
    BY <1>1, <2>2, <2>3, <2>4, BystanderKeeps DEF link, environment
<1>3. CASE BridgeSteadies
  BY <1>1, <1>3, BystanderKeeps DEF BridgeSteadies, link, locks
<1> QED
  BY <1>2, <1>3

\* A new life of the service worker starts as the first one did.
LEMMA RestartedKeeps ==
    ASSUME IInv, Restarted
    PROVE  IInv'
<1>1. /\ ws' = Discarded /\ relay' = None /\ heartbeat' = None /\ pings' = 0
      /\ ~backoff' /\ ~serverInfoTimer' /\ lockAsked' = 0
      /\ attempt' = NoAttempt /\ pending' = [NoWaits EXCEPT !["open"] = 1]
      /\ context' = Transition(InitialContext, "CONNECT") /\ bridge' = bridge
  BY DEF Restarted
<1>2. /\ backoff' \in BOOLEAN /\ serverInfoTimer' \in BOOLEAN
      /\ lockHeld' \in BOOLEAN /\ superseded' \in BOOLEAN
  BY DEF Restarted
<1>3. InitialContext \in Contexts
  BY MachineAssumption DEF InitialContext, Contexts, States
<1>4. context' \in Contexts
  BY <1>1, <1>3, TransitionType DEF Events
<1>5. pending' \in [Waits -> 0..MaxPending]
  BY <1>1, ManagerAssumption DEF NoWaits, Waits
<1>6. attempt' \in Attempts /\ attempt'.excused
  BY <1>1, MachineAssumption DEF NoAttempt, Attempts
<1>7. ws' \in [Socks -> {"closed", "closing"}]
  BY <1>1, DiscardedType DEF IInv
<1>8. pings' \in 0..MaxPings /\ lockAsked' \in 0..MaxAsked
  BY <1>1, ManagerAssumption
<1>9. TypeOK'
  BY <1>1, <1>2, <1>4, <1>5, <1>6, <1>7, <1>8 DEF IInv, TypeOK
<1> QED
  BY <1>1, <1>6, <1>7, <1>9
  DEF IInv, NoForgottenSocket, BackoffOnlyWithoutRelay, TimersBelongToRelay,
      AttemptCounted

\* Every step of the manager keeps the invariant.
LEMMA NextKeeps == IInv /\ [Next]_vars => IInv'
<1> SUFFICES ASSUME IInv, [Next]_vars PROVE IInv'
  OBVIOUS
<1>1. CASE Discovered
  BY <1>1, DiscoveredKeeps
<1>2. CASE BackoffExpired \/ Retry \/ Disconnect \/ Reconcile \/ Probed
  BY <1>2, DriversKeep
<1>3. CASE \/ Opened \/ \E b \in Bridges : ServerInfo(b)
           \/ ServerInfoTimeout \/ Pong \/ HeartbeatTick \/ ClosedByBridge
  BY <1>3, CallbacksKeep
<1>4. CASE Failed \/ ConnectingTimeout
  BY <1>4, FailuresKeep
<1>5. CASE Closed
  BY <1>5, ClosedKeeps
<1>6. CASE (\E granted \in BOOLEAN : LockAnswered(granted)) \/ BridgeSteadies
  BY <1>6, BystandersKeep
<1>7. CASE Restarted
  BY <1>7, RestartedKeeps
<1>8. CASE UNCHANGED vars
  BY <1>8 DEF vars, link, timers, locks, environment, IInv, TypeOK, NoForgottenSocket,
              BackoffOnlyWithoutRelay, TimersBelongToRelay, AttemptCounted, CountedPast
<1> QED
  BY <1>1, <1>2, <1>3, <1>4, <1>5, <1>6, <1>7, <1>8 DEF Next

-----------------------------------------------------------------------------
(***************************************************************************)
(* The theorems.                                                           *)
(***************************************************************************)

\* The inductive invariant holds in every reachable state.
THEOREM Invariance == Spec => []IInv
<1>1. Init => IInv
  BY InitIInv
<1>2. IInv /\ [Next]_vars => IInv'
  BY NextKeeps
<1> QED
  BY <1>1, <1>2, PTL DEF Spec

\* Every variable keeps its type.
THEOREM TypeCorrect == Spec => []TypeOK
<1>1. IInv => TypeOK
  BY DEF IInv
<1> QED
  BY <1>1, Invariance, PTL

\* No socket is left open, or opening, that the manager has no reference to
\* (teardownRelay discards what openRelay replaces).
THEOREM NothingForgotten == Spec => []NoForgottenSocket
<1>1. IInv => NoForgottenSocket
  BY DEF IInv
<1> QED
  BY <1>1, Invariance, PTL

\* A backoff is never armed beside a relay: teardownRelay and onClose between
\* them leave one driver.
THEOREM OneDriver == Spec => []BackoffOnlyWithoutRelay
<1>1. IInv => BackoffOnlyWithoutRelay
  BY DEF IInv
<1> QED
  BY <1>1, Invariance, PTL

\* The server_info timer and the heartbeat never outlive their relay.
THEOREM TimersAreOwned == Spec => []TimersBelongToRelay
<1>1. IInv => TimersBelongToRelay
  BY DEF IInv
<1> QED
  BY <1>1, Invariance, PTL

\* A link that died unproven has raised the failure count when its backoff is
\* armed, whatever the order of closes, misses, reconciles and discoveries.
THEOREM UnstableCounts == Spec => []UnstableLinkCounts
<1>1. IInv => UnstableLinkCounts
  BY DEF IInv, AttemptCounted, UnstableLinkCounts, CountedPast
<1> QED
  BY <1>1, Invariance, PTL
=============================================================================
