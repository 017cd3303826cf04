----------------------------- MODULE BridgeRelay -----------------------------
(***************************************************************************)
(* The browser side of the bridge (packages/native-host/src/service.ts):   *)
(* the registry of extension sockets, the rule that resolves two sockets   *)
(* claiming one browserId, the grace window of a reconnecting relay, the   *)
(* liveness probes, and the tool requests in flight.                       *)
(*                                                                         *)
(* The bridge is one Node process: a handler runs to completion, with the  *)
(* promise continuations it settles, before the next event.  So one action *)
(* is one event (an upgrade, a frame, a close, a timer) with everything    *)
(* that follows from it before control returns to the event loop.  What    *)
(* interleaves is the order of events: in particular a liveness probe      *)
(* waits across many of them, and a close handshake has two ends.          *)
(***************************************************************************)
EXTENDS Integers, FiniteSets, RelayIdentity

CONSTANTS
    Socks,        \* sockets, each used for one connection
    Ids,          \* browserIds: composite "brand:uuid" ids, and HelperProbe
    HelperProbe,  \* the synthetic browserId of the helper's health probe
    Brand,        \* parseBrand, a function on Ids
    UrlParams,    \* what the upgrade URL of an extension may declare
    Requests,     \* browser-bound request ids (b_<uuid>), each used once
    Clients,      \* MCP clients
    ClientOf,     \* the client that issues a request
    Targets,      \* routing targets a call may name: ids, brands, "default"
    None

ASSUME ParamsAssumption ==
    UrlParams \subseteq
        [browserId : Ids, canonical : BOOLEAN, ident : RelayIdentities]

\* The probe's URL carries neither role=relay nor an identity.
ASSUME ProbeAssumption ==
    \A p \in UrlParams :
        p.browserId = HelperProbe => ~p.canonical /\ p.ident.gen = NoGen

ASSUME NoneAssumption ==
    /\ None \notin Socks \cup Ids \cup Requests \cup Targets
    /\ None \notin UrlParams \cup RelayIdentities
    /\ None \notin Int
    /\ Ids \subseteq Targets

\* A probe waits on behalf of a socket or of a request, never of both.
ASSUME WaiterAssumption == Socks \cap Requests = {}

ASSUME ClientAssumption == ClientOf \in [Requests -> Clients]

CloseCodes == {1000, 1006, 1011, 4002}

(***************************************************************************)
(* readyState is the bridge's end of a socket.  "closing" is after         *)
(* ws.close(): frames of the peer still arrive until its close frame does. *)
(* "terminated" is after ws.terminate(): nothing arrives any more, but the *)
(* 'close' event is still to come.                                         *)
(***************************************************************************)
ReadyStates == {"unused", "open", "closing", "terminated", "closed"}

(***************************************************************************)
(* A request is "probing" while fan-out checks its target, "pending" while *)
(* it is an entry of the pendingRequests map, and then settled for good.   *)
(* target is PendingRequest.browserId; sock is the socket it was sent on.  *)
(***************************************************************************)
Settled == {"resolved", "rejected", "timedout", "wedged"}
RequestStates == {"idle", "probing", "pending", "dropped"} \cup Settled

RequestRecords ==
    [st : RequestStates, kind : {"single", "fanout"},
     target : Targets \cup {None}, sock : Socks \cup {None}]

(***************************************************************************)
(* A call of proveLive that has not returned: on behalf of a colliding     *)
(* newcomer, of the periodic sweep, or of one target of a fan-out.  listed *)
(* says its waiter is still in pendingPongs.                               *)
(***************************************************************************)
ProbeRecords ==
    [kind : {"collision", "sweep", "fanout"},
     by : Socks \cup Requests \cup {None},
     sock : Socks, listed : BOOLEAN]

VARIABLES
    params,                \* URL parameters of each connected socket
    readyState,
    wired,                 \* sockets accept() has given their handlers
    browserSockets,        \* browserId -> the incumbent socket
    browserRelayIdentity,  \* browserId -> the incumbent's declared identity
    gracedSockets,         \* browserId -> the tied socket kept open a while
    browserSupersededCount,
    browserLastRelayClose, \* browserId -> code of the last relay close
    probes,                \* calls of proveLive in progress
    sweepQueue,            \* sockets the running sweep has yet to probe
    pinged,                \* sockets with a server_ping not yet answered
    requests

registry == <<browserSockets, browserRelayIdentity, gracedSockets>>
signals  == <<browserSupersededCount, browserLastRelayClose>>
probing  == <<probes, sweepQueue, pinged>>
vars == <<params, readyState, wired, registry, signals, probing, requests>>

TypeOK ==
    /\ params \in [Socks -> UrlParams \cup {None}]
    /\ readyState \in [Socks -> ReadyStates]
    /\ wired \subseteq Socks
    /\ browserSockets \in [Ids -> Socks \cup {None}]
    /\ browserRelayIdentity \in [Ids -> RelayIdentities \cup {None}]
    /\ gracedSockets \in [Ids -> Socks \cup {None}]
    /\ browserSupersededCount \in [Ids -> Nat]
    /\ browserLastRelayClose \in [Ids -> CloseCodes \cup {None}]
    /\ probes \subseteq ProbeRecords
    /\ sweepQueue \subseteq Socks
    /\ pinged \subseteq Socks
    /\ requests \in [Requests -> RequestRecords]

\* A counter starts at 0 (mutant: the "?? 0" default forgotten).
NoDefault == None
NoChurn == 0

Init ==
    /\ params = [s \in Socks |-> None]
    /\ readyState = [s \in Socks |-> "unused"]
    /\ wired = {}
    /\ browserSockets = [i \in Ids |-> None]
    /\ browserRelayIdentity = [i \in Ids |-> None]
    /\ gracedSockets = [i \in Ids |-> None]
    /\ browserSupersededCount = [i \in Ids |-> NoChurn]
    /\ browserLastRelayClose = [i \in Ids |-> None]
    /\ probes = {}
    /\ sweepQueue = {}
    /\ pinged = {}
    /\ requests = [r \in Requests |->
                     [st |-> "idle", kind |-> "single",
                      target |-> None, sock |-> None]]

IsOpen(s) == readyState[s] = "open"
BrowserOf(s) == params[s].browserId

\* Ids whose incumbent can be routed to.
OpenIds == {i \in Ids : browserSockets[i] # None /\ IsOpen(browserSockets[i])}

\* The peer may still deliver frames to the handlers of s.
CanDeliver(s) == s \in wired /\ readyState[s] \in {"open", "closing"}

\* r is an entry of pendingRequests (mutant: a timeout leaves the entry there).
PendingAfterTimeout(r) == requests[r].st \in {"pending", "timedout"}
Pending(r) == requests[r].st = "pending"

\* The record of r, moved on to state st.
Moved(r, st) == [requests[r] EXCEPT !.st = st]

\* ws.close() has an effect only on an open socket (mutant: it has none).
NotClosing(s) == readyState
Closing(s) == [readyState EXCEPT ![s] = IF @ = "open" THEN "closing" ELSE @]

-----------------------------------------------------------------------------
(***************************************************************************)
(* Registration.                                                           *)
(***************************************************************************)

\* An exact tie supersedes nobody (mutant: the rule before the idempotent tie).
SupersedesAlways(displaced, idempotent) == displaced
Supersedes(displaced, idempotent) == displaced /\ ~idempotent

\* The requests a supersede of browser i rejects (mutant: none).
RejectsNone(i, r) == FALSE
Rejects(i, r) == Pending(r) /\ requests[r].target = i

(***************************************************************************)
(* A displaced incumbent.  On an exact tie it is the same life's older     *)
(* socket: it stays open as the graced socket, and only the socket graced  *)
(* before it is closed.  Otherwise its life is gone: the socket is         *)
(* terminated, the graced one closed, and the requests recorded under this *)
(* browserId are rejected.                                                 *)
(***************************************************************************)
IndexBrowser(i, s, idempotent) ==
    LET old       == browserSockets[i]
        displaced == old \notin {None, s}
        supersede == Supersedes(displaced, idempotent)
        retired   == IF displaced THEN gracedSockets[i] ELSE None
    IN  /\ browserSockets' = [browserSockets EXCEPT ![i] = s]
        /\ readyState' =
             [x \in Socks |->
                IF x = s THEN "open"
                ELSE IF supersede /\ x = old THEN "terminated"
                ELSE IF x = retired /\ IsOpen(x) THEN "closing"
                ELSE readyState[x]]
        /\ gracedSockets' =
             IF displaced
             THEN [gracedSockets EXCEPT ![i] = IF idempotent THEN old ELSE None]
             ELSE gracedSockets
        /\ browserSupersededCount' =
             [browserSupersededCount EXCEPT ![i] = IF supersede THEN @ + 1 ELSE @]
        /\ browserLastRelayClose' =
             [browserLastRelayClose EXCEPT ![i] = IF displaced THEN 1006 ELSE @]
        /\ requests' =
             [r \in Requests |->
                IF supersede /\ Rejects(i, r)
                THEN Moved(r, "rejected")
                ELSE requests[r]]

Accept(s, p, idempotent) ==
    /\ wired' = wired \cup {s}
    /\ IndexBrowser(p.browserId, s, idempotent)
    /\ browserRelayIdentity' =
         IF p.browserId = HelperProbe THEN browserRelayIdentity
         ELSE [browserRelayIdentity EXCEPT ![p.browserId] = p.ident]

Probe(k, b, s) ==
    [kind |-> k, by |-> b, sock |-> s, listed |-> TRUE]

(***************************************************************************)
(* The upgrade of socket s with parameters p.  Collides says there is an   *)
(* open incumbent to compare with; an incumbent already closing does not   *)
(* count, and the helper's probe is exempt.                                *)
(***************************************************************************)
Connects(s, p) == params[s] = None /\ params' = [params EXCEPT ![s] = p]

Collides(p) == p.browserId # HelperProbe /\ p.browserId \in OpenIds

\* Both sides have a numeric gen (mutant: no order, the newest relay wins).
NewestWins(p) == FALSE
Ranked(p) ==
    /\ p.canonical
    /\ p.ident.gen # NoGen
    /\ browserRelayIdentity[p.browserId] # None
    /\ browserRelayIdentity[p.browserId].gen # NoGen

Rank(p) == CompareRelayIdentity(p.ident, browserRelayIdentity[p.browserId])

ConnectFresh(s, p) ==
    /\ Connects(s, p)
    /\ ~Collides(p)
    /\ Accept(s, p, FALSE)
    /\ UNCHANGED probing

ConnectHigher(s, p) ==
    /\ Connects(s, p)
    /\ Collides(p) /\ Ranked(p) /\ Rank(p) > 0
    /\ Accept(s, p, FALSE)
    /\ UNCHANGED probing

ConnectTie(s, p) ==
    /\ Connects(s, p)
    /\ Collides(p) /\ Ranked(p) /\ Rank(p) = 0
    /\ Accept(s, p, TRUE)
    /\ UNCHANGED probing

ConnectLower(s, p) ==
    /\ Connects(s, p)
    /\ Collides(p) /\ Ranked(p) /\ Rank(p) < 0
    /\ readyState' = [readyState EXCEPT ![s] = "closing"]
    /\ browserLastRelayClose' =
         [browserLastRelayClose EXCEPT ![p.browserId] = 4002]
    /\ UNCHANGED <<wired, registry, browserSupersededCount, probing, requests>>

\* A relay that cannot be ranked: the newest canonical relay wins.
ConnectLegacy(s, p) ==
    /\ Connects(s, p)
    /\ Collides(p) /\ ~Ranked(p) /\ p.canonical
    /\ Accept(s, p, FALSE)
    /\ UNCHANGED probing

\* Not a canonical relay: it waits, without handlers, for a probe of the
\* incumbent.
ConnectDuplicate(s, p) ==
    /\ Connects(s, p)
    /\ Collides(p) /\ ~p.canonical
    /\ readyState' = [readyState EXCEPT ![s] = "open"]
    /\ probes' = probes \cup {Probe("collision", s, browserSockets[p.browserId])}
    /\ pinged' = pinged \cup {browserSockets[p.browserId]}
    /\ UNCHANGED <<wired, registry, signals, sweepQueue, requests>>

-----------------------------------------------------------------------------
(***************************************************************************)
(* Closing.                                                                *)
(***************************************************************************)

\* s still owns its browserId (mutant: any socket of the browserId does).
ClosesForAll(s) == s \in wired
IsIncumbent(s) == s \in wired /\ browserSockets[BrowserOf(s)] = s

\* The graced socket g after s closed (mutant: a closed socket stays graced).
StaysGraced(g, s) == g
StillGraced(g, s) == IF g = s THEN None ELSE g

\* Probe p without its waiter.
Unlisted(p) == [p EXCEPT !.listed = FALSE]

\* pendingPongs.delete(i): the waiters are gone, their timers still run (mutant:
\* the probes are gone).
ForgetProbes(i) == {p \in probes : BrowserOf(p.sock) # i}
ForgetWaiters(i) ==
    {IF BrowserOf(p.sock) = i THEN Unlisted(p) ELSE p : p \in probes}

(***************************************************************************)
(* The 'close' event of s, after the peer or the transport closed an open  *)
(* socket or the bridge closed it.  Only the incumbent unregisters its     *)
(* browser, and drops the waiters of every probe of that browser.          *)
(***************************************************************************)
SocketClosed(s, code) ==
    /\ readyState[s] \in {"open", "closing", "terminated"}
    /\ code = 1011 => readyState[s] = "closing"
    /\ code # 1006 => readyState[s] # "terminated"
    /\ readyState' = [readyState EXCEPT ![s] = "closed"]
    /\ LET i         == BrowserOf(s)
           incumbent == IsIncumbent(s)
           real      == incumbent /\ i # HelperProbe
       IN  /\ browserSockets' =
                [browserSockets EXCEPT ![i] = IF incumbent THEN None ELSE @]
           /\ browserRelayIdentity' =
                [browserRelayIdentity EXCEPT ![i] = IF real THEN None ELSE @]
           /\ gracedSockets' =
                [gracedSockets EXCEPT ![i] = StillGraced(@, s)]
           /\ browserLastRelayClose' =
                [browserLastRelayClose EXCEPT
                   ![i] = IF ~real THEN @ ELSE IF code = 1000 THEN None ELSE code]
           /\ browserSupersededCount' =
                [browserSupersededCount EXCEPT
                   ![i] = IF real /\ code = 1000 THEN 0 ELSE @]
           /\ probes' = IF incumbent THEN ForgetWaiters(i) ELSE probes
    /\ UNCHANGED <<params, wired, sweepQueue, pinged, requests>>

\* The grace window of a tied socket ends.
GraceTimeout(i) ==
    /\ gracedSockets[i] # None
    /\ readyState' = Closing(gracedSockets[i])
    /\ gracedSockets' = [gracedSockets EXCEPT ![i] = None]
    /\ UNCHANGED <<params, wired, browserSockets, browserRelayIdentity,
                   signals, probing, requests>>

-----------------------------------------------------------------------------
(***************************************************************************)
(* Liveness.                                                               *)
(***************************************************************************)

\* The per-socket 20 s keep-alive ping.
ServerPing(s) ==
    /\ s \in wired /\ IsOpen(s) /\ s \notin pinged
    /\ pinged' = pinged \cup {s}
    /\ UNCHANGED <<params, readyState, wired, registry, signals, probes,
                   sweepQueue, requests>>

(***************************************************************************)
(* The sweep goes on with one of the sockets of its snapshot q that is     *)
(* still open (ready is readyState after this event), or ends.             *)
(***************************************************************************)
SweepGoesOn(q, ready, otherProbes, otherPinged) ==
    LET left == {s \in q : ready[s] = "open"}
    IN  \/ /\ left = {}
           /\ probes' = otherProbes
           /\ sweepQueue' = {}
           /\ pinged' = otherPinged
        \/ \E s \in left :
             /\ probes' = otherProbes \cup {Probe("sweep", None, s)}
             /\ sweepQueue' = left \ {s}
             /\ pinged' = otherPinged \cup {s}

\* The 15 s tick.  One sweep at a time: sweeps overlap only when more than
\* four browsers are wedged at once.
SweepTick ==
    /\ \A p \in probes : p.kind # "sweep"
    /\ OpenIds \ {HelperProbe} # {}
    /\ SweepGoesOn({browserSockets[i] : i \in OpenIds \ {HelperProbe}},
                   readyState, probes, pinged)
    /\ UNCHANGED <<params, readyState, wired, registry, signals, requests>>

(***************************************************************************)
(* A server_pong on s wakes every waiter of its browserId, whichever       *)
(* socket it pinged: waiting newcomers are rejected, fan-out requests are  *)
(* sent (on the socket chosen before the probe, whatever became of it),    *)
(* the sweep goes on.                                                      *)
(***************************************************************************)
ServerPong(s) ==
    /\ CanDeliver(s) /\ s \in pinged
    /\ LET i         == BrowserOf(s)
           woken     == {p \in probes : p.listed /\ BrowserOf(p.sock) = i}
           newcomers == {p.by : p \in {q \in woken : q.kind = "collision"}}
           sent      == {p.by : p \in {q \in woken : q.kind = "fanout"}}
           asleep    == probes \ woken
       IN  /\ readyState' =
                [x \in Socks |->
                   IF x \in newcomers /\ IsOpen(x) THEN "closing" ELSE readyState[x]]
           /\ browserLastRelayClose' =
                [browserLastRelayClose EXCEPT ![i] = IF newcomers = {} THEN @ ELSE 4002]
           /\ requests' =
                [r \in Requests |->
                   IF r \in sent THEN Moved(r, "pending")
                   ELSE requests[r]]
           /\ IF \E p \in woken : p.kind = "sweep"
              THEN SweepGoesOn(sweepQueue, readyState, asleep, pinged \ {s})
              ELSE /\ probes' = asleep
                   /\ pinged' = pinged \ {s}
                   /\ UNCHANGED sweepQueue
    /\ UNCHANGED <<params, wired, registry, browserSupersededCount>>

(***************************************************************************)
(* No pong within 1.5 s: the waiting newcomer, if still open, is accepted. *)
(* The incumbent it then displaces is the one of now, not the probed one.  *)
(***************************************************************************)
CollisionProbeTimeout(p) ==
    /\ p \in probes /\ p.kind = "collision"
    /\ probes' = probes \ {p}
    /\ IF IsOpen(p.by)
       THEN Accept(p.by, params[p.by], FALSE)
       ELSE UNCHANGED <<readyState, wired, registry, signals, requests>>
    /\ UNCHANGED <<params, sweepQueue, pinged>>

\* No pong within 3 s: the sweep closes the socket (1011) and goes on.
SweepProbeTimeout(p) ==
    /\ p \in probes /\ p.kind = "sweep"
    /\ readyState' = Closing(p.sock)
    /\ SweepGoesOn(sweepQueue, Closing(p.sock), probes \ {p}, pinged)
    /\ UNCHANGED <<params, wired, registry, signals, requests>>

\* No pong within 3 s: fan-out closes the socket (1011) and gives the target up.
FanOutProbeTimeout(p) ==
    /\ p \in probes /\ p.kind = "fanout"
    /\ probes' = probes \ {p}
    /\ readyState' = Closing(p.sock)
    /\ requests' = [requests EXCEPT ![p.by] = Moved(p.by, "wedged")]
    /\ UNCHANGED <<params, wired, registry, signals, sweepQueue, pinged>>

-----------------------------------------------------------------------------
(***************************************************************************)
(* Tool requests.                                                          *)
(***************************************************************************)

\* resolveSocket: an exact match, else any open socket of that brand, else
\* any open socket.  The order of Map iteration is left open.
ResolveSocket(t) ==
    LET ofBrand == {i \in OpenIds : Brand[i] = t}
        ids == IF t \in OpenIds THEN {t}
               ELSE IF ofBrand # {} THEN ofBrand ELSE OpenIds
    IN  {browserSockets[i] : i \in ids}

\* sendToolRequest: a server_ping to wake the service worker, then the request.
SendToolRequest(r, t) ==
    /\ requests[r].st = "idle"
    /\ \E s \in ResolveSocket(t) :
         /\ requests' = [requests EXCEPT ![r] =
              [st |-> "pending", kind |-> "single", target |-> t, sock |-> s]]
         /\ pinged' = pinged \cup {s}
    /\ UNCHANGED <<params, readyState, wired, registry, signals, probes, sweepQueue>>

\* The browsers a fan-out addresses: all, or those of one brand.
FanOutIds(t) == {i \in OpenIds : t = "default" \/ Brand[i] = t}

\* fanOutToolRequest: one request, and one probe, per target.
FanOut(t) ==
    LET idle == {r \in Requests : requests[r].st = "idle"}
    IN  \E part \in [FanOutIds(t) -> idle] :
          /\ FanOutIds(t) # {}
          /\ \A i, j \in FanOutIds(t) : part[i] = part[j] => i = j
          /\ \A i, j \in FanOutIds(t) : ClientOf[part[i]] = ClientOf[part[j]]
          /\ requests' =
               [r \in Requests |->
                  IF \E i \in FanOutIds(t) : part[i] = r
                  THEN LET i == CHOOSE i \in FanOutIds(t) : part[i] = r
                       IN  [st |-> "probing", kind |-> "fanout",
                            target |-> i, sock |-> browserSockets[i]]
                  ELSE requests[r]]
          /\ probes' = probes \cup
               {Probe("fanout", part[i], browserSockets[i]) : i \in FanOutIds(t)}
          /\ pinged' = pinged \cup {browserSockets[i] : i \in FanOutIds(t)}
          /\ UNCHANGED <<params, readyState, wired, registry, signals, sweepQueue>>

\* Two sockets of one service-worker life.
SameLife(s, u) ==
    s = u \/ (params[s] = params[u] /\ params[s].ident.gen # NoGen)

\* The response to r, on any socket of the life that received the request:
\* the map is keyed by request id, not by socket.
ToolResponse(r, s) ==
    /\ Pending(r)
    /\ CanDeliver(s) /\ SameLife(s, requests[r].sock)
    /\ requests' = [requests EXCEPT ![r] = Moved(r, "resolved")]
    /\ UNCHANGED <<params, readyState, wired, registry, signals, probing>>

RequestTimeout(r) ==
    /\ Pending(r)
    /\ requests' = [requests EXCEPT ![r] = Moved(r, "timedout")]
    /\ UNCHANGED <<params, readyState, wired, registry, signals, probing>>

\* An MCP client goes away: its entries leave the map without being settled.
McpClientClosed(c) ==
    /\ \E r \in Requests : Pending(r) /\ ClientOf[r] = c
    /\ requests' =
         [r \in Requests |->
            IF Pending(r) /\ ClientOf[r] = c
            THEN Moved(r, "dropped") ELSE requests[r]]
    /\ UNCHANGED <<params, readyState, wired, registry, signals, probing>>

-----------------------------------------------------------------------------
Connect ==
    \E s \in Socks, p \in UrlParams :
        \/ ConnectFresh(s, p)
        \/ ConnectHigher(s, p)
        \/ ConnectTie(s, p)
        \/ ConnectLower(s, p)
        \/ ConnectLegacy(s, p)
        \/ ConnectDuplicate(s, p)

ProbeTimeout(p) ==
    \/ CollisionProbeTimeout(p)
    \/ SweepProbeTimeout(p)
    \/ FanOutProbeTimeout(p)

Next ==
    \/ Connect
    \/ \E s \in Socks, code \in {1000, 1006, 1011} : SocketClosed(s, code)
    \/ \E i \in Ids : GraceTimeout(i)
    \/ \E s \in Socks : ServerPing(s) \/ ServerPong(s)
    \/ SweepTick
    \/ \E p \in probes : ProbeTimeout(p)
    \/ \E r \in Requests, t \in Targets : SendToolRequest(r, t)
    \/ \E t \in Targets : FanOut(t)
    \/ \E r \in Requests, s \in Socks : ToolResponse(r, s)
    \/ \E r \in Requests : RequestTimeout(r)
    \/ \E c \in Clients : McpClientClosed(c)

Spec == Init /\ [][Next]_vars

(***************************************************************************)
(* Every timer of the bridge fires unless it is cleared, and the ws        *)
(* library ends a close handshake (after 30 s by itself if the peer is     *)
(* silent).  Nothing is assumed of the extensions: none need ever connect, *)
(* answer a ping or a request, or close.                                   *)
(***************************************************************************)
Fairness ==
    /\ \A b \in Socks \cup Requests \cup {None} :
         WF_vars(\E p \in probes : p.by = b /\ ProbeTimeout(p))
    /\ WF_vars(SweepTick)
    /\ \A i \in Ids : WF_vars(GraceTimeout(i))
    /\ \A r \in Requests : WF_vars(RequestTimeout(r))
    /\ \A s \in Socks :
         WF_vars(readyState[s] \in {"closing", "terminated"} /\ SocketClosed(s, 1006))

FairSpec == Spec /\ Fairness

-----------------------------------------------------------------------------
(***************************************************************************)
(* Safety.                                                                 *)
(***************************************************************************)

\* The three maps keyed by browserId agree with each other and with the
\* sockets: an incumbent has its handlers and is not closed, its stored
\* identity is the one it declared, and the graced socket is another socket of
\* the same browserId (indexBrowser, unindexBrowser, the 'close' handler).
RegistrySound ==
    \A i \in Ids :
        LET s == browserSockets[i]
            g == gracedSockets[i]
        IN  /\ s # None =>
                 /\ s \in wired /\ BrowserOf(s) = i /\ readyState[s] # "closed"
                 /\ i # HelperProbe => browserRelayIdentity[i] = params[s].ident
            /\ s = None => browserRelayIdentity[i] = None
            /\ g # None =>
                 /\ g # s /\ g \in wired /\ BrowserOf(g) = i
                 /\ readyState[g] \in {"open", "closing"}

\* However fast a life reconnects, a browserId never has more open sockets with
\* handlers than its incumbent and one graced socket ("never more than
\* incumbent + 1 graced", service.ts:455-456).
NoOrphanSocket ==
    \A s \in wired : IsOpen(s) =>
        s \in {browserSockets[BrowserOf(s)], gracedSockets[BrowserOf(s)]}

\* A newcomer kept waiting without handlers always has a probe that will
\* accept or reject it.
NoNewcomerForgotten ==
    \A s \in Socks : IsOpen(s) /\ s \notin wired =>
        \E p \in probes : p.kind = "collision" /\ p.by = s

\* A fan-out request waits for exactly one probe, and no probe outlives the
\* request it was started for: no target of a fan-out is lost or asked twice.
ProbesMatchRequests ==
    \A r \in Requests :
        (requests[r].st = "probing") <=>
            \E p \in probes :
                /\ p.kind = "fanout" /\ p.by = r /\ p.sock = requests[r].sock
                /\ \A q \in probes : q.by = r => q = p

\* A request addressed to the very browser that got it is not left to its 30 s
\* timeout when a higher life takes that browser over: it is no longer pending
\* once the socket it was sent on is terminated (indexBrowser).
SupersedeRejectsRouted ==
    \A r \in Requests :
        Pending(r) /\ requests[r].kind = "single"
          /\ requests[r].target = BrowserOf(requests[r].sock)
        => readyState[requests[r].sock] # "terminated"

-----------------------------------------------------------------------------
(***************************************************************************)
(* What a step may never do.                                               *)
(***************************************************************************)

IsRelay(s) == params[s].canonical /\ params[s].ident.gen # NoGen

\* i passes from one relay with a numeric gen to another.
Replaced(i, s, u) ==
    /\ browserSockets[i] = s /\ browserSockets'[i] = u
    /\ s \notin {None, u} /\ u # None
    /\ IsRelay(s) /\ IsRelay(u)'

\* While the incumbent's socket is open, no relay of a lower identity takes its
\* browserId over, in whatever order the two connect (section 7.1 of the relay
\* storm design: the total order converges).
LowerNeverReplaces ==
    [][\A i \in Ids : \A s, u \in Socks :
        Replaced(i, s, u) /\ IsOpen(s)
        => ~Outranks(params[s].ident, params'[u].ident)]_vars

\* The same life reopening its socket while the old one is open loses nothing:
\* the old socket stays open, no request in flight is touched, and the churn
\* signal does not move (rca-2026-07-06, section 4).
TieKeepsInFlight ==
    [][\A i \in Ids : \A s, u \in Socks :
        Replaced(i, s, u) /\ IsOpen(s) /\ params[s].ident = params'[u].ident
        => /\ IsOpen(s)'
           /\ UNCHANGED <<requests, browserSupersededCount>>]_vars

\* A request leaves the map once: what settled or dropped it is final, whatever
\* responses, timeouts, closes and probe results still arrive for it.
SettledIsFinal ==
    [][\A r \in Requests :
        requests[r].st \in Settled \cup {"dropped"} =>
            requests'[r] = requests[r]]_vars

-----------------------------------------------------------------------------
(***************************************************************************)
(* What comments of service.ts say and the code does not keep.             *)
(***************************************************************************)

\* "Incumbent did not pong within the window -- it's a dead orphan.  Safe to
\* replace it" (service.ts:909-910): the socket a waiting newcomer displaces is
\* the one that was probed, not a relay that arrived meanwhile.
ProbeReplacesOnlyTheProbed ==
    [][\A p \in probes :
        LET i == BrowserOf(p.sock)
        IN  /\ p.kind = "collision" /\ browserSockets[i] \notin {None, p.by}
            /\ browserSockets'[i] = p.by
            => browserSockets[i] = p.sock]_vars

-----------------------------------------------------------------------------
(***************************************************************************)
(* Liveness, under Fairness.                                               *)
(***************************************************************************)

\* A colliding newcomer is accepted or closed in the end.
NewcomerDecided ==
    \A s \in Socks :
        (IsOpen(s) /\ s \notin wired) ~> (s \in wired \/ ~IsOpen(s))

\* A request in flight is answered, rejected, timed out or abandoned by its
\* client in the end, whatever becomes of the sockets.
RequestSettles ==
    \A r \in Requests :
        (requests[r].st \in {"probing", "pending"}) ~>
            (requests[r].st \in Settled \cup {"dropped"})

\* A relay that answers nothing does not hold its browserId for ever: the sweep
\* closes it, even if its graced predecessor ponged for it a while.
WedgedRelayIsClosed ==
    \A i \in Ids \ {HelperProbe} : \A s \in Socks :
        (browserSockets[i] = s /\ s \in pinged) ~>
            (browserSockets[i] # s \/ s \notin pinged)

\* A socket retired by a tie is closed in the end.
GracedIsClosed ==
    \A i \in Ids : \A s \in Socks :
        (gracedSockets[i] = s) ~> (readyState[s] = "closed")
=============================================================================
