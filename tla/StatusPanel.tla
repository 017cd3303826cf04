------------------------------ MODULE StatusPanel ------------------------------
(***************************************************************************)
(* The connection as the side panel sees it                                *)
(* (packages/extension/src/sidepanel/store.ts, use-api-state.ts,           *)
(* components/connection-header.tsx, diagnostics-panel.tsx): the worker's  *)
(* context comes through chrome.storage, the bridge's own view through     *)
(* polls of /api/state, its health through a snapshot that the bridge or   *)
(* the helper gives.  Each comes late.                                     *)
(*                                                                         *)
(* The worker's connection manager is seen from outside: any event of its  *)
(* machine.  ConnectionManager models it from within.                      *)
(***************************************************************************)
EXTENDS ConnectionVerdict, FiniteSets

CONSTANTS
    Us,           \* our browserId
    MaxNews       \* storage events on their way to the panel: a bound
ASSUME StatusAssumption == MaxNews \in Nat \ {0}

VARIABLES
    ctx,        \* the manager's context
    saved,     \* connectionContext in chrome.storage.local
    patch,      \* the copy that is to be written back with lastToolCall
    news,       \* storage.onChanged events not yet handled by the panel
    shown,      \* connectionContext of the panel's store
    overdue,    \* lastVerifiedAt of the panel's context is too old
    bridge,     \* the bridge, and what it counts for our browser
    pulls,      \* useApiState's requests
    facts,
    checked,    \* quickCheckPassed
    refreshes,  \* the diagnostics panel's requests
    status      \* its snapshot
workerVars == <<ctx, saved, patch, news>>
panelVars == <<shown, overdue, pulls, facts, checked, refreshes, status>>
statusVars == <<workerVars, panelVars, bridge>>

(***************************************************************************)
(* The bridge.  condition says how far the helper's checks get.            *)
(***************************************************************************)
Conditions == {"binary", "lock", "process", "port", "protocol", "up"}
Serving == bridge.condition = "up"
Answer == StateAnswer(bridge, {Us})

Extended(machine, churned, outdated) ==
    [f \in DOMAIN machine \cup {"churned", "outdated"} |->
        CASE f = "churned" -> churned [] f = "outdated" -> outdated [] OTHER -> machine[f]]
DefaultContext == Extended(InitialContext, FALSE, FALSE)
ConnectedContext(b) ==
    [Extended(InitialContext, FALSE, FALSE) EXCEPT
        !.state = "connected", !.serverInfo = b, !.everConnected = TRUE]
StatusInit ==
    /\ ctx \in {ConnectedContext(b) : b \in Bridges} /\ saved = ctx /\ shown = ctx
    /\ patch = None /\ news = <<>> /\ overdue = FALSE
    /\ bridge = [condition |-> "up", liveness |-> "live", superseded |-> FALSE,
                 ties |-> FALSE, rows |-> {}]
    /\ pulls = {} /\ facts = NoFacts /\ checked = FALSE
    /\ refreshes = {} /\ status = "none"

(***************************************************************************)
(* The worker.                                                             *)
(***************************************************************************)
Persists(c) == Len(news) < MaxNews /\ saved' = c /\ news' = Append(news, c)
\* (mutant: dispatch keeps the new context to itself)
KeepsToItself(c) == ctx' = c /\ UNCHANGED <<saved, news>>
PersistContext(c) == ctx' = c /\ Persists(c)

\* A dispatched event, a diagnosis, server_info, the close of a superseded relay.
Moved(event) ==
    LET c == Transition(ctx, event) IN
    {c} \cup IF c.state = "reconnecting" THEN {[c EXCEPT !.churned = TRUE]} ELSE {}
NextContexts ==
    UNION {Moved(event) : event \in Events}
    \cup {[ctx EXCEPT !.diagnosticReason = reason] :
          reason \in DiagnosticReasons \ {"awaiting_sw_recovery"}}
    \cup {[ctx EXCEPT !.serverInfo = b, !.everConnected = TRUE, !.diagnosticReason = None,
                      !.missedHeartbeats = 0, !.outdated = old] :
          b \in Bridges, old \in BOOLEAN}
    \cup {[Transition(ctx, "WS_CLOSE") EXCEPT !.diagnosticReason = "awaiting_sw_recovery"]}
ManagerMoves ==
    /\ \E c \in NextContexts \ {ctx} : PersistContext(c)
    /\ UNCHANGED <<patch, panelVars, bridge>>
\* A pong, a backoff that ran out: the manager writes again.  It is silent when
\* a superseded life waits or when nothing is found while disconnected.
Silent == ctx.state = "disconnected" \/ Recovering(ctx)
WritesAgain ==
    /\ ~Silent
    /\ PersistContext(ctx) /\ UNCHANGED <<patch, panelVars, bridge>>

\* onToolRequest, once answered: get, then set, of the whole context.
NotesToolCall ==
    /\ patch = None /\ patch' = saved
    /\ UNCHANGED <<ctx, saved, news, panelVars, bridge>>
WritesNote ==
    /\ patch # None /\ Persists(patch) /\ patch' = None
    /\ UNCHANGED <<ctx, panelVars, bridge>>

(***************************************************************************)
(* The panel's store.  A change of port or health restarts the polling of  *)
(* /api/state, which cancels what is under way.                            *)
(***************************************************************************)
Port(c) == c.serverInfo
Restarted(c, d) == Port(c) # Port(d) \/ Connectedish(c) # Connectedish(d)
Cancelled == {[p EXCEPT !.live = FALSE] : p \in pulls}
Delivers ==
    /\ news # <<>>
    /\ shown' = Head(news) /\ news' = Tail(news)
    /\ overdue' \in {overdue, FALSE}
    /\ pulls' = IF Restarted(shown, shown') THEN Cancelled ELSE pulls
    /\ UNCHANGED <<ctx, saved, patch, facts, checked, refreshes, status, bridge>>
Ages == Connectedish(shown) /\ overdue' = TRUE
        /\ UNCHANGED <<workerVars, shown, pulls, facts, checked, refreshes, status, bridge>>

\* The panel is opened, or the extension reloaded: initStoreFromStorage.
Opens ==
    /\ shown' = DefaultContext /\ news' = <<saved>> /\ overdue' = FALSE
    /\ pulls' = {} /\ facts' = NoFacts /\ checked' = FALSE
    /\ refreshes' = {} /\ status' = "none"
    /\ UNCHANGED <<ctx, saved, patch, bridge>>

(***************************************************************************)
(* Polls of /api/state.                                                    *)
(***************************************************************************)
Unasked == [asked |-> FALSE]
Pulls ==
    /\ IF Port(shown) = None
       THEN facts # NoFacts /\ facts' = NoFacts /\ UNCHANGED pulls
       ELSE /\ pulls' = pulls \cup {[live |-> TRUE, facts |-> Unasked]}
            /\ UNCHANGED facts
    /\ UNCHANGED <<workerVars, shown, overdue, checked, refreshes, status, bridge>>
Brings(p, what) ==
    /\ p \in pulls /\ p.facts = Unasked
    /\ pulls' = (pulls \ {p}) \cup {[p EXCEPT !.facts = what]}
    /\ UNCHANGED <<workerVars, shown, overdue, facts, checked, refreshes, status, bridge>>
Fetches(p) == Brings(p, IF Serving THEN ExtractApiStateFacts(Answer, Us) ELSE NoFacts)
PullFails(p) == Brings(p, NoFacts)
Lands(p) ==
    /\ p \in pulls /\ p.facts # Unasked
    /\ pulls' = pulls \ {p}
    /\ facts' = IF p.live THEN p.facts ELSE facts
    /\ UNCHANGED <<workerVars, shown, overdue, checked, refreshes, status, bridge>>

\* runQuickCheck: a list_tabs in the worker.
QuickCheck ==
    /\ "run_quick_check" \in Actions(DeriveVerdict(shown, facts, checked, overdue), shown, FALSE)
    /\ checked' \in BOOLEAN
    /\ UNCHANGED <<workerVars, shown, overdue, pulls, facts, refreshes, status, bridge>>

(***************************************************************************)
(* The diagnostics snapshot: from the bridge when the link is up and it    *)
(* answers, else from the helper, whose answer is not dropped when a later *)
(* one overtook it.  What the bridge says is merged into the last          *)
(* snapshot, whose error stays.                                            *)
(***************************************************************************)
Direct == Connectedish(shown) /\ Port(shown) # None
Asks ==
    /\ refreshes' = refreshes \cup {[direct |-> Direct, says |-> "nothing"]}
    /\ UNCHANGED <<workerVars, shown, overdue, pulls, facts, checked, status, bridge>>
Hears(q, direct, condition) ==
    /\ q \in refreshes /\ q.says = "nothing"
    /\ refreshes' = (refreshes \ {q}) \cup {[direct |-> direct, says |-> condition]}
    /\ UNCHANGED <<workerVars, shown, overdue, pulls, facts, checked, status, bridge>>
Looks(q) ==
    \/ q.direct /\ Serving /\ Hears(q, TRUE, "up")
    \/ ~(q.direct /\ Serving) /\ Hears(q, FALSE, bridge.condition)
\* A direct request may also fail, by the port of an earlier bridge.
FallsBack(q) == q.direct /\ Hears(q, FALSE, bridge.condition)
HelperFails(q) == Hears(q, FALSE, "error")
Refreshes(q) ==
    /\ q \in refreshes /\ q.says # "nothing"
    /\ status' = IF q.direct /\ status = "error" THEN "error" ELSE q.says
    /\ refreshes' = refreshes \ {q}
    /\ UNCHANGED <<workerVars, shown, overdue, pulls, facts, checked, bridge>>

(***************************************************************************)
(* The bridge changes: it fails and comes back, goes unheard, counts       *)
(* supersedes and ties, and requests end; what is counted ages.            *)
(***************************************************************************)
BridgeShifts ==
    /\ \/ \E c \in Conditions : bridge' = [bridge EXCEPT !.condition = c]
       \/ \E l \in {"live", "stale", "unknown"} : bridge' = [bridge EXCEPT !.liveness = l]
       \/ bridge' \in {[bridge EXCEPT !.superseded = ~@], [bridge EXCEPT !.ties = ~@]}
       \/ \E o \in Outcomes : bridge' \in {[bridge EXCEPT !.rows = @ \cup {o}],
                                           [bridge EXCEPT !.rows = @ \ {o}]}
    /\ bridge' # bridge
    /\ UNCHANGED <<workerVars, panelVars>>

Header == DeriveVerdict(shown, facts, checked, overdue)
\* buildSteps: the first step that fails.
FailingStep(snapshot) ==
    CASE snapshot \in {"none", "error"} -> "helper"
      [] snapshot # "up" -> snapshot
      [] Connectedish(shown) /\ shown.missedHeartbeats > 0 -> "heartbeat"
      [] OTHER -> "none"

(***************************************************************************)
(* StormIsShown: while the bridge goes on counting supersedes or ties of   *)
(* this browser, the panel comes to say so and stays with it, although the *)
(* link looks connected and live (deriveVerdict, useApiState).             *)
(***************************************************************************)
Storm == Serving /\ (bridge.superseded \/ bridge.ties) /\ Port(shown) # None
StormIsShown ==
    <>[]Storm => <>[](Header \in {"recovering", "flapping", "reconnect_storm"})
\* The panel shows what there is to know.
Settled ==
    /\ shown = ctx \/ Silent
    /\ facts = IF Serving /\ Port(shown) # None THEN ExtractApiStateFacts(Answer, Us) ELSE NoFacts
    /\ \/ FailingStep(status) = FailingStep(bridge.condition)
       \/ Serving /\ Direct /\ status = "error"
(***************************************************************************)
(* FailureIsNotWorking: the header does not say that tools work when the   *)
(* bridge's last answer lists a recent failure of this browser's ("A real  *)
(* recent request failed/superseded for us -> never claim Working").       *)
(***************************************************************************)
FailureIsNotWorking ==
    [][\A p \in pulls :
         Fetches(p) /\ Serving /\ bridge.rows \cap {"error", "replaced"} # {}
         => DeriveVerdict(shown, ExtractApiStateFacts(Answer, Us), checked, overdue)
              # "working"]_statusVars
=============================================================================
