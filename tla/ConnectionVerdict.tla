--------------------------- MODULE ConnectionVerdict ---------------------------
(***************************************************************************)
(* What the side panel says of the connection                              *)
(* (packages/extension/src/sidepanel/connection-verdict.ts): a function of *)
(* the connection context, of what the bridge's /api/state says of this    *)
(* browser, and of the last quick check.  The first rule that applies      *)
(* decides.                                                                *)
(*                                                                         *)
(* Counters are abstracted to whether they reached their threshold.        *)
(***************************************************************************)
EXTENDS ConnectionMachine, Sequences

(***************************************************************************)
(* /api/state (packages/native-host/src/diag-server.ts) and what the panel *)
(* takes from it.                                                          *)
(***************************************************************************)
Outcomes == {"success", "error", "replaced"}
StateAnswer(bridge, us) ==
    [browsers |-> [b \in us |-> [liveness |-> bridge.liveness,
                                 superseded |-> bridge.superseded, ties |-> bridge.ties]],
     recentRequests |-> {[browserId |-> b, status |-> s] : b \in us, s \in bridge.rows}]

NoFacts == [liveness |-> "none"]
\* The panel looks for recentActivity.requests.
RowsOf(payload) ==
    IF "recentActivity" \in DOMAIN payload THEN payload.recentActivity.requests ELSE {}
ExtractApiStateFacts(payload, me) ==
    IF me \notin DOMAIN payload.browsers THEN NoFacts
    ELSE LET mine == payload.browsers[me]
             rows == {r.status : r \in {q \in RowsOf(payload) : q.browserId = me}}
         IN  [liveness |-> mine.liveness, superseded |-> mine.superseded, ties |-> mine.ties,
              success |-> "success" \in rows, failure |-> rows \cap {"error", "replaced"} # {},
              replaced |-> "replaced" \in rows]

(***************************************************************************)
(* The rules, most dangerous lie first.  A context carries, besides the    *)
(* machine's fields, outdated and churned (three reconnects in the         *)
(* session); overdue says that its last pong is too old.                   *)
(***************************************************************************)
Reason(ctx, reasons) == ctx.diagnosticReason \in reasons
Recovering(ctx) == Reason(ctx, {"awaiting_sw_recovery"})
NotRunning(ctx) == Reason(ctx, {"bridge_not_started"})
Flapping(ctx, api) ==
    IF api # NoFacts THEN api.superseded \/ api.replaced ELSE ~NotRunning(ctx) /\ ctx.churned
\* (mutant: the storm of one life is not known of)
UnknownStorm(api) == FALSE
ReconnectingRapidly(api) == api # NoFacts /\ api.ties
SetupIncomplete(ctx) == Reason(ctx, {"helper_unavailable"})
Unresponsive(ctx) == Reason(ctx, {"server_not_responding"})
Outdated(ctx) == ctx.outdated
Connectedish(ctx) == ctx.state \in {"connected", "degraded"}
WentQuiet(ctx, api, overdue) ==
    Connectedish(ctx) /\ (IF api # NoFacts THEN api.liveness = "stale" ELSE overdue)
Proven(api, checked) ==
    LET failed == api # NoFacts /\ api.failure IN
    /\ ~failed
    /\ \/ api # NoFacts /\ (api.success \/ (api.liveness = "live" /\ ~api.superseded))
       \/ checked
Working(ctx, api, checked) == ctx.state = "connected" /\ Proven(api, checked)
Lost(ctx) == Reason(ctx, {"was_connected"}) \/ ctx.state = "reconnecting"

Rule(kind, applies) == [kind |-> kind, applies |-> applies]
Rules(ctx, api, checked, overdue) ==
    <<Rule("recovering", Recovering(ctx)),
      Rule("flapping", Flapping(ctx, api)),
      Rule("reconnect_storm", ReconnectingRapidly(api)),
      Rule("broken", NotRunning(ctx) \/ SetupIncomplete(ctx) \/ Unresponsive(ctx)),
      Rule("version_mismatch", Outdated(ctx)),
      Rule("stale", WentQuiet(ctx, api, overdue)),
      Rule("degraded", ctx.state = "degraded"),
      Rule("working", Working(ctx, api, checked)),
      Rule("untested", ctx.state = "connected"),
      Rule("reconnecting", Lost(ctx)),
      Rule("connecting", ctx.state = "connecting"),
      Rule("disconnected", TRUE)>>
DeriveVerdict(ctx, api, checked, overdue) ==
    Head(SelectSeq(Rules(ctx, api, checked, overdue), LAMBDA rule : rule.applies)).kind

(***************************************************************************)
(* The buttons beside each verdict.                                        *)
(***************************************************************************)
Actions(kind, ctx, tooLong) ==
    CASE kind \in {"working", "connecting"} -> {}
      [] kind \in {"recovering", "stale"} -> {"reconnect_now"}
      [] kind = "untested" -> {"run_quick_check"}
      [] kind = "flapping" -> {"copy_install_command", "restart_service", "reload_extension"}
      [] kind = "reconnect_storm" -> {"reload_extension", "restart_service"}
      [] kind = "version_mismatch" -> {"copy_install_command", "reload_extension"}
      [] kind = "degraded" -> {"restart_service", "reconnect_now"}
      [] kind = "disconnected" -> {"start_service", "reload_extension"}
      [] kind = "reconnecting" ->
            IF Reason(ctx, {"was_connected"}) THEN {"reconnect_now", "reload_extension"}
            ELSE IF tooLong THEN {"restart_service", "reconnect_now", "reload_extension"} ELSE {}
      [] OTHER ->
            IF NotRunning(ctx) THEN {"start_service", "reload_extension"}
            ELSE IF SetupIncomplete(ctx) THEN {"copy_install_command", "reload_extension"}
            ELSE {"restart_service", "reconnect_now", "reload_extension"}

\* mcpTabNeedsAttention, with the verdict the app derives without /api/state.
AttentionKinds ==
    {"flapping", "broken", "version_mismatch", "stale", "degraded", "recovering",
     "reconnecting", "disconnected"}
McpTabNeedsAttention(ctx, overdue) ==
    ctx.everConnected /\ DeriveVerdict(ctx, NoFacts, FALSE, overdue) \in AttentionKinds
=============================================================================
