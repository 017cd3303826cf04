---------------------------- MODULE ExtensionPanel ----------------------------
(***************************************************************************)
(* The extension's contexts together: the chat and the status of the side  *)
(* panel, and the service worker that runs the tools they and the bridge   *)
(* ask for.  A chat run's tool call is a message to the worker             *)
(* (chat-engine.ts dispatchToolViaBackground, background.ts dispatch_tool);*)
(* stopping the worker closes its channel.                                 *)
(*                                                                         *)
(* budget bounds how often each thing may happen that the program does not *)
(* control; a scene is a budget to start with.                             *)
(***************************************************************************)
EXTENDS ChatTab, ToolDispatcher, BrowserInstance, StatusPanel

CONSTANT Scenes
VARIABLE budget
toolVars == <<pageVars, dispatchVars>>
vars == <<chatVars, toolVars, idVars, statusVars, budget>>

Spent ==
    {"turns", "buttons", "faults", "asks", "changes", "stops", "ids", "reloads",
     "moves", "notes", "shifts", "polls"}
ASSUME ScenesAssumption == \A scene \in Scenes : DOMAIN scene = Spent
ASSUME CallersAssumption == Outside \notin Runs

Init ==
    /\ ChatInit /\ PageInit /\ DispatchInit(Runs) /\ IdInit /\ StatusInit
    /\ budget \in Scenes
Spends(what) == budget[what] > 0 /\ budget' = [budget EXCEPT ![what] = @ - 1]

OfChat(A) == A /\ UNCHANGED <<toolVars, idVars, statusVars>>
OfTools(A) == A /\ UNCHANGED <<chatVars, idVars, statusVars>>
OfBoth(A) == A /\ UNCHANGED <<idVars, statusVars>>
OfId(A) == A /\ UNCHANGED <<chatVars, toolVars, statusVars>>
OfStatus(A) == A /\ UNCHANGED <<chatVars, toolVars, idVars>>

(***************************************************************************)
(* The chat, and its calls of tools.                                       *)
(***************************************************************************)
Says(r) == Spends("turns") /\ OfChat(Send(r))
Clicks == Spends("buttons") /\ OfChat(Stop \/ Clear \/ OnProviderChange)
TabIsBound(r) == UNCHANGED budget /\ OfChat(Binds(r))
ProviderReplies(r) == UNCHANGED budget /\ OfChat(Replies(r))
ProviderFails(r) == Spends("faults") /\ ~runs[r].aborted /\ OfChat(Rejects(r))
FetchAborts(r) == UNCHANGED budget /\ Running(r) /\ runs[r].aborted /\ OfChat(Rejects(r))

\* dispatchToolViaBackground, and dispatch_tool in the worker.
Waits(r) == GoesOn(r, [runs[r] EXCEPT !.stage = "waiting"])
CallsTool(r) ==
    /\ runs[r].stage = "asking"
    /\ \/ Spends("asks") /\ OfBoth(Waits(r) /\ \E h \in Handlers : Begins(h, r))
       \/ UNCHANGED budget /\ OfBoth(Waits(r) /\ Refused(r))
ToolAnswers(r) ==
    /\ reply[r] # "none" /\ UNCHANGED budget
    /\ OfBoth(ToolDone(r) /\ reply' = [reply EXCEPT ![r] = "none"] /\ UNCHANGED <<calls, pageVars>>)
\* The panel's own limit; a late answer finds nobody.
PanelGivesUp(r) ==
    /\ runs[r].stage = "waiting" /\ reply[r] = "none" /\ Spends("faults")
    /\ OfBoth(/\ ToolDone(r)
              /\ calls' = [h \in Handlers |->
                             IF ~Free(h) /\ calls[h].owner = r
                             THEN [calls[h] EXCEPT !.owner = Outside] ELSE calls[h]]
              /\ UNCHANGED <<reply, pageVars>>)

(***************************************************************************)
(* The bridge's calls, the handlers, the page, the worker's end.           *)
(***************************************************************************)
BridgeAsks(h) == Spends("asks") /\ OfTools(Begins(h, Outside))
HandlerGoesOn(h) == UNCHANGED budget /\ OfTools(HandlerSteps(h))
TimeIsUp(h) == UNCHANGED budget /\ OfTools(TimesOut(h))
PageMoves == Spends("changes") /\ OfTools(PageChanges /\ UNCHANGED dispatchVars)
WorkerEnds == Spends("stops") /\ OfTools(WorkerStops)

(***************************************************************************)
(* The id of the profile.                                                  *)
(***************************************************************************)
IdIsAsked == Spends("ids") /\ OfId(\E who \in Askers : AsksId(who))
IdIsFound == UNCHANGED budget /\ OfId(\E a \in asking : ReadsId(a) \/ StoresId(a))
ContextIsLost == Spends("reloads") /\ OfId(\E c \in Places : ContextRestarts(c))

(***************************************************************************)
(* The status.  polls bounds the polls of each kind under way at once; the *)
(* panel polls as long as it is open.                                      *)
(***************************************************************************)
Polling == budget.polls > 0 /\ UNCHANGED budget
StatusShifts ==
    \/ Spends("moves") /\ OfStatus(ManagerMoves)
    \/ Spends("notes") /\ OfStatus(NotesToolCall)
    \/ Spends("shifts") /\ OfStatus(BridgeShifts \/ QuickCheck \/ Ages)
    \/ Spends("reloads") /\ budget.polls > 0 /\ OfStatus(Opens)
    \/ Spends("faults") /\ OfStatus(\E p \in pulls : PullFails(p))
    \/ Spends("faults") /\ OfStatus(\E q \in refreshes : FallsBack(q) \/ HelperFails(q))
ManagerWrites == Polling /\ OfStatus(WritesAgain)
NoteIsWritten == Polling /\ OfStatus(WritesNote)
NewsArrives == Polling /\ OfStatus(Delivers)
PullStarts == Polling /\ Cardinality(pulls) < budget.polls /\ OfStatus(Pulls)
PullIsServed == Polling /\ OfStatus(\E p \in pulls : Fetches(p))
PullLands == Polling /\ OfStatus(\E p \in pulls : Lands(p))
RefreshStarts == Polling /\ Cardinality(refreshes) < budget.polls /\ OfStatus(Asks)
RefreshLooks == Polling /\ OfStatus(\E q \in refreshes : Looks(q))
RefreshLands == Polling /\ OfStatus(\E q \in refreshes : Refreshes(q))

PanelWork ==
    \/ ManagerWrites \/ NoteIsWritten \/ NewsArrives
    \/ PullStarts \/ PullIsServed \/ PullLands
    \/ RefreshStarts \/ RefreshLooks \/ RefreshLands
Next ==
    \/ \E r \in Runs :
         Says(r) \/ TabIsBound(r) \/ ProviderReplies(r) \/ ProviderFails(r) \/ FetchAborts(r)
           \/ CallsTool(r) \/ ToolAnswers(r) \/ PanelGivesUp(r)
    \/ Clicks
    \/ \E h \in Handlers : BridgeAsks(h) \/ HandlerGoesOn(h) \/ TimeIsUp(h)
    \/ PageMoves \/ WorkerEnds
    \/ IdIsAsked \/ IdIsFound \/ ContextIsLost
    \/ StatusShifts \/ PanelWork

(***************************************************************************)
(* Timers fire, messages arrive, storage answers; a page, a provider and a *)
(* handler need not.  A fetch ends once it is aborted.                     *)
(***************************************************************************)
Fairness ==
    /\ \A r \in Runs :
         WF_vars(TabIsBound(r)) /\ WF_vars(FetchAborts(r))
           /\ WF_vars(CallsTool(r)) /\ WF_vars(ToolAnswers(r))
    /\ \A h \in Handlers : WF_vars(TimeIsUp(h))
    /\ WF_vars(ManagerWrites) /\ WF_vars(NoteIsWritten) /\ WF_vars(NewsArrives)
    /\ WF_vars(PullStarts) /\ WF_vars(PullIsServed) /\ WF_vars(PullLands)
    /\ WF_vars(RefreshStarts) /\ WF_vars(RefreshLooks) /\ WF_vars(RefreshLands)
Spec == Init /\ [][Next]_vars /\ Fairness

TypeOK ==
    /\ PageTypeOK
    /\ provider \in Providers /\ busy \in BOOLEAN /\ abortRef \in Runs \cup {NoRun}
    /\ \A r \in Runs : runs[r].stage \in RunStages
    /\ \A h \in Handlers : calls[h].stage \in Stages \cup {"free"}
    /\ saved.state \in States /\ shown.state \in States /\ Len(news) <= MaxNews
    /\ DOMAIN budget = Spent

(***************************************************************************)
(* NothingHangs: every tool call is answered, however long its handler     *)
(* takes, and a chat turn that was stopped ends (withTimeout, runChat).    *)
(***************************************************************************)
NothingHangs ==
    /\ \A h \in Handlers : []<>(Free(h) \/ calls[h].settled)
    /\ []<>~(busy /\ abortRef # NoRun /\ Running(abortRef) /\ runs[abortRef].aborted)
(***************************************************************************)
(* PanelSettles: once the worker, the bridge and the user come to rest, so *)
(* does an open panel: on the manager's context, unless the manager has    *)
(* nothing more to write, on what the bridge says, and on its real         *)
(* condition, whichever answers came late (persistContext,                 *)
(* listenForUpdates, useApiState's pull, refresh).                         *)
(***************************************************************************)
PanelSettles == <>[](budget.polls > 0 => Settled)
=============================================================================
