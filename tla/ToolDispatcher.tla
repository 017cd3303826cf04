---------------------------- MODULE ToolDispatcher ----------------------------
(***************************************************************************)
(* Tool calls in the extension's service worker                            *)
(* (packages/extension/src/background/tool-dispatcher.ts,                  *)
(* playwright-bridge.ts): handlers of one tab run side by side, whoever    *)
(* called; each is answered within the dispatch timeout, and a handler     *)
(* that did not finish by then goes on unheard.                            *)
(***************************************************************************)
EXTENDS PageRefs

CONSTANTS
    Handlers,    \* handlers that may run at once, as numbers: a bound
    MaxFields,   \* fields of a fill_form: a bound
    Asked,       \* tools the instance calls
    Outside      \* callers behind the relay, and those that stopped listening

\* What a tool works with, how many elements it aims at, whether a snapshot
\* follows.
Does(by, aims, snapshot) == [by |-> by, aims |-> aims, snapshot |-> snapshot]
GetPageContent == Does("script", 0, FALSE)
TakeScreenshot == Does("page", 0, FALSE)
ListTabs == Does("query", 0, FALSE)
GetPageMetadata == Does("script", 0, FALSE)
Navigate == Does("events", 0, TRUE)
FillForm == Does("page", MaxFields, TRUE)
ClickElement == Does("page", 1, TRUE)
PressKey == Does("page", 1, TRUE)
ExtractTable == Does("script", 0, FALSE)
ReadForm == Does("script", 0, FALSE)
ScrollPage == Does("page", 0, TRUE)
GoBack == Does("page", 0, TRUE)
GoForward == Does("page", 0, TRUE)
ExtractData == Does("script", 0, FALSE)
Snapshot == Does("snapshot", 0, TRUE)
Tools ==
    [get_page_content |-> GetPageContent, take_screenshot |-> TakeScreenshot,
     list_tabs |-> ListTabs, get_page_metadata |-> GetPageMetadata, navigate |-> Navigate,
     fill_form |-> FillForm, click_element |-> ClickElement, press_key |-> PressKey,
     extract_table |-> ExtractTable, read_form |-> ReadForm, scroll_page |-> ScrollPage,
     go_back |-> GoBack, go_forward |-> GoForward, extract_data |-> ExtractData,
     snapshot |-> Snapshot]
ASSUME ToolsAssumption == Asked \subseteq DOMAIN Tools /\ MaxFields \in Nat \ {0, 1} /\ Handlers \subseteq Nat

Stages == {"attach", "script", "events", "query", "act", "count", "reinject", "again", "snapshot"}
Aims == [ref : Refs \cup {NoRef}, meant : Labels \cup {NoLabel}]
Idle == [stage |-> "free"]

VARIABLES
    calls,      \* the handlers
    reply       \* the answer on its way to each chat run
dispatchVars == <<calls, reply>>

DispatchInit(runs) ==
    /\ calls = [h \in Handlers |-> Idle]
    /\ reply = [r \in runs |-> "none"]

Free(h) == calls[h].stage = "free"
Tool(h) == calls[h].tool
Aim(h) == Head(calls[h].aims)
ToStage(h, s) == calls' = [calls EXCEPT ![h].stage = s]

\* withTimeout settles once; the caller may have stopped listening.
Answers(h, outcome) ==
    reply' = IF calls[h].settled \/ calls[h].owner \notin DOMAIN reply THEN reply
             ELSE [reply EXCEPT ![calls[h].owner] = outcome]
Ends(h, outcome) == Answers(h, outcome) /\ calls' = [calls EXCEPT ![h] = Idle]

(***************************************************************************)
(* dispatchTool, up to the handler's first await.                          *)
(***************************************************************************)
FirstStage(tool) == CASE tool.by \in {"page", "snapshot"} -> "attach" [] OTHER -> tool.by
\* The caller names elements by the page's last snapshot, or by selector.
AimsOf(tool) ==
    LET named == [ref : DOMAIN minted] \cup [ref : {NoRef}]
        aims == {[ref |-> a.ref, meant |-> LabelIn(minted, a.ref)] : a \in named} IN
    IF tool.aims = 0 THEN {<<>>} ELSE UNION {[1..k -> aims] : k \in 1..tool.aims}
Begins(h, owner) ==
    /\ Free(h) /\ \A g \in Handlers : g < h => ~Free(g)
    /\ \E tool \in {Tools[name] : name \in Asked} : \E aims \in AimsOf(tool) :
         calls' = [calls EXCEPT ![h] =
             [stage |-> FirstStage(tool), owner |-> owner, tool |-> tool, aims |-> aims,
              want |-> NoLabel, again |-> NoRef, crossed |-> FALSE, renumbered |-> FALSE,
              settled |-> FALSE]]
    /\ UNCHANGED <<pageVars, reply>>

\* getTab: no such tab, or its site is blocked; or no tool of that name.
Refused(owner) ==
    /\ reply' = IF owner \in DOMAIN reply THEN [reply EXCEPT ![owner] = "error"] ELSE reply
    /\ UNCHANGED <<pageVars, calls>>

(***************************************************************************)
(* The handlers.                                                           *)
(***************************************************************************)
\* chrome.tabs.query, executeScript, the load events of navigate.
Finishes(h) ==
    /\ ~Free(h) /\ calls[h].stage \in {"query", "script", "events"}
    /\ \/ Ends(h, "error")
       \/ Tool(h).snapshot /\ ToStage(h, "snapshot") /\ UNCHANGED reply
       \/ ~Tool(h).snapshot /\ Ends(h, "ok")
    /\ UNCHANGED pageVars

\* withPlaywrightPage: getApp, attach.
Attaches(h) ==
    /\ ~Free(h) /\ calls[h].stage = "attach"
    /\ \/ Ends(h, "error")
       \/ ToStage(h, IF Tool(h).by = "snapshot" THEN "snapshot" ELSE "act") /\ UNCHANGED reply
    /\ UNCHANGED pageVars

\* The action came off: the next field, or the snapshot.
Following(h) ==
    IF Len(calls[h].aims) > 1
    THEN [calls[h] EXCEPT !.aims = Tail(@), !.stage = "act", !.want = NoLabel, !.again = NoRef,
                          !.renumbered = @ \/ calls[h].want # NoLabel]
    ELSE IF Tool(h).snapshot THEN [calls[h] EXCEPT !.stage = "snapshot"] ELSE Idle
Proceeds(h) ==
    /\ calls' = [calls EXCEPT ![h] = Following(h)]
    /\ IF Following(h) = Idle THEN Answers(h, "ok") ELSE UNCHANGED reply
\* It did not: click_element and press_key throw, fill_form notes the field.
Excused(h) == Tool(h).aims > 1
AfterFailure(h) == IF Excused(h) THEN Following(h) ELSE Idle
Excuses(h) == IF Excused(h) THEN UNCHANGED reply ELSE Answers(h, "error")
Unable(h) == calls' = [calls EXCEPT ![h] = AfterFailure(h)] /\ Excuses(h)

\* The element a click, press or fill hits.
Hits(h) ==
    CASE ~Free(h) /\ calls[h].stage = "act" /\ calls[h].aims # <<>> -> Named(Aim(h).ref)
      [] ~Free(h) /\ calls[h].stage = "again" -> Named(calls[h].again)
      [] OTHER -> {}
Targeted(h) == calls[h].aims # <<>> /\ Aim(h).ref # NoRef
Acts(h) ==
    /\ ~Free(h) /\ calls[h].stage = "act"
    /\ Targeted(h) => Cardinality(Hits(h)) = 1
    /\ Proceeds(h)
    /\ UNCHANGED pageVars
\* The bounded locator call throws; without a locator there is nothing to count.
Fails(h) ==
    /\ ~Free(h) /\ calls[h].stage = "act"
    /\ IF calls[h].aims = <<>> THEN Ends(h, "error") ELSE ToStage(h, "count") /\ UNCHANGED reply
    /\ UNCHANGED pageVars
Counts(h) ==
    /\ ~Free(h) /\ calls[h].stage = "count"
    /\ LET want == LabelIn(cache, Aim(h).ref) IN
       \/ Unable(h)
       \/ /\ Targeted(h) /\ Stale(Aim(h).ref) /\ want # NoLabel
          /\ calls' = [calls EXCEPT ![h].stage = "reinject", ![h].want = want]
          /\ UNCHANGED reply
    /\ UNCHANGED pageVars

\* Whoever else works on the tab holds refs of an earlier snapshot now.
Crossed(h, g) == g # h /\ ~Free(g)
Minting(h, next) ==
    /\ Injects
    /\ calls' = [g \in Handlers |->
                   IF g = h THEN next
                   ELSE IF Crossed(h, g) THEN [calls[g] EXCEPT !.crossed = TRUE] ELSE calls[g]]
Retry(h, k) == [calls[h] EXCEPT !.stage = "again", !.again = k]
Reinjects(h) ==
    /\ ~Free(h) /\ calls[h].stage = "reinject"
    /\ LET found == Matches(Aim(h).ref, calls[h].want) IN
       \/ /\ Cardinality(found) = 1 /\ UNCHANGED reply
          /\ \E k \in found : Minting(h, Retry(h, k))
       \/ /\ Cardinality(found) # 1 /\ Excuses(h)
          /\ Minting(h, AfterFailure(h))
       \/ Unable(h) /\ UNCHANGED pageVars
ActsAgain(h) ==
    /\ ~Free(h) /\ calls[h].stage = "again"
    /\ \/ Cardinality(Hits(h)) = 1 /\ Proceeds(h)
       \/ Unable(h)
    /\ UNCHANGED pageVars

\* captureSnapshot: the numbering fails (the page is still loading) and the
\* empty answer is cached, or the worker gets no page to ask; a capture that
\* came out empty is an error of the tool snapshot alone.
Captureless(h) == \/ Ends(h, "ok")
                  \/ Tool(h).by = "snapshot" /\ Ends(h, "error")
Snapshots(h) ==
    /\ ~Free(h) /\ calls[h].stage = "snapshot"
    /\ \/ /\ Answers(h, "ok") /\ Minting(h, Idle)
       \/ Captureless(h) /\ CacheLost
       \/ /\ Ends(h, IF Tool(h).by = "snapshot" THEN "error" ELSE "ok")
          /\ UNCHANGED pageVars

\* (mutant: nobody races the handler)
NoTimer(h) == FALSE
Racing(h) == ~Free(h) /\ ~calls[h].settled
\* withTimeout: the caller hears TOOL_TIMEOUT, the handler goes on.
TimesOut(h) ==
    /\ Racing(h)
    /\ Answers(h, "error")
    /\ calls' = [calls EXCEPT ![h].settled = TRUE]
    /\ UNCHANGED pageVars

\* The worker is stopped; open message channels close.
WorkerStops ==
    /\ calls' = [h \in Handlers |-> Idle]
    /\ reply' = [r \in DOMAIN reply |->
                   IF \E h \in Handlers : ~Free(h) /\ calls[h].owner = r /\ ~calls[h].settled
                   THEN "error" ELSE reply[r]]
    /\ CacheLost

HandlerSteps(h) ==
    Finishes(h) \/ Attaches(h) \/ Acts(h) \/ Fails(h) \/ Counts(h) \/ Reinjects(h)
        \/ ActsAgain(h) \/ Snapshots(h)

(***************************************************************************)
(* ActsOnWhatWasMeant: the ref a click, key press or field goes by, the    *)
(* one of a retry included, has in the page's present numbering the role   *)
(* and name it had in the snapshot the caller held, unless another call    *)
(* renumbered the page meanwhile, or the retry of an earlier field of this *)
(* one (click_element, press_key, fill_form, classifyAndMaybeRetryClick).  *)
(***************************************************************************)
Going(h) == IF calls[h].stage = "again" THEN calls[h].again ELSE Aim(h).ref
ActsOnWhatWasMeant ==
    \A h \in Handlers :
        /\ ~Free(h) /\ calls[h].stage \in {"act", "again"} /\ Targeted(h)
        /\ Aim(h).meant # NoLabel /\ ~calls[h].crossed /\ ~calls[h].renumbered
        => LabelIn(minted, Going(h)) = Aim(h).meant
=============================================================================
