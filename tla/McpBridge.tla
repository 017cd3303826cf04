------------------------------ MODULE McpBridge ------------------------------
(***************************************************************************)
(* The MCP side of the bridge (packages/native-host/src/service.ts): from  *)
(* a client's tools/call to its reply, through the browser it is routed    *)
(* to, or through all of them for list_tabs.                               *)
(*                                                                         *)
(* As in BridgeRelay an action is one event with the promise continuations *)
(* it settles, up to the reply.  A browser is seen from here only as far   *)
(* as routing sees it: no socket, an open one, or one that is closing.     *)
(*                                                                         *)
(* A part is a call as sent to one browser.  It has a browser-bound id of  *)
(* its own, the key of pendingRequests; asked are the frames a browser has *)
(* not answered yet, and may never answer.                                 *)
(***************************************************************************)
EXTENDS Integers, Sequences, RecentActivity

CONSTANTS
    Calls,      \* tools/call messages, each used once
    Clients,    \* MCP clients over WebSocket
    ClientOf,   \* the client of a call
    ToolOf,     \* its tool: list_tabs, or one that runs in a single browser
    RpcId,      \* the JSON-RPC id of a call; clients choose them alike
    Browsers,   \* composite browserIds, one for each profile
    Brand,      \* parseBrand
    Targets,    \* what a call may name: a browser, a brand, or "default"
    None

ASSUME CallAssumption ==
    /\ ClientOf \in [Calls -> Clients]
    /\ ToolOf \in [Calls -> {"single", "list_tabs"}]
    /\ None \notin Calls \cup Clients \cup Browsers \cup Targets

Parts == Calls \X Browsers

\* What a browser answers: an MCP result, an error in one of its envelopes, or
\* a result that is neither (list_tabs: text that is no array).
Outcomes == {"ok", "error", "malformed"}
Final == Outcomes \cup {"timeout", "wedged", "rejected"}
InFlight == {"probing", "deaf", "pending"}

(***************************************************************************)
(* "deaf": the probe waits on, but its waiter left pendingPongs when a     *)
(* socket of the browser closed.  "dropped": the client left.  from is the *)
(* part whose answer arrived.                                              *)
(***************************************************************************)
PartRecords ==
    [st : {"none", "dropped"} \cup InFlight \cup Final, from : Parts \cup {None}]

Replies ==
    [contents : SUBSET Parts, failed : SUBSET Browsers, isError : BOOLEAN]

CallRecords ==
    [st : {"idle", "waiting", "open", "replied", "unheard"},
     target : Targets \cup {None},
     addressed : SUBSET Browsers, reply : Replies \cup {None}]

VARIABLES
    clients,          \* mcpClients
    browsers,         \* the socket of each browser
    calls,
    parts,
    pendingRequests,
    asked,
    recentActivity

vars == <<clients, browsers, calls, parts, pendingRequests, asked, recentActivity>>

Entries == [id : Parts \cup {RpcId[c] : c \in Calls}, part : Parts]

TypeOK ==
    /\ clients \subseteq Clients
    /\ browsers \in [Browsers -> {"absent", "open", "closing"}]
    /\ calls \in [Calls -> CallRecords]
    /\ parts \in [Parts -> PartRecords]
    /\ pendingRequests \subseteq Entries
    /\ asked \subseteq Entries
    /\ recentActivity \in Seq([id : Parts, status :
                                 {"pending", "success", "error", "timeout"}])
    /\ Len(recentActivity) <= MaxRows

Init ==
    /\ clients = Clients
    /\ browsers = [b \in Browsers |-> "absent"]
    /\ calls = [c \in Calls |-> [st |-> "idle", target |-> None, addressed |-> {},
                                 reply |-> None]]
    /\ parts = [p \in Parts |-> [st |-> "none", from |-> None]]
    /\ pendingRequests = {}
    /\ asked = {}
    /\ recentActivity = << >>

-----------------------------------------------------------------------------
(***************************************************************************)
(* Helpers.                                                                *)
(***************************************************************************)

\* The browser-bound id, a new uuid (mutant: the client's own id is used).
OriginalId(p) == RpcId[p[1]]
BoundId(p) == p

Entry(p) == [id |-> BoundId(p), part |-> p]

\* pendingRequests.set overwrites, pendingRequests.delete removes by id.
Without(ids) == {e \in pendingRequests : e.id \notin ids}
With(P) == Without({BoundId(p) : p \in P}) \cup {Entry(p) : p \in P}

Open == {b \in Browsers : browsers[b] = "open"}

\* resolveSocket: the browser named, else one of the brand, else any.
Resolve(t) ==
    IF t \in Open THEN {t}
    ELSE LET ofBrand == {b \in Open : Brand[b] = t}
         IN  IF ofBrand # {} THEN ofBrand ELSE Open

\* fanOutToolRequest's targets.
FanOutTargets(t) == IF t = "default" THEN Open ELSE {b \in Open : Brand[b] = t}

Marked(P, st) ==
    [p \in Parts |-> IF p \in P THEN [parts[p] EXCEPT !.st = st] ELSE parts[p]]

NoBrowser == [contents |-> {}, failed |-> {}, isError |-> TRUE]

\* What counts as content: translateExtensionResponse wraps what it does not
\* recognise, mergeFanOutListTabs reports it as an error.
Contents(tool) == IF tool = "single" THEN {"ok", "malformed"} ELSE {"ok"}

ReplyTo(c, newParts) ==
    LET own == {c} \X calls[c].addressed
        good == {p \in own : newParts[p].st \in Contents(ToolOf[c])}
    IN  [contents |-> {newParts[p].from : p \in good},
         failed |-> {p[2] : p \in own \ good},
         isError |-> good = {}]

\* reply: sent only while the client's socket is open.
Replied(c, call, r) ==
    IF ClientOf[c] \in clients THEN [call EXCEPT !.st = "replied", !.reply = r]
    ELSE [call EXCEPT !.st = "unheard"]

(***************************************************************************)
(* Parts get a result: their promises settle, and with the last of a call  *)
(* (Promise.all) the call is answered.                                     *)
(***************************************************************************)
Settle(newParts) ==
    /\ parts' = newParts
    /\ calls' = [c \in Calls |->
                   IF /\ calls[c].st = "open"
                      /\ \A b \in calls[c].addressed : newParts[<<c, b>>].st \in Final
                   THEN Replied(c, calls[c], ReplyTo(c, newParts))
                   ELSE calls[c]]

-----------------------------------------------------------------------------
(***************************************************************************)
(* Calls.                                                                  *)
(***************************************************************************)

Called(c, t, st, T) ==
    [calls[c] EXCEPT !.st = st, !.target = t, !.addressed = T]

CanCall(c) == calls[c].st = "idle" /\ ClientOf[c] \in clients

\* The rest of sendToolRequest: an entry with its timer, and the frame.
SendTo(c, t, b) ==
    /\ calls' = [calls EXCEPT ![c] = Called(c, t, "open", {b})]
    /\ parts' = Marked({<<c, b>>}, "pending")
    /\ pendingRequests' = With({<<c, b>>})
    /\ asked' = asked \cup {Entry(<<c, b>>)}
    /\ recentActivity' = StartRequests(recentActivity, {<<c, b>>})

(***************************************************************************)
(* tools/call of a tool that runs in one browser.  With none there it      *)
(* waits if one disconnected in the last 4 s, and is refused otherwise.    *)
(* Which of the two is left open: the helper's health probe, a browser     *)
(* like any other to unindexBrowser, may have disconnected at any time.    *)
(***************************************************************************)
CallTool(c, t) ==
    /\ CanCall(c) /\ ToolOf[c] = "single"
    /\ UNCHANGED <<clients, browsers>>
    /\ \/ \E b \in Resolve(t) : SendTo(c, t, b)
       \/ /\ Resolve(t) = {}
          /\ LET call == Called(c, t, "waiting", {})
             IN  \/ calls' = [calls EXCEPT ![c] = call]
                 \/ calls' = [calls EXCEPT ![c] = Replied(c, call, NoBrowser)]
          /\ UNCHANGED <<parts, pendingRequests, asked, recentActivity>>

\* The 200 ms poll of the wait; after the last one the call is refused.  The
\* client may have left meanwhile.
Poll(c) ==
    /\ calls[c].st = "waiting"
    /\ UNCHANGED <<clients, browsers>>
    /\ LET t == calls[c].target
       IN  \/ \E b \in Resolve(t) : SendTo(c, t, b)
           \/ /\ Resolve(t) = {}
              /\ calls' = [calls EXCEPT ![c] = Replied(c, @, NoBrowser)]
              /\ UNCHANGED <<parts, pendingRequests, asked, recentActivity>>

\* tools/call of list_tabs: every open browser of the brand is probed.
ListTabs(c, t) ==
    LET T == FanOutTargets(t)
        call == Called(c, t, "open", T)
    IN  /\ CanCall(c) /\ ToolOf[c] = "list_tabs"
        /\ calls' = [calls EXCEPT ![c] =
                       IF T = {} THEN Replied(c, call, NoBrowser) ELSE call]
        /\ parts' = Marked({c} \X T, "probing")
        /\ recentActivity' = StartRequests(recentActivity, {c} \X T)
        /\ UNCHANGED <<clients, browsers, pendingRequests, asked>>

\* An MCP client goes away: its entries leave the map, their promises never
\* settle.  Waits and probes go on without it.
EntriesOf(m) == {e \in pendingRequests : ClientOf[e.part[1]] = m}

McpClientClosed(m) ==
    /\ m \in clients
    /\ clients' = clients \ {m}
    /\ pendingRequests' = pendingRequests \ EntriesOf(m)
    /\ parts' = Marked({e.part : e \in EntriesOf(m)}, "dropped")
    /\ UNCHANGED <<browsers, calls, asked, recentActivity>>

-----------------------------------------------------------------------------
(***************************************************************************)
(* Answers and timeouts.                                                   *)
(***************************************************************************)

Probing(b) == {p \in Parts : p[2] = b /\ parts[p].st = "probing"}

\* A pong from b settles every probe that waits for one; the requests follow on
\* the socket probed, open or not.
ServerPong(b) ==
    /\ browsers[b] # "absent" /\ Probing(b) # {}
    /\ parts' = Marked(Probing(b), "pending")
    /\ pendingRequests' = With(Probing(b))
    /\ asked' = asked \cup {Entry(p) : p \in Probing(b)}
    /\ UNCHANGED <<clients, browsers, calls, recentActivity>>

\* No pong in 3 s: the target failed and the socket probed is closed, which may
\* no longer be the browser's.
ProbeTimeout(p) ==
    /\ parts[p].st \in {"probing", "deaf"}
    /\ Settle(Marked({p}, "wedged"))
    /\ recentActivity' = FinishRequests(recentActivity, {p}, "timeout")
    /\ \/ UNCHANGED browsers
       \/ browsers[p[2]] = "open" /\ browsers' = [browsers EXCEPT ![p[2]] = "closing"]
    /\ UNCHANGED <<clients, pendingRequests, asked>>

\* The dashboard counts a fan-out answer as a success whatever it says.
RowStatus(p, outcome) ==
    IF ToolOf[p[1]] = "single" /\ outcome = "error" THEN "error" ELSE "success"

\* m is answered, on some socket of its browser.  An answer whose entry is gone
\* is ignored.
ToolResponse(m, outcome) ==
    LET known == {e \in pendingRequests : e.id = m.id}
    IN  /\ m \in asked /\ browsers[m.part[2]] # "absent"
        /\ asked' = asked \ {m}
        /\ pendingRequests' = pendingRequests \ known
        /\ Settle([p \in Parts |-> IF \E e \in known : e.part = p
                                   THEN [st |-> outcome, from |-> m.part] ELSE parts[p]])
        /\ recentActivity' = IF known = {} THEN recentActivity
                             ELSE LET p == (CHOOSE e \in known : TRUE).part
                                  IN  FinishRequests(recentActivity, {p},
                                                     RowStatus(p, outcome))
        /\ UNCHANGED <<clients, browsers>>

\* 30 s, for a fan-out target 10 s, without an answer (mutant: the entry stays).
TimeoutLeaves(p) == {}
TimeoutRemoves(p) == {BoundId(p)}

RequestTimeout(p) ==
    /\ parts[p].st = "pending"
    /\ pendingRequests' = Without(TimeoutRemoves(p))
    /\ Settle(Marked({p}, "timeout"))
    /\ recentActivity' = FinishRequests(recentActivity, {p}, "timeout")
    /\ UNCHANGED <<clients, browsers, asked>>

-----------------------------------------------------------------------------
(***************************************************************************)
(* The browsers, as far as calls see them (BridgeRelay has the details).   *)
(***************************************************************************)

BrowserConnects(b) ==
    /\ browsers[b] = "absent"
    /\ browsers' = [browsers EXCEPT ![b] = "open"]
    /\ UNCHANGED <<clients, calls, parts, pendingRequests, asked, recentActivity>>

\* PendingRequest.browserId is the target named by a single call.
RoutedTo(e, b) ==
    IF ToolOf[e.part[1]] = "single" THEN calls[e.part[1]].target = b
    ELSE e.part[2] = b

\* How the promises of a superseded browser end (mutant: they are forgotten).
Forgotten == "dropped"
Rejected == "rejected"

\* indexBrowser with another life's socket there: requests routed to b by that
\* name are rejected.
BrowserReplaced(b) ==
    LET gone == {e \in pendingRequests : RoutedTo(e, b)}
        P == {e.part : e \in gone}
    IN  /\ browsers[b] # "absent" /\ (browsers[b] = "closing" \/ gone # {})
        /\ browsers' = [browsers EXCEPT ![b] = "open"]
        /\ pendingRequests' = pendingRequests \ gone
        /\ Settle(Marked(P, Rejected))
        /\ recentActivity' = FinishRequests(recentActivity, P, "error")
        /\ UNCHANGED <<clients, asked>>

\* The close event of the browser's socket, or of one it has replaced: requests
\* in flight are left alone, the waiters of its probes are not.
BrowserCloses(b, current) ==
    /\ browsers[b] # "absent"
    /\ current \/ Probing(b) # {}
    /\ browsers' = IF current THEN [browsers EXCEPT ![b] = "absent"] ELSE browsers
    /\ parts' = Marked(Probing(b), "deaf")
    /\ UNCHANGED <<clients, calls, pendingRequests, asked, recentActivity>>

Next ==
    \/ \E c \in Calls, t \in Targets : CallTool(c, t) \/ ListTabs(c, t)
    \/ \E c \in Calls : Poll(c)
    \/ \E m \in Clients : McpClientClosed(m)
    \/ \E b \in Browsers : ServerPong(b)
    \/ \E p \in Parts : ProbeTimeout(p) \/ RequestTimeout(p)
    \/ \E m \in asked, o \in Outcomes : ToolResponse(m, o)
    \/ \E b \in Browsers : BrowserConnects(b) \/ BrowserReplaced(b)
    \/ \E b \in Browsers, current \in BOOLEAN : BrowserCloses(b, current)

Spec == Init /\ [][Next]_vars

\* The bridge's own timers fire.  Browsers and clients need do nothing.
Fairness ==
    /\ \A c \in Calls : WF_vars(Poll(c))
    /\ \A p \in Parts : WF_vars(ProbeTimeout(p)) /\ WF_vars(RequestTimeout(p))

FairSpec == Spec /\ Fairness

-----------------------------------------------------------------------------
(***************************************************************************)
(* Properties.                                                             *)
(***************************************************************************)

\* The bridge implements ToolCalls: a call has been forwarded to the browsers
\* whose probe, if any, was answered.
Promise == INSTANCE ToolCalls WITH
    state <- [c \in Calls |-> IF calls[c].st = "waiting" THEN "open" ELSE calls[c].st],
    forwarded <- {p \in Parts : parts[p].st \notin {"none", "probing", "deaf", "wedged"}},
    reply <- [c \in Calls |-> calls[c].reply]

\* Whatever responses, timeouts, supersedes, probes and departures come in
\* whatever order, no client gets another's answer, none of the browsers asked
\* is passed over in silence, and a partial result is no error.
KeepsPromise == Promise!Spec

\* The pending map holds exactly the requests that still wait: nothing is left
\* behind to be answered twice, or for ever.
MapHoldsWhatWaits ==
    {e.part : e \in pendingRequests} = {p \in Parts : parts[p].st = "pending"}

\* A row the dashboard shows as pending is a request in progress, or one whose
\* client left; one it shows as timed out did time out, in its probe or in its
\* answer.
RowsAreTrue ==
    \A i \in DOMAIN recentActivity :
        LET row == recentActivity[i]
            st == parts[row.id].st
        IN  /\ row.status = "pending" <=> st \in InFlight \cup {"dropped"}
            /\ row.status = "timeout" <=> st \in {"timeout", "wedged"}

\* Every call of a client that stays is answered in the end, though no browser
\* ever answers, pongs or comes back.
EveryCallIsAnswered ==
    \A c \in Calls :
        (calls[c].st \in {"waiting", "open"}) ~>
            (calls[c].st = "replied" \/ ClientOf[c] \notin clients)
=============================================================================
