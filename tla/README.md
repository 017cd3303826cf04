# AIBrowserCopilot (AgentHub): a TLA+ model of the relay

The repository connects AI tools (MCP clients) to the tabs of one or more
browsers. This directory holds a specification of the parts of it whose
behaviour depends on the order of events: TLA+ modules, the TLC instances that
check them, and TLAPS proofs.

## 1. The system

| component | state it keeps | operations | talks to |
|---|---|---|---|
| **bridge, browser side** (`packages/native-host/src/service.ts` 52-256, 358-916, 2045-2125) | per `browserId`: the incumbent socket, its declared identity, one graced socket, the supersede counter, the last close; `pendingPongs` | upgrade, close, `server_ping`/`server_pong`, liveness sweep, grace timer | extension relays over WebSocket |
| **bridge, routing** (`service.ts` 935-1315) | `pendingRequests`, per-client registries | `sendToolRequest`, `fanOutToolRequest`, response, timeout, client close | the browser side; MCP front end |
| **bridge, MCP front end** (`service.ts` 1316-1650, 2140-2214) | client registry, stdio buffer | `initialize`, `tools/list`, `tools/call`, framing | MCP clients (WS, stdio) |
| **bridge life cycle** (`index.ts`, `lock-file-manager.ts`, `service.ts` 1900-2140) | the port, the lock file | start, bind, write/remove lock, cleanup | helper, installer, other bridges |
| **extension connection manager** (`packages/extension/src/background/connection-*.ts`, `relay-client.ts`, `heartbeat-monitor.ts`, `backoff-manager.ts`) | state chart context, current relay and its generation, heartbeat, timers, relay lock | connect, disconnect, retry, reconcile, socket callbacks | bridge; native helper (discovery) |
| **extension start coordinator** (`start-coordinator.ts`) | in-flight start, failures, auto-lock | `tryStart`, `reset` | native helper |
| **native helper** (`packages/native-host-helper`) | none between calls (one process a message) | status, start, restart/kill, MCP registration | operating system |
| **logs** (`extension/src/shared/logger.ts`, `native-host/src/shared/logger.ts`, `remote-sink.ts`, `log-ingest`) | write queue, buffer in storage, log files and generations, the sink's buffer | append, flush, rotate, post, insert | files, HTTP |
| **recent activity** (`diag-server.ts`) | a ring of requests | start, finish, evict | MCP front end |
| **installer** (`packages/installer`) | executables, manifests, registry keys, configurations | install with retry and rollback, kill bridges, merge configurations, uninstall | operating system, helper, AI tools |
| **tool dispatcher** (`background/tool-dispatcher.ts`, `playwright-bridge.ts`) | refs minted in a page, their cache | the 15 tools, the retry of a stale ref, the dispatch time-out | pages; bridge and chat |
| **profile id** (`shared/browser-instance-id.ts`) | one uuid in storage, a cache per context | `getBrowserInstanceId` | relay, `list_tabs`, chat |
| **chat** (`sidepanel/components/chat-tab.tsx`, `chat-engine.ts`, `providers/`) | transcript, the run at hand | send, stop, clear, change of provider | providers (HTTP), tool dispatcher |
| **status** (`sidepanel/store.ts`, `use-api-state.ts`, `connection-verdict.ts`, `diagnostics-panel.tsx`) | the panel's context, facts of `/api/state`, a snapshot | storage events, polls, refresh, verdict | connection manager (storage), bridge (HTTP), helper |

What is hard here:

* **Two sockets for one browser.** A Chrome MV3 service worker is evicted and
  restarted at will, so two lives of one extension (or two sockets of one life)
  claim the same `browserId` at once. The bridge ranks them by `(gen,
  lifeUuid)`; a wrong rule gives the "relay storm" described in `docs/`.
* **Probes.** The bridge waits up to 3 s for a pong, and everything else goes on
  meanwhile: what it read before the wait may not hold after it.
* **Requests in flight** meet their response, their timeout, a supersede of
  their browser, and the departure of their client, in any order.
* **Continuations of the extension** (`refreshUrl().then(openRelay)`) run after
  a disconnect, a retry or another reconcile.
* **Processes that share a port and a file.** AI tools, the helper and the
  installer start, kill and replace bridges; each system call of one may fall
  between two of another.
* **A page everybody works on.** Handlers of one tab run side by side, a
  snapshot renumbers what another caller has named, and a handler that timed
  out goes on.
* **A panel that learns everything late**, from three sources that disagree for
  a while.

`PROJECT.json` lists each hazard at its line with the properties that cover it.

## 2. Modules

| module | models |
|---|---|
| `RelayIdentity` | `compareRelayIdentity`, the order of service-worker lives |
| `BridgeRelay` | the browser side of the bridge and the requests routed to it |
| `ConnectionMachine` | the extension's state chart (`connection-machine.ts`), a pure function |
| `ConnectionManager` | one extension's connection manager with its socket, timers, waits and lock |
| `ToolCalls` | abstract: what the bridge promises its MCP clients |
| `RecentActivity` | the dashboard's ring of requests, as operators on a sequence |
| `McpBridge` | `tools/call` from message to reply; implements `ToolCalls` |
| `StartCoordinator` | `start-coordinator.ts`, as operators on its state |
| `BridgeLifecycle` | bridge processes, port, lock file, helper invocations, coordinators |
| `LogFiles` | rotation of one log file, as operators on its generations |
| `LogPipeline` | a log record's way from the service worker to files and database |
| `BinarySwap` | an executable's replacement, with retries and the rename aside |
| `ConfigFiles` | edits of the AI tools' configurations by several writers |
| `Installer` | a run of `agenthub-setup`, install or uninstall, over the two |
| `PageRefs` | the refs of a page's elements and the worker's cache of them |
| `ToolDispatcher` | handlers of tool calls on that page |
| `BrowserInstance` | the profile's id in storage and in two contexts |
| `ProviderWire` | a transcript as each provider is sent it, and what it accepts |
| `ChatTab` | turns of the chat, Stop, Clear, change of provider |
| `ConnectionVerdict` | `deriveVerdict`, what it takes from `/api/state`, the buttons |
| `StatusPanel` | how the panel comes to know what the verdict is derived from |
| `ExtensionPanel` | the side panel and the worker: the seven above composed |
| `MC*` | the TLC instances |
| `*_proofs` | the theorems about `BridgeRelay`, `ConnectionManager`, `McpBridge`, `BridgeLifecycle`, `LogPipeline`, `Installer` and `ExtensionPanel` |
| `DataInduction` | induction over the naturals in the form the proofs use, and what a fold over a sequence is |

`ExtensionPanel` composes by shared variables: a chat run's tool call begins a
handler of `ToolDispatcher`, and its answer, its time-out or the worker's stop
ends the run's wait. `Installer` extends `BinarySwap` and `ConfigFiles` in the
same way, `BridgeLifecycle` uses the operators of `StartCoordinator` on one
record per profile, and `StatusPanel` sees the connection manager from outside,
as any sequence of events of `ConnectionMachine`.

`BridgeRelay` and `McpBridge` model one process from its two sides. The first
has every socket, probe and life, and takes a request as far as its settling;
the second has calls, replies, clients and the ring, and sees of a browser only
what routing sees: no socket, an open one, one that is closing. What it lets a
browser do (connect, close, be superseded by another life, pong, answer late) is
more than `BridgeRelay` does.

### BridgeRelay

The bridge is a single Node process. A handler runs to completion together with
the promise continuations it settles, so one action is one event. The variables
are the maps of `service.ts` under their names: `browserSockets`,
`browserRelayIdentity`, `gracedSockets`, `browserSupersededCount`,
`browserLastRelayClose`. `readyState` is the bridge's end of each socket:
`closing` after `ws.close()` (the peer's frames still arrive), `terminated`
after `ws.terminate()` (they do not, but the `close` event is still to come).
`probes` are the calls of `proveLive` that have not returned; `listed` says
whether their waiter is still in `pendingPongs`. `requests` gathers
`pendingRequests` with what became of each request.

| action | code |
|---|---|
| `ConnectFresh/Higher/Tie/Lower/Legacy/Duplicate` | the branches of `handleExtension` (835-917) with `accept` and `indexBrowser` |
| `SocketClosed`, `GraceTimeout` | the `close` handler (739-805), `scheduleIdempotentGraceClose` (477-502) |
| `ServerPing`, `SweepTick`, `ServerPong`, `*ProbeTimeout` | `serverPingTimer`, `livenessTimer`, `proveLive` and its three callers |
| `SendToolRequest`, `FanOut`, `ToolResponse`, `RequestTimeout`, `McpClientClosed` | the functions of those names (919-1315) |

Left out: the 60 s window and display decay of the supersede counter, idle
times, `lastSeen`, logging. The 4 s wait for a reconnecting browser is in
`McpBridge`. `brandIndex` is derived from `browserSockets`. A second sweep
starting before the first ends needs more than four wedged browsers and is not
modelled. A response may arrive on any socket of the life that got the request,
more than the extension does.

### ConnectionMachine and ConnectionManager

JavaScript handlers are atomic here too. What interleaves is what awaits the
native helper (`refreshUrl`, up to seconds) or the bridge's `/api/state`:
`pending` counts those waits by what they do next, and, as in the code, nothing
cancels them.

| action | code |
|---|---|
| `ThenOpen`, `ThenReconcile`, `ThenNothing` | the continuations of `refreshUrl` in `connect`, `retry`, the backoff; in `reconcile`; in `onServerInfo` |
| `ProbeSaysLive`, `ProbeSaysNone` | `probeBridgeRelayLiveness` and the recovery branch of `reconcile` |
| `Retry`, `Disconnect`, `Reconcile*`, `BackoffExpired` | `retry`, `disconnect`, `reconcile` (alarm, side panel), the backoff timer |
| `Opened`, `ServerInfo`, `ServerInfoTimeout`, `Pong`, `HeartbeatTick` | the callbacks of `relay-client.ts` and `heartbeat-monitor.ts` |
| `Failed`, `ConnectingTimeout`, `ClosedByBridge`, `CloseEvent` | `onerror`, the 12 s timer, the close frame, `onclose` |
| `LockAnswered` | `navigator.locks` in `acquireRelayLock` |
| `Restarted` | eviction and restart of the service worker |
| `BridgeSteadies` | not code: from here on one bridge answers and has no rival |

What is abstracted: the log flush timer runs exactly while `heartbeat # None`;
the diagnostics `no_lock_file` and `protocol_timeout` behave as
`bridge_not_started` does; the URL matters only in that a change of it resets
`failureCount`; a 4002 close comes only before `server_info`, which is when the
bridge decides a collision. `failureCount` stops at `MaxFailures` because the
backoff delay does (1000 x 1.6^n reaches its 5 s cap at n = 4). `disconnect()`
has no caller in the repository; it is an operation of the module all the same
(`Disconnects`). The test for an open relay before `retry` is `background.ts`'s
and part of `Retry`. `attempt` is a history variable.

### McpBridge, ToolCalls, RecentActivity

A *part* is a call as sent to one browser. Its id is the bridge's own (`b_` and
a UUID in the code), the key of `pendingRequests`. `asked` are the frames that
browsers have not answered, and may never answer.

| action | code |
|---|---|
| `CallTool` | `tools/call` (1545-1660) and `sendToolRequest` up to its first await or its send |
| `Poll` | the 200 ms poll of the reconnect wait |
| `ListTabs` | `fanOutToolRequest` up to the probes |
| `ServerPong`, `ProbeTimeout` | the two ends of a fan-out's probe |
| `ToolResponse`, `RequestTimeout` | the response handler, the 30 s and 10 s timers, with the merge and the reply |
| `McpClientClosed` | the client's `close` handler |
| `BrowserConnects`, `BrowserReplaced`, `BrowserCloses` | `accept`, `indexBrowser`, the relay's `close` handler, as far as calls notice |

`ToolCalls` says what the client is promised: a call is answered at most once,
only with what browsers answered to *this* call, a browser it was forwarded to
contributed or is named as failed, and the reply is an error exactly when nobody
contributed. The refinement mapping takes as forwarded the parts whose probe, if
they have one, was answered; a call that waits for a browser is open.

The error envelopes (`tool_error`, a JSON-RPC error, `isError`) are one outcome
(a row counts a JSON-RPC error as a success, which no property looks at);
a result that fits none is another, because a single call wraps it and a fan-out
reports it. Whether a call finding no browser waits or is refused is left open:
it depends on a disconnect in the last 4 s, and the helper's health probe counts
as one. Late answers may come on any later socket of the browser, more than a
browser does. Left out: the stateless replies to `initialize`, `tools/list` and
unknown methods, stdio, and the steps inside a row of the ring.

### BridgeLifecycle, StartCoordinator

Here the actors are processes, so an action is one system call (a listen, a
truncation, a write, a kill) with the code up to the next one.

| action | code |
|---|---|
| `ProbeBinds`, `ProbeFails`, `ProbeCloses` | the port probe of `index.ts` |
| `Listens`, `ListenFails`, `Truncates`, `Claims`, `ClaimFails` | `startServer` and the listening event with `writeLockFile` |
| `Exits`, `Exited`, `Crashes` | cleanup handlers, the end of a process, a kill |
| `Discovers`, `Reads`, `Probes`, `Spawns` | `getServiceStatus`, `start_native_host` |
| `UserRestarts`, `Waits` | `restart_native_host`: `killIncumbentBridge`, `waitForPortFree`, the kill by image |
| `UserInstalls`, `Unlinks` | `killRunningNativeHost`, `removeStaleLockFile` |
| `UserStarts`, `CoolsDown`, `Evicted` | the panel's button, time, the service worker's end |

A process that found the port taken serves nobody but its own AI tool and is
not followed. `CalmsDown` is not code: from there on nothing crashes or times
out and nobody clicks. `installed` only says that there is something to start.

### LogPipeline, LogFiles

`Appends`, `Sends` and `Trimmed` are the works of `logger.ts`'s write queue (a
flush is two: the send, and the re-read and trim after its await);
`ReceivesBatch` is `log_batch` with the files and the sink's `enqueue`;
`FlushTimer`, `PostEnds` and `Inserts` are the sink and the ingest service. A
POST is both waited for (`posting`) and on its way (`network`), so a batch whose
answer is lost may still be inserted. Rotation is one step, as it is
synchronous, but any generation may be held open: then it cannot be renamed, and
the oldest neither deleted nor replaced. The append of any line may be refused,
which loses the line, and so may the worker's write or removal of entries, which
nobody notices either. What a record says, its size in bytes (an append cut off
in the middle of a line) and its redaction are left out; `Malformed` are the
records the bridge refuses.

### Installer, BinarySwap, ConfigFiles

A phase of `App` is one or more actions of `Installer`; `step` names the next
change within a phase. Each rename of a swap and each read, open, write and
rename of an edit is an action, and the installer may die before any of them
(`Dies`). `Faults` bounds refused calls. On Windows `held` are files that run.
`config` maps a file to the servers it lists; `Missing` and `Torn` (cannot be
parsed) are the other two cases; a `.tmp` that two writers share is followed by
handle, so a rename can hand one writer's open file to the other. Detectors
differ in what shows a tool and in the section its servers are in; tools are
visited in the code's order. An uninstall passes over a tool its detector does
not find, which of the tools with an entry can only be JetBrains
(`MayBeGone`): the others are shown by the file that has the entry, or its
directory. Left out:
formatting, a bridge started by the registration, and
`.tmp` files of earlier runs (the next attempt removes or truncates them).

### PageRefs, ToolDispatcher, BrowserInstance

A page is a set of nodes with roles and names (two of which are alike), a
`data-ai-ref` for some, and the worker's cache of what the last snapshot said.
`PageChanges` removes, remakes and reuses nodes. A handler is a record that
moves through stages, one for each await of its tool (`Tools` says which a tool
has); `minted` and `meant` remember what the caller was told, for the property
only. `TimesOut` answers the caller and lets the handler go on. A
snapshot can fail before the page is numbered or in numbering it, which empties
the cache. A caller names elements by the latest snapshot of the page (`AimsOf`):
the refs of an older one are among what `ActsOnWhatWasMeant` excludes. Results
and content scripts are left out. `BrowserInstance` has the steps of the id for
the parts that ask for it, and no property of its own (section 5).

### ChatTab, ProviderWire

One action is a turn of the event loop: `Send` to its first await, `Binds`,
`Replies`, `ToolDone`, `Throws`/`Concludes` with the `finally` block. Stop only
aborts; Clear and a change of provider also bump `runIdRef` (`gen`) and leave
the old run to end by itself, so several runs exist at once. A message is its
role, whether it has text, and how many tool calls it asks for.

### ConnectionVerdict, StatusPanel

`Rules` is `deriveVerdict` in its order; counters are abstracted to whether they
reached their threshold. `StatusPanel` has the ways by which the verdict's
inputs reach the panel: storage events (`news`), polls of `/api/state` (`pulls`,
cancelled when port or health changes), the quick check, and the diagnostics
snapshot from bridge or helper (`refreshes`). The bridge's `condition` says how
far the helper's checks get. `lastToolCall` is written back by `WritesNote` from
the copy `NotesToolCall` read, as the code does.

## 3. Runs

| run | question | instance |
|---|---|---|
| `collisions` | is the registry sound and the total order kept, whatever ranks meet? | 3 sockets, 1 browser, all 5 kinds of newcomer, 1 request |
| `routing` | does each fan-out target wait for exactly one probe, and is a settled request final? | 2 sockets, 2 profiles and the health probe, 2 requests of 2 clients |
| `liveness` | does everything that waits end? | 2 sockets, 5 kinds of newcomer, fair |
| `manager` | is no socket forgotten, no timer left behind, every failure counted? | 2 socket slots, 2 bridges, all operations |
| `recovery` | once the bridge is steady, does the extension get a relay and keep it? | 2 socket slots, fair |
| `calls` | does every call get its own answer, once, and in the end? | 2 clients with equal ids, 2 browsers, a single call and a fan-out, fair |
| `lifecycle` | does the lock file name nobody but the port's owner, and does a bridge come back after any disturbance? | 3 processes, 1 profile, helper and installer, 2 invocations at once, fair |
| `logs` | do log lines stay in order, unrepeated, and leave at the old end only, and do the queues drain? | 3 records, buffers of 2, 2 generations beside the file, 1 crash or refused removal, any refused appends, fair |
| `install` | when is an executable missing, does every other server stay, is a clean uninstall clean? | one run of either kind on what earlier ones left, 2 browsers, 4 files, 2 faults, 1 save, 1 repair |
| `panel` | do tools act on what was meant, do calls end, are requests well formed, does the panel come to show what is so? | 10 scenes, fair |
| `stale_probe` | a comment's promise about probes that the code does not keep | counterexample, see `findings` |
| `false_working` | "never claim Working" after a failure | counterexample, see `findings` |

**Bounds.** Three sockets are what a collision with a probe needs: incumbent,
waiting newcomer, a third that arrives meanwhile. In `BridgeRelay` sockets and
requests are used once each and counters grow by one per socket, so nothing else
needs a bound; when all are spent the instance stops, hence `CHECK_DEADLOCK
FALSE` there. In `ConnectionManager` a closed socket's slot is
used again: two slots give a current relay and a closing one. `MaxPending = 1`
allows one wait of *each* of the four kinds at once, so four continuations can
race; `MaxFailures = 2` lets a failure be counted on top of another; `MaxPings`
and `MaxAsked` bound answers that may still be late: with one of each a pong can
come after its miss, and the relay lock after the attempt that asked for it. In `calls` a ring of two
rows is smaller than the three parts there can be, so rows are evicted while
their requests wait. Symmetry (sockets) is used in `collisions`, `routing` and
`manager`, never with liveness.

`lifecycle`: three processes are the bridge, its replacement and a third that
starts meanwhile; a pid that nobody remembers is used again, so the run goes on
for ever. Two overlapping invocations are enough for a kill between another's
read and its spawn. `MaxAutoAttempts` is 2 instead of 3. Once calm and served
nothing need happen: `CHECK_DEADLOCK FALSE`. `logs`: three records overflow a
buffer of two, chunks and batches of one reach the bridge in several frames;
files are either empty or full of older lines; with two generations a rotation
can stop above, at and below a file that is held, and with its oldest in place.
Two crashes would only repeat what
`resent` already allows. `install`: one run, but on each of the states earlier
runs leave (none, an installation, an update cut short; an entry in VS Code's
old place); two faults make a swap and its roll-back fail; two attempts retry
once; Claude Code is the file the repair writes too, VS Code the one with two
places, JetBrains the tool that can be gone; processes are followed while they can lock an executable, a tool's save
while its file is edited, which is when they matter. The installer ends:
`CHECK_DEADLOCK FALSE`.

`panel` has a budget for each thing the program does not control (turns,
buttons, provider and request failures, tool calls, page changes, worker stops,
id calls, reloads, the manager's moves, notes of tool calls, shifts of the
bridge, polls), and starts in one of ten scenes: budgets that let the parts
which share state meet, two chat turns with a button and a failure, two callers
on a page that changes twice, four id calls with two restarts, and so on. Parts
that share nothing are not multiplied with each other. Two handlers, two fields
of a form, two rounds of two tool calls and three elements of which two look
alike give the stale refs, the ambiguous matches and the unanswered calls;
`MaxNews` storage events may be on their way at once. When its budget is spent a
scene has come to rest, which is what `PanelSettles` is about, and may stop:
`CHECK_DEADLOCK FALSE`.

**Fairness.** `BridgeRelay`: timers and the `ws` library's 30 s close time-out.
`McpBridge`: the bridge's own timers. Extensions, browsers and clients need do
nothing in either. `ConnectionManager`: timers, the alarm, the answers of
the native helper (one process a message: it answers or ends, and
Chrome reports either) and of `/api/state` (3 s), and the
browser ending every close; what the bridge sends is assumed only after
`BridgeSteadies`, and `Restarted`, `Failed` and the time-outs stop there, since
`RelayComesBack` is about what follows.

`BridgeLifecycle`: the operating system runs every process and every
invocation, a cool-down ends, and an extension without a bridge goes on
discovering (the alarm, and `ConnectionManager`'s backoff). `CoolsDown` assumes
that the 10 s cool-down outlasts a start, whose watchdog is 5 s, once the
machine is calm. `LogPipeline`: timers and promises of extension and bridge, a
socket that delivers, a relay that comes back, a POST that ends by its time
limit; the ingest service need not answer. `ExtensionPanel`: timers fire,
storage answers, messages arrive, an aborted fetch ends, the panel polls while
it is open; a provider, a page and a handler need never finish. `Installer` has
no liveness and no fairness.

## 4. Proofs

Every safety invariant and every action property of the passing runs, and the
refinement, has a theorem, for every value of the constants: any number of
sockets, browsers, processes, calls, records, tools, and any bounds. Before an
inductive invariant was proved TLC checked it on the instance of the run.

**`BridgeRelay_proofs`**, in two parts. The registry: type correctness,
`RegistrySound`, `NoOrphanSocket`, `LowerNeverReplaces`, `TieKeepsInFlight`. The
inductive invariant `IInv` adds to the first three that every connected socket
declared admissible parameters, that each waiting probe belongs to a known
socket (`ProbesSound`), and that the helper's probe never has a stored identity,
without which a probe could be ranked like a relay. The two action properties
follow from it with the totality and transitivity of `Outranks`. Who waits:
`NoNewcomerForgotten`, `ProbesMatchRequests`, `SupersedeRejectsRouted`,
`SettledIsFinal`. None is inductive. `WaitInv` ties probes and requests together
in both directions (a fan-out probe has one request and that request has one
probe) and says that a request in flight went to a socket that still has
its handlers, and not to one that its own target has lost, which is what a
supersede relies on when it rejects by the target.

**`ConnectionManager_proofs`**: type correctness, `NoForgottenSocket`,
`BackoffOnlyWithoutRelay`, `TimersBelongToRelay` and `UnstableLinkCounts`. The
last is not inductive: when the backoff is armed the failure has been counted
long since, on one of several paths. `AttemptCounted` says where a failing
attempt stands on the way: while its relay is informed and unproven, the count is
not below the one it was opened with, and it is above it (or at the cap) as soon
as the state is `reconnecting`. The proof splits on the moves of the state chart
(`TransitionCases`, `FailureCounts`, `MoveCounts`, `PongCases`) before it splits
on the actions.

**`McpBridge_proofs`**: type correctness, `MapHoldsWhatWaits`, `RowsAreTrue` and
`KeepsPromise`, the refinement of `ToolCalls`. The map is keyed by the ids
browsers echo, so `IInv` says that a key is the entry of its own part
(`EntriesWait`), that what a browser was asked is such an entry (`AskedWereSent`)
and that an answer is the answer to the part it settled (`AnsweredByItself`);
that the parts of a call are those of the browsers it was addressed to, and that
a call with a part in flight is open. From these the refinement is shown
action by action: each step of the bridge is a step of `ToolCalls` or changes
nothing it speaks of. Rows are true also for parts whose row was evicted, since
`FinishRequests` touches only rows it finds. The fairness of `ToolCalls` is not
part of what is refined; that calls are answered is `EveryCallIsAnswered`.

**`BridgeLifecycle_proofs`**: type correctness, `LockIsHonest`,
`LockKeptWhileServing`. A process comes to be named by the lock file in `Claims`,
and that it then has the port is known only from its stage: `PortOfStage` says
which stages hold the port, `CleanersServed` that only a process that served may
remove the file, and `CallInv` that of all invocations only the installer's
comes to its unlink.

**`LogPipeline_proofs`**: `LogIsInOrder`, `LinesAgeOut`, `NoRowTwice`.
`OrderInv` follows a record on its way: the write queue and the buffer rise, what
a flush has sent is the front of the buffer (`trimming`), what was sent comes
before what is still to be sent (`Sent`), what has arrived comes before what is
on the wire (`Arrived`); all of it up to the records a life had sent when it
died (`resent`). `SinkInv` says that a record that has arrived is in one place
among the sink's buffer, the posts under way and the database, so that giving up
a POST whose fate is unknown cannot insert twice. For `LinesAgeOut` a rotation,
wherever it stops, takes lines of the oldest generation off or none at all, and a
batch then adds its lines but those whose append was refused, in their order.

**`Installer_proofs`**: `EditsKeepOthers`, `BinarySurvives`, `CleanUninstall`.
For the first, the texts of a file that a writer holds, `<file>.tmp` has and the
disk has differ in our entry and in what the tool itself listed or dropped
meanwhile, in nothing else (`Agree`), so a rename loses no server whoever wrote
the text. That the text is readable needs the writer to be alone (`EditAlone`);
two at one file are recorded as an overlap for as long as one of them is there.
For the second, between the two renames of a swap the old executable is aside,
and a swap that ends without putting one in place is noted as interrupted. For the third, `Progress` says for each step of an uninstall what the
steps behind it have undone, as long as nothing went wrong, no repair mixed in
and no tool was passed over.

**`ExtensionPanel_proofs`**: `ActsOnWhatWasMeant`, `RequestsAreWellFormed`. `ToolInv` says of each handler, by its stage, that what
its refs stand for in the last snapshot is what its caller meant, unless another
caller's snapshot came between (`crossed`) or its own retry of an earlier field
renumbered the page. `ChatInv` says that the
run of the present generation is the one the abort controller is for, and every
other has been aborted; that its conversation extends the panel's transcript; and
that its wire form for each provider is acceptable but for as many calls left
open as the run still has to make. That those are all answered needs
`ReplyInv`: a run gets one answer at most, since at most one handler is heard
and none is once its answer is on the way, so that a call that timed out cannot
close the next one's.

`DataInduction` states induction over the naturals for a *set* of numbers, so
that no theorem with an operator parameter is needed, and unfolds a fold once;
the proofs then show, fold by fold, what one more element does (`Lines`,
`AllWritten`, `EnqueuedAll`, `Valid` in `LogPipeline_proofs`, the wire forms in
`ExtensionPanel_proofs`).

Assumed: only the named `ASSUME`s on the constants, which the runs evaluate. They
say that limits are positive, that `None` and its like are nothing else, that
sockets and requests are different things (`WaiterAssumption`), as are a caller
outside the panel and its runs (`CallersAssumption`), the installer and the
helper (`ConfigFilesAssumption`), a flush and a record (`FlushAssumption`), and
that the helper's probe URL carries neither a role nor an identity
(`ProbeAssumption`).

Only model-checked: all liveness (`NewcomerDecided`, `RequestSettles`,
`WedgedRelayIsClosed`, `GracedIsClosed`, `RelayComesBack`,
`EveryCallIsAnswered`, `BridgeComesBack`, `LogDrains`, `NothingHangs`,
`StormIsShown`, `PanelSettles`), since the prover has no rule for fairness or
`ENABLED`; and the two counterexamples. The type invariants of `LogPipeline`,
`Installer` and `ExtensionPanel` are not theorems of their own: their proofs need
and show only the types of the variables they speak of.

## 5. Observations

Seen while modelling, without a run of their own. Bridge and calls:

* Pong waiters are kept per `browserId`, and the close of *any* incumbent drops
  them, so a fan-out target that pongs on its new socket still counts as wedged
  (`service.ts:777`).
* A call for a profile that is gone falls back to any open socket: another
  profile's browser, whose answer the caller takes for the one it asked for
  (`service.ts:992`, `1549`), or the helper's health probe.
* A life reconnecting while its old socket is closing is not recognised as a
  tie: churn is counted and its requests are rejected (`service.ts:836`).
* A supersede rejects requests by the target their caller named, so one routed
  by brand or `default` waits for its time-out (`service.ts:1080`).
* `list_tabs` with a composite `browser` filters by brand and matches nothing
  (`service.ts:1592`, `1171`); the answer is "No browser extension connected".
* The row of a fan-out target that answered an error shows success
  (`service.ts:1275`); a row whose client left stays pending.

Connection manager:

* The second missed pong moves the state to reconnecting one interval before
  the monitor's third disconnects. A pong in between resets the monitor's count
  and is ignored by the machine: the relay stays open and answers while the
  state reads reconnecting, until something else closes it
  (`connection-machine.ts:81`).
* `reconcile` pings at once, so a first pong proves no heartbeat interval
  (`connection-machine.ts:55`); after its await it tears down a relay that is
  still connecting (`connection-manager.ts:804`), and its DISCONNECT may come
  when another continuation has connected (`:805`).
* A 4002 close is not final while a discovery is in progress: its continuation
  opens a relay with the refused identity (`:563`, `:551`).
* A relay lock granted after its attempt has settled is held for the session
  (`:280`, `:132`).
* `retry_connection` tears down a relay that is connecting; the set-up wizard
  sends it every 3 s (`background.ts:191`).

Processes, files, logs:

* The installer's `removeStaleLockFile` deletes the lock of a bridge that came
  up during its wait; that bridge is then reported as `no_lock_file`
  (`process-killer.ts:271`).
* The loser of a second bind race ends instead of becoming a proxy
  (`service.ts:2002`), and a process whose peer is only another's probe server
  ends too. A bridge that cannot write its lock registers no clean-up either
  (`service.ts:2027`).
* A user's start joins an automatic attempt in flight and shares its outcome
  (`start-coordinator.ts:86`).
* A rotation that fails removes the oldest generation all the same, and does so
  again with each retry (`logger.ts:30` says it can fail safely); the helper's
  own rotation can leave a hole. A line whose append fails is lost without a
  trace (`logger.ts:300`), while later ones are written: `LinesAgeOut` excuses
  just these.
* A life whose storage refuses a removal sends the entries again
  (`extension/src/shared/logger.ts:270`).
* After a swap cut short the only copy of the bridge is a `.delete-me-` file,
  which the next run deletes before its download has succeeded
  (`binary-installer.ts:145`, `202`): `BinarySurvives` states it as its
  exception.
* Installer and helper write one `<file>.tmp`, so two edits at once can leave a
  torn configuration, although the write is called atomic
  (`config-merger.ts:97`), the one exception of `EditsKeepOthers`;
  `verifyConfig` has no caller.
* Our entry stays in `mcp.json` when the last JetBrains product is gone before
  the uninstall, which reports no error (`uninstaller.ts:121`,
  `jetbrains.ts:64`).
* Failed deletions of registry values are swallowed, so an uninstall can report
  itself clean; a repair that began before an uninstall puts the entry back.
* Retries of a download do not kill again; `--from-local` without the helper
  reports success; the effect that runs the health check clears the exit timer
  when it is left (`app.tsx:337`).
* The helper's `tool-scanner.ts` looks in other places and under other keys than
  the installer writes.

Extension and panel:

* Refs belong to the tab, not to the caller: another caller's snapshot
  renumbers them, and the check of a stale ref compares with the newer cache. In
  `fill_form` the retry of one field renumbers the refs of the next; a node the
  page reuses keeps its ref with another meaning. `ActsOnWhatWasMeant` excludes
  these three.
* A handler that timed out goes on and overlaps the caller's next call; the load
  that `navigate` waits for may be another one's.
* The activity log is read and written back whole, so calls at once lose rows.
* Synthetic ids of Gemini's tool calls start at 1 in each response; a provider
  request has no time limit and ends by Stop alone; the permissions of tools
  decide what is offered, not what is run.
* Two first calls of an unnamed profile may be given different ids
  (`browser-instance-id.ts:68`), so that an install does not always generate its
  uuid once (`:9`): the relay connects under one and the chat binds its tab with
  the other until a restart. A read of the storage that fails makes a new id as
  well, and a write that fails goes unnoticed.
* `lastToolCall` may put an older context back over the manager's
  (`background.ts:56`); a manager with nothing more to write does not correct
  it, and the panel goes on reading connected. `PanelSettles` excludes it.
* The diagnostics panel merges a direct answer into its last snapshot
  (`diagnostics-panel.tsx:369`) and never clears the snapshot's `error`: after
  one failure of the helper it reads "Helper not reachable" while the bridge
  answers. `PanelSettles` excludes it. A slow answer overwrites a newer one
  until the next poll.
* The attention badge is derived without `/api/state`, and the count of
  reconnects never goes back: it alarms while the header says working, and it
  does not know of `reconnect_storm`.
* A quick check counts for the session, and the worker's `list_tabs` never
  crosses the bridge; the verdict `connecting` offers no button however long it
  lasts.

## 6. Plan

Done, in this order: `RelayIdentity`, `BridgeRelay`, `ConnectionMachine`,
`ConnectionManager`, `ToolCalls`, `RecentActivity`, `McpBridge`,
`StartCoordinator`, `BridgeLifecycle`, `LogPipeline`, `Installer`, the panel and
the tools (`ExtensionPanel`).

Every safety property of the runs is proved (section 4). What is left is type
correctness of `LogPipeline`, `Installer` and `ExtensionPanel` as theorems of
their own. Liveness stays with TLC.

## 7. Not modelled

* The stdio framing of the bridge: a parser of one stream, which nothing
  interleaves with; what it yields is handled like a WebSocket message.
* The product of extension and bridge: beyond TLC; each side is checked against
  an environment that may do more than the other does.
* Content scripts (`data-detector.ts`, `form-reader.ts`), the set-up wizard, the
  settings, rendering, the diagnostics page's HTML and the string rewriting of
  redaction: no state between calls, or none a property here is about.
* The helper's log file, its tool scan, telemetry, store screenshots, `dist` and
  the bundled `bin/bundle.cjs` (generated from the helper's source), `marketing`
  and assets.
