-------------------------------- MODULE ChatTab --------------------------------
(***************************************************************************)
(* The chat of the side panel                                              *)
(* (packages/extension/src/sidepanel/components/chat-tab.tsx,              *)
(* chat-engine.ts): a message starts a run, which calls the provider and   *)
(* the tools it asks for in turn; Stop, Clear and a change of provider     *)
(* abort it, and the last two leave it to end in a conversation that is    *)
(* no longer its own.                                                      *)
(***************************************************************************)
EXTENDS ProviderWire

CONSTANTS
    Runs,       \* calls of send that may be under way at once: a bound
    NoRun,
    MaxRounds,  \* MAX_TOOL_ITERATIONS
    MaxAsks     \* tool calls of one response: a bound
ASSUME ChatTabAssumption == MaxRounds \in Nat \ {0} /\ MaxAsks \in Nat \ {0}

VARIABLES
    provider, transcript,
    busy,
    abortRef,     \* the run whose abort controller is at hand
    gen,          \* runIdRef
    runs
chatVars == <<provider, transcript, busy, abortRef, gen, runs>>

RunStages == {"idle", "binding", "calling", "asking", "waiting"}
NoTurn == [stage |-> "idle", aborted |-> FALSE]

ChatInit ==
    /\ provider = "openai" /\ transcript = <<>>
    /\ busy = FALSE /\ abortRef = NoRun /\ gen = 0
    /\ runs = [r \in Runs |-> NoTurn]

Running(r) == runs[r].stage # "idle"
SameRun(r) == runs[r].gen = gen
IsLive(r) == SameRun(r) /\ ~runs[r].aborted
Becomes(r, run) == runs' = [runs EXCEPT ![r] = run]

(***************************************************************************)
(* send, up to its first await, and what follows the query for the tab.    *)
(***************************************************************************)
Said == Message("user", TRUE, 0, gen)
System == Message("system", TRUE, 0, gen)
Send(r) ==
    /\ ~busy /\ ~Running(r)
    /\ busy' = TRUE /\ abortRef' = r
    /\ transcript' = IF transcript = <<>> THEN <<System, Said>> ELSE Append(transcript, Said)
    /\ Becomes(r, [stage |-> "binding", gen |-> gen, aborted |-> FALSE, provider |-> provider,
                   conv |-> <<>>, base |-> 0, round |-> 1, todo |-> 0])
    /\ UNCHANGED <<provider, gen>>

\* finally: an outdated run leaves the panel alone.
TearsDown(r) ==
    /\ Becomes(r, NoTurn)
    /\ IF SameRun(r) THEN busy' = FALSE /\ abortRef' = NoRun ELSE UNCHANGED <<busy, abortRef>>
    /\ UNCHANGED <<provider, gen>>
\* runChat throws: Cancelled, or what the provider said.
Throws(r) == TearsDown(r) /\ UNCHANGED transcript
Concludes(r, conv) ==
    /\ TearsDown(r)
    /\ transcript' = IF IsLive(r)
                     THEN transcript \o SubSeq(conv, runs[r].base + 1, Len(conv)) ELSE transcript
KeepsPanel == UNCHANGED <<provider, transcript, busy, abortRef, gen>>
GoesOn(r, run) == Becomes(r, run) /\ KeepsPanel

Binds(r) ==
    /\ runs[r].stage = "binding"
    /\ IF runs[r].aborted THEN Throws(r)
       ELSE GoesOn(r, [runs[r] EXCEPT !.stage = "calling", !.conv = transcript,
                                      !.base = Len(transcript)])

(***************************************************************************)
(* The loop of runChat.                                                    *)
(***************************************************************************)
Replies(r) ==
    /\ runs[r].stage = "calling" /\ ~runs[r].aborted
    /\ \E text \in BOOLEAN, asks \in 0..MaxAsks :
         LET conv == Append(runs[r].conv, Message("assistant", text, asks, runs[r].gen)) IN
         IF asks = 0 THEN Concludes(r, conv)
         ELSE GoesOn(r, [runs[r] EXCEPT !.stage = "asking", !.conv = conv, !.todo = asks])
\* The fetch fails; aborted, it must.
Rejects(r) == runs[r].stage = "calling" /\ Throws(r)

\* (mutant: the calls that were not made are left open)
SkipsTheRest(run) == [run EXCEPT !.todo = 0]
OneDone(run) == [run EXCEPT !.todo = @ - 1]
\* runOneTool has its answer.
ToolDone(r) ==
    LET run == OneDone([runs[r] EXCEPT !.conv = Append(@, Message("tool", TRUE, 0, runs[r].gen))]) IN
    IF run.todo > 0
    THEN IF run.aborted THEN Throws(r) ELSE GoesOn(r, [run EXCEPT !.stage = "asking"])
    ELSE IF run.round = MaxRounds THEN Concludes(r, run.conv)
    ELSE IF run.aborted THEN Throws(r)
    ELSE GoesOn(r, [run EXCEPT !.stage = "calling", !.round = @ + 1])

(***************************************************************************)
(* The buttons.                                                            *)
(***************************************************************************)
Aborted == [r \in Runs |-> IF r = abortRef THEN [runs[r] EXCEPT !.aborted = TRUE] ELSE runs[r]]
Stop ==
    /\ busy /\ abortRef # NoRun /\ ~runs[abortRef].aborted
    /\ runs' = Aborted
    /\ UNCHANGED <<provider, transcript, busy, abortRef, gen>>
\* (mutant: the conversation changes, the run does not hear of it)
OnlyEmptied == UNCHANGED <<runs, abortRef, gen>>
Abandons == runs' = Aborted /\ abortRef' = NoRun /\ gen' = gen + 1
Resets == Abandons /\ busy' = FALSE /\ transcript' = <<>>
Clear == transcript # <<>> /\ Resets /\ UNCHANGED provider
OnProviderChange == Resets /\ \E p \in Providers \ {provider} : provider' = p

(***************************************************************************)
(* RequestsAreWellFormed: whatever was stopped, cleared, switched or has   *)
(* failed before, a provider is sent a conversation of the present         *)
(* generation, in a shape it accepts (send, runChat, buildWire).           *)
(***************************************************************************)
RequestsAreWellFormed ==
    \A r \in Runs : runs[r].stage = "calling" /\ ~runs[r].aborted
        => /\ Accepted(runs[r].provider, runs[r].conv)
           /\ \A i \in DOMAIN runs[r].conv : runs[r].conv[i].of = runs[r].gen
=============================================================================
