--------------------------- MODULE BridgeLifecycle ---------------------------
(***************************************************************************)
(* How a bridge process comes to own the port and the lock file, and how   *)
(* it is found, started, killed and replaced.  The processes are those of  *)
(* packages/native-host (index.ts, service.ts, lock-file-manager.ts); they *)
(* are started by an AI tool over stdio, by the native helper, and killed  *)
(* by the helper, the installer, a user or a crash.                        *)
(*                                                                         *)
(* Processes, helper invocations and the installer run in parallel and     *)
(* share the port and the file server.lock: each of their system calls is  *)
(* a step.                                                                 *)
(***************************************************************************)
EXTENDS StartCoordinator, FiniteSets

CONSTANTS
    Pids,       \* process ids, 1..n: the bound on processes that exist or are
                \* remembered; one that is neither is used again
    MaxCalls,   \* helper and installer invocations that overlap: a bound
    Profiles,   \* browser profiles: an extension with its coordinator each
    Torn,       \* an empty or cut lock file: it exists, but names no pid
    None

ASSUME PidsAssumption ==
    Pids \subseteq Nat /\ Torn \notin Pids /\ None \notin Pids \cup {Torn}

\* Helper invocations that can run at once (one process a native message), and
\* the installer's killRunningNativeHost.
CallIds ==
    ({"status", "start", "restart"} \X Profiles) \cup {<<"install", None>>}
KindOf(c) == c[1]

(***************************************************************************)
(* A process: "started" before the port probe of index.ts, "probing" while *)
(* the probe server has the port, "starting" in startServer before its     *)
(* listen, "bound" before                                                  *)
(* its listening event, "claiming" while it writes the lock, "exiting"     *)
(* between the exit handlers and its end.  One that finds the port taken   *)
(* becomes a client of the bridge or ends: from there on it touches        *)
(* neither port nor lock, and it is "absent" here.                         *)
(***************************************************************************)
Absent == "absent"
Stages == {Absent, "started", "probing", "starting", "bound", "claiming",
           "serving", "exiting"}

VARIABLES
    stage,        \* of each process
    cleanup,      \* those with registerCleanupHandlers behind them
    port,         \* the process that has port 7483
    lock,         \* server.lock
    calls,        \* helper invocations and the installer's kill
    coordinator,  \* of each profile
    installed,    \* the bridge's binary is in the install directory
    calm          \* from here on nothing crashes or times out, and nobody clicks

vars == <<stage, cleanup, port, lock, calls, coordinator, installed, calm>>
processVars == <<stage, cleanup, port, lock>>
extensionVars == <<calls, coordinator>>
worldVars == <<installed, calm>>

RecoverableReasons == {"no_lock_file", "bridge_not_started",
                       "server_not_responding", "protocol_timeout"}

\* lock: what readLockFile returned.
CallRecords ==
    [step : {"idle", "read", "probe", "wait", "spawn", "unlink"},
     lock : Pids \cup {Torn, None}]
Idle == [step |-> "idle", lock |-> None]

TypeOK ==
    /\ stage \in [Pids -> Stages]
    /\ cleanup \subseteq Pids
    /\ port \in Pids \cup {None}
    /\ lock \in Pids \cup {Torn, None}
    /\ calls \in [CallIds -> CallRecords]
    /\ coordinator \in [Profiles -> Coordinators]
    /\ installed \in BOOLEAN /\ calm \in BOOLEAN

Init ==
    /\ stage = [p \in Pids |-> Absent]
    /\ cleanup = {}
    /\ port = None
    /\ lock = None
    /\ calls = [c \in CallIds |-> Idle]
    /\ coordinator = [x \in Profiles |-> NewCoordinator]
    /\ installed \in BOOLEAN
    /\ calm = FALSE

Alive == {p \in Pids : stage[p] # Absent}
Serving == {p \in Pids : stage[p] = "serving"}

Remembered == {lock} \cup {calls[c].lock : c \in CallIds}
FreshPids == Pids \ (Alive \cup Remembered)

-----------------------------------------------------------------------------
(***************************************************************************)
(* Processes.                                                              *)
(***************************************************************************)

\* The end of the processes gone: the system closes their sockets.
Ended(gone) ==
    /\ stage' = [p \in Pids |-> IF p \in gone THEN Absent ELSE stage[p]]
    /\ cleanup' = cleanup \ gone
    /\ port' = IF port \in gone THEN None ELSE port

Moves(p, to) ==
    /\ stage' = [stage EXCEPT ![p] = to]
    /\ UNCHANGED cleanup

Spawn ==
    /\ FreshPids # {}
    /\ stage' = [stage EXCEPT ![Min(FreshPids)] = "started"]
    /\ UNCHANGED <<cleanup, port, lock>>

\* An AI tool launches the bridge as its MCP server.
ToolLaunches ==
    /\ installed /\ ~calm
    /\ Spawn
    /\ UNCHANGED <<extensionVars, worldVars>>

\* The probe server of index.ts has the port until it is closed.
ProbeBinds(p) ==
    /\ stage[p] = "started" /\ port = None
    /\ Moves(p, "probing")
    /\ port' = p
    /\ UNCHANGED <<lock, extensionVars, worldVars>>

\* The port was taken: be a client of the bridge, if it is one; a service has no
\* stdin, and its end event ends the process.
ProbeFails(p) ==
    /\ stage[p] = "started" /\ port # None
    /\ Ended({p})
    /\ UNCHANGED <<lock, extensionVars, worldVars>>

\* The lock while a server starts (mutant: it is claimed before the port).
ClaimedEarly(p) == p
NotYetClaimed(p) == lock

ProbeCloses(p) ==
    /\ stage[p] = "probing"
    /\ Moves(p, "starting")
    /\ port' = None
    /\ lock' = NotYetClaimed(p)
    /\ UNCHANGED <<extensionVars, worldVars>>

Listens(p) ==
    /\ stage[p] = "starting" /\ port = None
    /\ Moves(p, "bound")
    /\ port' = p
    /\ UNCHANGED <<lock, extensionVars, worldVars>>

\* What a bridge that lost the port does to the lock (mutant: its exit handlers
\* are registered by then).
LoserCleansUp == None
LoserLeaves == lock

\* EADDRINUSE; on Windows the listen may also hang until the watchdog ends the
\* process, which touches nothing until then.
ListenFails(p) ==
    /\ stage[p] = "starting" /\ port # None
    /\ Ended({p})
    /\ lock' = LoserLeaves
    /\ UNCHANGED <<extensionVars, worldVars>>

\* The listening event: writeFileSync truncates, then writes.  If it fails no
\* cleanup handler is registered, and the bridge serves all the same.
Truncates(p) ==
    /\ stage[p] = "bound"
    /\ Moves(p, "claiming")
    /\ lock' = Torn
    /\ UNCHANGED <<port, extensionVars, worldVars>>

Claims(p) ==
    /\ stage[p] = "claiming"
    /\ stage' = [stage EXCEPT ![p] = "serving"]
    /\ lock' = p
    /\ cleanup' = cleanup \cup {p}
    /\ UNCHANGED <<port, extensionVars, worldVars>>

ClaimFails(p) ==
    /\ stage[p] \in {"bound", "claiming"} /\ ~calm
    /\ Moves(p, "serving")
    /\ UNCHANGED <<port, lock, extensionVars, worldVars>>

\* What the exit handlers leave of the lock.
LockAfterExit(gone) == IF gone \cap cleanup # {} THEN None ELSE lock

\* /api/restart, a signal, an uncaught exception: the handlers run first, the
\* port is released when the process ends.
Exits(p) ==
    /\ stage[p] = "serving" /\ ~calm
    /\ Moves(p, "exiting")
    /\ lock' = LockAfterExit({p})
    /\ UNCHANGED <<port, extensionVars, worldVars>>

Exited(p) ==
    /\ stage[p] = "exiting"
    /\ Ended({p})
    /\ UNCHANGED <<lock, extensionVars, worldVars>>

\* Killed outright: no handler runs.
Crashes(p) ==
    /\ stage[p] # Absent /\ ~calm
    /\ Ended({p})
    /\ UNCHANGED <<lock, extensionVars, worldVars>>

ProcessStep(p) ==
    \/ ProbeBinds(p) \/ ProbeFails(p) \/ ProbeCloses(p)
    \/ Listens(p) \/ ListenFails(p) \/ Truncates(p) \/ Claims(p) \/ Exited(p)

-----------------------------------------------------------------------------
(***************************************************************************)
(* The helper's invocations and the installer's kill.                      *)
(***************************************************************************)

CanCall(c) ==
    /\ calls[c].step = "idle"
    /\ Cardinality({d \in CallIds : calls[d].step # "idle"}) < MaxCalls

\* What a call read is not used again.
Goes(c, to) ==
    calls' = [calls EXCEPT ![c].step = to,
                           ![c].lock = None]

Ends(c) == calls' = [calls EXCEPT ![c] = Idle]

\* startNativeHost's answer, and the end of tryStart's attempt.
Answered(c, ok) ==
    /\ Ends(c)
    /\ coordinator' = IF KindOf(c) = "start"
                      THEN [coordinator EXCEPT ![c[2]] = Attempted(@, ok)]
                      ELSE coordinator

\* A discovery's reason reaches the context, and the state change calls tryStart
\* if it is recoverable.
Discovered(c, reason) ==
    LET x == c[2]
    IN  IF reason \in RecoverableReasons /\ Attempts(coordinator[x], FALSE)
        THEN /\ coordinator' = [coordinator EXCEPT ![x] = Attempting(@, FALSE)]
             /\ calls' = [calls EXCEPT ![c] = Idle, ![<<"start", x>>].step = "read"]
        ELSE Ends(c) /\ UNCHANGED coordinator

\* getServiceStatus: the reason for a discovery; for start_native_host whether a
\* healthy bridge runs.
Concludes(c, reason) ==
    IF KindOf(c) = "status" THEN Discovered(c, reason)
    ELSE IF reason = "connecting" THEN Answered(c, TRUE)
    ELSE Goes(c, "spawn") /\ UNCHANGED coordinator

\* readLockFile: nothing is probed without a lock.
ReadsLock(c) ==
    IF lock = None THEN Concludes(c, "no_lock_file")
    ELSE /\ calls' = [calls EXCEPT ![c].step = "probe", ![c].lock = lock]
         /\ UNCHANGED coordinator

\* discoverEndpoint, before every attempt to connect.  With a bridge that serves
\* and has its lock, nothing would come of it.
Findable == port \in Serving /\ lock = port

Discovers(c) ==
    /\ KindOf(c) = "status" /\ CanCall(c) /\ ~Findable
    /\ ReadsLock(c)
    /\ UNCHANGED <<processVars, worldVars>>

Reads(c) ==
    /\ calls[c].step = "read"
    /\ IF installed THEN ReadsLock(c) ELSE Answered(c, FALSE)
    /\ UNCHANGED <<processVars, worldVars>>

\* server_info with the pid of the lock, if the lock has one.
IsOurs(c) == port \in Serving /\ calls[c].lock \in {Torn, port}

\* A TCP connect, refused or timed out, then the WebSocket's handshake.
Probes(c) ==
    /\ calls[c].step = "probe"
    /\ \/ (port = None \/ ~calm) /\ Concludes(c, "bridge_not_started")
       \/ port # None /\ IsOurs(c) /\ Concludes(c, "connecting")
       \/ port # None /\ ~IsOurs(c) /\ Concludes(c, "server_not_responding")
       \/ port # None /\ ~calm /\ Concludes(c, "protocol_timeout")
    /\ UNCHANGED <<processVars, worldVars>>

\* startNativeHost: a detached process, or binary_not_found.
Spawns(c) ==
    /\ calls[c].step = "spawn"
    /\ Answered(c, installed)
    /\ IF installed THEN Spawn ELSE UNCHANGED processVars
    /\ UNCHANGED worldVars

\* killIncumbentBridge: the process the lock file names.  isPidAlive may be wrong
\* and the kill may fail.
KillsLocked(p) ==
    \/ Ended({p} \cap Alive)
    \/ ~calm /\ UNCHANGED <<stage, cleanup, port>>

\* By image name: every bridge process; on POSIX with SIGTERM, whose handlers
\* clean up.  Then another wait, whose outcome is only reported.
Escalates ==
    \/ Ended(Alive) /\ lock' \in {lock, LockAfterExit(Alive)}
    \/ ~calm /\ UNCHANGED processVars

\* waitForPortFree, which takes a probe that times out for a free port.
Waits(c) ==
    /\ calls[c].step = "wait"
    /\ Goes(c, IF KindOf(c) = "install" THEN "unlink" ELSE "spawn")
    /\ \/ (port = None \/ ~calm) /\ UNCHANGED processVars
       \/ port # None /\ IF KindOf(c) = "install"
                         THEN UNCHANGED processVars ELSE Escalates
    /\ UNCHANGED <<coordinator, worldVars>>

\* killRunningNativeHost kills whoever runs the image, then whoever has the port,
\* by netstat or lsof, or by the lock file if those fail.
PortOwners ==
    IF port = None THEN {{}}
    ELSE {{port}} \cup (IF lock \in Pids THEN {{lock}} ELSE {{}})

\* SIGTERM, whose handlers clean up, then SIGKILL; on Windows at once.
KillsGathered(targets) ==
    \E gone \in SUBSET (targets \cap Alive) :
        Ended(gone) /\ lock' \in {lock, LockAfterExit(gone)}

\* removeStaleLockFile looks at neither the pid in the file nor the port.  The
\* installer then puts the binary in place.
Unlinks(c) ==
    /\ calls[c].step = "unlink"
    /\ lock' = None
    /\ installed' = TRUE
    /\ calls' = [calls EXCEPT ![c] = Idle]
    /\ UNCHANGED <<stage, cleanup, port, coordinator, calm>>

\* The helper dies, or Chrome finds no helper: the call is rejected.
CallFails(c) ==
    /\ calls[c].step # "idle" /\ ~calm
    /\ Answered(c, FALSE)
    /\ UNCHANGED <<processVars, worldVars>>

CallStep(c) ==
    \/ Discovers(c) \/ Reads(c) \/ Probes(c) \/ Spawns(c)
    \/ Waits(c) \/ Unlinks(c)

-----------------------------------------------------------------------------
(***************************************************************************)
(* The extensions and their users.                                         *)
(***************************************************************************)

\* "Start AgentHub service": tryStart({userInitiated: true}).
UserStarts(x) ==
    LET c == <<"start", x>>
    IN  /\ CanCall(c) /\ ~calm /\ Attempts(coordinator[x], TRUE)
        /\ coordinator' = [coordinator EXCEPT ![x] = Attempting(@, TRUE)]
        /\ calls' = [calls EXCEPT ![c].step = "read"]
        /\ UNCHANGED <<processVars, worldVars>>

\* The cool-down outlasts a start, unless the machine is disturbed.
CoolsDown(x) ==
    /\ coordinator[x].cooling
    /\ calm => Alive \subseteq Serving
    /\ coordinator' = [coordinator EXCEPT ![x] = Cooled(@)]
    /\ UNCHANGED <<processVars, calls, worldVars>>

\* Chrome evicts a service worker that waits for nothing; its coordinator is
\* kept in memory only.
Evicted(x) ==
    /\ ~calm
    /\ \A c \in CallIds : c[2] = x => calls[c].step = "idle"
    /\ coordinator' = [coordinator EXCEPT ![x] = NewCoordinator]
    /\ UNCHANGED <<processVars, calls, worldVars>>

\* "Restart AgentHub service".
UserRestarts(x) ==
    LET c == <<"restart", x>>
    IN  /\ CanCall(c) /\ ~calm
        /\ IF lock \in Pids
           THEN Goes(c, "wait") /\ KillsLocked(lock)
           ELSE Goes(c, "spawn") /\ UNCHANGED <<stage, cleanup, port>>
        /\ UNCHANGED <<lock, coordinator, worldVars>>

\* The processes of the image, if the process list can be read, and the owner
\* of the port.  With the port taken by nobody it can name the installer stops.
UserInstalls ==
    LET c == <<"install", None>>
    IN  /\ CanCall(c) /\ ~calm
        /\ \E targets \in {listed \cup owner : listed \in {Alive, {}}, owner \in PortOwners} :
              /\ targets # {} \/ port = None
              /\ Goes(c, IF targets = {} THEN "unlink" ELSE "wait")
              /\ KillsGathered(targets)
        /\ UNCHANGED <<coordinator, worldVars>>

\* Not code: the disturbances end, with the bridge installed.
CalmsDown ==
    /\ installed /\ ~calm
    /\ calm' = TRUE
    /\ UNCHANGED <<processVars, extensionVars, installed>>

Next ==
    \/ ToolLaunches \/ UserInstalls \/ CalmsDown
    \/ \E p \in Pids :
          \/ ProcessStep(p) \/ ClaimFails(p)
          \/ Exits(p) \/ Crashes(p)
    \/ \E c \in CallIds : CallStep(c) \/ CallFails(c)
    \/ \E x \in Profiles :
          UserStarts(x) \/ Evicted(x) \/ CoolsDown(x) \/ UserRestarts(x)

Spec == Init /\ [][Next]_vars

(***************************************************************************)
(* The operating system runs every process; helper and installer go on;    *)
(* the cool-down is a matter of time; the alarm and the failing            *)
(* reconnects make an extension without a bridge discover and report       *)
(* (ConnectionManager), which calls tryStart.  Nobody need click.          *)
(***************************************************************************)
Fairness ==
    /\ \A p \in Pids : WF_vars(ProcessStep(p))
    /\ \A c \in CallIds : WF_vars(CallStep(c))
    /\ \A x \in Profiles : WF_vars(CoolsDown(x))

FairSpec == Spec /\ Fairness

-----------------------------------------------------------------------------
(***************************************************************************)
(* Properties.                                                             *)
(***************************************************************************)

\* If the lock file names a process that lives, that process has the port and
\* has had it since it wrote the file: whoever kills or trusts the pid in the
\* file hits the bridge, not a sibling still starting or a loser on its way out.
LockIsHonest ==
    lock \in Alive => port = lock /\ stage[lock] \in {"serving", "exiting"}

\* While the bridge serves, only the installer takes away the lock file that
\* names it: no sibling that starts, loses the port or dies does.
LockKeptWhileServing ==
    [][\A p \in Serving :
          (lock = p /\ lock' # p) =>
              p \notin Serving' \/ calls[<<"install", None>>].step = "unlink"]_vars

\* Once calm, a bridge serves for good, unless every coordinator locked itself
\* before: no interleaving of races, restarts and stale lock files leaves the
\* extensions without one.
BridgeComesBack ==
    <>[](calm /\ \E x \in Profiles : ~coordinator[x].autoLocked)
        => <>[](Serving # {})
=============================================================================
