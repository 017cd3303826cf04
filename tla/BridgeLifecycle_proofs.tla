----------------------- MODULE BridgeLifecycle_proofs -----------------------
(***************************************************************************)
(* Proofs about BridgeLifecycle, for any set of process ids, any number of *)
(* overlapping calls and any number of browser profiles: who has the port, *)
(* and what the lock file says of it.                                      *)
(***************************************************************************)
EXTENDS BridgeLifecycle, DataInduction

-----------------------------------------------------------------------------
(***************************************************************************)
(* Coordinators and calls.                                                 *)
(***************************************************************************)

\* A start attempt of tryStart, and its end, leave a coordinator within its
\* type: the failures are counted up to maxAutoAttempts.
LEMMA CoordinatorType ==
    /\ NewCoordinator \in Coordinators
    /\ \A k \in Coordinators :
          /\ \A byUser \in BOOLEAN :
                Attempting(k, byUser) \in Coordinators /\ Attempted(k, byUser) \in Coordinators
          /\ Cooled(k) \in Coordinators
<1>1. NewCoordinator \in Coordinators
  BY AttemptsAssumption DEF NewCoordinator, Coordinators
<1>2. ASSUME NEW k \in Coordinators, NEW byUser \in BOOLEAN
      PROVE  Attempting(k, byUser) \in Coordinators
  <2>1. (k.autoLocked /\ ~byUser) \in BOOLEAN
    OBVIOUS
  <2> QED BY <2>1 DEF Attempting, Coordinators
<1>3. ASSUME NEW k \in Coordinators, NEW ok \in BOOLEAN
      PROVE  Attempted(k, ok) \in Coordinators
  <2> DEFINE n == IF ok THEN 0 ELSE Min({k.failures + 1, MaxAutoAttempts})
             locked == ~ok /\ (k.autoLocked \/ (~k.byUser /\ n = MaxAutoAttempts))
  <2>1. k.failures \in 0..MaxAutoAttempts
    BY DEF Coordinators
  <2>2. Min({k.failures + 1, MaxAutoAttempts}) \in 0..MaxAutoAttempts
    <3> DEFINE f == k.failures + 1
               S == {f, MaxAutoAttempts}
    <3>1. f \in Int /\ MaxAutoAttempts \in Int /\ f >= 0 /\ MaxAutoAttempts > 0
      BY <2>1, AttemptsAssumption
    <3>2. \E x \in S : \A y \in S : x <= y
      <4>1. CASE f <= MaxAutoAttempts
        BY <4>1, <3>1
      <4>2. CASE MaxAutoAttempts <= f
        BY <4>2, <3>1
      <4> QED BY <3>1, <4>1, <4>2
    <3>3. Min(S) \in S /\ Min(S) <= MaxAutoAttempts
      BY <3>2 DEF Min
    <3> QED BY <3>1, <3>3
  <2>3. n \in 0..MaxAutoAttempts
    BY <2>2, AttemptsAssumption
  <2>4. locked \in BOOLEAN /\ StillInFlight(k) \in BOOLEAN
    BY DEF StillInFlight
  <2>5. Attempted(k, ok) = [k EXCEPT !.inFlight = StillInFlight(k), !.byUser = FALSE,
                                     !.failures = n, !.autoLocked = locked]
    BY DEF Attempted, Coordinators
  <2> HIDE DEF n, locked
  <2> QED BY <2>3, <2>4, <2>5 DEF Coordinators
<1>4. ASSUME NEW k \in Coordinators
      PROVE  Cooled(k) \in Coordinators
  BY DEF Cooled, Coordinators
<1> QED BY <1>1, <1>2, <1>3, <1>4

\* Calls are well-formed, and none but the installer's comes to unlink the file.
CallsOK(cs) ==
    /\ cs \in [CallIds -> CallRecords]
    /\ \A c \in CallIds : cs[c].step = "unlink" => c = <<"install", None>>

CallInv ==
    /\ CallsOK(calls)
    /\ coordinator \in [Profiles -> Coordinators]
    /\ installed \in BOOLEAN /\ calm \in BOOLEAN

\* What a helper invocation or the installer does next changes only its own
\* entry among the calls, and leaves it a call record.
LEMMA CallMoves ==
    ASSUME CallsOK(calls), NEW c \in CallIds
    PROVE  /\ \A to \in {"idle", "read", "probe", "wait", "spawn"},
                 known \in Pids \cup {Torn, None} :
                 CallsOK([calls EXCEPT ![c].step = to, ![c].lock = known])
           /\ \A to \in {"idle", "read", "probe", "wait", "spawn"} :
                 CallsOK([calls EXCEPT ![c].step = to])
           /\ CallsOK([calls EXCEPT ![c] = Idle])
           /\ c = <<"install", None>> =>
                 CallsOK([calls EXCEPT ![c].step = "unlink", ![c].lock = None])
<1>1. calls \in [CallIds -> CallRecords]
  BY DEF CallsOK
<1>2. calls[c].lock \in Pids \cup {Torn, None}
  BY <1>1 DEF CallRecords
<1>3. ASSUME NEW r \in CallRecords, r.step = "unlink" => c = <<"install", None>>
      PROVE  CallsOK([calls EXCEPT ![c] = r])
  BY <1>1, <1>3 DEF CallsOK
<1>4. ASSUME NEW to \in {"idle", "read", "probe", "wait", "spawn", "unlink"},
             NEW known \in Pids \cup {Torn, None},
             to = "unlink" => c = <<"install", None>>
      PROVE  CallsOK([calls EXCEPT ![c].step = to, ![c].lock = known])
  <2> DEFINE r == [step |-> to, lock |-> known]
  <2>1. r \in CallRecords /\ r.step = to
    BY DEF CallRecords
  <2>2. [[calls[c] EXCEPT !.step = to] EXCEPT !.lock = known] = r
    <3>1. [calls[c] EXCEPT !.step = to] = [step |-> to, lock |-> calls[c].lock]
      BY <1>1 DEF CallRecords
    <3>2. [[step |-> to, lock |-> calls[c].lock] EXCEPT !.lock = known] = r
      OBVIOUS
    <3> QED BY <3>1, <3>2
  <2>3. [calls EXCEPT ![c].step = to, ![c].lock = known]
            = [calls EXCEPT ![c] = [[calls[c] EXCEPT !.step = to] EXCEPT !.lock = known]]
    BY <1>1
  <2> QED BY <2>1, <2>2, <2>3, <1>3, <1>4
<1>5. ASSUME NEW to \in {"idle", "read", "probe", "wait", "spawn"}
      PROVE  CallsOK([calls EXCEPT ![c].step = to])
  <2> DEFINE r == [step |-> to, lock |-> calls[c].lock]
  <2>1. r \in CallRecords /\ r.step = to
    BY <1>2 DEF CallRecords
  <2>2. [calls[c] EXCEPT !.step = to] = r
    BY <1>1 DEF CallRecords
  <2>3. [calls EXCEPT ![c].step = to] = [calls EXCEPT ![c] = [calls[c] EXCEPT !.step = to]]
    BY <1>1
  <2> QED BY <2>1, <2>2, <2>3, <1>3
<1>6. CallsOK([calls EXCEPT ![c] = Idle])
  BY <1>3 DEF Idle, CallRecords
<1> QED BY <1>4, <1>5, <1>6

\* A call that goes on (killIncumbentBridge, the installer's kill) stays a call.
LEMMA GoesKeeps ==
    ASSUME CallsOK(calls), NEW c \in CallIds,
           \/ Goes(c, "wait") \/ Goes(c, "spawn")
           \/ Goes(c, "unlink") /\ c = <<"install", None>>
    PROVE  CallsOK(calls')
<1>1. ASSUME NEW to \in {"wait", "spawn"}, Goes(c, to)
      PROVE  CallsOK(calls')
  <2>1. CallsOK([calls EXCEPT ![c].step = to, ![c].lock = None])
    BY CallMoves
  <2> QED BY <1>1, <2>1 DEF Goes
<1>2. CASE Goes(c, "unlink") /\ c = <<"install", None>>
  <2>1. CallsOK([calls EXCEPT ![c].step = "unlink", ![c].lock = None])
    BY <1>2, CallMoves
  <2> QED BY <1>2, <2>1 DEF Goes
<1> QED BY <1>1, <1>2

\* What a discovery's reason or startNativeHost's answer does to the calls and
\* the coordinators.
LEMMA AnswersKeep ==
    ASSUME CallInv, NEW c \in CallIds, NEW ok \in BOOLEAN, NEW reason,
           Answered(c, ok) \/ Concludes(c, reason) \/ ReadsLock(c),
           lock \in Pids \cup {Torn, None}
    PROVE  CallsOK(calls') /\ coordinator' \in [Profiles -> Coordinators]
<1>1. CallsOK(calls) /\ coordinator \in [Profiles -> Coordinators]
  BY DEF CallInv
<1>2. KindOf(c) \in {"start", "status"} => c[2] \in Profiles /\ <<"start", c[2]>> \in CallIds
  BY DEF CallIds, KindOf
<1>3. ASSUME NEW b \in BOOLEAN, Answered(c, b)
      PROVE  CallsOK(calls') /\ coordinator' \in [Profiles -> Coordinators]
  <2>1. CallsOK(calls')
    BY <1>1, <1>3, CallMoves DEF Answered, Ends
  <2>2. CASE KindOf(c) = "start"
    <3>1. coordinator[c[2]] \in Coordinators
      BY <1>1, <1>2, <2>2
    <3>2. Attempted(coordinator[c[2]], b) \in Coordinators
      BY <3>1, CoordinatorType
    <3> QED BY <1>1, <1>3, <2>1, <2>2, <3>2 DEF Answered
  <2>3. CASE KindOf(c) # "start"
    BY <1>1, <1>3, <2>1, <2>3 DEF Answered
  <2> QED BY <2>2, <2>3
<1>4. ASSUME NEW r, KindOf(c) = "status", Discovered(c, r)
      PROVE  CallsOK(calls') /\ coordinator' \in [Profiles -> Coordinators]
  <2> DEFINE x == c[2]
             s == <<"start", x>>
  <2>1. x \in Profiles /\ s \in CallIds /\ c # s
    BY <1>2, <1>4 DEF KindOf
  <2>2. Attempting(coordinator[x], FALSE) \in Coordinators
    BY <1>1, <2>1, CoordinatorType
  <2>3. CASE calls' = [calls EXCEPT ![c] = Idle, ![s].step = "read"]
    <3> DEFINE ended == [calls EXCEPT ![c] = Idle]
    <3>1. CallsOK(ended)
      BY <1>1, CallMoves
    <3>2. calls' = [ended EXCEPT ![s] = [ended[s] EXCEPT !.step = "read"]]
      BY <1>1, <2>1, <2>3 DEF CallsOK
    <3>3. ended[s] \in CallRecords
      BY <2>1, <3>1 DEF CallsOK
    <3> HIDE DEF ended
    <3>4. [ended[s] EXCEPT !.step = "read"] = [step |-> "read", lock |-> ended[s].lock]
      BY <3>3 DEF CallRecords
    <3>5. [step |-> "read", lock |-> ended[s].lock] \in CallRecords
      BY <3>3 DEF CallRecords
    <3>6. CallsOK(calls')
      BY <2>1, <3>1, <3>2, <3>4, <3>5 DEF CallsOK
    <3>7. coordinator' \in [Profiles -> Coordinators]
      BY <1>1, <1>4, <2>1, <2>2 DEF Discovered
    <3> QED BY <3>6, <3>7
  <2>4. CASE Ends(c) /\ UNCHANGED coordinator
    BY <1>1, <2>4, CallMoves DEF Ends
  <2> QED BY <1>4, <2>3, <2>4 DEF Discovered
<1>5. ASSUME NEW r, Concludes(c, r)
      PROVE  CallsOK(calls') /\ coordinator' \in [Profiles -> Coordinators]
  <2>1. CASE Goes(c, "spawn") /\ UNCHANGED coordinator
    BY <1>1, <2>1, CallMoves DEF Goes
  <2> QED BY <1>3, <1>4, <1>5, <2>1 DEF Concludes
<1>6. ASSUME ReadsLock(c)
      PROVE  CallsOK(calls') /\ coordinator' \in [Profiles -> Coordinators]
  <2>1. CASE lock = None
    BY <1>5, <1>6, <2>1 DEF ReadsLock
  <2>2. CASE lock # None
    BY <1>1, <1>6, <2>2, CallMoves DEF ReadsLock
  <2> QED BY <2>1, <2>2
<1> QED BY <1>3, <1>5, <1>6

\* Calls and coordinators keep their types, and only the installer unlinks.
LEMMA CallInvKept ==
    ASSUME CallInv, [Next]_vars, lock \in Pids \cup {Torn, None}
    PROVE  CallInv'
<1>1. /\ CallsOK(calls) /\ coordinator \in [Profiles -> Coordinators]
      /\ installed \in BOOLEAN /\ calm \in BOOLEAN
  BY DEF CallInv
<1>2. CASE UNCHANGED extensionVars /\ installed' \in BOOLEAN /\ calm' \in BOOLEAN
  BY <1>1, <1>2 DEF extensionVars, CallInv, CallsOK
<1>3. ASSUME NEW c \in CallIds, CallStep(c) \/ CallFails(c)
      PROVE  CallInv'
  <2>1. CASE Discovers(c) \/ Reads(c) \/ Probes(c) \/ Spawns(c) \/ CallFails(c)
    <3>1. PICK ok \in BOOLEAN, reason \in {"bridge_not_started", "connecting",
                       "server_not_responding", "protocol_timeout"} :
              Answered(c, ok) \/ Concludes(c, reason) \/ ReadsLock(c)
      BY <2>1, <1>1 DEF Discovers, Reads, Probes, Spawns, CallFails
    <3>2. UNCHANGED worldVars
      BY <2>1 DEF Discovers, Reads, Probes, Spawns, CallFails
    <3>3. CallsOK(calls') /\ coordinator' \in [Profiles -> Coordinators]
      BY <3>1, AnswersKeep
    <3> QED BY <1>1, <3>2, <3>3 DEF CallInv, CallsOK, worldVars
  <2>2. CASE Waits(c)
    <3>1. KindOf(c) = "install" => c = <<"install", None>>
      BY DEF KindOf, CallIds
    <3>2. CallsOK(calls')
      BY <1>1, <2>2, <3>1, CallMoves DEF Waits, Goes
    <3> QED BY <1>1, <2>2, <3>2 DEF Waits, CallInv, CallsOK, worldVars
  <2>3. CASE Unlinks(c)
    <3>1. CallsOK(calls')
      BY <1>1, <2>3, CallMoves DEF Unlinks
    <3> QED BY <1>1, <2>3, <3>1 DEF Unlinks, CallInv, CallsOK
  <2> QED BY <1>3, <2>1, <2>2, <2>3 DEF CallStep
<1>4. ASSUME NEW x \in Profiles, UserStarts(x) \/ Evicted(x) \/ CoolsDown(x) \/ UserRestarts(x)
      PROVE  CallInv'
  <2>1. /\ <<"start", x>> \in CallIds /\ <<"restart", x>> \in CallIds
        /\ coordinator[x] \in Coordinators
    BY <1>1 DEF CallIds
  <2>2. CASE UserStarts(x)
    <3>1. CallsOK(calls')
      BY <1>1, <2>1, <2>2, CallMoves DEF UserStarts
    <3>2. Attempting(coordinator[x], TRUE) \in Coordinators
      BY <2>1, CoordinatorType
    <3> QED BY <1>1, <2>2, <3>1, <3>2 DEF UserStarts, CallInv, CallsOK, worldVars
  <2>3. CASE Evicted(x)
    BY <1>1, <2>3, CoordinatorType DEF Evicted, CallInv, CallsOK, worldVars
  <2>4. CASE CoolsDown(x)
    <3>1. Cooled(coordinator[x]) \in Coordinators
      BY <2>1, CoordinatorType
    <3> QED BY <1>1, <2>4, <3>1 DEF CoolsDown, CallInv, CallsOK, worldVars
  <2>5. CASE UserRestarts(x)
    <3>1. Goes(<<"restart", x>>, "wait") \/ Goes(<<"restart", x>>, "spawn")
      BY <2>5 DEF UserRestarts
    <3>2. CallsOK(calls')
      BY <1>1, <2>1, <3>1, GoesKeeps
    <3> QED BY <1>1, <2>5, <3>2 DEF UserRestarts, CallInv, CallsOK, worldVars
  <2> QED BY <1>4, <2>2, <2>3, <2>4, <2>5
<1>5. CASE UserInstalls
  <2>1. <<"install", None>> \in CallIds
    BY DEF CallIds
  <2>2. Goes(<<"install", None>>, "wait") \/ Goes(<<"install", None>>, "unlink")
    BY <1>5 DEF UserInstalls
  <2>3. CallsOK(calls')
    BY <1>1, <2>1, <2>2, GoesKeeps
  <2> QED BY <1>1, <1>5, <2>3 DEF UserInstalls, CallInv, CallsOK, worldVars
<1>6. CASE CalmsDown
  BY <1>1, <1>2, <1>6 DEF CalmsDown
<1>7. CASE ToolLaunches
  BY <1>1, <1>2, <1>7 DEF ToolLaunches, worldVars
<1>8. ASSUME NEW p \in Pids, ProcessStep(p) \/ ClaimFails(p) \/ Exits(p) \/ Crashes(p)
      PROVE  CallInv'
  <2>1. UNCHANGED <<extensionVars, worldVars>>
    BY <1>8 DEF ProcessStep, ProbeBinds, ProbeFails, ProbeCloses, Listens, ListenFails,
       Truncates, Claims, Exited, ClaimFails, Exits, Crashes
  <2> QED BY <1>1, <1>2, <2>1 DEF worldVars
<1>9. CASE UNCHANGED vars
  BY <1>1, <1>2, <1>9 DEF vars, extensionVars
<1> QED BY <1>3, <1>4, <1>5, <1>6, <1>7, <1>8, <1>9 DEF Next

-----------------------------------------------------------------------------
(***************************************************************************)
(* The port and the lock file.  LockIsHonest is not inductive: a process   *)
(* comes to be named by the file in Claims, and that it then has the port  *)
(* is known only from its stage.                                           *)
(***************************************************************************)

\* The stages in which a process has the port.
Holding == {"probing", "bound", "claiming", "serving", "exiting"}

PortOfStage == \A p \in Pids : stage[p] \in Holding <=> port = p

CleanersServed == \A p \in cleanup : stage[p] \in {"serving", "exiting"}

ProcessTypeOK ==
    /\ stage \in [Pids -> Stages]
    /\ cleanup \subseteq Pids
    /\ port \in Pids \cup {None}
    /\ lock \in Pids \cup {Torn, None}

ProcessInv == ProcessTypeOK /\ PortOfStage /\ CleanersServed /\ LockIsHonest

IInv == ProcessInv /\ CallInv

\* Every nonempty set of process ids has its Min, the id a new process gets.
LEMMA MinIsMember ==
    ASSUME NEW S, S \subseteq Nat, S # {}
    PROVE  Min(S) \in S
BY LeastNat DEF Min

\* The end of some processes, with the lock left or removed.
LEMMA EndedKeeps ==
    ASSUME ProcessInv, NEW gone, Ended(gone), lock' \in {lock, None}
    PROVE  ProcessInv'
<1>1. ProcessTypeOK'
  BY DEF ProcessInv, ProcessTypeOK, Ended, Stages, Absent
<1>2. PortOfStage'
  BY PidsAssumption DEF ProcessInv, ProcessTypeOK, PortOfStage, Ended, Holding, Absent
<1>3. CleanersServed'
  BY DEF ProcessInv, ProcessTypeOK, CleanersServed, Ended
<1>4. LockIsHonest'
  BY PidsAssumption DEF ProcessInv, ProcessTypeOK, LockIsHonest, Ended, Alive
<1> QED BY <1>1, <1>2, <1>3, <1>4 DEF ProcessInv

\* A new process gets an id that neither lives nor is in the lock file, so the
\* file does not come to name it.
LEMMA SpawnKeeps ==
    ASSUME ProcessInv, Spawn
    PROVE  ProcessInv'
<1> DEFINE n == Min(FreshPids)
<1>1. n \in FreshPids
  BY MinIsMember, PidsAssumption DEF Spawn, FreshPids
<1>2. n \in Pids /\ stage[n] = Absent /\ n # lock
  BY <1>1 DEF FreshPids, Alive, Remembered
<1> HIDE DEF n
<1>3. stage' = [stage EXCEPT ![n] = "started"] /\ UNCHANGED <<cleanup, port, lock>>
  BY DEF Spawn, n
<1>4. ProcessTypeOK'
  BY <1>3 DEF ProcessInv, ProcessTypeOK, Stages
<1>5. PortOfStage'
  BY <1>2, <1>3 DEF ProcessInv, ProcessTypeOK, PortOfStage, Holding, Absent
<1>6. CleanersServed'
  BY <1>2, <1>3 DEF ProcessInv, ProcessTypeOK, CleanersServed, Absent
<1>7. LockIsHonest'
  BY <1>2, <1>3 DEF ProcessInv, ProcessTypeOK, LockIsHonest, Alive, Absent
<1> QED BY <1>4, <1>5, <1>6, <1>7 DEF ProcessInv

\* What a process does on its own (index.ts, startServer, the exit handlers).
LEMMA ProcessKeeps ==
    ASSUME ProcessInv, NEW p \in Pids, ProcessStep(p) \/ ClaimFails(p) \/ Exits(p) \/ Crashes(p)
    PROVE  ProcessInv'
<1> USE PidsAssumption DEF ProcessInv, ProcessTypeOK, PortOfStage, CleanersServed,
                           LockIsHonest, Alive, Absent, Stages, Holding, Moves
<1>1. CASE ProbeBinds(p)
  BY <1>1 DEF ProbeBinds
<1>2. CASE ProbeFails(p) \/ ListenFails(p) \/ Exited(p) \/ Crashes(p)
  <2>1. Ended({p}) /\ lock' = lock
    BY <1>2 DEF ProbeFails, ListenFails, LoserLeaves, Exited, Crashes
  <2> QED BY <2>1, EndedKeeps
<1>3. CASE ProbeCloses(p)
  BY <1>3 DEF ProbeCloses, NotYetClaimed
<1>4. CASE Listens(p)
  BY <1>4 DEF Listens
<1>5. CASE Truncates(p)
  BY <1>5 DEF Truncates
<1>6. CASE Claims(p)
  BY <1>6 DEF Claims
<1>7. CASE ClaimFails(p)
  BY <1>7 DEF ClaimFails
<1>8. CASE Exits(p)
  BY <1>8 DEF Exits, LockAfterExit
<1> QED BY <1>1, <1>2, <1>3, <1>4, <1>5, <1>6, <1>7, <1>8 DEF ProcessStep

\* A helper or installer kills some processes, whose handlers may clean up.
LEMMA KilledKeeps ==
    ASSUME ProcessInv, NEW gone, Ended(gone), lock' \in {lock, LockAfterExit(gone)}
    PROVE  ProcessInv'
BY EndedKeeps DEF LockAfterExit

\* No step of any process, helper, installer or user breaks the process part.
LEMMA ProcessInvKept ==
    ASSUME ProcessInv, [Next]_vars
    PROVE  ProcessInv'
<1>1. CASE UNCHANGED processVars
  BY <1>1 DEF processVars, ProcessInv, ProcessTypeOK, PortOfStage, CleanersServed,
              LockIsHonest, Alive
<1>2. ASSUME NEW c \in CallIds, CallStep(c) \/ CallFails(c)
      PROVE  ProcessInv'
  <2>1. CASE Discovers(c) \/ Reads(c) \/ Probes(c) \/ CallFails(c)
    BY <1>1, <2>1 DEF Discovers, Reads, Probes, CallFails
  <2>2. CASE Spawns(c)
    BY <1>1, <2>2, SpawnKeeps DEF Spawns
  <2>3. CASE Waits(c)
    BY <1>1, <2>3, KilledKeeps DEF Waits, Escalates
  <2>4. CASE Unlinks(c)
    BY <2>4, PidsAssumption DEF Unlinks, ProcessInv, ProcessTypeOK, PortOfStage,
       CleanersServed, LockIsHonest, Alive, Absent
  <2> QED BY <1>2, <2>1, <2>2, <2>3, <2>4 DEF CallStep
<1>3. ASSUME NEW x \in Profiles, UserStarts(x) \/ Evicted(x) \/ CoolsDown(x) \/ UserRestarts(x)
      PROVE  ProcessInv'
  <2>1. CASE UserStarts(x) \/ Evicted(x) \/ CoolsDown(x)
    BY <1>1, <2>1 DEF UserStarts, Evicted, CoolsDown
  <2>2. CASE UserRestarts(x)
    <3>1. lock' = lock
      BY <2>2 DEF UserRestarts
    <3>2. UNCHANGED <<stage, cleanup, port>> \/ Ended({lock} \cap Alive)
      BY <2>2 DEF UserRestarts, KillsLocked
    <3> QED BY <1>1, <3>1, <3>2, EndedKeeps DEF processVars
  <2> QED BY <1>3, <2>1, <2>2
<1>4. CASE UserInstalls
  BY <1>4, KilledKeeps DEF UserInstalls, KillsGathered
<1>5. CASE CalmsDown
  BY <1>1, <1>5 DEF CalmsDown
<1>6. CASE ToolLaunches
  BY <1>6, SpawnKeeps DEF ToolLaunches
<1>7. ASSUME NEW p \in Pids, ProcessStep(p) \/ ClaimFails(p) \/ Exits(p) \/ Crashes(p)
      PROVE  ProcessInv'
  BY <1>7, ProcessKeeps
<1>8. CASE UNCHANGED vars
  BY <1>1, <1>8 DEF vars, processVars
<1> QED BY <1>2, <1>3, <1>4, <1>5, <1>6, <1>7, <1>8 DEF Next

-----------------------------------------------------------------------------
(***************************************************************************)
(* The theorems.                                                           *)
(***************************************************************************)

\* IInv holds at the start, when nothing runs, and is kept by every step.
LEMMA IInvInvariant == Spec => []IInv
<1>1. Init => IInv
  <2> SUFFICES ASSUME Init PROVE IInv
    OBVIOUS
  <2>1. ProcessInv
    BY PidsAssumption DEF Init, ProcessInv, ProcessTypeOK, PortOfStage, CleanersServed,
       LockIsHonest, Alive, Absent, Stages, Holding
  <2>2. CallInv
    BY CoordinatorType DEF Init, CallInv, CallsOK, Idle, CallRecords
  <2> QED BY <2>1, <2>2 DEF IInv
<1>2. IInv /\ [Next]_vars => IInv'
  BY ProcessInvKept, CallInvKept DEF IInv, ProcessInv, ProcessTypeOK
<1> QED BY <1>1, <1>2, PTL DEF Spec

\* Types of the whole state: what lock-file-manager.ts reads is a pid, a torn
\* file or none, and every process, call and coordinator is in a known stage.
THEOREM TypeCorrect == Spec => []TypeOK
<1>1. IInv => TypeOK
  BY DEF IInv, ProcessInv, ProcessTypeOK, CallInv, CallsOK, TypeOK
<1> QED BY <1>1, IInvInvariant, PTL

\* A lock file that names a living process names the one with the port, which
\* serves or is on its way out (writeLockFile runs after the listening event).
THEOREM LockHonest == Spec => []LockIsHonest
<1>1. IInv => LockIsHonest
  BY DEF IInv, ProcessInv
<1> QED BY <1>1, IInvInvariant, PTL

\* At most one process at a time serves or cleans up: the port, not the lock
\* file, is what decides (index.ts, startServer).
THEOREM OneHolder ==
    Spec => [](\A p, q \in Pids : stage[p] \in Holding /\ stage[q] \in Holding => p = q)
<1>1. IInv => \A p, q \in Pids : stage[p] \in Holding /\ stage[q] \in Holding => p = q
  BY DEF IInv, ProcessInv, PortOfStage
<1> QED BY <1>1, IInvInvariant, PTL

-----------------------------------------------------------------------------
(***************************************************************************)
(* The lock file of a bridge that serves.                                  *)
(***************************************************************************)

\* Exit handlers that ran removed the file only for a process that had written
\* it, and that one had the port.
LEMMA CleanupIsOwn ==
    ASSUME ProcessInv, NEW gone, NEW p \in Serving,
           lock = p, LockAfterExit(gone) # p
    PROVE  p \in gone
<1>1. PICK q \in gone \cap cleanup : TRUE
  BY DEF LockAfterExit
<1>2. q \in Pids /\ stage[q] \in Holding
  BY <1>1 DEF ProcessInv, ProcessTypeOK, CleanersServed, Holding
<1>3. p \in Pids /\ stage[p] \in Holding
  BY DEF Serving, Holding
<1>4. p = q
  BY <1>2, <1>3 DEF ProcessInv, PortOfStage
<1> QED BY <1>1, <1>4

\* Processes that ended do not serve.
LEMMA EndedServesNot ==
    ASSUME NEW gone, Ended(gone), NEW p \in gone
    PROVE  p \notin Serving'
BY DEF Ended, Serving, Absent

\* What one step can do to the lock file of a bridge that serves.
LEMMA LockKept ==
    ASSUME IInv, [Next]_vars, NEW p \in Serving, lock = p, lock' # p
    PROVE  p \notin Serving' \/ calls[<<"install", None>>].step = "unlink"
<1>0. /\ ProcessInv /\ p \in Pids /\ stage[p] = "serving" /\ port = p
      /\ \A c \in CallIds : calls[c].step = "unlink" => c = <<"install", None>>
  BY DEF IInv, ProcessInv, PortOfStage, Holding, Serving, CallInv, CallsOK
<1>1. ASSUME NEW gone, Ended(gone), lock' = LockAfterExit(gone)
      PROVE  p \notin Serving'
  BY <1>0, <1>1, CleanupIsOwn, EndedServesNot
<1>2. ASSUME NEW q \in Pids, ProcessStep(q) \/ ClaimFails(q) \/ Exits(q) \/ Crashes(q)
      PROVE  p \notin Serving'
  <2>1. CASE Truncates(q) \/ Claims(q)
    <3>1. stage[q] \in Holding /\ q # p
      BY <1>0, <2>1 DEF Truncates, Claims, Holding
    <3> QED BY <1>0, <3>1 DEF ProcessInv, PortOfStage
  <2>2. CASE Exits(q)
    <3>1. q = p
      BY <1>0, <2>2, CleanupIsOwn DEF Exits
    <3>2. stage'[p] = "exiting"
      BY <1>0, <2>2, <3>1 DEF Exits, Moves, ProcessInv, ProcessTypeOK
    <3> QED BY <3>2 DEF Serving
  <2>3. CASE ~(Truncates(q) \/ Claims(q) \/ Exits(q))
    <3>1. lock' = lock
      BY <1>2, <2>3 DEF ProcessStep, ProbeBinds, ProbeFails, ProbeCloses, Listens,
         ListenFails, NotYetClaimed, LoserLeaves, Exited, ClaimFails, Crashes
    <3> QED BY <3>1
  <2> QED BY <2>1, <2>2, <2>3
<1>3. ASSUME NEW c \in CallIds, CallStep(c) \/ CallFails(c)
      PROVE  p \notin Serving' \/ calls[<<"install", None>>].step = "unlink"
  <2>1. CASE Discovers(c) \/ Reads(c) \/ Probes(c) \/ Spawns(c) \/ CallFails(c)
    <3>1. lock' = lock
      BY <2>1 DEF Discovers, Reads, Probes, Spawns, Spawn, CallFails, processVars
    <3> QED BY <3>1
  <2>2. CASE Waits(c)
    <3>1. Escalates
      BY <2>2 DEF Waits, processVars
    <3>2. Ended(Alive) /\ lock' = LockAfterExit(Alive)
      BY <3>1 DEF Escalates, processVars
    <3> QED BY <1>1, <3>2
  <2>3. CASE Unlinks(c)
    BY <1>0, <2>3 DEF Unlinks
  <2> QED BY <1>3, <2>1, <2>2, <2>3 DEF CallStep
<1>4. CASE UserInstalls
  <2>1. PICK gone : Ended(gone) /\ lock' \in {lock, LockAfterExit(gone)}
    BY <1>4 DEF UserInstalls, KillsGathered
  <2> QED BY <1>1, <2>1
<1>5. CASE UNCHANGED lock
  BY <1>5
<1>6. ASSUME NEW x \in Profiles, UserStarts(x) \/ Evicted(x) \/ CoolsDown(x) \/ UserRestarts(x)
      PROVE  UNCHANGED lock
  BY <1>6 DEF UserStarts, Evicted, CoolsDown, UserRestarts, processVars
<1>7. CASE ToolLaunches \/ CalmsDown \/ UNCHANGED vars
  BY <1>5, <1>7 DEF ToolLaunches, Spawn, CalmsDown, processVars, vars
<1> QED BY <1>2, <1>3, <1>4, <1>5, <1>6, <1>7 DEF Next

\* Only the installer's removeStaleLockFile takes the lock file from a bridge
\* that goes on serving.
THEOREM OnlyInstallerUnlocks == Spec => LockKeptWhileServing
<1>1. IInv /\ [Next]_vars =>
          [\A p \in Serving :
              (lock = p /\ lock' # p) =>
                  p \notin Serving' \/ calls[<<"install", None>>].step = "unlink"]_vars
  BY LockKept
<1> QED BY <1>1, IInvInvariant, PTL DEF Spec, LockKeptWhileServing
=============================================================================
