------------------------------ MODULE BinarySwap ------------------------------
(***************************************************************************)
(* How the installer puts the two executables in place                     *)
(* (packages/installer/src/installers/binary-installer.ts, shared/         *)
(* retry.ts): fetched or copied to <name>.tmp and renamed; where Windows   *)
(* holds the old one locked, that is renamed aside first and put back if   *)
(* the second rename fails too.                                            *)
(***************************************************************************)
EXTENDS Naturals, FiniteSets

CONSTANTS
    MaxAttempts,   \* maxAttempts of withRetry
    MaxFaults,     \* calls the system refuses besides: a bound
    Bridge, NativeHelper
ASSUME BinarySwapAssumption == MaxAttempts \in Nat \ {0} /\ MaxFaults \in Nat

Binaries == {Bridge, NativeHelper}
Sources == {"network", "folder", "folder without helper"}
Steps == {"idle", "fetch", "rename", "aside", "replace", "rollback", "failed", "gaveUp", "placed"}
Contents == {"absent", "partial", "whole"}

VARIABLES
    os,           \* "windows" or "posix"
    target, temp, \* <name> and <name>.tmp of each executable
    side,         \* how many <name>.delete-me-<time> are there
    held,         \* files a running process was started from (Windows only)
    swap,         \* the executable being placed, its step and attempt
    faults,
    owned,        \* executables placed and not uninstalled
    interrupted   \* those whose swap was cut short between its two renames
binaryVars == <<os, target, temp, side, held, swap, faults, owned, interrupted>>
diskVars == <<os, held, owned, faults>>

BinaryTypeOK ==
    /\ os \in {"windows", "posix"}
    /\ {target, temp} \subseteq [Binaries -> Contents] /\ side \in [Binaries -> Nat]
    /\ held \subseteq Binaries \X {"target", "side"}
    /\ swap \in [step : Steps, b : Binaries, attempt : 0..MaxAttempts]
    /\ faults \in 0..MaxFaults
    /\ owned \subseteq Binaries /\ interrupted \subseteq Binaries

NoSwap == [step |-> "idle", b |-> Bridge, attempt |-> 0]

BinaryInit ==
    /\ temp = [b \in Binaries |-> "absent"]
    /\ side = [b \in Binaries |-> IF b \in interrupted THEN 1 ELSE 0]
    /\ held = {} /\ swap = NoSwap /\ faults = 0

Faults == faults < MaxFaults /\ faults' = faults + 1
Locked(b) == <<b, "target">> \in held
Goes(step) == swap' = [swap EXCEPT !.step = step]

\* cleanupDeleteMeFiles: files in use stay.
Sweeps ==
    /\ side' \in [Binaries -> 0..MaxAttempts]
    /\ \A b \in Binaries : side'[b] \in (IF <<b, "side">> \in held THEN 1..side[b] ELSE {0})
    /\ UNCHANGED <<os, target, temp, held, swap, faults, owned, interrupted>>

StartsWith(b) == [step |-> "fetch", b |-> b, attempt |-> 1]

\* cleanupFile(tempPath); the download streams into it.
Fetches ==
    /\ swap.step = "fetch"
    /\ temp' = [temp EXCEPT ![swap.b] = "partial"]
    /\ Goes("fetch") /\ temp[swap.b] # "partial"
    /\ UNCHANGED <<diskVars, target, side, interrupted>>
Fetched ==
    /\ swap.step = "fetch" /\ temp[swap.b] = "partial"
    /\ temp' = [temp EXCEPT ![swap.b] = "whole"]
    /\ Goes("rename")
    /\ UNCHANGED <<diskVars, target, side, interrupted>>
\* The connection breaks, or the folder cannot be read.
FetchFails ==
    /\ swap.step = "fetch"
    /\ Goes("failed")
    /\ UNCHANGED <<diskVars, target, temp, side, interrupted>>

Placed(b) ==
    /\ target' = [target EXCEPT ![b] = "whole"]
    /\ temp' = [temp EXCEPT ![b] = "absent"]
    /\ owned' = owned \cup {b} /\ interrupted' = interrupted \ {b}
    /\ Goes("placed")

Renames1 ==
    LET b == swap.b IN
    /\ swap.step = "rename"
    /\ \/ ~Locked(b) /\ Placed(b) /\ UNCHANGED faults
       \/ /\ Locked(b) /\ UNCHANGED <<target, temp, owned, interrupted, faults>>
          /\ Goes("aside")
       \/ /\ Faults /\ UNCHANGED <<target, temp, owned, interrupted>>
          /\ Goes("failed")
    /\ UNCHANGED <<os, side, held>>

\* A running executable may be renamed; its process keeps the renamed file.
MovesAside ==
    LET b == swap.b IN
    /\ swap.step = "aside"
    /\ \/ /\ side' = [side EXCEPT ![b] = @ + 1] /\ UNCHANGED faults
          /\ target' = [target EXCEPT ![b] = "absent"]
          /\ held' = (held \ {<<b, "target">>}) \cup {<<b, "side">>}
          /\ Goes("replace")
       \/ Faults /\ Goes("failed") /\ UNCHANGED <<target, side, held>>
    /\ UNCHANGED <<os, temp, owned, interrupted>>

Replaces ==
    /\ swap.step = "replace"
    /\ \/ Placed(swap.b) /\ UNCHANGED faults
       \/ Faults /\ Goes("rollback") /\ UNCHANGED <<target, temp, owned, interrupted>>
    /\ UNCHANGED <<os, side, held>>

\* (mutant: the executable stays aside)
LeftAside(b) == UNCHANGED <<target, side, held>>
PutBack(b) ==
    /\ target' = [target EXCEPT ![b] = "whole"]
    /\ side' = [side EXCEPT ![b] = @ - 1]
    /\ held' = IF <<b, "side">> \in held
               THEN (held \ {<<b, "side">>}) \cup {<<b, "target">>} ELSE held
RollsBack ==
    LET b == swap.b IN
    /\ swap.step = "rollback" /\ Goes("failed")
    /\ \/ PutBack(b) /\ UNCHANGED <<faults, interrupted>>
       \/ Faults /\ interrupted' = interrupted \cup {b} /\ UNCHANGED <<target, side, held>>
    /\ UNCHANGED <<os, temp, owned>>

\* withRetry; a local copy is tried once.  The temp file goes at the end.
Retries(once) ==
    /\ swap.step = "failed"
    /\ IF swap.attempt < MaxAttempts /\ ~once
       THEN /\ swap' = [swap EXCEPT !.step = "fetch", !.attempt = @ + 1]
            /\ temp' = [temp EXCEPT ![swap.b] = "absent"]
       ELSE /\ Goes("gaveUp")
            /\ temp' = [b \in Binaries |-> "absent"]
    /\ UNCHANGED <<diskVars, target, side, interrupted>>

SwapSteps(once) ==
    Fetches \/ Fetched \/ FetchFails \/ Renames1 \/ MovesAside \/ Replaces \/ RollsBack
        \/ Retries(once)

\* The installer dies; between the two renames the name is free.
SwapCutShort ==
    /\ swap' = NoSwap /\ held' = {}
    /\ interrupted' = IF swap.step \in {"replace", "rollback"}
                      THEN interrupted \cup {swap.b} ELSE interrupted
    /\ temp' = [b \in Binaries |-> "absent"]   \* the next attempt removes it first
    /\ UNCHANGED <<os, owned, faults, target, side>>

(***************************************************************************)
(* BinarySurvives: whatever fails, an executable once installed is there   *)
(* and whole under its name, or aside while its swap runs, until an        *)
(* uninstall removes it (renameWithLockFallback, downloadOnce, withRetry). *)
(* Only a swap cut short between its two renames, or whose roll-back was   *)
(* refused too, leaves no file of that name, until one is placed again;    *)
(* the copy aside is then no safety, for the next run sweeps it up before  *)
(* it has another (cleanupDeleteMeFiles).                                  *)
(***************************************************************************)
BinarySurvives ==
    \A b \in owned :
        \/ target[b] = "whole"
        \/ b = swap.b /\ swap.step \in {"replace", "rollback"} /\ side[b] > 0
        \/ b \in interrupted
=============================================================================
