------------------------------ MODULE Installer ------------------------------
(***************************************************************************)
(* The installer agenthub-setup (packages/installer/src/ui/app.tsx and     *)
(* installers/*.ts): it places the executables, registers them with the    *)
(* browsers, lists the bridge in the configurations of the AI tools, and   *)
(* uninstalls all of that, while the browsers and tools start the bridge,  *)
(* the side panel's helper repairs a configuration, system calls fail and  *)
(* the installer is killed; what earlier runs left is in Init.             *)
(*                                                                         *)
(* The phases are those of App; where a phase makes several changes, step  *)
(* names the next one.                                                     *)
(***************************************************************************)
EXTENDS BinarySwap, ConfigFiles

CONSTANTS
    Browsers, Chrome,
    InstallDir,      \* where Windows keeps the manifests
    MaxRuns,         \* runs of the installer
    MaxSaves,        \* times a tool saves its settings
    MaxRepairs       \* "Re-add" clicks
    \* all three bounds

ASSUME InstallerAssumption ==
    /\ Chrome \in Browsers /\ {MaxRuns, MaxSaves, MaxRepairs} \subseteq Nat

Phases == {"off", "detect", "prompt", "download", "register", "health", "discover",
           "configure-prompt", "configure", "uninstall", "done"}
Flags == [yes : BOOLEAN, id : BOOLEAN, from : Sources]
NoFlags == [yes |-> FALSE, id |-> FALSE, from |-> "network"]

VARIABLES
    phase, step,
    flags,          \* yes stands for --update too
    left,           \* browsers or files the step has still to visit
    errors,         \* an uninstall has something to report
    manifests,      \* native messaging manifests, by place and executable
    keys,           \* registry keys, by browser and executable
    autostart, allowedIds,
    ranClean,       \* the last run was an uninstall that reported no error
    passedOver,     \* a refused registry call, or the entry of a tool gone, went unreported
    mixed,          \* a repair ran during the last run
    runs, saves, repairs

installVars == <<phase, step, flags, left, errors>>
registered == <<manifests, keys, autostart, allowedIds>>
notes == <<ranClean, passedOver, mixed>>
counts == <<runs, saves, repairs>>
vars == <<binaryVars, configVars, installVars, registered, notes, counts>>

ManifestPlace(b) == IF os = "windows" THEN InstallDir ELSE b

\* What earlier runs left: nothing, an installation, or one whose update was
\* cut short while the bridge was aside.
EarlierRuns == {"none", "installed"} \cup (IF os = "windows" THEN {"cut short"} ELSE {})
Init ==
    /\ os \in {"windows", "posix"}
    /\ \E earlier \in EarlierRuns :
         /\ target = [b \in Binaries |->
                        IF earlier = "none" \/ (earlier = "cut short" /\ b = Bridge) THEN "absent" ELSE "whole"]
         /\ interrupted = IF earlier = "cut short" THEN {Bridge} ELSE {}
         /\ owned = IF earlier = "none" THEN {} ELSE Binaries
         /\ IF earlier = "none"
            THEN /\ \E d \in {Missing, Siblings} : config = [f \in Files |-> d]
                 /\ manifests = {} /\ keys = {}
                 /\ autostart = FALSE /\ allowedIds = FALSE
            ELSE /\ \E legacy \in {Siblings, Siblings \cup {Ours}} :
                      config = [f \in Files |-> IF f = Settings THEN legacy ELSE Siblings \cup {Ours}]
                 /\ manifests = {ManifestPlace(b) : b \in Browsers} \X Binaries
                 /\ keys = IF os = "windows" THEN Browsers \X Binaries ELSE {}
                 /\ autostart = (os = "windows") /\ allowedIds = TRUE
    /\ BinaryInit /\ ConfigInit
    /\ phase = "off" /\ step = "none" /\ flags = NoFlags /\ left = {} /\ errors = FALSE
    /\ ranClean = FALSE /\ passedOver = FALSE /\ mixed = FALSE
    /\ runs = 0 /\ saves = 0 /\ repairs = 0

\* What only matters while the installer runs goes back to a default.
Ends == phase' = "off" /\ step' = "none" /\ flags' = NoFlags /\ left' = {} /\ errors' = FALSE
\* So do the flags, once nothing asks for them any more.
SourceSettled == flags' = [flags EXCEPT !.from = NoFlags.from]
IdSettled == flags' = [flags EXCEPT !.id = NoFlags.id]
At(p, s) == phase = p /\ step = s
To(p, s) == phase' = p /\ step' = s
Resolves(b, h) ==
    /\ <<ManifestPlace(b), h>> \in manifests
    /\ os = "windows" => <<b, h>> \in keys
Reachable(h) == \E b \in Browsers : Resolves(b, h)
Configured == \E f \in Files : config[f] \notin {Missing, Torn} /\ Ours \in config[f]

(***************************************************************************)
(* Starting, and the phases up to the download.                            *)
(***************************************************************************)
\* Processes are followed from here until the executables are in place or gone.
InUse ==
    IF os = "posix" THEN {}
    ELSE {<<b, "target">> : b \in {c \in Binaries : target[c] = "whole"}}
            \cup {<<b, "side">> : b \in {c \in Binaries : side[c] > 0}}
Starts(uninstalling) ==
    /\ phase = "off" /\ runs < MaxRuns
    /\ runs' = runs + 1
    /\ IF uninstalling
       THEN To("uninstall", "kill") /\ UNCHANGED flags
       ELSE To("detect", "none") /\ flags' \in Flags
    /\ held' \in SUBSET InUse
    /\ ranClean' = FALSE /\ passedOver' = FALSE /\ mixed' = Busy(Helper)
    /\ UNCHANGED <<os, target, temp, side, swap, faults, owned, interrupted, configVars, left, errors,
                   manifests, keys, autostart, allowedIds, saves, repairs>>

\* isBinaryInstalled: both are there.
IsBinaryInstalled == \A b \in Binaries : target[b] # "absent"
Detects ==
    /\ phase = "detect"
    /\ IF IsBinaryInstalled /\ ~flags.yes THEN To("prompt", "none") ELSE To("download", "sweep")
    /\ UNCHANGED <<binaryVars, configVars, flags, left, errors, registered, notes, counts>>
Chooses ==
    /\ phase = "prompt"
    /\ \/ To("download", "sweep") /\ UNCHANGED flags
       \/ To("register", "host") /\ SourceSettled
    /\ UNCHANGED <<binaryVars, configVars, left, errors, registered, notes, counts>>

SweepsUp ==
    /\ At("download", "sweep") /\ Sweeps
    /\ IF \E b \in Binaries : target[b] # "absent"
       THEN To("download", "kill") ELSE To("download", "place")
    /\ UNCHANGED <<configVars, flags, left, errors, registered, notes, counts>>

\* killRunningNativeHost; a process may survive its kill.
Kills ==
    /\ step = "kill"
    /\ \/ held' = {} /\ UNCHANGED faults
       \/ Faults /\ held' \in (SUBSET held) \ {{}}
    /\ IF phase = "download" THEN To("download", "place") ELSE To("uninstall", "autostart")
    /\ UNCHANGED <<os, target, temp, side, swap, owned, interrupted, configVars, flags, left,
                   errors, registered, notes, counts>>

(***************************************************************************)
(* downloadBinary, installFromLocal: the bridge, then the helper.          *)
(***************************************************************************)
Places ==
    /\ At("download", "place")
    /\ \/ /\ swap.step = "idle" /\ swap' = StartsWith(Bridge)
          /\ UNCHANGED <<os, target, temp, side, held, faults, owned, interrupted, installVars>>
       \/ SwapSteps(flags.from # "network") /\ UNCHANGED installVars
       \/ /\ swap.step = "placed" /\ swap.b = Bridge /\ flags.from # "folder without helper"
          /\ swap' = StartsWith(NativeHelper)
          /\ UNCHANGED <<os, target, temp, side, held, faults, owned, interrupted, installVars>>
       \/ /\ swap.step = "placed" /\ (swap.b = NativeHelper \/ flags.from = "folder without helper")
          /\ swap' = NoSwap /\ held' = {} /\ To("register", "host") /\ SourceSettled
          /\ UNCHANGED <<os, target, temp, side, faults, owned, interrupted, left, errors>>
       \/ /\ swap.step = "gaveUp"
          /\ swap' = NoSwap /\ held' = {} /\ Ends
          /\ UNCHANGED <<os, target, temp, side, faults, owned, interrupted>>
    /\ UNCHANGED <<configVars, registered, notes, counts>>

(***************************************************************************)
(* Registration.  Without --extension-id one id found by the scan of the   *)
(* profiles is taken under --yes only.                                     *)
(***************************************************************************)
\* One, none or several extensions in the profiles: the scan may fail.
HasId == flags.id \/ flags.yes
RegistersHost ==
    /\ At("register", "host")
    /\ \/ /\ ~flags.id                       \* no id, or not the only one
          /\ To("health", "none") /\ IdSettled /\ UNCHANGED <<manifests, keys, faults, left>>
       \/ /\ HasId /\ UNCHANGED faults /\ IdSettled
          /\ manifests' = manifests \cup {<<ManifestPlace(Chrome), Bridge>>}
          /\ keys' = IF os = "windows" THEN keys \cup {<<Chrome, Bridge>>} ELSE keys
          /\ left' \in SUBSET Browsers /\ To("register", "browsers")
       \/ /\ HasId /\ Faults /\ IdSettled    \* the manifest, or the key on its own
          /\ \/ UNCHANGED manifests
             \/ os = "windows" /\ manifests' = manifests \cup {<<InstallDir, Bridge>>}
          /\ left' \in SUBSET Browsers /\ To("register", "browsers, host failed") /\ UNCHANGED keys
    /\ UNCHANGED <<os, target, temp, side, held, swap, owned, interrupted, configVars,
                   errors, autostart, allowedIds, notes, counts>>

Browsing == phase = "register" /\ step \in {"browsers", "browsers, host failed"}
\* registerForBrowser, for both executables; failures are passed over.
RegistersBrowser(b) ==
    /\ Browsing /\ b \in left
    /\ left' = left \ {b}
    /\ \E ok \in {Binaries} \cup (IF faults < MaxFaults THEN SUBSET Binaries ELSE {}) :
         /\ manifests' = manifests \cup {<<ManifestPlace(b), h>> : h \in ok}
         /\ keys' = IF os = "windows" THEN keys \cup {<<b, h>> : h \in ok} ELSE keys
         /\ faults' = IF ok = Binaries THEN faults ELSE faults + 1
    /\ UNCHANGED <<os, target, temp, side, held, swap, owned, interrupted, configVars, phase, step,
                   flags, errors, autostart, allowedIds, notes, counts>>

\* extension-ids.json and the Run key; the bridge started here is not followed.
FinishesRegistration ==
    /\ Browsing /\ left = {}
    /\ LET login == step = "browsers" /\ os = "windows" IN
       \/ allowedIds' = TRUE /\ autostart' = (autostart \/ login) /\ UNCHANGED faults
       \/ /\ Faults /\ allowedIds' \in {allowedIds, TRUE}
          /\ autostart' \in {autostart, autostart \/ login}
    /\ To("health", "none")
    /\ UNCHANGED <<os, target, temp, side, held, swap, owned, interrupted, configVars, flags, left,
                   errors, manifests, keys, notes, counts>>

(***************************************************************************)
(* Health check, discovery and the configuration of the tools found.       *)
(***************************************************************************)
ChecksHealth ==
    /\ phase = "health"
    /\ IF target[Bridge] = "absent" THEN Ends
       ELSE To("discover", "none") /\ UNCHANGED <<flags, left, errors>>
    /\ UNCHANGED <<binaryVars, configVars, registered, notes, counts>>

\* A detector that fails or takes more than 2 s counts as not installed.
Discovers ==
    /\ phase = "discover"
    /\ \/ Ends
       \/ /\ \E seen \in SUBSET Evidence :
                left' \in (SUBSET {t \in Tools : Detectors[t].shownBy \cap seen # {}}) \ {{}}
          /\ To(IF flags.yes THEN "configure" ELSE "configure-prompt", "next")
          /\ flags' = NoFlags /\ UNCHANGED errors
    /\ UNCHANGED <<binaryVars, configVars, registered, notes, counts>>
Answers ==
    /\ phase = "configure-prompt"
    /\ \/ To("configure", "next") /\ UNCHANGED <<flags, left, errors>>
       \/ Ends
    /\ UNCHANGED <<binaryVars, configVars, registered, notes, counts>>

Unedited == UNCHANGED configVars
Idle == ~Busy(Installer)
\* The next file: an edit begins, or there is nothing to do in it.
Merges(f) ==
    /\ At("configure", "next") /\ Idle /\ f \in First(ConfigureOrder, left)
    /\ left' = (left \ {f}) \cup (IF f = "VS Code" /\ Added(f) THEN {Settings} ELSE {})
    /\ \/ f # Settings /\ Added(f) /\ Reads(Installer, f, Merged(config[f]))
       \/ f = Settings /\ HasOurs(f) /\ Reads(Installer, f, Stripped(config[f]))
       \/ (IF f = Settings THEN ~HasOurs(f) ELSE ~Added(f)) /\ Unedited
    /\ UNCHANGED <<binaryVars, phase, step, flags, errors, registered, notes, counts>>
\* removeConfigs passes over a tool its detector does not find.  A configuration shows itself and
\* its directory, but not a JetBrains product; VS Code's two files are visited anyway.
MayBeGone(f) == f \in Tools /\ Detectors[f].shownBy = {"product directory"}
Strips(f) ==
    /\ At("uninstall", "configs") /\ Idle /\ f \in First(RemovalOrder, left)
    /\ left' = left \ {f}
    /\ \/ /\ UNCHANGED passedOver
          /\ IF HasOurs(f) THEN Reads(Installer, f, Stripped(config[f])) ELSE Unedited
       \/ MayBeGone(f) /\ HasOurs(f) /\ Unedited /\ passedOver' = TRUE
    /\ UNCHANGED <<binaryVars, phase, step, flags, errors, registered, ranClean, mixed, counts>>

Edits1 ==
    /\ \/ \E w \in Writers : Opens(w) \/ Writes(w)
       \/ Renames(Helper)
    /\ UNCHANGED <<binaryVars, installVars, registered, notes, counts>>
InstallerRenames ==
    /\ Renames(Installer)
    /\ errors' = (errors \/ tmp[edit[Installer].file] = Missing)
    /\ UNCHANGED <<binaryVars, phase, step, flags, left, registered, notes, counts>>
EditFails(w) ==
    /\ Busy(w) /\ Stops(w) /\ Faults
    /\ errors' = (errors \/ w = Installer)
    /\ UNCHANGED <<os, target, temp, side, held, swap, owned, interrupted, phase, step, flags, left,
                   registered, notes, counts>>
Configures ==
    /\ At("configure", "next") /\ Idle /\ left = {} /\ Ends
    /\ UNCHANGED <<binaryVars, configVars, registered, notes, counts>>

(***************************************************************************)
(* Uninstalling, in the order of uninstall().                              *)
(***************************************************************************)
\* deleteValue swallows the failure.
UnregistersAutostart ==
    /\ At("uninstall", "autostart") /\ To("uninstall", "binaries")
    /\ \/ autostart' = FALSE /\ UNCHANGED <<faults, passedOver>>
       \/ /\ autostart /\ Faults /\ passedOver' = TRUE /\ UNCHANGED autostart
    /\ UNCHANGED <<os, target, temp, side, held, swap, owned, interrupted, configVars, flags, left,
                   errors, manifests, keys, allowedIds, ranClean, mixed, counts>>

\* unlinkSync of bridge, helper and ids, in this order, up to the first error.
RemovesBinaries ==
    /\ At("uninstall", "binaries") /\ To("uninstall", "manifests")
    /\ \E gone \in {{}, {Bridge}, Binaries} :
         /\ target' = [b \in Binaries |-> IF b \in gone THEN "absent" ELSE target[b]]
         /\ owned' = owned \ gone /\ interrupted' = interrupted \ gone
         /\ held' = {}
         /\ \/ /\ gone = Binaries /\ \A b \in Binaries : ~Locked(b)
               /\ allowedIds' = FALSE /\ UNCHANGED <<faults, errors>>
            \/ /\ gone # Binaries /\ errors' = TRUE /\ UNCHANGED allowedIds
               /\ \A b \in gone : ~Locked(b)
               /\ LET stuck == IF gone = {} THEN Bridge ELSE NativeHelper IN
                  IF Locked(stuck) THEN UNCHANGED faults ELSE Faults
    /\ UNCHANGED <<os, temp, side, swap, configVars, flags, left, manifests, keys,
                   autostart, notes, counts>>

OwnManifests ==
    IF os = "windows" THEN {<<InstallDir, h>> : h \in Binaries} ELSE {<<Chrome, Bridge>>}
RemovesManifests ==
    /\ At("uninstall", "manifests") /\ To("uninstall", "registry")
    /\ \/ manifests' = manifests \ OwnManifests /\ UNCHANGED <<faults, errors>>
       \/ /\ OwnManifests \cap manifests # {} /\ Faults /\ errors' = TRUE
          /\ \E kept \in SUBSET (OwnManifests \cap manifests) :
               kept # {} /\ manifests' = (manifests \ OwnManifests) \cup kept
    /\ UNCHANGED <<os, target, temp, side, held, swap, owned, interrupted, configVars, flags, left,
                   keys, autostart, allowedIds, notes, counts>>

\* removeRegistryKey; the failure is passed over, removeMultiBrowser... tries again.
RemovesRegistryKey ==
    /\ At("uninstall", "registry") /\ To("uninstall", "configs")
    /\ keys' = keys \ {<<Chrome, Bridge>>} \/ keys' = keys
    /\ left' = Files
    /\ UNCHANGED <<binaryVars, configVars, flags, errors, manifests, autostart, allowedIds,
                   notes, counts>>

ConfigsRemoved ==
    /\ At("uninstall", "configs") /\ Idle /\ left = {}
    /\ To("uninstall", "browsers") /\ left' = Browsers
    /\ UNCHANGED <<binaryVars, configVars, flags, errors, registered, notes, counts>>

\* (mutant: Chrome is the only browser cleaned up)
ChromeOnly(b) == b = Chrome
Visited(b) == b \in Browsers
Unregisters(b) ==
    /\ At("uninstall", "browsers") /\ b \in left
    /\ left' = left \ {b}
    /\ IF ~Visited(b) THEN UNCHANGED <<keys, manifests, faults, errors, passedOver>>
       ELSE IF os = "windows"
       THEN /\ UNCHANGED <<manifests, errors>>
            /\ \/ keys' = {k \in keys : k[1] # b} /\ UNCHANGED <<faults, passedOver>>
               \/ Faults /\ passedOver' = TRUE /\ UNCHANGED keys
       ELSE /\ UNCHANGED <<keys, passedOver>>
            /\ \/ manifests' = {m \in manifests : m[1] # b} /\ UNCHANGED <<faults, errors>>
               \/ Faults /\ errors' = TRUE /\ UNCHANGED manifests
    /\ UNCHANGED <<os, target, temp, side, held, swap, owned, interrupted, configVars, phase, step,
                   flags, autostart, allowedIds, ranClean, mixed, counts>>

Uninstalled ==
    /\ At("uninstall", "browsers") /\ left = {} /\ Ends
    /\ ranClean' = ~errors
    /\ UNCHANGED <<binaryVars, configVars, registered, passedOver, mixed, counts>>

(***************************************************************************)
(* Everybody else.                                                         *)
(***************************************************************************)
\* The user closes the terminal, the machine goes down.
Dies ==
    /\ phase # "off" /\ Ends
    /\ SwapCutShort
    /\ IF Busy(Installer) THEN Stops(Installer) ELSE UNCHANGED configVars
    /\ UNCHANGED <<registered, notes, counts>>

\* Only Windows locks what runs.
ProcessStarts(b) ==
    /\ \/ phase = "download"
       \/ phase = "uninstall" /\ step \in {"kill", "autostart", "binaries"}
    /\ os = "windows" /\ target[b] = "whole" /\ ~Locked(b)
    /\ \/ Reachable(b)
       \/ b = Bridge /\ (autostart \/ Configured \/ Reachable(NativeHelper))
    /\ held' = held \cup {<<b, "target">>}
    /\ UNCHANGED <<os, target, temp, side, swap, faults, owned, interrupted, configVars, installVars,
                   registered, notes, counts>>
ProcessEnds(p) ==
    /\ p \in held /\ held' = held \ {p}
    /\ UNCHANGED <<os, target, temp, side, swap, faults, owned, interrupted, configVars, installVars,
                   registered, notes, counts>>
Saves(t) ==
    /\ saves < MaxSaves /\ saves' = saves + 1
    /\ ToolSaves(t)
    /\ UNCHANGED <<binaryVars, installVars, registered, notes, runs, repairs>>
\* repairClaudeCodeRegistration wants the bridge to be there.
Repairs(f) ==
    /\ repairs < MaxRepairs /\ repairs' = repairs + 1
    /\ f = "Claude Code" /\ target[Bridge] # "absent" /\ Added(f)
    /\ Reads(Helper, f, Merged(config[f]))
    /\ mixed' = (mixed \/ phase # "off")
    /\ UNCHANGED <<binaryVars, installVars, registered, ranClean, passedOver, runs, saves>>

Next ==
    \/ \E u \in BOOLEAN : Starts(u)
    \/ Detects \/ Chooses \/ SweepsUp \/ Kills \/ Places
    \/ RegistersHost \/ FinishesRegistration \/ \E b \in Browsers : RegistersBrowser(b)
    \/ ChecksHealth \/ Discovers \/ Answers
    \/ \E f \in Files : Merges(f) \/ Strips(f)
    \/ Edits1 \/ InstallerRenames \/ \E w \in Writers : EditFails(w)
    \/ Configures
    \/ UnregistersAutostart \/ RemovesBinaries \/ RemovesManifests \/ RemovesRegistryKey
    \/ ConfigsRemoved \/ \E b \in Browsers : Unregisters(b)
    \/ Uninstalled
    \/ Dies
    \/ \E b \in Binaries : ProcessStarts(b)
    \/ \E p \in Binaries \X {"target", "side"} : ProcessEnds(p)
    \/ \E f \in Files : Saves(f) \/ Repairs(f)

Spec == Init /\ [][Next]_vars

TypeOK ==
    /\ BinaryTypeOK /\ ConfigTypeOK
    /\ phase \in Phases /\ flags \in Flags
    /\ left \subseteq Browsers \cup Files
    /\ keys \subseteq Browsers \X Binaries
    /\ manifests \subseteq (Browsers \cup {InstallDir}) \X Binaries
    /\ {errors, autostart, allowedIds, ranClean, passedOver, mixed} \subseteq BOOLEAN

(***************************************************************************)
(* CleanUninstall: an uninstall that reports no error leaves nothing that  *)
(* would start the bridge it removed: no executable, no manifest a browser *)
(* resolves, no login entry, no entry in a tool's configuration            *)
(* (uninstaller.ts).  Registry calls whose failure the code passes over,   *)
(* the entry of a JetBrains product that is gone itself, and a repair at   *)
(* the same time are the exceptions.                                       *)
(***************************************************************************)
CleanUninstall ==
    ranClean /\ ~passedOver /\ ~mixed
    => /\ \A b \in Binaries : target[b] = "absent" /\ ~Reachable(b)
       /\ ~autostart /\ ~allowedIds
       /\ \A f \in Files : Ours \notin Entries(config[f])
=============================================================================
