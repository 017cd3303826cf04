----------------------------- MODULE ConfigFiles -----------------------------
(***************************************************************************)
(* The configuration files of the AI tools, edited by the installer        *)
(* (packages/installer/src/installers/config-merger.ts,                    *)
(* detectors/*.ts) and by the helper's "Re-add"                            *)
(* (packages/native-host-helper/src/mcp-registrar.ts), while the tools     *)
(* rewrite them too.                                                       *)
(*                                                                         *)
(* A file is the set of MCP servers it lists, or it is missing, or cannot  *)
(* be parsed.  Every edit reads the file, copies it to a backup, writes    *)
(* the same <file>.tmp and renames that over the file, four system calls   *)
(* between which the other processes run.                                  *)
(***************************************************************************)
EXTENDS Naturals, FiniteSets

CONSTANTS
    Tools,        \* names of detectors
    Settings,     \* VS Code's settings.json, where our entry used to be
    Siblings,     \* the user's other servers
    Ours,         \* the entry agenthub
    Missing, Torn,
    Installer, Helper

\* A detector: what shows that the tool is installed, and where its
\* configuration lists the servers.
Evidence == {"directory", "config", "command", "product directory"}
ClaudeDesktop == [shownBy |-> {"directory"}, section |-> "mcpServers"]
ClaudeCode == [shownBy |-> {"config", "command"}, section |-> "mcpServers"]
Cursor == [shownBy |-> {"directory", "command"}, section |-> "mcp.servers"]
Windsurf == [shownBy |-> {"directory", "command"}, section |-> "mcp.servers"]
Zed == [shownBy |-> {"directory", "command"}, section |-> "mcp.servers"]
JetBrains == [shownBy |-> {"product directory"}, section |-> "mcpServers"]
ContinueDev == [shownBy |-> {"directory"}, section |-> "mcpServers"]
VsCode == [shownBy |-> {"directory", "command"}, section |-> "servers"]
Detectors ==
    [name \in {"Claude Desktop", "Claude Code", "VS Code", "Cursor", "Windsurf", "JetBrains IDE",
               "Zed", "Continue.dev"} |->
        CASE name = "Claude Desktop" -> ClaudeDesktop
          [] name = "Claude Code" -> ClaudeCode
          [] name = "Cursor" -> Cursor
          [] name = "Windsurf" -> Windsurf
          [] name = "Zed" -> Zed
          [] name = "JetBrains IDE" -> JetBrains
          [] name = "Continue.dev" -> ContinueDev
          [] OTHER -> VsCode]
ASSUME ConfigFilesAssumption ==
    /\ Tools \subseteq DOMAIN Detectors /\ Settings \notin Tools /\ Ours \notin Siblings
    /\ Installer # Helper
    /\ \A d \in SUBSET (Siblings \cup {Ours}) : d \notin {Missing, Torn}

\* The configuration of a tool has its name; VS Code has two.
Files == Tools \cup {Settings}
Writers == {Installer, Helper}
\* The order of registerAllDetectors; removeConfigs comes to VS Code last.
ConfigureOrder == <<"Claude Desktop", "Claude Code", "VS Code", Settings, "Cursor", "Windsurf",
                    "JetBrains IDE", "Zed", "Continue.dev">>
RemovalOrder == <<"Claude Desktop", "Claude Code", "Cursor", "Windsurf", "JetBrains IDE", "Zed",
                  "Continue.dev", "VS Code", Settings>>
First(order, files) ==
    {f \in files : \E i \in DOMAIN order : order[i] = f /\ \A j \in 1..(i - 1) : order[j] \notin files}
Servers == Siblings \cup {Ours}
Documents == (SUBSET Servers) \cup {Missing, Torn}
SectionOf(f) == IF f = Settings THEN "mcp.servers" ELSE Detectors[f].section

NoEdit == [stage |-> "idle"]
Edits == [stage : {"read", "opened", "written"}, file : Files, doc : SUBSET Servers,
          handle : {"none", "tmp", "file"}] \cup {NoEdit}

VARIABLES
    config,      \* the files
    tmp,         \* <file>.tmp of each
    edit,        \* what each writer is doing
    recent,      \* servers a tool listed or dropped since the edits of the file began
    overlap      \* files two writers are at work on at once
configVars == <<config, tmp, edit, recent, overlap>>

ConfigTypeOK ==
    /\ config \in [Files -> Documents] /\ tmp \in [Files -> Documents]
    /\ edit \in [Writers -> Edits]
    /\ recent \in [Files -> SUBSET Siblings] /\ overlap \subseteq Files

ConfigInit ==
    /\ tmp = [f \in Files |-> Missing]
    /\ edit = [w \in Writers |-> NoEdit]
    /\ recent = [f \in Files |-> {}]
    /\ overlap = {}

Entries(d) == IF d \in {Missing, Torn} THEN {} ELSE d
Busy(w) == edit[w].stage # "idle"

\* (mutant: the entry is written over the file, not into it)
Overwritten(d) == {Ours}
\* deepMerge and its like: the siblings stay.
Merged(d) == Entries(d) \cup {Ours}
\* removeConfigEntry knows two sections, removeMcpJsonEntry VS Code's.
\* (mutant: VS Code is left to removeConfigEntry)
KnownSection(f) == SectionOf(f) \in {"mcpServers", "mcp.servers"}
Removable(f) == SectionOf(f) \in {"mcpServers", "mcp.servers", "servers"}
Stripped(d) == d \ {Ours}

Added(f) == config[f] # Torn
HasOurs(f) == config[f] \notin {Missing, Torn} /\ Removable(f) /\ Ours \in config[f]

(***************************************************************************)
(* An edit's steps.                                                        *)
(***************************************************************************)
Reads(w, f, doc) ==
    /\ ~Busy(w)
    /\ edit' = [edit EXCEPT ![w] = [stage |-> "read", file |-> f, doc |-> doc, handle |-> "none"]]
    /\ overlap' = IF \E v \in Writers : Busy(v) /\ edit[v].file = f
                  THEN overlap \cup {f} ELSE overlap
    /\ UNCHANGED <<config, tmp, recent>>

\* writeFileSync opens and truncates before it writes.
Opens(w) ==
    /\ edit[w].stage = "read"
    /\ edit' = [edit EXCEPT ![w].stage = "opened", ![w].handle = "tmp"]
    /\ tmp' = [tmp EXCEPT ![edit[w].file] = Torn]
    /\ UNCHANGED <<config, recent, overlap>>

\* Two writers' texts in one file leave the end of the longer one.
Writes(w) ==
    LET f == edit[w].file
        there == IF edit[w].handle = "tmp" THEN tmp[f] ELSE config[f] IN
    /\ edit[w].stage = "opened"
    /\ edit' = [edit EXCEPT ![w].stage = "written"]
    /\ \E text \in IF there = Torn THEN {edit[w].doc} ELSE {edit[w].doc, Torn} :
         IF edit[w].handle = "tmp"
         THEN tmp' = [tmp EXCEPT ![f] = text] /\ UNCHANGED config
         ELSE config' = [config EXCEPT ![f] = text] /\ UNCHANGED tmp
    /\ UNCHANGED <<recent, overlap>>

\* The writer is through with the file.  What it left in <file>.tmp the next
\* edit truncates, unless another writer is at it now.
Ended(w, f, others) ==
    /\ edit' = [others EXCEPT ![w] = NoEdit]
    /\ IF \E v \in Writers \ {w} : Busy(v) /\ edit[v].file = f
       THEN UNCHANGED <<recent, overlap>>
       ELSE recent' = [recent EXCEPT ![f] = {}] /\ overlap' = overlap \ {f}

\* renameSync takes whatever the name stands for; it fails when nothing does.
Renames(w) ==
    LET f == edit[w].file
        follow(v) == IF Busy(v) /\ edit[v].file = f /\ edit[v].handle = "tmp"
                     THEN [edit[v] EXCEPT !.handle = "file"] ELSE edit[v] IN
    /\ edit[w].stage = "written"
    /\ IF tmp[f] = Missing
       THEN UNCHANGED <<config, tmp>> /\ Ended(w, f, edit)
       ELSE /\ config' = [config EXCEPT ![f] = tmp[f]]
            /\ tmp' = [tmp EXCEPT ![f] = Missing]
            /\ Ended(w, f, [v \in Writers |-> follow(v)])

\* readFileSync, copyFileSync, writeFileSync or renameSync throws, or the
\* process dies.
Stops(w) ==
    LET f == edit[w].file
        left == IF \E v \in Writers \ {w} : Busy(v) /\ edit[v].file = f THEN tmp[f] ELSE Missing IN
    /\ Ended(w, f, edit)
    /\ tmp' = [tmp EXCEPT ![f] = left]
    /\ UNCHANGED config

\* The AI tool saves its own settings, whole: it lists a server of the user,
\* or drops one, ours too.  A save while nobody edits the file makes no
\* difference to an edit and is left out.
ToolSaves(t) ==
    /\ \E w \in Writers : Busy(w) /\ edit[w].file = t
    /\ config[t] \notin {Missing, Torn}
    /\ \/ \E s \in Siblings \ config[t] :
            /\ config' = [config EXCEPT ![t] = @ \cup {s}]
            /\ recent' = [recent EXCEPT ![t] = @ \cup {s}]
       \/ \E s \in config[t] :
            /\ config' = [config EXCEPT ![t] = @ \ {s}]
            /\ recent' = [recent EXCEPT ![t] = @ \cup ({s} \ {Ours})]
    /\ UNCHANGED <<tmp, edit, overlap>>

(***************************************************************************)
(* EditsKeepOthers: no step of an edit takes a server of the user out of   *)
(* the file, however two writers' steps and their crashes alternate,       *)
(* except those the tool itself listed or dropped while the file was being *)
(* edited (mergeConfig, removeConfigEntry, atomicWriteJson,                *)
(* repairClaudeCodeRegistration).  Two writers whose texts mix can leave a *)
(* file no one can parse; one alone never does.                            *)
(***************************************************************************)
EditsKeepOthers ==
    [][\A f \in Files :
         config'[f] # config[f] /\ edit' # edit /\ (f \notin overlap \/ config'[f] # Torn)
         => Entries(config[f]) \ (Entries(config'[f]) \cup {Ours}) \subseteq recent[f]]_configVars
=============================================================================
