--------------------------- MODULE Installer_proofs ---------------------------
(***************************************************************************)
(* Proofs about Installer, for any set of AI tools, of the user's servers  *)
(* and of browsers, and any number of runs, retries, refused system calls, *)
(* saves and repairs: the executables survive, edits keep the servers of   *)
(* the user, and an uninstall without errors is clean.                     *)
(***************************************************************************)
EXTENDS Installer, TLAPS

-----------------------------------------------------------------------------
(***************************************************************************)
(* The configuration files.                                                *)
(***************************************************************************)

\* As long as no other writer has been at the file, <file>.tmp is the edit's own.
EditAlone(w) ==
    LET f == edit[w].file
    IN  f \notin overlap =>
          /\ edit[w].stage = "opened" => edit[w].handle = "tmp" /\ tmp[f] = Torn
          /\ edit[w].stage = "written" => edit[w].handle = "tmp" /\ tmp[f] = edit[w].doc

\* Two writers at one file are an overlap, and an overlap lasts as long as one
\* of them is there.
OverlapsKnown ==
    /\ \A v, w \in Writers :
          v # w /\ Busy(v) /\ Busy(w) /\ edit[v].file = edit[w].file => edit[w].file \in overlap
    /\ \A f \in overlap : \E w \in Writers : Busy(w) /\ edit[w].file = f

\* The texts of a file that a writer holds or the disk does.
Held(text, f) ==
    \/ \E w \in Writers : Busy(w) /\ edit[w].file = f /\ text = edit[w].doc
    \/ config[f] # Torn /\ text = Entries(config[f])
    \/ tmp[f] \notin {Missing, Torn} /\ text = tmp[f]

\* Two of them differ in our entry and in what the tool listed or dropped since
\* the edits began, in nothing else: whichever ends up in the file loses nothing.
Agree(f) ==
    \A one, other \in SUBSET Servers :
        Held(one, f) /\ Held(other, f) => one \ (other \cup {Ours}) \subseteq recent[f]

\* Only an edit leaves a <file>.tmp.
Attended(f) == tmp[f] # Missing => \E w \in Writers : Busy(w) /\ edit[w].file = f

EditInv ==
    /\ OverlapsKnown
    /\ \A w \in Writers : Busy(w) => EditAlone(w)
    /\ \A f \in Files : Agree(f) /\ Attended(f)

\* What the installer and the helper make of a file differs in our entry only.
SameOthers(d, doc) == Entries(d) \ {Ours} = doc \ {Ours}

\* What may happen to the configuration files.
ConfigStep ==
    \/ \E w \in Writers, f \in Files, doc \in SUBSET Servers :
          config[f] # Torn /\ SameOthers(config[f], doc) /\ Reads(w, f, doc)
    \/ \E w \in Writers : Opens(w) \/ Writes(w) \/ Renames(w) \/ (Busy(w) /\ Stops(w))
    \/ \E t \in Files : ToolSaves(t)
    \/ UNCHANGED configVars

\* No edit begins: a writer that is busy was, with the same file and document.
GoesOn ==
    /\ \A v \in Writers :
          edit'[v].stage # "idle" =>
             Busy(v) /\ edit'[v].file = edit[v].file /\ edit'[v].doc = edit[v].doc
    /\ overlap' \subseteq overlap

EditRecord(stage, file, doc, handle) ==
    [stage |-> stage, file |-> file, doc |-> doc, handle |-> handle]

\* A writer that is busy has a file and a document.
LEMMA BusyEdit ==
    ASSUME ConfigTypeOK, NEW w \in Writers
    PROVE  /\ Busy(w) => /\ edit[w].stage \in {"read", "opened", "written"}
                         /\ edit[w].file \in Files /\ edit[w].doc \in SUBSET Servers
                         /\ edit[w].handle \in {"none", "tmp", "file"}
                         /\ edit[w] = EditRecord(edit[w].stage, edit[w].file, edit[w].doc,
                                                 edit[w].handle)
           /\ ~Busy(w) => edit[w] = NoEdit
<1>1. edit[w] \in Edits
  BY DEF ConfigTypeOK
<1>2. CASE edit[w] = NoEdit
  BY <1>2 DEF Busy, NoEdit
<1>3. CASE edit[w] \in [stage : {"read", "opened", "written"}, file : Files,
                        doc : SUBSET Servers, handle : {"none", "tmp", "file"}]
  BY <1>3 DEF Busy, EditRecord
<1> QED BY <1>1, <1>2, <1>3 DEF Edits

\* A record of an edit is one.
LEMMA EditRecordType ==
    ASSUME NEW stage \in {"read", "opened", "written"}, NEW f \in Files,
           NEW doc \in SUBSET Servers, NEW handle \in {"none", "tmp", "file"}
    PROVE  /\ EditRecord(stage, f, doc, handle) \in Edits /\ NoEdit \in Edits
           /\ EditRecord(stage, f, doc, handle).stage = stage
           /\ EditRecord(stage, f, doc, handle).file = f
           /\ EditRecord(stage, f, doc, handle).doc = doc
           /\ EditRecord(stage, f, doc, handle).handle = handle
           /\ NoEdit.stage = "idle"
BY DEF EditRecord, Edits, NoEdit

\* What each step of an edit does to the record of its writer.
LEMMA EditFields ==
    ASSUME ConfigTypeOK, NEW w \in Writers
    PROVE  /\ \A f, doc : Reads(w, f, doc) =>
                edit' = [edit EXCEPT ![w] = EditRecord("read", f, doc, "none")]
           /\ Opens(w) =>
                edit' = [edit EXCEPT ![w] = EditRecord("opened", edit[w].file, edit[w].doc, "tmp")]
           /\ Writes(w) =>
                edit' = [edit EXCEPT ![w] = EditRecord("written", edit[w].file, edit[w].doc,
                                                       edit[w].handle)]
<1>1. ASSUME NEW f, NEW doc, Reads(w, f, doc)
      PROVE  edit' = [edit EXCEPT ![w] = EditRecord("read", f, doc, "none")]
  BY <1>1, Zenon DEF Reads, EditRecord
<1> DEFINE e == edit[w]
<1>2. ASSUME Opens(w)
      PROVE  edit' = [edit EXCEPT ![w] = EditRecord("opened", e.file, e.doc, "tmp")]
  <2>1. e = EditRecord(e.stage, e.file, e.doc, e.handle)
    BY <1>2, BusyEdit DEF Opens, Busy
  <2>2. [e EXCEPT !.stage = "opened"] = EditRecord("opened", e.file, e.doc, e.handle)
    BY <2>1 DEF EditRecord
  <2>3. [EditRecord("opened", e.file, e.doc, e.handle) EXCEPT !.handle = "tmp"]
           = EditRecord("opened", e.file, e.doc, "tmp")
    BY DEF EditRecord
  <2>4. edit' = [edit EXCEPT ![w] = [[e EXCEPT !.stage = "opened"] EXCEPT !.handle = "tmp"]]
    BY <1>2 DEF Opens, ConfigTypeOK
  <2> QED BY <2>2, <2>3, <2>4, Zenon
<1>3. ASSUME Writes(w)
      PROVE  edit' = [edit EXCEPT ![w] = EditRecord("written", e.file, e.doc, e.handle)]
  <2>1. e = EditRecord(e.stage, e.file, e.doc, e.handle)
    BY <1>3, BusyEdit DEF Writes, Busy
  <2>2. [e EXCEPT !.stage = "written"] = EditRecord("written", e.file, e.doc, e.handle)
    BY <2>1 DEF EditRecord
  <2>3. edit' = [edit EXCEPT ![w] = [e EXCEPT !.stage = "written"]]
    BY <1>3 DEF Writes, ConfigTypeOK
  <2> QED BY <2>2, <2>3, Zenon
<1> QED BY <1>1, <1>2, <1>3

\* A step of writer w at file f leaves the other writers and the other files
\* alone, except that a rename takes <file>.tmp from under them.
AtFile(w, f) ==
    /\ \A v \in Writers \ {w} :
          /\ edit'[v] \in Edits /\ edit'[v].stage = edit[v].stage
          /\ Busy(v) => edit'[v].file = edit[v].file /\ edit'[v].doc = edit[v].doc
          /\ Busy(v) /\ edit[v].file # f => edit'[v] = edit[v]
    /\ \A g \in Files \ {f} :
          /\ config'[g] = config[g] /\ tmp'[g] = tmp[g] /\ recent'[g] = recent[g]
          /\ g \in overlap' <=> g \in overlap

Another(w, f) == \E v \in Writers \ {w} : Busy(v) /\ edit[v].file = f

\* What is held of another file is not affected.
LEMMA OtherFilesAgree ==
    ASSUME EditInv, NEW w \in Writers, NEW f \in Files, AtFile(w, f),
           Busy(w) => edit[w].file = f,
           edit'[w].stage # "idle" => edit'[w].file = f,
           NEW g \in Files \ {f}
    PROVE  Agree(g)' /\ Attended(g)'
<1>1. config'[g] = config[g] /\ tmp'[g] = tmp[g] /\ recent'[g] = recent[g]
  BY DEF AtFile
<1>2. ASSUME NEW v \in Writers
      PROVE  edit'[v].stage # "idle" /\ edit'[v].file = g
                => Busy(v) /\ edit[v].file = g /\ edit'[v].doc = edit[v].doc
  BY DEF AtFile, Busy
<1>3. ASSUME NEW v \in Writers, Busy(v), edit[v].file = g
      PROVE  edit'[v].stage # "idle" /\ edit'[v].file = g
  BY <1>3 DEF AtFile, Busy
<1>4. ASSUME NEW text \in SUBSET Servers, Held(text, g)'
      PROVE  Held(text, g)
  BY <1>1, <1>2, <1>4 DEF Held, Busy, Entries
<1>5. Agree(g) /\ Attended(g)
  BY DEF EditInv
<1>6. Agree(g)'
  BY <1>1, <1>4, <1>5 DEF Agree
<1>7. Attended(g)'
  BY <1>1, <1>3, <1>5 DEF Attended, Busy
<1> QED BY <1>6, <1>7

\* If such a step knows whether another is at the file, leaves what is held of
\* it in agreement and w, if alone there, its own <file>.tmp, the invariant is
\* kept.
LEMMA AtFileKeeps ==
    ASSUME ConfigTypeOK, EditInv, NEW w \in Writers, NEW f \in Files, AtFile(w, f),
           Busy(w) => edit[w].file = f,
           edit'[w].stage # "idle" => edit'[w].file = f,
           overlap' \subseteq Files,
           Another(w, f) => f \in overlap',
           f \in overlap' => Another(w, f) \/ edit'[w].stage # "idle",
           Agree(f)', Attended(f)',
           edit'[w].stage # "idle" /\ f \notin overlap' =>
              /\ edit'[w].stage = "opened" => edit'[w].handle = "tmp" /\ tmp'[f] = Torn
              /\ edit'[w].stage = "written" =>
                    edit'[w].handle = "tmp" /\ tmp'[f] = edit'[w].doc
    PROVE  EditInv'
<1>1. ASSUME NEW v \in Writers \ {w}
      PROVE  /\ edit'[v].stage # "idle" <=> Busy(v)
             /\ Busy(v) => edit[v].file \in Files
  BY BusyEdit DEF AtFile, Busy
<1>2. ASSUME NEW u \in Writers, NEW v \in Writers, u # v,
             edit'[u].stage # "idle", edit'[v].stage # "idle", edit'[u].file = edit'[v].file
      PROVE  edit'[v].file \in overlap'
  <2>1. CASE u = w
    <3>1. edit'[u].file = f /\ v \in Writers \ {w}
      BY <1>2, <2>1
    <3>2. Busy(v) /\ edit[v].file = f
      BY <1>1, <1>2, <3>1 DEF AtFile
    <3> QED BY <1>2, <3>1, <3>2 DEF Another
  <2>2. CASE v = w
    <3>1. edit'[v].file = f /\ u \in Writers \ {w}
      BY <1>2, <2>2
    <3>2. Busy(u) /\ edit[u].file = f
      BY <1>1, <1>2, <3>1 DEF AtFile
    <3> QED BY <1>2, <3>1, <3>2 DEF Another
  <2>3. CASE u # w /\ v # w
    <3>1. /\ Busy(u) /\ Busy(v) /\ edit[u].file = edit[v].file /\ edit[v].file \in Files
          /\ edit'[v].file = edit[v].file
      BY <1>1, <1>2, <2>3 DEF AtFile
    <3>2. edit[v].file \in overlap
      BY <3>1, <1>2 DEF EditInv, OverlapsKnown
    <3>3. CASE edit[v].file = f
      BY <3>1, <3>3, <2>3 DEF Another
    <3>4. CASE edit[v].file # f
      BY <3>1, <3>2, <3>4 DEF AtFile
    <3> QED BY <3>3, <3>4
  <2> QED BY <2>1, <2>2, <2>3
<1>3. ASSUME NEW g \in overlap'
      PROVE  \E v \in Writers : edit'[v].stage # "idle" /\ edit'[v].file = g
  <2>1. CASE g = f /\ edit'[w].stage # "idle"
    BY <2>1
  <2>2. CASE g = f /\ Another(w, f)
    <3>1. PICK v \in Writers \ {w} : Busy(v) /\ edit[v].file = f
      BY <2>2 DEF Another
    <3> QED BY <3>1, <1>1, <2>2 DEF AtFile
  <2>3. CASE g # f
    <3>1. g \in overlap
      BY <2>3 DEF AtFile
    <3>2. PICK v \in Writers : Busy(v) /\ edit[v].file = g
      BY <3>1 DEF EditInv, OverlapsKnown
    <3>3. v # w
      BY <2>3, <3>2
    <3> QED BY <3>2, <3>3, <1>1 DEF AtFile
  <2> QED BY <2>1, <2>2, <2>3
<1>4. ASSUME NEW v \in Writers, edit'[v].stage # "idle"
      PROVE  EditAlone(v)'
  <2>1. CASE v = w
    BY <1>4, <2>1 DEF EditAlone
  <2>2. CASE v # w
    <3>1. Busy(v) /\ EditAlone(v) /\ edit[v].file \in Files /\ edit'[v].file = edit[v].file
      BY <1>1, <1>4, <2>2 DEF EditInv, AtFile
    <3>2. CASE edit[v].file = f
      <4>1. f \in overlap'
        BY <3>1, <3>2, <2>2 DEF Another
      <4> QED BY <4>1, <3>1, <3>2 DEF EditAlone
    <3>3. CASE edit[v].file # f
      <4> DEFINE g == edit[v].file
      <4>1. /\ edit'[v] = edit[v] /\ config'[g] = config[g] /\ tmp'[g] = tmp[g]
            /\ (g \in overlap' <=> g \in overlap)
        BY <3>1, <3>3, <2>2 DEF AtFile
      <4> QED BY <3>1, <4>1 DEF EditAlone
    <3> QED BY <3>2, <3>3
  <2> QED BY <2>1, <2>2
<1>5. OverlapsKnown'
  BY <1>2, <1>3 DEF OverlapsKnown, Busy
<1>6. \A g \in Files : Agree(g)' /\ Attended(g)'
  BY OtherFilesAgree
<1> QED BY <1>4, <1>5, <1>6 DEF EditInv, Busy

\* A document is a list of servers, or the file is missing or torn, never both.
LEMMA DocumentCases ==
    ASSUME ConfigTypeOK, NEW doc \in SUBSET Servers
    PROVE  /\ doc # Missing /\ doc # Torn /\ Entries(doc) = doc
           /\ doc \in Documents /\ Missing \in Documents /\ Torn \in Documents
           /\ \A f \in Files : Entries(config[f]) \in SUBSET Servers
BY ConfigFilesAssumption DEF Documents, Servers, Entries, ConfigTypeOK

\* Where everything held was held before, or is the new text of a writer that
\* agrees with the file, all agree.
LEMMA AgreeKeeps ==
    ASSUME NEW f \in Files, Agree(f), NEW doc \in SUBSET Servers, recent'[f] = recent[f],
           Held(doc, f)
              \/ (/\ config[f] # Torn /\ SameOthers(config[f], doc)
                  /\ Entries(config[f]) \in SUBSET Servers),
           \A text \in SUBSET Servers : Held(text, f)' => Held(text, f) \/ text = doc
    PROVE  Agree(f)'
<1>1. ASSUME NEW text \in SUBSET Servers, Held(text, f)
      PROVE  /\ text \ (doc \cup {Ours}) \subseteq recent[f]
             /\ doc \ (text \cup {Ours}) \subseteq recent[f]
  <2>1. CASE Held(doc, f)
    BY <1>1, <2>1 DEF Agree
  <2>2. CASE /\ config[f] # Torn /\ SameOthers(config[f], doc)
             /\ Entries(config[f]) \in SUBSET Servers
    <3>1. PICK d \in SUBSET Servers : d = Entries(config[f])
      BY <2>2
    <3>2. Held(d, f)
      BY <2>2, <3>1 DEF Held
    <3>3. text \ (d \cup {Ours}) \subseteq recent[f] /\ d \ (text \cup {Ours}) \subseteq recent[f]
      BY <1>1, <3>2 DEF Agree
    <3>4. d \ {Ours} = doc \ {Ours}
      BY <2>2, <3>1 DEF SameOthers
    <3> QED BY <3>3, <3>4
  <2> QED BY <2>1, <2>2
<1>2. ASSUME NEW one \in SUBSET Servers, NEW other \in SUBSET Servers,
             Held(one, f)', Held(other, f)'
      PROVE  one \ (other \cup {Ours}) \subseteq recent[f]
  <2>1. (Held(one, f) \/ one = doc) /\ (Held(other, f) \/ other = doc)
    BY <1>2
  <2>2. CASE one = doc
    BY <1>1, <2>1, <2>2
  <2>3. CASE other = doc
    BY <1>1, <2>1, <2>3
  <2>4. CASE Held(one, f) /\ Held(other, f)
    BY <2>4 DEF Agree
  <2> QED BY <2>1, <2>2, <2>3, <2>4
<1> QED BY <1>2 DEF Agree

\* Reading begins an edit (mergeConfig, removeConfigEntry, repairClaudeCodeRegistration).
LEMMA ReadsKeeps ==
    ASSUME ConfigTypeOK, EditInv, NEW w \in Writers, NEW f \in Files,
           NEW doc \in SUBSET Servers, config[f] # Torn, SameOthers(config[f], doc),
           Reads(w, f, doc)
    PROVE  ConfigTypeOK' /\ EditInv'
<1> DEFINE r == EditRecord("read", f, doc, "none")
<1>1. edit' = [edit EXCEPT ![w] = r]
  BY EditFields
<1>2. r \in Edits /\ r.stage = "read" /\ r.file = f /\ r.doc = doc
  BY EditRecordType
<1> HIDE DEF r
<1>3. edit \in [Writers -> Edits] /\ overlap \subseteq Files
  BY DEF ConfigTypeOK
<1>4. edit' \in [Writers -> Edits] /\ edit'[w] = r /\ \A v \in Writers \ {w} : edit'[v] = edit[v]
  BY <1>1, <1>2, <1>3
<1>5. /\ ~Busy(w) /\ config' = config /\ tmp' = tmp /\ recent' = recent
      /\ overlap' = IF \E v \in Writers : Busy(v) /\ edit[v].file = f
                    THEN overlap \cup {f} ELSE overlap
  BY DEF Reads
<1>6. (\E v \in Writers : Busy(v) /\ edit[v].file = f) <=> Another(w, f)
  BY <1>5 DEF Another
<1>7. overlap' = IF Another(w, f) THEN overlap \cup {f} ELSE overlap
  BY <1>5, <1>6
<1>8. ConfigTypeOK'
  BY <1>3, <1>4, <1>5, <1>7 DEF ConfigTypeOK
<1>9. AtFile(w, f)
  BY <1>3, <1>4, <1>5, <1>7 DEF AtFile
<1>10. f \in overlap' => Another(w, f) \/ edit'[w].stage # "idle"
  BY <1>2, <1>4
<1>11. (Another(w, f) => f \in overlap') /\ overlap' \subseteq Files
  BY <1>3, <1>7
<1>12. Agree(f)'
  <2>1. ASSUME NEW text \in SUBSET Servers, Held(text, f)'
        PROVE  Held(text, f) \/ text = doc
    BY <1>2, <1>4, <1>5, <2>1 DEF Held, Busy, Entries
  <2>2. Entries(config[f]) \in SUBSET Servers /\ Agree(f)
    BY DocumentCases DEF EditInv
  <2> QED BY <1>5, <2>1, <2>2, AgreeKeeps
<1>13. Attended(f)'
  BY <1>2, <1>4 DEF Attended, Busy
<1> QED BY <1>13, <1>2, <1>4, <1>5, <1>8, <1>9, <1>10, <1>11, <1>12, AtFileKeeps

\* Opening <file>.tmp truncates it.
LEMMA OpensKeeps ==
    ASSUME ConfigTypeOK, EditInv, NEW w \in Writers, Opens(w)
    PROVE  ConfigTypeOK' /\ EditInv' /\ GoesOn
<1> DEFINE f == edit[w].file
           r == EditRecord("opened", f, edit[w].doc, "tmp")
<1>1. Busy(w) /\ edit[w].stage = "read"
  BY DEF Opens, Busy
<1>2. f \in Files /\ edit[w].doc \in SUBSET Servers
  BY <1>1, BusyEdit
<1>3. edit' = [edit EXCEPT ![w] = r]
  BY EditFields
<1>4. /\ r \in Edits /\ r.stage = "opened" /\ r.file = f /\ r.doc = edit[w].doc
      /\ r.handle = "tmp"
  BY <1>2, EditRecordType
<1> HIDE DEF r
<1>5. /\ edit \in [Writers -> Edits] /\ overlap \subseteq Files
      /\ tmp \in [Files -> Documents] /\ config \in [Files -> Documents]
  BY DEF ConfigTypeOK
<1>6. edit' \in [Writers -> Edits] /\ edit'[w] = r /\ \A v \in Writers \ {w} : edit'[v] = edit[v]
  BY <1>3, <1>4, <1>5
<1>7. /\ tmp' = [tmp EXCEPT ![f] = Torn]
      /\ config' = config /\ recent' = recent /\ overlap' = overlap
  BY DEF Opens
<1>8. ConfigTypeOK'
  BY <1>2, <1>5, <1>6, <1>7, DocumentCases DEF ConfigTypeOK
<1>9. AtFile(w, f)
  BY <1>5, <1>6, <1>7 DEF AtFile
<1>10. EditAlone(w) /\ OverlapsKnown
  BY <1>1 DEF EditInv
<1>11. Another(w, f) => f \in overlap'
  BY <1>1, <1>7, <1>10 DEF Another, OverlapsKnown
<1>12. f \notin overlap' =>
          edit'[w].handle = "tmp" /\ tmp'[f] = Torn
  BY <1>2, <1>4, <1>5, <1>6, <1>7
<1>13. GoesOn
  BY <1>1, <1>4, <1>6, <1>7 DEF GoesOn, Busy
<1>14. Held(edit[w].doc, f) /\ Agree(f)
  BY <1>1, <1>2 DEF Held, EditInv
<1> HIDE DEF f
<1>15. PICK g \in Files : g = f
  BY <1>2
<1>16. Agree(g)'
  <2>1. ASSUME NEW text \in SUBSET Servers, Held(text, g)'
        PROVE  Held(text, g) \/ text = edit[w].doc
    <3>1. tmp'[g] = Torn /\ config'[g] = config[g]
      BY <1>5, <1>7, <1>15
    <3>2. \A v \in Writers \ {w} : edit'[v] = edit[v]
      BY <1>6
    <3>3. edit'[w].doc = edit[w].doc
      BY <1>4, <1>6
    <3> QED BY <2>1, <3>1, <3>2, <3>3 DEF Held, Busy, Entries
  <2> QED BY <1>2, <1>7, <1>14, <1>15, <2>1, AgreeKeeps
<1>17. Attended(g)'
  BY <1>4, <1>6, <1>15 DEF Attended, Busy
<1> QED BY <1>2, <1>4, <1>5, <1>6, <1>7, <1>8, <1>9, <1>11, <1>12, <1>13, <1>15, <1>16, <1>17,
           AtFileKeeps DEF f

\* What a step puts into a file is a text that was held of it, or, where two
\* writers are at work, torn.
FromHeld ==
    \A g \in Files : config'[g] # config[g] =>
        \/ Entries(config'[g]) \in SUBSET Servers /\ Held(Entries(config'[g]), g)
        \/ config'[g] = Torn /\ g \in overlap

\* What is written alone is the document of the edit.
LEMMA WritesKeeps ==
    ASSUME ConfigTypeOK, EditInv, NEW w \in Writers, Writes(w)
    PROVE  /\ ConfigTypeOK' /\ EditInv' /\ GoesOn /\ FromHeld
           /\ \A g \in Files : config'[g] # config[g] => g \in overlap
<1> DEFINE f == edit[w].file
           d == edit[w].doc
           h == edit[w].handle
           r == EditRecord("written", f, d, h)
<1>1. Busy(w) /\ edit[w].stage = "opened"
  BY DEF Writes, Busy
<1>2. f \in Files /\ d \in SUBSET Servers /\ h \in {"none", "tmp", "file"}
  BY <1>1, BusyEdit
<1>3. edit' = [edit EXCEPT ![w] = r]
  BY EditFields
<1>4. /\ r \in Edits /\ r.stage = "written" /\ r.file = f /\ r.doc = d /\ r.handle = h
  BY <1>2, EditRecordType
<1> HIDE DEF r
<1>5. /\ edit \in [Writers -> Edits] /\ overlap \subseteq Files
      /\ tmp \in [Files -> Documents] /\ config \in [Files -> Documents]
  BY DEF ConfigTypeOK
<1>6. edit' \in [Writers -> Edits] /\ edit'[w] = r /\ \A v \in Writers \ {w} : edit'[v] = edit[v]
  BY <1>3, <1>4, <1>5
<1>7. recent' = recent /\ overlap' = overlap
  BY DEF Writes
<1>8. EditAlone(w) /\ OverlapsKnown
  BY <1>1 DEF EditInv
<1>9. PICK text \in {d, Torn} :
         /\ (IF h = "tmp" THEN tmp[f] ELSE config[f]) = Torn => text = d
         /\ IF h = "tmp"
            THEN tmp' = [tmp EXCEPT ![f] = text] /\ UNCHANGED config
            ELSE config' = [config EXCEPT ![f] = text] /\ UNCHANGED tmp
  BY DEF Writes
<1>10. text \in Documents
  BY <1>2, DocumentCases
<1>11. /\ tmp' \in [Files -> Documents] /\ config' \in [Files -> Documents]
       /\ \A g \in Files \ {f} : tmp'[g] = tmp[g] /\ config'[g] = config[g]
  BY <1>5, <1>9, <1>10
<1>12. ConfigTypeOK'
  BY <1>6, <1>7, <1>11 DEF ConfigTypeOK
<1>13. AtFile(w, f)
  BY <1>5, <1>6, <1>7, <1>11 DEF AtFile
<1>14. Another(w, f) => f \in overlap'
  BY <1>1, <1>7, <1>8 DEF Another, OverlapsKnown
<1>15. ASSUME f \notin overlap
       PROVE  h = "tmp" /\ config' = config /\ tmp'[f] = d
  <2>1. h = "tmp" /\ tmp[f] = Torn
    BY <1>1, <1>8, <1>15 DEF EditAlone
  <2>2. text = d /\ tmp' = [tmp EXCEPT ![f] = text] /\ config' = config
    BY <2>1, <1>9
  <2> QED BY <2>1, <2>2, <1>2, <1>5, <1>7
<1>16. \A g \in Files : config'[g] # config[g] => g \in overlap
  BY <1>11, <1>15
<1>17. GoesOn
  BY <1>1, <1>4, <1>6, <1>7 DEF GoesOn, Busy
<1>18. Held(d, f) /\ Agree(f)
  BY <1>1, <1>2 DEF Held, EditInv
<1>19. d # Torn /\ d # Missing /\ Entries(d) = d
  BY <1>2, DocumentCases
<1>20. Busy(w)
  BY <1>1
<1> HIDE DEF f, d, h
<1>21. \/ config'[f] = config[f] /\ tmp'[f] \in {d, Torn}
       \/ tmp'[f] = tmp[f] /\ config'[f] \in {d, Torn}
  BY <1>2, <1>5, <1>9
<1>22. PICK g \in Files : g = f
  BY <1>2
<1>23. Agree(g)'
  <2>1. ASSUME NEW t \in SUBSET Servers, Held(t, g)'
        PROVE  Held(t, g) \/ t = d
    <3>1. CASE \E v \in Writers : edit'[v].stage # "idle" /\ edit'[v].file = g /\ t = edit'[v].doc
      BY <1>4, <1>6, <3>1 DEF Held, Busy
    <3>2. CASE config'[g] # Torn /\ t = Entries(config'[g])
      BY <1>19, <1>21, <1>22, <3>2 DEF Held
    <3>3. CASE tmp'[g] \notin {Missing, Torn} /\ t = tmp'[g]
      BY <1>21, <1>22, <3>3 DEF Held
    <3> QED BY <2>1, <3>1, <3>2, <3>3 DEF Held, Busy, Entries
  <2> QED BY <1>2, <1>7, <1>18, <1>22, <2>1, AgreeKeeps
<1>24. Attended(g)'
  BY <1>4, <1>6, <1>22 DEF Attended, Busy
<1>25. FromHeld
  <2> SUFFICES ASSUME NEW k \in Files, config'[k] # config[k]
               PROVE  \/ Entries(config'[k]) \in SUBSET Servers /\ Held(Entries(config'[k]), k)
                      \/ config'[k] = Torn /\ k \in overlap
    BY DEF FromHeld
  <2>1. k = f /\ k \in overlap
    BY <1>11, <1>16
  <2>2. config'[f] \in {d, Torn}
    BY <1>21, <2>1
  <2> QED BY <1>2, <1>18, <1>19, <2>1, <2>2
<1>26. EditInv'
  BY <1>2, <1>4, <1>5, <1>6, <1>7, <1>13, <1>14, <1>15, <1>20, <1>22, <1>23, <1>24, AtFileKeeps
     DEF f
<1> QED BY <1>12, <1>16, <1>17, <1>25, <1>26

\* An edit that ends leaves the file to the other writer, if there is one.
LEMMA EndedKeeps ==
    ASSUME ConfigTypeOK, EditInv, NEW w \in Writers, Busy(w),
           NEW others \in [Writers -> Edits], Ended(w, edit[w].file, others),
           \A v \in Writers \ {w} :
              /\ others[v].stage = edit[v].stage
              /\ Busy(v) => others[v].file = edit[v].file /\ others[v].doc = edit[v].doc
              /\ Busy(v) /\ edit[v].file # edit[w].file => others[v] = edit[v],
           config' \in [Files -> Documents], tmp' \in [Files -> Documents],
           \A g \in Files \ {edit[w].file} : config'[g] = config[g] /\ tmp'[g] = tmp[g],
           config'[edit[w].file] = config[edit[w].file]
              \/ config'[edit[w].file] = tmp[edit[w].file],
           tmp'[edit[w].file] = tmp[edit[w].file] \/ tmp'[edit[w].file] = Missing,
           config'[edit[w].file] # config[edit[w].file] => tmp[edit[w].file] # Missing,
           Another(w, edit[w].file) \/ tmp'[edit[w].file] = Missing
    PROVE  ConfigTypeOK' /\ EditInv' /\ GoesOn
<1> DEFINE f == edit[w].file
<1>1. f \in Files
  BY BusyEdit
<1>2. /\ overlap \subseteq Files /\ recent \in [Files -> SUBSET Siblings]
      /\ edit \in [Writers -> Edits]
  BY DEF ConfigTypeOK
<1>3. NoEdit \in Edits /\ NoEdit.stage = "idle"
  BY DEF Edits, NoEdit
<1>4. /\ edit' \in [Writers -> Edits] /\ edit'[w].stage = "idle"
      /\ \A v \in Writers \ {w} : edit'[v] = others[v]
  BY <1>3 DEF Ended
<1>5. Another(w, f) <=> \E v \in Writers \ {w} : Busy(v) /\ edit[v].file = f
  BY DEF Another
<1>6. /\ Another(w, f) => recent' = recent /\ overlap' = overlap
      /\ ~Another(w, f) => recent' = [recent EXCEPT ![f] = {}] /\ overlap' = overlap \ {f}
  BY <1>5 DEF Ended
<1>7. /\ recent' \in [Files -> SUBSET Siblings] /\ overlap' \subseteq Files
      /\ \A g \in Files \ {f} : recent'[g] = recent[g] /\ (g \in overlap' <=> g \in overlap)
  BY <1>2, <1>6
<1>8. ConfigTypeOK'
  BY <1>4, <1>7 DEF ConfigTypeOK
<1>9. AtFile(w, f)
  BY <1>4, <1>7 DEF AtFile
<1>10. Another(w, f) => f \in overlap'
  BY <1>6 DEF Another, EditInv, OverlapsKnown
<1>11. f \in overlap' => Another(w, f)
  BY <1>6
<1>12. GoesOn
  BY <1>4, <1>6 DEF GoesOn, Busy
<1>13. /\ \A v \in Writers \ {w} :
             /\ edit'[v].stage = edit[v].stage
             /\ Busy(v) => edit'[v].file = edit[v].file /\ edit'[v].doc = edit[v].doc
       /\ config[f] \in Documents /\ tmp[f] \in Documents
  BY <1>1, <1>4 DEF ConfigTypeOK
<1>14. /\ config'[f] = config[f] \/ (tmp[f] # Missing /\ config'[f] = tmp[f])
       /\ tmp'[f] = tmp[f] \/ tmp'[f] = Missing
       /\ Another(w, f) \/ tmp'[f] = Missing
  OBVIOUS
<1>15. Agree(f)
  BY <1>1 DEF EditInv
<1> HIDE DEF f
<1>16. PICK g \in Files : g = f
  BY <1>1
<1>17. CASE Another(w, f)
  <2>1. ASSUME NEW text \in SUBSET Servers, Held(text, g)'
        PROVE  Held(text, g)
    <3>1. CASE \E v \in Writers :
                  edit'[v].stage # "idle" /\ edit'[v].file = g /\ text = edit'[v].doc
      BY <1>4, <1>13, <3>1 DEF Held, Busy
    <3>2. CASE config'[g] # Torn /\ text = Entries(config'[g])
      BY <1>14, <1>16, <3>2 DEF Held, Entries
    <3>3. CASE tmp'[g] \notin {Missing, Torn} /\ text = tmp'[g]
      BY <1>14, <1>16, <3>3 DEF Held
    <3> QED BY <2>1, <3>1, <3>2, <3>3 DEF Held, Busy, Entries
  <2>2. recent'[g] = recent[g]
    BY <1>6, <1>17
  <2>3. Agree(g)'
    BY <1>15, <1>16, <2>1, <2>2 DEF Agree
  <2>4. Attended(g)'
    <3>1. PICK v \in Writers \ {w} : Busy(v) /\ edit[v].file = g
      BY <1>16, <1>17 DEF Another
    <3>2. edit'[v].stage # "idle" /\ edit'[v].file = g
      BY <1>13, <3>1 DEF Busy
    <3> QED BY <3>2 DEF Attended, Busy
  <2> QED BY <2>3, <2>4, <1>1, <1>4, <1>7, <1>8, <1>9, <1>10, <1>11, <1>12, <1>16, AtFileKeeps DEF f
<1>18. CASE ~Another(w, f)
  <2>1. ASSUME NEW text \in SUBSET Servers, Held(text, g)'
        PROVE  text = Entries(config'[g])
    <3>1. ~\E v \in Writers : edit'[v].stage # "idle" /\ edit'[v].file = g
      BY <1>4, <1>13, <1>16, <1>18 DEF Another, Busy
    <3>2. tmp'[g] = Missing
      BY <1>14, <1>16, <1>18
    <3> QED BY <2>1, <3>1, <3>2 DEF Held, Busy, Entries
  <2>2. Agree(g)'
    BY <2>1 DEF Agree
  <2>3. Attended(g)'
    BY <1>14, <1>16, <1>18 DEF Attended
  <2> QED BY <2>2, <2>3, <1>1, <1>4, <1>7, <1>8, <1>9, <1>10, <1>11, <1>12, <1>16, AtFileKeeps DEF f
<1> QED BY <1>17, <1>18

\* The rename puts in place what the edit wrote, if no other writer was there.
LEMMA RenamesKeeps ==
    ASSUME ConfigTypeOK, EditInv, NEW w \in Writers, Renames(w)
    PROVE  /\ ConfigTypeOK' /\ EditInv' /\ GoesOn /\ FromHeld
           /\ \A g \in Files \ {edit[w].file} : config'[g] = config[g]
           /\ edit[w].file \notin overlap => config'[edit[w].file] = edit[w].doc
<1> DEFINE f == edit[w].file
           follow(v) == IF Busy(v) /\ edit[v].file = f /\ edit[v].handle = "tmp"
                        THEN [edit[v] EXCEPT !.handle = "file"] ELSE edit[v]
           others == IF tmp[f] = Missing THEN edit ELSE [v \in Writers |-> follow(v)]
<1>1. Busy(w) /\ edit[w].stage = "written"
  BY DEF Renames, Busy
<1>2. f \in Files /\ edit[w].doc \in SUBSET Servers
  BY <1>1, BusyEdit
<1>3. /\ edit \in [Writers -> Edits]
      /\ tmp \in [Files -> Documents] /\ config \in [Files -> Documents]
  BY DEF ConfigTypeOK
<1>4. EditAlone(w)
  BY <1>1 DEF EditInv
<1>5. ASSUME NEW v \in Writers
      PROVE  /\ follow(v) \in Edits /\ follow(v).stage = edit[v].stage
             /\ Busy(v) => follow(v).file = edit[v].file /\ follow(v).doc = edit[v].doc
             /\ Busy(v) /\ edit[v].file # f => follow(v) = edit[v]
  <2> DEFINE e == edit[v]
  <2>1. CASE Busy(v) /\ e.file = f /\ e.handle = "tmp"
    <3>1. /\ e = EditRecord(e.stage, e.file, e.doc, e.handle)
          /\ e.stage \in {"read", "opened", "written"} /\ e.file \in Files
          /\ e.doc \in SUBSET Servers
      BY <2>1, BusyEdit
    <3>2. [e EXCEPT !.handle = "file"] = EditRecord(e.stage, e.file, e.doc, "file")
      BY <3>1 DEF EditRecord
    <3>3. follow(v) = EditRecord(e.stage, e.file, e.doc, "file")
      BY <2>1, <3>2
    <3> HIDE DEF follow, e
    <3>4. /\ follow(v) \in Edits /\ follow(v).stage = e.stage /\ follow(v).file = e.file
          /\ follow(v).doc = e.doc
      BY <3>1, <3>3, EditRecordType
    <3> QED BY <3>4, <2>1 DEF e
  <2>2. CASE ~(Busy(v) /\ e.file = f /\ e.handle = "tmp")
    <3>1. follow(v) = edit[v]
      BY <2>2
    <3> HIDE DEF follow
    <3> QED BY <3>1, <1>3
  <2> QED BY <2>1, <2>2
<1> HIDE DEF follow
<1>6. /\ others \in [Writers -> Edits]
      /\ \A v \in Writers \ {w} :
            /\ others[v].stage = edit[v].stage
            /\ Busy(v) => others[v].file = edit[v].file /\ others[v].doc = edit[v].doc
            /\ Busy(v) /\ edit[v].file # f => others[v] = edit[v]
  BY <1>3, <1>5
<1>7. /\ Ended(w, f, others)
      /\ tmp[f] = Missing => config' = config /\ tmp' = tmp
      /\ tmp[f] # Missing => /\ config' = [config EXCEPT ![f] = tmp[f]]
                             /\ tmp' = [tmp EXCEPT ![f] = Missing]
  <2>1. CASE tmp[f] = Missing
    BY <2>1 DEF Renames
  <2>2. CASE tmp[f] # Missing
    <3>1. others = [v \in Writers |-> follow(v)]
      BY <2>2
    <3>2. Ended(w, f, [v \in Writers |-> follow(v)])
      BY <2>2 DEF Renames, follow
    <3> QED BY <2>2, <3>1, <3>2 DEF Renames
  <2> QED BY <2>1, <2>2
<1> HIDE DEF others
<1>8. Missing \in Documents
  BY DEF Documents
<1>9. /\ config' \in [Files -> Documents] /\ tmp' \in [Files -> Documents]
      /\ \A g \in Files \ {f} : config'[g] = config[g] /\ tmp'[g] = tmp[g]
  BY <1>2, <1>3, <1>7, <1>8
<1>10. f \notin overlap => config'[f] = edit[w].doc
  <2>1. f \notin overlap => tmp[f] = edit[w].doc
    BY <1>1, <1>4 DEF EditAlone
  <2>2. edit[w].doc # Missing
    BY <1>2, DocumentCases
  <2> QED BY <2>1, <2>2, <1>2, <1>3, <1>7
<1>11. /\ tmp'[f] = Missing
       /\ config'[f] = config[f] \/ (config'[f] = tmp[f] /\ tmp[f] # Missing)
  BY <1>2, <1>3, <1>7
<1>12. FromHeld
  <2> SUFFICES ASSUME NEW g \in Files, config'[g] # config[g]
               PROVE  \/ Entries(config'[g]) \in SUBSET Servers /\ Held(Entries(config'[g]), g)
                      \/ config'[g] = Torn /\ g \in overlap
    BY DEF FromHeld
  <2>1. g = f /\ config'[f] = tmp[f] /\ tmp[f] # Missing /\ tmp[f] \in Documents
    BY <1>2, <1>3, <1>9, <1>11
  <2>2. CASE tmp[f] = Torn
    <3>1. edit[w].doc # Torn
      BY <1>2, DocumentCases
    <3> QED BY <1>10, <2>1, <2>2, <3>1
  <2>3. CASE tmp[f] # Torn
    BY <2>1, <2>3 DEF Held, Entries, Documents
  <2> QED BY <2>2, <2>3
<1>13. ConfigTypeOK' /\ EditInv' /\ GoesOn
  BY <1>1, <1>6, <1>7, <1>9, <1>11, EndedKeeps
<1> QED BY <1>9, <1>10, <1>12, <1>13

\* A writer that fails or dies leaves the file as it was.
LEMMA StopsKeeps ==
    ASSUME ConfigTypeOK, EditInv, NEW w \in Writers, Busy(w), Stops(w)
    PROVE  ConfigTypeOK' /\ EditInv' /\ GoesOn /\ config' = config
<1> DEFINE f == edit[w].file
<1>1. f \in Files
  BY BusyEdit
<1>2. /\ edit \in [Writers -> Edits]
      /\ tmp \in [Files -> Documents] /\ config \in [Files -> Documents]
      /\ Missing \in Documents
  BY DEF ConfigTypeOK, Documents
<1>3. PICK kept \in {tmp[f], Missing} : tmp' = [tmp EXCEPT ![f] = kept]
  BY DEF Stops
<1>4. config' = config /\ Ended(w, f, edit)
  BY DEF Stops
<1>5. /\ config' \in [Files -> Documents] /\ tmp' \in [Files -> Documents]
      /\ \A g \in Files \ {f} : config'[g] = config[g] /\ tmp'[g] = tmp[g]
  BY <1>1, <1>2, <1>3, <1>4
<1>6. /\ tmp'[f] = tmp[f] \/ tmp'[f] = Missing
      /\ Another(w, f) \/ tmp'[f] = Missing
  BY <1>1, <1>2 DEF Stops, Another
<1> QED BY <1>2, <1>4, <1>5, <1>6, EndedKeeps

\* What a tool saves during an edit is remembered, and what it drops was in the
\* file.
LEMMA ToolSavesKeeps ==
    ASSUME ConfigTypeOK, EditInv, NEW t \in Files, ToolSaves(t)
    PROVE  /\ ConfigTypeOK' /\ EditInv' /\ edit' = edit
           /\ config[t] \notin {Missing, Torn} /\ config[t] \in SUBSET Servers
           /\ \/ \E s \in Siblings : config' = [config EXCEPT ![t] = config[t] \cup {s}]
              \/ \E s \in Servers : config' = [config EXCEPT ![t] = config[t] \ {s}]
<1>1. /\ edit \in [Writers -> Edits] /\ recent \in [Files -> SUBSET Siblings]
      /\ tmp \in [Files -> Documents] /\ config \in [Files -> Documents]
  BY DEF ConfigTypeOK
<1>2. config[t] \notin {Missing, Torn} /\ tmp' = tmp /\ edit' = edit /\ overlap' = overlap
  BY DEF ToolSaves
<1>3. config[t] \in SUBSET Servers
  BY <1>1, <1>2 DEF Documents
<1>4. ASSUME NEW doc \in SUBSET Servers, NEW new \in SUBSET Siblings, recent[t] \subseteq new,
             doc \ config[t] \subseteq new \cup {Ours}, config[t] \ doc \subseteq new \cup {Ours},
             config' = [config EXCEPT ![t] = doc], recent' = [recent EXCEPT ![t] = new]
      PROVE  ConfigTypeOK' /\ EditInv'
  <2>1. doc \in Documents /\ Entries(doc) = doc /\ Entries(config[t]) = config[t]
    BY <1>3, DocumentCases
  <2>2. ConfigTypeOK'
    BY <1>1, <1>2, <1>4, <2>1 DEF ConfigTypeOK
  <2>3. OverlapsKnown'
    BY <1>2 DEF EditInv, OverlapsKnown, Busy
  <2>4. \A w \in Writers : Busy(w)' => EditAlone(w)'
    BY <1>2 DEF EditInv, EditAlone, Busy
  <2>5. /\ config'[t] = doc /\ recent'[t] = new
        /\ \A f \in Files \ {t} : config'[f] = config[f] /\ recent'[f] = recent[f]
    BY <1>1, <1>4
  <2>6. ASSUME NEW f \in Files \ {t}
        PROVE  Agree(f)'
    <3>1. \A text \in SUBSET Servers : Held(text, f)' => Held(text, f)
      BY <1>2, <2>5 DEF Held, Busy, Entries
    <3> QED BY <2>5, <3>1 DEF EditInv, Agree
  <2>7. Agree(t)'
    <3>1. Held(config[t], t) /\ Agree(t)
      BY <1>2, <2>1 DEF Held, EditInv
    <3>2. ASSUME NEW text \in SUBSET Servers, Held(text, t)'
          PROVE  Held(text, t) \/ text = doc
      BY <1>2, <2>1, <2>5, <3>2 DEF Held, Busy, Entries
    <3>3. ASSUME NEW text \in SUBSET Servers, Held(text, t)
          PROVE  text \ (doc \cup {Ours}) \subseteq new /\ doc \ (text \cup {Ours}) \subseteq new
      <4>1. /\ text \ (config[t] \cup {Ours}) \subseteq recent[t]
            /\ config[t] \ (text \cup {Ours}) \subseteq recent[t]
        BY <1>3, <3>1, <3>3 DEF Agree
      <4> QED BY <1>4, <4>1
    <3>4. ASSUME NEW one \in SUBSET Servers, NEW other \in SUBSET Servers,
                 Held(one, t)', Held(other, t)'
          PROVE  one \ (other \cup {Ours}) \subseteq new
      <4>1. (Held(one, t) \/ one = doc) /\ (Held(other, t) \/ other = doc)
        BY <3>2, <3>4
      <4>2. Held(one, t) /\ Held(other, t) => one \ (other \cup {Ours}) \subseteq new
        BY <1>4, <3>1 DEF Agree
      <4> QED BY <3>3, <4>1, <4>2
    <3> QED BY <2>5, <3>4 DEF Agree
  <2>8. \A f \in Files : Attended(f)'
    BY <1>2 DEF EditInv, Attended, Busy
  <2> QED BY <2>2, <2>3, <2>4, <2>6, <2>7, <2>8 DEF EditInv
<1>5. ASSUME NEW s \in Siblings,
             config' = [config EXCEPT ![t] = config[t] \cup {s}],
             recent' = [recent EXCEPT ![t] = recent[t] \cup {s}]
      PROVE  ConfigTypeOK' /\ EditInv'
  <2>1. /\ config[t] \cup {s} \in SUBSET Servers /\ recent[t] \cup {s} \in SUBSET Siblings
        /\ recent[t] \subseteq recent[t] \cup {s}
        /\ (config[t] \cup {s}) \ config[t] \subseteq (recent[t] \cup {s}) \cup {Ours}
        /\ config[t] \ (config[t] \cup {s}) \subseteq (recent[t] \cup {s}) \cup {Ours}
    BY <1>1, <1>3 DEF Servers
  <2> QED BY <1>4, <1>5, <2>1
<1>6. ASSUME NEW s \in config[t],
             config' = [config EXCEPT ![t] = config[t] \ {s}],
             recent' = [recent EXCEPT ![t] = recent[t] \cup ({s} \ {Ours})]
      PROVE  ConfigTypeOK' /\ EditInv'
  <2> DEFINE new == recent[t] \cup ({s} \ {Ours})
  <2>1. /\ config[t] \ {s} \in SUBSET Servers /\ new \in SUBSET Siblings
        /\ recent[t] \subseteq new
        /\ (config[t] \ {s}) \ config[t] \subseteq new \cup {Ours}
        /\ config[t] \ (config[t] \ {s}) \subseteq new \cup {Ours}
    BY <1>1, <1>3, <1>6 DEF Servers
  <2> QED BY <1>4, <1>6, <2>1
<1>7. \/ \E s \in Siblings : /\ config' = [config EXCEPT ![t] = config[t] \cup {s}]
                             /\ recent' = [recent EXCEPT ![t] = recent[t] \cup {s}]
      \/ \E s \in config[t] : /\ config' = [config EXCEPT ![t] = config[t] \ {s}]
                              /\ recent' = [recent EXCEPT ![t] = recent[t] \cup ({s} \ {Ours})]
  BY DEF ToolSaves
<1> QED BY <1>2, <1>3, <1>5, <1>6, <1>7

\* No step of an edit drops a server of the user from a file it leaves readable.
KeepsOthers ==
    \A f \in Files :
        config'[f] # config[f] /\ edit' # edit /\ (f \notin overlap \/ config'[f] # Torn)
        => Entries(config[f]) \ (Entries(config'[f]) \cup {Ours}) \subseteq recent[f]

\* A text that was held agrees with the file it replaces.
LEMMA HeldKeepsOthers ==
    ASSUME ConfigTypeOK, EditInv, FromHeld
    PROVE  KeepsOthers
<1> SUFFICES ASSUME NEW f \in Files, config'[f] # config[f],
                    f \notin overlap \/ config'[f] # Torn
             PROVE  Entries(config[f]) \ (Entries(config'[f]) \cup {Ours}) \subseteq recent[f]
  BY DEF KeepsOthers
<1>1. PICK new \in SUBSET Servers : new = Entries(config'[f]) /\ Held(new, f)
  BY DEF FromHeld
<1>2. PICK old \in SUBSET Servers : old = Entries(config[f])
  BY DocumentCases
<1>3. CASE config[f] = Torn
  BY <1>3 DEF Entries
<1>4. CASE config[f] # Torn
  <2>1. Held(old, f)
    BY <1>2, <1>4 DEF Held
  <2>2. old \ (new \cup {Ours}) \subseteq recent[f]
    BY <1>1, <2>1 DEF EditInv, Agree
  <2> QED BY <1>1, <1>2, <2>2
<1> QED BY <1>3, <1>4

\* Every step at the configuration files keeps the invariant, and what it writes
\* was held.
LEMMA ConfigStepKeeps ==
    ASSUME ConfigTypeOK, EditInv, ConfigStep
    PROVE  ConfigTypeOK' /\ EditInv' /\ KeepsOthers
<1>1. ASSUME NEW w \in Writers, NEW f \in Files, NEW doc \in SUBSET Servers,
             config[f] # Torn, SameOthers(config[f], doc), Reads(w, f, doc)
      PROVE  ConfigTypeOK' /\ EditInv' /\ KeepsOthers
  BY <1>1, ReadsKeeps DEF Reads, KeepsOthers
<1>2. ASSUME NEW w \in Writers, Opens(w)
      PROVE  ConfigTypeOK' /\ EditInv' /\ KeepsOthers
  BY <1>2, OpensKeeps DEF Opens, KeepsOthers
<1>3. ASSUME NEW w \in Writers, Writes(w)
      PROVE  ConfigTypeOK' /\ EditInv' /\ KeepsOthers
  BY <1>3, WritesKeeps, HeldKeepsOthers
<1>4. ASSUME NEW w \in Writers, Renames(w)
      PROVE  ConfigTypeOK' /\ EditInv' /\ KeepsOthers
  BY <1>4, RenamesKeeps, HeldKeepsOthers
<1>5. ASSUME NEW w \in Writers, Busy(w), Stops(w)
      PROVE  ConfigTypeOK' /\ EditInv' /\ KeepsOthers
  BY <1>5, StopsKeeps DEF KeepsOthers
<1>6. ASSUME NEW t \in Files, ToolSaves(t)
      PROVE  ConfigTypeOK' /\ EditInv' /\ KeepsOthers
  BY <1>6, ToolSavesKeeps DEF KeepsOthers
<1>7. CASE UNCHANGED configVars
  BY <1>7 DEF configVars, ConfigTypeOK, EditInv, OverlapsKnown, EditAlone, Agree, Attended,
     Held, Entries, Busy, KeepsOthers
<1> QED BY <1>1, <1>2, <1>3, <1>4, <1>5, <1>6, <1>7 DEF ConfigStep

\* What the installer and the helper write keeps the user's servers
\* (mergeConfig, removeConfigEntry).
LEMMA MergedKeeps ==
    ASSUME ConfigTypeOK, NEW f \in Files
    PROVE  /\ Merged(config[f]) \in SUBSET Servers
           /\ SameOthers(config[f], Merged(config[f]))
           /\ HasOurs(f) => /\ Stripped(config[f]) \in SUBSET Servers /\ config[f] # Torn
                            /\ SameOthers(config[f], Stripped(config[f]))
                            /\ Ours \notin Stripped(config[f])
<1>1. config[f] \in Documents
  BY DEF ConfigTypeOK
<1>2. Entries(config[f]) \in SUBSET Servers
  BY <1>1 DEF Entries, Documents
<1>3. HasOurs(f) => Entries(config[f]) = config[f]
  BY DEF HasOurs, Entries
<1> QED BY <1>2, <1>3 DEF Merged, Stripped, SameOthers, HasOurs, Servers

\* The configuration files change in no other way.
LEMMA NextConfig ==
    ASSUME ConfigTypeOK, Next
    PROVE  ConfigStep
<1>1. Installer \in Writers /\ Helper \in Writers
  BY DEF Writers
<1>2. ASSUME NEW f \in Files, Merges(f) \/ Strips(f)
      PROVE  ConfigStep
  <2>1. \/ Added(f) /\ Reads(Installer, f, Merged(config[f]))
        \/ HasOurs(f) /\ Reads(Installer, f, Stripped(config[f]))
        \/ UNCHANGED configVars
    BY <1>2 DEF Merges, Strips, Unedited
  <2> QED BY <2>1, <1>1, MergedKeeps DEF ConfigStep, Added
<1>3. ASSUME NEW f \in Files, Repairs(f)
      PROVE  ConfigStep
  <2>1. Added(f) /\ Reads(Helper, f, Merged(config[f]))
    BY <1>3 DEF Repairs
  <2> QED BY <2>1, <1>1, MergedKeeps DEF ConfigStep, Added
<1>4. CASE Edits1 \/ InstallerRenames
  BY <1>1, <1>4 DEF Edits1, InstallerRenames, ConfigStep
<1>5. ASSUME NEW w \in Writers, EditFails(w)
      PROVE  ConfigStep
  BY <1>5 DEF EditFails, ConfigStep
<1>6. CASE Dies
  BY <1>1, <1>6 DEF Dies, ConfigStep
<1>7. ASSUME NEW f \in Files, Saves(f)
      PROVE  ConfigStep
  BY <1>7 DEF Saves, ConfigStep
<1>8. CASE \/ \E u \in BOOLEAN : Starts(u)
           \/ Detects \/ Chooses \/ SweepsUp \/ Kills \/ Places
           \/ RegistersHost \/ FinishesRegistration
           \/ \E b \in Browsers : RegistersBrowser(b)
           \/ ChecksHealth \/ Discovers \/ Answers \/ Configures
           \/ UnregistersAutostart \/ RemovesBinaries \/ RemovesManifests
           \/ RemovesRegistryKey \/ ConfigsRemoved
           \/ \E b \in Browsers : Unregisters(b)
           \/ Uninstalled
           \/ \E b \in Binaries : ProcessStarts(b)
           \/ \E p \in Binaries \X {"target", "side"} : ProcessEnds(p)
  <2>1. UNCHANGED configVars
    BY <1>8, Zenon DEF Starts, Detects, Chooses, SweepsUp, Kills, Places, RegistersHost,
       FinishesRegistration, RegistersBrowser, ChecksHealth, Discovers, Answers, Configures,
       UnregistersAutostart, RemovesBinaries, RemovesManifests, RemovesRegistryKey,
       ConfigsRemoved, Unregisters, Uninstalled, ProcessStarts, ProcessEnds
  <2> QED BY <2>1 DEF ConfigStep
<1> QED BY <1>2, <1>3, <1>4, <1>5, <1>6, <1>7, <1>8 DEF Next

\* The files are typed, and each edit alone knows what it does, in every state.
LEMMA EditInvariant == Spec => [](ConfigTypeOK /\ EditInv)
<1>1. Init => ConfigTypeOK /\ EditInv
  <2> SUFFICES ASSUME Init
               PROVE  ConfigTypeOK /\ EditInv
    OBVIOUS
  <2>1. ConfigInit
    BY Zenon DEF Init
  <2>2. config \in [Files -> Documents]
    <3>1. /\ Siblings \in Documents /\ Siblings \cup {Ours} \in Documents
          /\ Missing \in Documents
      BY DEF Documents, Servers
    <3>2. \/ \E d \in {Missing, Siblings} : config = [f \in Files |-> d]
          \/ \E legacy \in {Siblings, Siblings \cup {Ours}} :
                config = [f \in Files |-> IF f = Settings THEN legacy
                                          ELSE Siblings \cup {Ours}]
      <4>1. PICK earlier \in EarlierRuns :
               IF earlier = "none"
               THEN \E d \in {Missing, Siblings} : config = [f \in Files |-> d]
               ELSE \E legacy \in {Siblings, Siblings \cup {Ours}} :
                       config = [f \in Files |-> IF f = Settings THEN legacy
                                                 ELSE Siblings \cup {Ours}]
        BY Zenon DEF Init
      <4> QED BY <4>1
    <3> QED BY <3>1, <3>2
  <2>3. NoEdit \in Edits /\ \A w \in Writers : ~Busy(w)
    BY <2>1 DEF ConfigInit, Edits, NoEdit, Busy
  <2>4. \A f \in Files : Agree(f) /\ Attended(f)
    <3>1. \A f \in Files : tmp[f] = Missing
      BY <2>1 DEF ConfigInit
    <3> QED BY <2>3, <3>1 DEF Agree, Attended, Held
  <2> QED BY <2>1, <2>2, <2>3, <2>4
      DEF ConfigInit, ConfigTypeOK, Documents, EditInv, OverlapsKnown
<1>2. ASSUME ConfigTypeOK, EditInv, [Next]_vars
      PROVE  ConfigTypeOK' /\ EditInv'
  <2>1. ConfigStep
    <3>1. CASE Next
      BY <1>2, <3>1, NextConfig
    <3>2. CASE UNCHANGED vars
      BY <3>2 DEF vars, ConfigStep
    <3> QED BY <1>2, <3>1, <3>2
  <2> QED BY <1>2, <2>1, ConfigStepKeeps
<1> QED BY <1>1, <1>2, PTL DEF Spec

\* No edit takes a server of the user out of a file, whatever other writer is at
\* it and wherever either process dies, but for those the tool itself listed or
\* dropped while the file was being edited; alone, it also leaves it readable.
THEOREM OthersAreKept == Spec => EditsKeepOthers
<1>1. ASSUME ConfigTypeOK, EditInv, [Next]_vars
      PROVE  [KeepsOthers]_configVars
  <2>1. CASE Next
    BY <1>1, <2>1, NextConfig, ConfigStepKeeps
  <2>2. CASE UNCHANGED vars
    BY <2>2 DEF vars
  <2> QED BY <1>1, <2>1, <2>2
<1>2. [][KeepsOthers]_configVars => EditsKeepOthers
  BY PTL DEF EditsKeepOthers, KeepsOthers
<1> QED BY <1>1, <1>2, EditInvariant, PTL DEF Spec

(***************************************************************************)
(* The executables (renameWithLockFallback, downloadOnce, withRetry).      *)
(***************************************************************************)
\* Between the two renames the old executable lies aside.
Aside == swap.step \in {"replace", "rollback"} => side[swap.b] > 0
DiskInv == BinaryTypeOK /\ Aside /\ BinarySurvives

\* A swap belongs to the step of the installer that places the executables.
Swapping == swap.step # "idle" => At("download", "place")

\* A swap that goes on to another step keeps its executable and attempt.
LEMMA GoesFields ==
    ASSUME BinaryTypeOK, NEW s \in Steps, Goes(s)
    PROVE  /\ swap'.step = s /\ swap'.b = swap.b /\ swap'.attempt = swap.attempt
           /\ swap' \in [step : Steps, b : Binaries, attempt : 0..MaxAttempts]
BY DEF Goes, BinaryTypeOK

\* A refused call is counted up to the bound.
LEMMA FaultsTyped ==
    ASSUME faults \in 0..MaxFaults, Faults
    PROVE  faults' \in 0..MaxFaults
BY BinarySwapAssumption DEF Faults

\* The temp file comes and goes; nothing else does.
LEMMA FetchKeeps ==
    ASSUME DiskInv, NEW s \in Steps, Goes(s), temp' \in [Binaries -> Contents],
           swap.step \notin {"replace", "rollback"}, s \notin {"replace", "rollback"},
           UNCHANGED <<diskVars, target, side, interrupted>>
    PROVE  DiskInv'
<1>1. /\ swap'.step = s /\ swap'.b = swap.b
      /\ swap' \in [step : Steps, b : Binaries, attempt : 0..MaxAttempts]
  BY GoesFields DEF DiskInv
<1>2. BinaryTypeOK'
  BY <1>1 DEF DiskInv, BinaryTypeOK, diskVars
<1>3. Aside' /\ BinarySurvives'
  BY <1>1 DEF DiskInv, Aside, BinarySurvives, diskVars
<1> QED BY <1>2, <1>3 DEF DiskInv

\* A swap goes on after a refused call, and no file was touched.
LEMMA RefusedKeeps ==
    ASSUME DiskInv, NEW s \in Steps, Goes(s), faults' \in 0..MaxFaults,
           swap.step \in {"replace", "rollback"} <=> s \in {"replace", "rollback"},
           UNCHANGED <<os, target, temp, side, held, owned, interrupted>>
    PROVE  DiskInv'
<1>1. /\ swap'.step = s /\ swap'.b = swap.b
      /\ swap' \in [step : Steps, b : Binaries, attempt : 0..MaxAttempts]
  BY GoesFields DEF DiskInv
<1>2. BinaryTypeOK'
  BY <1>1 DEF DiskInv, BinaryTypeOK
<1>3. Aside' /\ BinarySurvives'
  BY <1>1 DEF DiskInv, Aside, BinarySurvives
<1> QED BY <1>2, <1>3 DEF DiskInv

\* The new executable gets the name: it is there and whole, and the other one
\* is where it was.
LEMMA PlacedKeeps ==
    ASSUME DiskInv, Placed(swap.b), UNCHANGED <<os, side, held, faults>>
    PROVE  DiskInv'
<1>1. swap.b \in Binaries
  BY DEF DiskInv, BinaryTypeOK
<1>2. /\ swap'.step = "placed" /\ swap'.b = swap.b
      /\ swap' \in [step : Steps, b : Binaries, attempt : 0..MaxAttempts]
  BY GoesFields DEF DiskInv, Placed, Steps
<1>3. BinaryTypeOK'
  <2>1. target' \in [Binaries -> Contents] /\ temp' \in [Binaries -> Contents]
    BY <1>1 DEF DiskInv, BinaryTypeOK, Placed, Contents
  <2>2. owned' \subseteq Binaries /\ interrupted' \subseteq Binaries
    BY <1>1 DEF DiskInv, BinaryTypeOK, Placed
  <2> QED BY <1>2, <2>1, <2>2 DEF DiskInv, BinaryTypeOK
<1>4. Aside'
  BY <1>2 DEF Aside
<1>5. BinarySurvives'
  <2> SUFFICES ASSUME NEW b \in owned', target'[b] # "whole"
               PROVE  b \in interrupted'
    BY DEF BinarySurvives
  <2>1. b # swap.b
    BY <1>1 DEF Placed, DiskInv, BinaryTypeOK
  <2>2. b \in owned /\ target'[b] = target[b]
    BY <2>1, <1>1 DEF Placed, DiskInv, BinaryTypeOK
  <2> QED BY <2>1, <2>2 DEF DiskInv, BinarySurvives, Placed
<1> QED BY <1>3, <1>4, <1>5 DEF DiskInv

\* The first rename takes the name, finds the old executable locked, or fails.
LEMMA Renames1Keeps ==
    ASSUME DiskInv, Renames1
    PROVE  DiskInv'
<1>1. CASE Placed(swap.b) /\ UNCHANGED faults
  BY <1>1, PlacedKeeps DEF Renames1
<1>2. CASE /\ UNCHANGED <<target, temp, owned, interrupted, faults>>
           /\ Goes("aside")
  <2>1. faults' \in 0..MaxFaults
    BY <1>2 DEF DiskInv, BinaryTypeOK
  <2> QED BY <1>2, <2>1, RefusedKeeps DEF Renames1, Steps
<1>3. CASE Faults /\ UNCHANGED <<target, temp, owned, interrupted>> /\ Goes("failed")
  <2>1. faults' \in 0..MaxFaults
    BY <1>3, FaultsTyped DEF DiskInv, BinaryTypeOK
  <2> QED BY <1>3, <2>1, RefusedKeeps DEF Renames1, Steps
<1> QED BY <1>1, <1>2, <1>3 DEF Renames1

\* The old executable moves aside: it is there under the other name.
LEMMA MovesAsideKeeps ==
    ASSUME DiskInv, MovesAside
    PROVE  DiskInv'
<1>0. swap.b \in Binaries /\ swap.step = "aside"
  BY DEF DiskInv, BinaryTypeOK, MovesAside
<1>1. CASE /\ side' = [side EXCEPT ![swap.b] = @ + 1] /\ UNCHANGED faults
           /\ target' = [target EXCEPT ![swap.b] = "absent"]
           /\ held' = (held \ {<<swap.b, "target">>}) \cup {<<swap.b, "side">>}
           /\ Goes("replace")
  <2>1. /\ swap'.step = "replace" /\ swap'.b = swap.b
        /\ swap' \in [step : Steps, b : Binaries, attempt : 0..MaxAttempts]
    BY <1>1, GoesFields DEF DiskInv, Steps
  <2>2. /\ side' \in [Binaries -> Nat] /\ target' \in [Binaries -> Contents]
        /\ side'[swap.b] > 0
    BY <1>0, <1>1 DEF DiskInv, BinaryTypeOK, Contents
  <2>3. held' \subseteq Binaries \X {"target", "side"}
    BY <1>0, <1>1 DEF DiskInv, BinaryTypeOK
  <2>4. BinaryTypeOK' /\ Aside'
    BY <1>1, <2>1, <2>2, <2>3 DEF DiskInv, BinaryTypeOK, MovesAside, Aside
  <2>5. BinarySurvives'
    <3> SUFFICES ASSUME NEW b \in owned', target'[b] # "whole"
                 PROVE  (b = swap.b /\ side'[b] > 0) \/ b \in interrupted'
      BY <2>1 DEF BinarySurvives
    <3>1. CASE b = swap.b
      BY <2>2, <3>1
    <3>2. CASE b # swap.b
      <4>1. target'[b] = target[b] /\ side'[b] = side[b] /\ b \in owned
        BY <1>0, <1>1, <3>2 DEF MovesAside, DiskInv, BinaryTypeOK
      <4> QED BY <4>1, <1>0, <3>2 DEF DiskInv, BinarySurvives, MovesAside
    <3> QED BY <3>1, <3>2
  <2> QED BY <2>4, <2>5 DEF DiskInv
<1>2. CASE Faults /\ Goes("failed") /\ UNCHANGED <<target, side, held>>
  <2>1. faults' \in 0..MaxFaults
    BY <1>2, FaultsTyped DEF DiskInv, BinaryTypeOK
  <2> QED BY <1>0, <1>2, <2>1, RefusedKeeps DEF MovesAside, Steps
<1> QED BY <1>1, <1>2 DEF MovesAside

\* The second rename succeeds, or the old one is to be put back.
LEMMA ReplacesKeeps ==
    ASSUME DiskInv, Replaces
    PROVE  DiskInv'
<1>1. CASE Placed(swap.b) /\ UNCHANGED faults
  BY <1>1, PlacedKeeps DEF Replaces
<1>2. CASE Faults /\ Goes("rollback") /\ UNCHANGED <<target, temp, owned, interrupted>>
  <2>1. faults' \in 0..MaxFaults
    BY <1>2, FaultsTyped DEF DiskInv, BinaryTypeOK
  <2> QED BY <1>2, <2>1, RefusedKeeps DEF Replaces, Steps
<1> QED BY <1>1, <1>2 DEF Replaces

\* The old executable is put back; where that fails too, it stays aside and
\* the swap counts as cut short.
LEMMA RollsBackKeeps ==
    ASSUME DiskInv, RollsBack
    PROVE  DiskInv'
<1>0. swap.b \in Binaries /\ side[swap.b] \in Nat /\ side[swap.b] > 0
  BY DEF DiskInv, BinaryTypeOK, RollsBack, Aside
<1>1. /\ swap'.step = "failed" /\ swap'.b = swap.b
      /\ swap' \in [step : Steps, b : Binaries, attempt : 0..MaxAttempts]
  BY GoesFields DEF DiskInv, Steps, RollsBack
<1>2. CASE PutBack(swap.b) /\ UNCHANGED <<faults, interrupted>>
  <2>1. target' \in [Binaries -> Contents] /\ side' \in [Binaries -> Nat]
    BY <1>0, <1>2 DEF DiskInv, BinaryTypeOK, Contents, PutBack
  <2>2. held' \subseteq Binaries \X {"target", "side"}
    BY <1>0, <1>2 DEF DiskInv, BinaryTypeOK, PutBack
  <2>3. BinaryTypeOK' /\ Aside'
    BY <1>1, <1>2, <2>1, <2>2 DEF DiskInv, BinaryTypeOK, RollsBack, Aside
  <2>4. BinarySurvives'
    <3> SUFFICES ASSUME NEW b \in owned', target'[b] # "whole"
                 PROVE  b \in interrupted'
      BY DEF BinarySurvives
    <3>1. b # swap.b
      BY <1>0, <1>2 DEF PutBack, DiskInv, BinaryTypeOK
    <3>2. target'[b] = target[b] /\ b \in owned
      BY <1>0, <1>2, <3>1 DEF PutBack, DiskInv, BinaryTypeOK, RollsBack
    <3> QED BY <1>2, <3>1, <3>2 DEF DiskInv, BinarySurvives
  <2> QED BY <2>3, <2>4 DEF DiskInv
<1>3. CASE /\ Faults /\ interrupted' = interrupted \cup {swap.b}
           /\ UNCHANGED <<target, side, held>>
  <2>1. faults' \in 0..MaxFaults
    BY <1>3, FaultsTyped DEF DiskInv, BinaryTypeOK
  <2>2. BinaryTypeOK' /\ Aside'
    BY <1>0, <1>1, <1>3, <2>1 DEF DiskInv, BinaryTypeOK, RollsBack, Aside
  <2>3. BinarySurvives'
    BY <1>0, <1>3 DEF DiskInv, BinarySurvives, RollsBack
  <2> QED BY <2>2, <2>3 DEF DiskInv
<1> QED BY <1>2, <1>3 DEF RollsBack

\* Another attempt, or none: only the temp file is removed.
LEMMA RetriesKeeps ==
    ASSUME DiskInv, NEW once, Retries(once)
    PROVE  DiskInv'
<1>0. /\ swap.step = "failed" /\ swap.b \in Binaries /\ swap.attempt \in 0..MaxAttempts
      /\ swap \in [step : Steps, b : Binaries, attempt : 0..MaxAttempts]
      /\ temp \in [Binaries -> Contents]
  BY DEF DiskInv, BinaryTypeOK, Retries
<1>1. CASE /\ swap.attempt < MaxAttempts
           /\ swap' = [swap EXCEPT !.step = "fetch", !.attempt = @ + 1]
           /\ temp' = [temp EXCEPT ![swap.b] = "absent"]
  <2>1. temp' \in [Binaries -> Contents]
    BY <1>0, <1>1 DEF Contents
  <2>2. swap.attempt + 1 \in 0..MaxAttempts
    BY <1>0, <1>1, BinarySwapAssumption
  <2>3. /\ swap' \in [step : Steps, b : Binaries, attempt : 0..MaxAttempts]
        /\ swap'.step = "fetch" /\ swap'.b = swap.b
    BY <1>0, <1>1, <2>2 DEF Steps
  <2>4. BinaryTypeOK'
    BY <2>1, <2>3 DEF DiskInv, BinaryTypeOK, Retries, diskVars
  <2>5. Aside' /\ BinarySurvives'
    BY <1>0, <2>3 DEF DiskInv, Aside, BinarySurvives, Retries, diskVars
  <2> QED BY <2>4, <2>5 DEF DiskInv
<1>2. CASE Goes("gaveUp") /\ temp' = [b \in Binaries |-> "absent"]
  <2>1. temp' \in [Binaries -> Contents]
    BY <1>2 DEF Contents
  <2> QED BY <1>0, <1>2, <2>1, FetchKeeps DEF Retries, Steps
<1> QED BY <1>1, <1>2 DEF Retries

\* No step of a swap loses an executable.
LEMMA SwapStepsKeep ==
    ASSUME DiskInv, NEW once, SwapSteps(once)
    PROVE  DiskInv'
<1>0. swap.b \in Binaries /\ temp \in [Binaries -> Contents]
  BY DEF DiskInv, BinaryTypeOK
<1>1. CASE Fetches
  <2>1. temp' \in [Binaries -> Contents]
    BY <1>0, <1>1 DEF Fetches, Contents
  <2> QED BY <1>1, <2>1, FetchKeeps DEF Fetches, Steps
<1>2. CASE Fetched
  <2>1. temp' \in [Binaries -> Contents]
    BY <1>0, <1>2 DEF Fetched, Contents
  <2> QED BY <1>2, <2>1, FetchKeeps DEF Fetched, Steps
<1>3. CASE FetchFails
  <2>1. temp' \in [Binaries -> Contents]
    BY <1>0, <1>3 DEF FetchFails
  <2> QED BY <1>3, <2>1, FetchKeeps DEF FetchFails, Steps
<1> QED BY <1>1, <1>2, <1>3, Renames1Keeps, MovesAsideKeeps, ReplacesKeeps, RollsBackKeeps,
           RetriesKeeps DEF SwapSteps

\* What is aside and in nobody's use is removed: no swap is under way then, so
\* nothing relies on it that the cut-short swaps do not already answer for.
LEMMA SweepsKeeps ==
    ASSUME DiskInv, swap.step = "idle", Sweeps
    PROVE  DiskInv'
<1>1. side' \in [Binaries -> Nat]
  BY BinarySwapAssumption DEF Sweeps
<1>2. BinaryTypeOK'
  BY <1>1 DEF DiskInv, BinaryTypeOK, Sweeps
<1>3. Aside'
  BY DEF Sweeps, Aside
<1>4. BinarySurvives'
  BY DEF DiskInv, BinarySurvives, Sweeps
<1> QED BY <1>2, <1>3, <1>4 DEF DiskInv

\* The installer dies: what lies aside then counts as cut short.
LEMMA SwapCutShortKeeps ==
    ASSUME DiskInv, SwapCutShort
    PROVE  DiskInv' /\ Swapping'
<1>1. /\ swap' = NoSwap /\ NoSwap.step = "idle"
      /\ NoSwap \in [step : Steps, b : Binaries, attempt : 0..MaxAttempts]
  BY BinarySwapAssumption DEF SwapCutShort, NoSwap, Steps, Binaries
<1>2. BinaryTypeOK'
  BY <1>1 DEF DiskInv, BinaryTypeOK, SwapCutShort, Contents
<1>3. Aside' /\ Swapping'
  BY <1>1 DEF Aside, Swapping
<1>4. BinarySurvives'
  BY DEF DiskInv, BinarySurvives, SwapCutShort
<1> QED BY <1>2, <1>3, <1>4 DEF DiskInv

\* An uninstall gives up what it removes.
LEMMA RemovesBinariesKeeps ==
    ASSUME DiskInv, Swapping, RemovesBinaries
    PROVE  DiskInv' /\ Swapping'
<1>0. swap.step = "idle"
  BY DEF Swapping, RemovesBinaries, At
<1>1. PICK gone \in {{}, {Bridge}, Binaries} :
         /\ target' = [b \in Binaries |-> IF b \in gone THEN "absent" ELSE target[b]]
         /\ owned' = owned \ gone /\ interrupted' = interrupted \ gone
         /\ held' = {}
         /\ faults' = faults \/ Faults
  BY DEF RemovesBinaries
<1>2. faults' \in 0..MaxFaults
  BY <1>1, FaultsTyped DEF DiskInv, BinaryTypeOK
<1>3. target' \in [Binaries -> Contents]
  BY <1>1 DEF DiskInv, BinaryTypeOK, Contents
<1>4. BinaryTypeOK'
  BY <1>1, <1>2, <1>3 DEF DiskInv, BinaryTypeOK, RemovesBinaries
<1>5. Aside' /\ Swapping'
  BY <1>0 DEF RemovesBinaries, Aside, Swapping
<1>6. BinarySurvives'
  <2> SUFFICES ASSUME NEW b \in owned', target'[b] # "whole"
               PROVE  b \in interrupted'
    BY DEF BinarySurvives
  <2>1. b \in owned /\ b \notin gone /\ b \in Binaries
    BY <1>1 DEF DiskInv, BinaryTypeOK
  <2>2. target[b] # "whole"
    BY <1>1, <2>1
  <2>3. b \in interrupted
    BY <1>0, <2>1, <2>2 DEF DiskInv, BinarySurvives
  <2> QED BY <1>1, <2>1, <2>3
<1> QED BY <1>4, <1>5, <1>6 DEF DiskInv

\* Every other step leaves the executables alone, whatever it refuses and
\* whatever process it starts or ends, and is taken outside the placing of an
\* executable, or leaves the installer where it is.
LeavesDisk ==
    /\ UNCHANGED <<os, target, temp, side, swap, owned, interrupted>>
    /\ held' \subseteq Binaries \X {"target", "side"}
    /\ faults' = faults \/ Faults
    /\ UNCHANGED <<phase, step>> \/ ~At("download", "place")
LEMMA LeavesDiskKeeps ==
    ASSUME DiskInv, Swapping, LeavesDisk
    PROVE  DiskInv' /\ Swapping'
<1>1. faults' \in 0..MaxFaults
  BY FaultsTyped DEF DiskInv, BinaryTypeOK, LeavesDisk
<1>2. BinaryTypeOK'
  BY <1>1 DEF DiskInv, BinaryTypeOK, LeavesDisk
<1>3. Aside' /\ BinarySurvives'
  BY DEF DiskInv, Aside, BinarySurvives, LeavesDisk
<1>4. Swapping'
  BY DEF Swapping, LeavesDisk, At
<1> QED BY <1>2, <1>3, <1>4 DEF DiskInv

\* A swap begins, or is over, between two executables.
LEMMA SwapBegins ==
    ASSUME DiskInv, swap.step \in {"idle", "placed", "gaveUp"},
           \/ swap' = NoSwap /\ held' = {}
           \/ held' = held /\ \E b \in Binaries : swap' = StartsWith(b),
           UNCHANGED <<os, target, temp, side, faults, owned, interrupted>>
    PROVE  DiskInv'
<1>1. /\ swap' \in [step : Steps, b : Binaries, attempt : 0..MaxAttempts]
      /\ swap'.step \in {"idle", "fetch"}
  <2>1. CASE swap' = NoSwap
    BY <2>1, BinarySwapAssumption DEF NoSwap, Steps, Binaries
  <2>2. CASE \E b \in Binaries : swap' = StartsWith(b)
    BY <2>2, BinarySwapAssumption DEF StartsWith, Steps
  <2> QED BY <2>1, <2>2
<1>2. BinaryTypeOK'
  BY <1>1 DEF DiskInv, BinaryTypeOK
<1>3. Aside' /\ BinarySurvives'
  BY <1>1 DEF DiskInv, Aside, BinarySurvives
<1> QED BY <1>2, <1>3 DEF DiskInv

\* Placing the two executables, one after the other.
LEMMA PlacesKeeps ==
    ASSUME DiskInv, Swapping, Places
    PROVE  DiskInv' /\ Swapping'
<1>0. At("download", "place")
  BY DEF Places
<1>1. CASE /\ swap.step = "idle" /\ swap' = StartsWith(Bridge)
           /\ UNCHANGED <<os, target, temp, side, held, faults, owned, interrupted, installVars>>
  <2>1. Bridge \in Binaries
    BY DEF Binaries
  <2> QED BY <1>0, <1>1, <2>1, SwapBegins DEF Swapping, At, installVars
<1>2. CASE SwapSteps(flags.from # "network") /\ UNCHANGED installVars
  BY <1>0, <1>2, SwapStepsKeep DEF Swapping, At, installVars
<1>3. CASE /\ swap.step = "placed" /\ swap' = StartsWith(NativeHelper)
           /\ UNCHANGED <<os, target, temp, side, held, faults, owned, interrupted, installVars>>
  <2>1. NativeHelper \in Binaries
    BY DEF Binaries
  <2> QED BY <1>0, <1>3, <2>1, SwapBegins DEF Swapping, At, installVars
<1>4. CASE /\ swap.step \in {"placed", "gaveUp"} /\ swap' = NoSwap /\ held' = {}
           /\ UNCHANGED <<os, target, temp, side, faults, owned, interrupted>>
  <2>1. DiskInv'
    BY <1>4, SwapBegins
  <2>2. Swapping'
    BY <1>4 DEF Swapping, NoSwap
  <2> QED BY <2>1, <2>2
<1> QED BY <1>1, <1>2, <1>3, <1>4 DEF Places

\* No step of the installation loses an executable.
LEMMA NextKeepsDisk ==
    ASSUME DiskInv, Swapping, Next
    PROVE  DiskInv' /\ Swapping'
<1>0. held \subseteq Binaries \X {"target", "side"}
  BY DEF DiskInv, BinaryTypeOK
<1>1. CASE \E u \in BOOLEAN : Starts(u)
  <2>1. InUse \subseteq Binaries \X {"target", "side"}
    BY DEF InUse
  <2>2. LeavesDisk
    BY <1>1, <2>1 DEF Starts, LeavesDisk, At
  <2> QED BY <2>2, LeavesDiskKeeps
<1>2. CASE SweepsUp
  <2>1. swap.step = "idle"
    BY <1>2 DEF SweepsUp, Swapping, At
  <2>2. DiskInv'
    BY <1>2, <2>1, SweepsKeeps DEF SweepsUp
  <2>3. Swapping'
    BY <1>2, <2>1 DEF SweepsUp, Sweeps, Swapping
  <2> QED BY <2>2, <2>3
<1>3. CASE Kills
  <2>1. LeavesDisk
    BY <1>0, <1>3 DEF Kills, LeavesDisk, At
  <2> QED BY <2>1, LeavesDiskKeeps
<1>4. CASE Detects \/ Chooses \/ ChecksHealth \/ Discovers \/ Answers \/ Configures
  <2>1. LeavesDisk
    BY <1>0, <1>4 DEF Detects, Chooses, ChecksHealth, Discovers, Answers, Configures, LeavesDisk,
       At, binaryVars
  <2> QED BY <2>1, LeavesDiskKeeps
<1>5. CASE RegistersHost \/ FinishesRegistration
  <2>1. LeavesDisk
    BY <1>0, <1>5 DEF RegistersHost, FinishesRegistration, Browsing, LeavesDisk, At
  <2> QED BY <2>1, LeavesDiskKeeps
<1>6. CASE \E b \in Browsers : RegistersBrowser(b)
  <2>1. PICK b \in Browsers : RegistersBrowser(b)
    BY <1>6
  <2>2. faults' = faults \/ Faults
    BY <2>1 DEF RegistersBrowser, Faults
  <2>3. LeavesDisk
    BY <1>0, <2>1, <2>2 DEF RegistersBrowser, LeavesDisk
  <2> QED BY <2>3, LeavesDiskKeeps
<1>7. CASE \E f \in Files : Merges(f) \/ Strips(f) \/ Saves(f) \/ Repairs(f)
  <2>1. LeavesDisk
    BY <1>0, <1>7 DEF Merges, Strips, Saves, Repairs, LeavesDisk, binaryVars, installVars
  <2> QED BY <2>1, LeavesDiskKeeps
<1>8. CASE Edits1 \/ InstallerRenames \/ \E w \in Writers : EditFails(w)
  <2>1. LeavesDisk
    BY <1>0, <1>8 DEF Edits1, InstallerRenames, EditFails, LeavesDisk, binaryVars, installVars
  <2> QED BY <2>1, LeavesDiskKeeps
<1>9. CASE UnregistersAutostart \/ RemovesManifests \/ RemovesRegistryKey \/ ConfigsRemoved
           \/ Uninstalled
  <2>1. LeavesDisk
    BY <1>0, <1>9 DEF UnregistersAutostart, RemovesManifests, RemovesRegistryKey, ConfigsRemoved,
       Uninstalled, LeavesDisk, At, binaryVars
  <2> QED BY <2>1, LeavesDiskKeeps
<1>10. CASE \E b \in Browsers : Unregisters(b)
  <2>1. LeavesDisk
    BY <1>0, <1>10 DEF Unregisters, LeavesDisk
  <2> QED BY <2>1, LeavesDiskKeeps
<1>11. CASE Dies
  BY <1>11, SwapCutShortKeeps DEF Dies
<1>12. CASE \/ \E b \in Binaries : ProcessStarts(b)
            \/ \E p \in Binaries \X {"target", "side"} : ProcessEnds(p)
  <2>1. LeavesDisk
    BY <1>0, <1>12 DEF ProcessStarts, ProcessEnds, LeavesDisk, installVars
  <2> QED BY <2>1, LeavesDiskKeeps
<1> QED BY <1>1, <1>2, <1>3, <1>4, <1>5, <1>6, <1>7, <1>8, <1>9, <1>10, <1>11, <1>12,
           PlacesKeeps, RemovesBinariesKeeps DEF Next

\* The executables are typed and a swap knows where the old one is.
LEMMA DiskInvariant == Spec => [](DiskInv /\ Swapping)
<1>1. Init => DiskInv /\ Swapping
  <2> SUFFICES ASSUME Init
               PROVE  DiskInv /\ Swapping
    OBVIOUS
  <2>1. PICK earlier \in EarlierRuns :
           /\ target = [b \in Binaries |->
                          IF earlier = "none" \/ (earlier = "cut short" /\ b = Bridge)
                          THEN "absent" ELSE "whole"]
           /\ interrupted = IF earlier = "cut short" THEN {Bridge} ELSE {}
           /\ owned = IF earlier = "none" THEN {} ELSE Binaries
    BY DEF Init
  <2>2. BinaryInit /\ os \in {"windows", "posix"}
    BY DEF Init
  <2>3. /\ target \in [Binaries -> Contents] /\ owned \subseteq Binaries
        /\ interrupted \subseteq Binaries
    BY <2>1 DEF Contents, Binaries
  <2>4. temp \in [Binaries -> Contents] /\ side \in [Binaries -> Nat]
    BY <2>2 DEF BinaryInit, Contents
  <2>5. /\ swap = NoSwap /\ NoSwap.step = "idle"
        /\ NoSwap \in [step : Steps, b : Binaries, attempt : 0..MaxAttempts]
    BY <2>2, BinarySwapAssumption DEF BinaryInit, NoSwap, Steps, Binaries
  <2>6. BinaryTypeOK /\ Aside /\ Swapping
    BY <2>2, <2>3, <2>4, <2>5, BinarySwapAssumption DEF BinaryTypeOK, Aside, Swapping, BinaryInit
  <2>7. BinarySurvives
    <3> SUFFICES ASSUME NEW b \in owned, target[b] # "whole"
                 PROVE  b \in interrupted
      BY DEF BinarySurvives
    <3>1. earlier = "cut short" /\ b = Bridge
      BY <2>1
    <3> QED BY <2>1, <3>1
  <2> QED BY <2>6, <2>7 DEF DiskInv
<1>2. ASSUME DiskInv, Swapping, [Next]_vars
      PROVE  DiskInv' /\ Swapping'
  <2>1. CASE Next
    BY <1>2, <2>1, NextKeepsDisk
  <2>2. CASE UNCHANGED vars
    <3>1. LeavesDisk
      BY <1>2, <2>2 DEF vars, installVars, binaryVars, LeavesDisk, DiskInv, BinaryTypeOK
    <3> QED BY <1>2, <3>1, LeavesDiskKeeps
  <2> QED BY <1>2, <2>1, <2>2
<1> QED BY <1>1, <1>2, PTL DEF Spec

\* Whatever system call is refused and whenever the installer dies, an executable
\* once placed is there and whole, or aside while its swap runs, unless the swap
\* was cut short between its two renames or could not be rolled back.
THEOREM BinaryKept == Spec => []BinarySurvives
<1>1. DiskInv => BinarySurvives
  BY DEF DiskInv
<1> QED BY <1>1, DiskInvariant, PTL

(***************************************************************************)
(* The uninstaller (uninstall() of uninstaller.ts).                        *)
(***************************************************************************)
\* What holds of the run of the installer and of the repairs during it.
RunInv ==
    /\ ranClean => phase = "off"
    /\ phase = "off" => ~errors
    /\ Busy(Installer) => phase \in {"configure", "uninstall"}
    /\ phase = "uninstall" /\ Busy(Installer) =>
          step = "configs" /\ Ours \notin edit[Installer].doc
    /\ step = "kill" => phase \in {"download", "uninstall"}
    /\ Busy(Helper) /\ phase # "off" => mixed
    /\ Busy(Helper) /\ ranClean => mixed \/ passedOver
    /\ phase # "off" /\ ~mixed => overlap = {}
    /\ os = "posix" => manifests \subseteq Browsers \X Binaries

\* An uninstall nothing went wrong in so far ...
Undoing == phase = "uninstall" /\ ~errors /\ ~mixed /\ ~passedOver

\* ... has undone what the steps behind it were for.
Clear(f) == Ours \notin Entries(config[f])
Undone ==
    /\ step \in {"binaries", "manifests", "registry", "configs", "browsers"} => ~autostart
    /\ step \in {"manifests", "registry", "configs", "browsers"} =>
          ~allowedIds /\ \A b \in Binaries : target[b] = "absent"
    /\ step \in {"registry", "configs", "browsers"} => manifests \cap OwnManifests = {}
    /\ step = "configs" =>
          \A f \in Files \ left : Clear(f) \/ (Busy(Installer) /\ edit[Installer].file = f)
    /\ step = "browsers" =>
          /\ \A f \in Files : Clear(f)
          /\ os = "posix" => \A m \in manifests : m[1] \in left
Progress == Undoing => Undone

UninstallInv == RunInv /\ Progress /\ CleanUninstall

\* A step without a new edit keeps what holds of the run, if it ends clean runs
\* only and begins none.
RunGoesOn ==
    /\ os' = os
    /\ ranClean' => ranClean /\ phase' = "off"
    /\ phase' = "off" => ~errors'
    /\ phase' # "off" => phase # "off"
    /\ phase' = "uninstall" /\ Busy(Installer) => phase = "uninstall" /\ step' = "configs"
    /\ Busy(Installer) => phase' \in {"configure", "uninstall"}
                          \/ edit'[Installer].stage = "idle"
    /\ step' = "kill" => phase' \in {"download", "uninstall"}
    /\ (mixed => mixed') /\ (passedOver => passedOver')
    /\ os = "posix" => manifests' \subseteq manifests \cup (Browsers \X Binaries)

LEMMA RunGoesOnKeeps ==
    ASSUME RunInv, GoesOn, RunGoesOn
    PROVE  RunInv'
<1>1. Installer \in Writers /\ Helper \in Writers
  BY DEF Writers
<1>2. /\ Busy(Installer)' => Busy(Installer) /\ edit'[Installer].doc = edit[Installer].doc
      /\ Busy(Helper)' => Busy(Helper)
  BY <1>1 DEF GoesOn, Busy
<1>3. (Busy(Installer)' => phase' \in {"configure", "uninstall"})
  BY <1>2 DEF RunGoesOn, Busy
<1>4. phase' = "uninstall" /\ Busy(Installer)' =>
         step' = "configs" /\ Ours \notin edit'[Installer].doc
  BY <1>2 DEF RunGoesOn, RunInv
<1>5. (Busy(Helper)' /\ phase' # "off" => mixed')
      /\ (Busy(Helper)' /\ ranClean' => mixed' \/ passedOver')
  BY <1>2 DEF RunGoesOn, RunInv
<1>6. phase' # "off" /\ ~mixed' => overlap' = {}
  BY DEF RunGoesOn, RunInv, GoesOn
<1>7. os' = "posix" => manifests' \subseteq Browsers \X Binaries
  BY DEF RunGoesOn, RunInv
<1>8. /\ (ranClean' => phase' = "off") /\ (phase' = "off" => ~errors')
      /\ step' = "kill" => phase' \in {"download", "uninstall"}
  BY DEF RunGoesOn
<1> QED BY <1>3, <1>4, <1>5, <1>6, <1>7, <1>8 DEF RunInv

\* Nothing changes at the files.
LEMMA UnchangedGoesOn ==
    ASSUME UNCHANGED configVars
    PROVE  GoesOn
BY DEF configVars, GoesOn, Busy

\* Outside "configure" and the removal of the entries the installer edits
\* nothing.
LEMMA EditsNothing ==
    ASSUME RunInv, phase \notin {"configure", "uninstall"}
                   \/ (phase = "uninstall" /\ step # "configs")
    PROVE  ~Busy(Installer)
BY DEF RunInv

\* The steps before the uninstaller's, and those of other processes.
LEMMA ElsewhereKeepsRun ==
    ASSUME RunInv,
           \/ Detects \/ Chooses \/ SweepsUp \/ Kills \/ Places
           \/ RegistersHost \/ FinishesRegistration
           \/ \E b \in Browsers : RegistersBrowser(b)
           \/ ChecksHealth \/ Discovers \/ Answers \/ Configures
           \/ \E b \in Binaries : ProcessStarts(b)
           \/ \E p \in Binaries \X {"target", "side"} : ProcessEnds(p)
    PROVE  RunInv'
<1>1. UNCHANGED configVars
  BY Zenon DEF Detects, Chooses, SweepsUp, Kills, Places, RegistersHost,
     FinishesRegistration, RegistersBrowser, ChecksHealth, Discovers, Answers, Configures,
     ProcessStarts, ProcessEnds
<1>2. GoesOn
  BY <1>1, UnchangedGoesOn
<1>3. (phase = "off" => ~errors) /\ (step = "kill" => phase \in {"download", "uninstall"})
  BY DEF RunInv
<1>4. CASE Detects \/ Chooses \/ ChecksHealth \/ Discovers \/ Answers
  <2>1. ~Busy(Installer) /\ ~ranClean
    BY <1>4, EditsNothing DEF Detects, Chooses, ChecksHealth, Discovers, Answers, RunInv
  <2>2. RunGoesOn
    BY <1>4, <2>1 DEF Detects, Chooses, ChecksHealth, Discovers, Answers, RunGoesOn, To, Ends,
       binaryVars, registered, notes
  <2> QED BY <1>2, <2>2, RunGoesOnKeeps
<1>5. CASE Configures
  <2>1. RunGoesOn
    BY <1>5 DEF Configures, RunGoesOn, At, Idle, Ends, binaryVars, registered, notes, RunInv
  <2> QED BY <1>2, <2>1, RunGoesOnKeeps
<1>6. CASE SweepsUp
  <2>1. ~Busy(Installer) /\ ~ranClean
    BY <1>6, EditsNothing DEF SweepsUp, At, RunInv
  <2>2. RunGoesOn
    BY <1>6, <2>1 DEF SweepsUp, Sweeps, At, RunGoesOn, To, registered, notes
  <2> QED BY <1>2, <2>2, RunGoesOnKeeps
<1>7. CASE Kills
  <2>1. ~Busy(Installer)
    BY <1>7 DEF Kills, RunInv
  <2>2. RunGoesOn
    BY <1>3, <1>7, <2>1 DEF Kills, RunGoesOn, To, registered, notes, RunInv
  <2> QED BY <1>2, <2>2, RunGoesOnKeeps
<1>8. CASE Places
  <2>1. ~Busy(Installer) /\ ~ranClean
    BY <1>8, EditsNothing DEF Places, At, RunInv
  <2>2. os' = os
    BY <1>8, Zenon DEF Places, SwapSteps, Fetches, Fetched, FetchFails, Renames1, MovesAside,
       Replaces, RollsBack, Retries, diskVars
  <2>3. \/ phase' = phase /\ step' = step /\ errors' = errors
        \/ phase' = "register" /\ step' = "host" /\ errors' = errors
        \/ phase' = "off" /\ step' = "none" /\ errors' = FALSE
    BY <1>8 DEF Places, To, Ends, installVars
  <2>4. RunGoesOn
    BY <1>3, <1>8, <2>1, <2>2, <2>3 DEF Places, At, RunGoesOn, registered, notes
  <2> QED BY <1>2, <2>4, RunGoesOnKeeps
<1>9. CASE RegistersHost \/ FinishesRegistration
  <2>1. ~Busy(Installer) /\ ~ranClean /\ phase = "register"
    BY <1>9, EditsNothing DEF RegistersHost, FinishesRegistration, Browsing, At, RunInv
  <2>2. Bridge \in Binaries /\ Chrome \in Browsers
    BY InstallerAssumption DEF Binaries
  <2>3. \/ manifests' = manifests
        \/ manifests' = manifests \cup {<<ManifestPlace(Chrome), Bridge>>}
        \/ os = "windows"
    BY <1>9, Zenon DEF RegistersHost, FinishesRegistration
  <2>4. os = "posix" => manifests' \subseteq manifests \cup (Browsers \X Binaries)
    BY <2>2, <2>3 DEF ManifestPlace
  <2>5. /\ os' = os /\ ranClean' = ranClean /\ mixed' = mixed /\ passedOver' = passedOver
        /\ errors' = errors /\ phase' \in {"register", "health"}
        /\ step' \in {"none", "browsers", "browsers, host failed"}
    <3>1. CASE RegistersHost
      <4>1. \/ phase' = "health" /\ step' = "none"
            \/ phase' = "register" /\ step' \in {"browsers", "browsers, host failed"}
        BY <3>1, Zenon DEF RegistersHost, To
      <4>2. /\ os' = os /\ ranClean' = ranClean /\ mixed' = mixed /\ passedOver' = passedOver
            /\ errors' = errors
        BY <3>1, Zenon DEF RegistersHost, notes
      <4> QED BY <4>1, <4>2
    <3>2. CASE FinishesRegistration
      BY <3>2 DEF FinishesRegistration, To, notes
    <3> QED BY <1>9, <3>1, <3>2
  <2>6. RunGoesOn
    BY <2>1, <2>4, <2>5 DEF RunGoesOn
  <2> QED BY <1>2, <2>6, RunGoesOnKeeps
<1>10. CASE \E b \in Browsers : RegistersBrowser(b)
  <2>1. PICK b \in Browsers : RegistersBrowser(b)
    BY <1>10
  <2>2. ~Busy(Installer) /\ ~ranClean /\ phase = "register" /\ step # "kill"
    BY <2>1, EditsNothing DEF RegistersBrowser, Browsing, RunInv
  <2>3. os = "posix" => manifests' \subseteq manifests \cup (Browsers \X Binaries)
    <3>1. PICK ok \in {Binaries} \cup SUBSET Binaries :
             manifests' = manifests \cup {<<ManifestPlace(b), h>> : h \in ok}
      BY <2>1 DEF RegistersBrowser
    <3> QED BY <3>1 DEF ManifestPlace
  <2>4. RunGoesOn
    BY <2>1, <2>2, <2>3 DEF RegistersBrowser, RunGoesOn, notes
  <2> QED BY <1>2, <2>4, RunGoesOnKeeps
<1>11. CASE \/ \E b \in Binaries : ProcessStarts(b)
            \/ \E p \in Binaries \X {"target", "side"} : ProcessEnds(p)
  <2>1. /\ os' = os /\ phase' = phase /\ step' = step /\ errors' = errors
        /\ manifests' = manifests /\ ranClean' = ranClean /\ mixed' = mixed
        /\ passedOver' = passedOver
    BY <1>11, Zenon DEF ProcessStarts, ProcessEnds, installVars, registered, notes
  <2>2. RunGoesOn
    BY <2>1 DEF RunInv, RunGoesOn
  <2> QED BY <1>2, <2>2, RunGoesOnKeeps
<1> QED BY <1>4, <1>5, <1>6, <1>7, <1>8, <1>9, <1>10, <1>11

\* The steps of an edit, whoever makes them, and the tools' own saves.
EditsOn ==
    \/ Edits1 \/ InstallerRenames \/ \E w \in Writers : EditFails(w)
    \/ \E t \in Files : Saves(t)
LEMMA EditsOnGoesOn ==
    ASSUME ConfigTypeOK, EditInv, EditsOn
    PROVE  /\ GoesOn
           /\ UNCHANGED <<os, target, phase, step, left, registered, notes>>
           /\ errors => errors'
<1>1. Installer \in Writers /\ Helper \in Writers
  BY DEF Writers
<1>2. CASE Edits1
  BY <1>1, <1>2, OpensKeeps, WritesKeeps, RenamesKeeps DEF Edits1, binaryVars, installVars
<1>3. CASE InstallerRenames
  BY <1>1, <1>3, RenamesKeeps DEF InstallerRenames, binaryVars
<1>4. CASE \E w \in Writers : EditFails(w)
  BY <1>4, StopsKeeps DEF EditFails
<1>5. CASE \E t \in Files : Saves(t)
  BY <1>5 DEF Saves, ToolSaves, GoesOn, Busy, binaryVars, installVars
<1> QED BY <1>2, <1>3, <1>4, <1>5 DEF EditsOn

LEMMA EditsOnKeepsRun ==
    ASSUME ConfigTypeOK, EditInv, RunInv, EditsOn
    PROVE  RunInv'
<1>1. /\ GoesOn
      /\ UNCHANGED <<os, target, phase, step, left, registered, notes>>
  BY EditsOnGoesOn
<1>2. phase' = "off" => ~errors'
  <2>1. CASE Edits1 \/ \E t \in Files : Saves(t)
    BY <1>1, <2>1 DEF Edits1, Saves, installVars, RunInv
  <2>2. CASE InstallerRenames
    <3>1. Busy(Installer)
      BY <2>2 DEF InstallerRenames, Renames, Busy
    <3> QED BY <1>1, <3>1 DEF RunInv
  <2>3. CASE \E w \in Writers : EditFails(w)
    <3>1. PICK w \in Writers : Busy(w) /\ errors' = (errors \/ w = Installer)
      BY <2>3 DEF EditFails
    <3> QED BY <1>1, <3>1 DEF RunInv
  <2> QED BY <2>1, <2>2, <2>3 DEF EditsOn
<1>3. RunGoesOn
  BY <1>1, <1>2 DEF RunInv, RunGoesOn, registered, notes
<1> QED BY <1>1, <1>3, RunGoesOnKeeps

\* The installer starts with nobody at a file, or knows of the repair.
LEMMA StartsKeepsRun ==
    ASSUME EditInv, RunInv, NEW u \in BOOLEAN, Starts(u)
    PROVE  RunInv'
<1>1. /\ phase = "off" /\ os' = os /\ manifests' = manifests /\ errors' = errors
      /\ ranClean' = FALSE /\ mixed' = Busy(Helper) /\ edit' = edit /\ overlap' = overlap
      /\ \/ phase' = "uninstall" /\ step' = "kill"
         \/ phase' = "detect" /\ step' = "none"
  BY DEF Starts, To, configVars
<1>2. ~Busy(Installer) /\ ~errors
  BY <1>1 DEF RunInv
<1>3. ~Busy(Helper) => overlap = {}
  BY <1>2 DEF EditInv, OverlapsKnown, Writers
<1>4. (Busy(Installer)' <=> Busy(Installer)) /\ (Busy(Helper)' <=> Busy(Helper))
  BY <1>1 DEF Busy
<1> QED BY <1>1, <1>2, <1>3, <1>4 DEF RunInv

\* An edit that begins during a repair is known to be mixed with it.
LEMMA MergesKeepsRun ==
    ASSUME ConfigTypeOK, EditInv, RunInv, NEW f \in Files, Merges(f) \/ Strips(f)
    PROVE  RunInv'
<1>0. Installer \in Writers /\ Helper \in Writers /\ Installer # Helper
  BY ConfigFilesAssumption DEF Writers
<1>1. /\ ~Busy(Installer) /\ phase \in {"configure", "uninstall"}
      /\ phase = "uninstall" => step = "configs"
      /\ step # "kill"
      /\ UNCHANGED <<os, phase, step, errors, manifests, ranClean, mixed>>
      /\ passedOver => passedOver'
  <2>1. CASE Merges(f)
    BY <2>1 DEF Merges, At, Idle, binaryVars, registered, notes
  <2>2. CASE Strips(f)
    <3>1. passedOver' = passedOver \/ passedOver' = TRUE
      BY <2>2 DEF Strips
    <3>2. passedOver => passedOver'
      BY <3>1, Zenon
    <3> QED BY <2>2, <3>2 DEF Strips, At, Idle, binaryVars, registered
  <2> QED BY <2>1, <2>2
<1>2. CASE UNCHANGED configVars
  <2>1. GoesOn
    BY <1>2, UnchangedGoesOn
  <2>2. RunGoesOn
    BY <1>1 DEF RunGoesOn, RunInv
  <2> QED BY <2>1, <2>2, RunGoesOnKeeps
<1>3. ASSUME NEW doc \in SUBSET Servers, Reads(Installer, f, doc),
             phase = "uninstall" => Ours \notin doc
      PROVE  RunInv'
  <2>1. edit' = [edit EXCEPT ![Installer] = EditRecord("read", f, doc, "none")]
    BY <1>0, <1>3, EditFields
  <2>2. /\ EditRecord("read", f, doc, "none").doc = doc
        /\ EditRecord("read", f, doc, "none") \in Edits
    BY EditRecordType
  <2>3. edit'[Installer].doc = doc /\ edit'[Helper] = edit[Helper]
    BY <1>0, <2>1, <2>2 DEF ConfigTypeOK
  <2>4. Busy(Helper)' <=> Busy(Helper)
    BY <2>3 DEF Busy
  <2>5. overlap' # {} => overlap # {} \/ Busy(Helper)
    BY <1>1, <1>3 DEF Reads, Writers
  <2>6. phase' # "off" /\ ~mixed' => overlap' = {}
    BY <1>1, <2>5 DEF RunInv
  <2> QED BY <1>1, <1>3, <2>3, <2>4, <2>6 DEF RunInv
<1>4. CASE Merges(f)
  <2>1. \/ Reads(Installer, f, Merged(config[f]))
        \/ HasOurs(f) /\ Reads(Installer, f, Stripped(config[f]))
        \/ UNCHANGED configVars
    BY <1>4 DEF Merges, Unedited
  <2>2. phase # "uninstall"
    BY <1>4 DEF Merges, At
  <2> QED BY <1>2, <1>3, <2>1, <2>2, MergedKeeps
<1>5. CASE Strips(f)
  <2>1. \/ HasOurs(f) /\ Reads(Installer, f, Stripped(config[f]))
        \/ UNCHANGED configVars
    BY <1>5 DEF Strips, Unedited
  <2> QED BY <1>2, <1>3, <2>1, MergedKeeps
<1> QED BY <1>4, <1>5

\* A repair needs the bridge, which a clean uninstall has removed; during a run
\* it is known.
LEMMA RepairsKeepsRun ==
    ASSUME ConfigTypeOK, RunInv, CleanUninstall, NEW f \in Files, Repairs(f)
    PROVE  RunInv'
<1>0. Installer \in Writers /\ Helper \in Writers /\ Installer # Helper
  BY ConfigFilesAssumption DEF Writers
<1>1. /\ target[Bridge] # "absent" /\ Reads(Helper, f, Merged(config[f]))
      /\ mixed' = (mixed \/ phase # "off")
      /\ UNCHANGED <<os, phase, step, errors, manifests, ranClean, passedOver>>
  BY DEF Repairs, binaryVars, installVars, registered
<1>2. Bridge \in Binaries
  BY DEF Binaries
<1>3. ranClean => mixed' \/ passedOver'
  BY <1>1, <1>2 DEF CleanUninstall
<1>4. edit'[Installer] = edit[Installer]
  BY <1>0, <1>1 DEF Reads, ConfigTypeOK
<1>5. Busy(Installer)' <=> Busy(Installer)
  BY <1>4 DEF Busy
<1>6. phase # "off" => mixed'
  BY <1>1
<1> HIDE <1>1
<1>7. /\ UNCHANGED <<os, phase, step, errors, manifests, ranClean, passedOver>>
  BY <1>1
<1> QED BY <1>3, <1>4, <1>5, <1>6, <1>7 DEF RunInv

\* The uninstaller's own steps.
LEMMA UninstallKeepsRun ==
    ASSUME RunInv,
           \/ UnregistersAutostart \/ RemovesBinaries \/ RemovesManifests \/ RemovesRegistryKey
           \/ ConfigsRemoved \/ \E b \in Browsers : Unregisters(b)
    PROVE  RunInv'
<1>1. UNCHANGED configVars
  BY Zenon DEF UnregistersAutostart, RemovesBinaries, RemovesManifests, RemovesRegistryKey,
     ConfigsRemoved, Unregisters
<1>2. GoesOn
  BY <1>1, UnchangedGoesOn
<1>3. phase = "uninstall" /\ ~Busy(Installer)
  BY DEF UnregistersAutostart, RemovesBinaries, RemovesManifests, RemovesRegistryKey,
     ConfigsRemoved, Unregisters, At, Idle, RunInv
<1>4. os' = os /\ phase' = "uninstall" /\ ranClean' = ranClean /\ mixed' = mixed
      /\ (passedOver => passedOver')
  <2>1. CASE UnregistersAutostart
    BY <2>1 DEF UnregistersAutostart, To
  <2>2. CASE RemovesBinaries \/ RemovesManifests \/ RemovesRegistryKey \/ ConfigsRemoved
    <3>1. /\ os' = os /\ phase' = "uninstall" /\ ranClean' = ranClean /\ mixed' = mixed
          /\ passedOver' = passedOver
      BY <2>2, Zenon DEF RemovesBinaries, RemovesManifests, RemovesRegistryKey, ConfigsRemoved,
         To, binaryVars, notes
    <3> QED BY <3>1
  <2>3. CASE \E b \in Browsers : Unregisters(b)
    BY <1>3, <2>3 DEF Unregisters, At
  <2> QED BY <2>1, <2>2, <2>3
<1>5. manifests' \subseteq manifests
  <2>1. CASE \E b \in Browsers : Unregisters(b)
    BY <2>1 DEF Unregisters
  <2>2. CASE RemovesManifests
    BY <2>2 DEF RemovesManifests
  <2>3. CASE UnregistersAutostart \/ RemovesBinaries \/ RemovesRegistryKey \/ ConfigsRemoved
    BY <2>3, Zenon DEF UnregistersAutostart, RemovesBinaries, RemovesRegistryKey, ConfigsRemoved,
       registered
  <2> QED BY <2>1, <2>2, <2>3
<1>6. RunGoesOn
  BY <1>3, <1>4, <1>5 DEF RunGoesOn, RunInv
<1> QED BY <1>2, <1>6, RunGoesOnKeeps

\* The end of a run.
LEMMA EndsKeepsRun ==
    ASSUME ConfigTypeOK, EditInv, RunInv, Uninstalled \/ Dies
    PROVE  RunInv'
<1>0. Installer \in Writers /\ Helper \in Writers
  BY DEF Writers
<1>1. CASE Uninstalled
  <2>1. /\ phase = "uninstall" /\ step = "browsers" /\ phase' = "off" /\ step' = "none"
        /\ errors' = FALSE /\ UNCHANGED <<os, configVars, manifests, mixed, passedOver>>
    BY <1>1 DEF Uninstalled, At, Ends, binaryVars, registered
  <2>2. ~Busy(Installer) /\ (Busy(Helper) => mixed)
    BY <2>1 DEF RunInv
  <2>3. (Busy(Installer)' <=> Busy(Installer)) /\ (Busy(Helper)' <=> Busy(Helper))
    BY <2>1 DEF Busy, configVars
  <2> QED BY <2>1, <2>2, <2>3 DEF RunInv
<1>2. CASE Dies
  <2>1. GoesOn
    BY <1>0, <1>2, StopsKeeps, UnchangedGoesOn DEF Dies
  <2>2. edit'[Installer].stage = "idle" \/ ~Busy(Installer)
    <3>1. CASE Busy(Installer)
      <4>1. edit' = [edit EXCEPT ![Installer] = NoEdit]
        BY <1>2, <3>1 DEF Dies, Stops, Ended
      <4> QED BY <1>0, <4>1 DEF ConfigTypeOK, NoEdit
    <3> QED BY <3>1
  <2>3. RunGoesOn
    BY <1>2, <2>2 DEF Dies, Ends, SwapCutShort, registered, notes, RunGoesOn, RunInv, Busy
  <2> QED BY <2>1, <2>3, RunGoesOnKeeps
<1> QED BY <1>1, <1>2

\* Every configuration's section is one the uninstaller knows to remove the
\* entry from (removeConfigEntry, removeMcpJsonEntry).
LEMMA AllRemovable == \A f \in Files : Removable(f)
<1> SUFFICES ASSUME NEW f \in Files
             PROVE  Removable(f)
  OBVIOUS
<1>1. CASE f = Settings
  BY <1>1 DEF Removable, SectionOf
<1>2. CASE f # Settings
  <2>1. f \in DOMAIN Detectors
    BY <1>2, ConfigFilesAssumption DEF Files
  <2>2. f \in {"Claude Desktop", "Claude Code", "VS Code", "Cursor", "Windsurf", "JetBrains IDE",
               "Zed", "Continue.dev"}
    BY <2>1 DEF Detectors
  <2>3. Detectors[f] \in {ClaudeDesktop, ClaudeCode, Cursor, Windsurf, Zed, JetBrains, ContinueDev,
                          VsCode}
    BY <2>2 DEF Detectors
  <2>4. Detectors[f].section \in {"mcpServers", "mcp.servers", "servers"}
    <3>1. /\ ClaudeDesktop.section = "mcpServers" /\ ClaudeCode.section = "mcpServers"
          /\ JetBrains.section = "mcpServers" /\ ContinueDev.section = "mcpServers"
      BY DEF ClaudeDesktop, ClaudeCode, JetBrains, ContinueDev
    <3>2. /\ Cursor.section = "mcp.servers" /\ Windsurf.section = "mcp.servers"
          /\ Zed.section = "mcp.servers" /\ VsCode.section = "servers"
      BY DEF Cursor, Windsurf, Zed, VsCode
    <3> QED BY <2>3, <3>1, <3>2
  <2> QED BY <1>2, <2>4 DEF Removable, SectionOf
<1> QED BY <1>1, <1>2

\* A step that changes nothing of what an uninstall undoes.
SameUndone ==
    /\ UNCHANGED <<os, target, phase, step, left, registered, config, edit>>
    /\ (errors => errors') /\ (mixed => mixed') /\ (passedOver => passedOver')
LEMMA SameUndoneKeeps ==
    ASSUME Progress, SameUndone
    PROVE  Progress'
<1>1. Undoing' => Undoing
  BY DEF Undoing, SameUndone
<1>2. Undone => Undone'
  <2>1. \A f \in Files : Clear(f) <=> Clear(f)'
    BY DEF Clear, Entries, SameUndone
  <2>2. OwnManifests' = OwnManifests /\ (Busy(Installer)' <=> Busy(Installer))
    BY DEF OwnManifests, Busy, SameUndone
  <2> QED BY <2>1, <2>2 DEF Undone, SameUndone, registered
<1> QED BY <1>1, <1>2 DEF Progress

\* No uninstall, or one that has only begun.
LEMMA NothingUndone ==
    ASSUME phase' # "uninstall" \/ step' \in {"kill", "autostart"}
    PROVE  Progress'
BY DEF Progress, Undoing, Undone

LEMMA ElsewhereKeepsProgress ==
    ASSUME Progress,
           \/ \E u \in BOOLEAN : Starts(u)
           \/ Detects \/ Chooses \/ SweepsUp \/ Kills \/ Places
           \/ RegistersHost \/ FinishesRegistration
           \/ \E b \in Browsers : RegistersBrowser(b)
           \/ ChecksHealth \/ Discovers \/ Answers \/ Configures
           \/ \E f \in Files : Merges(f)
           \/ Uninstalled \/ Dies
           \/ \E b \in Binaries : ProcessStarts(b)
           \/ \E p \in Binaries \X {"target", "side"} : ProcessEnds(p)
    PROVE  Progress'
<1>1. CASE \/ Detects \/ Chooses \/ SweepsUp \/ ChecksHealth \/ Discovers \/ Answers \/ Configures
           \/ Uninstalled \/ Dies
  <2>1. phase' # "uninstall"
    BY <1>1 DEF Detects, Chooses, SweepsUp, ChecksHealth, Discovers, Answers, Configures,
       Uninstalled, Dies, To, Ends
  <2> QED BY <2>1, NothingUndone
<1>2. CASE Kills \/ \E u \in BOOLEAN : Starts(u)
  <2>1. phase' # "uninstall" \/ step' \in {"kill", "autostart"}
    BY <1>2 DEF Kills, Starts, To
  <2> QED BY <2>1, NothingUndone
<1>3. CASE Places
  <2>1. phase' # "uninstall"
    BY <1>3 DEF Places, At, To, Ends, installVars
  <2> QED BY <2>1, NothingUndone
<1>4. CASE RegistersHost \/ FinishesRegistration
  <2>1. \/ phase' = "health" \/ phase' = "register"
    BY <1>4, Zenon DEF RegistersHost, FinishesRegistration, To
  <2> QED BY <2>1, NothingUndone
<1>5. CASE \/ \E b \in Browsers : RegistersBrowser(b)
           \/ \E f \in Files : Merges(f)
  <2>1. phase' # "uninstall"
    BY <1>5 DEF RegistersBrowser, Browsing, Merges, At
  <2> QED BY <2>1, NothingUndone
<1>6. CASE \/ \E b \in Binaries : ProcessStarts(b)
           \/ \E p \in Binaries \X {"target", "side"} : ProcessEnds(p)
  <2>1. UNCHANGED <<os, target, configVars, installVars, registered, notes>>
    BY <1>6, Zenon DEF ProcessStarts, ProcessEnds
  <2>2. SameUndone
    BY <2>1 DEF SameUndone, configVars, installVars, notes
  <2> QED BY <2>2, SameUndoneKeeps
<1> QED BY <1>1, <1>2, <1>3, <1>4, <1>5, <1>6

\* The steps of an edit: the installer's own leaves a file without the entry.
LEMMA EditsOnKeepsProgress ==
    ASSUME ConfigTypeOK, EditInv, RunInv, Progress, EditsOn
    PROVE  Progress'
<1> SUFFICES ASSUME Undoing'
             PROVE  Undone'
  BY DEF Progress
<1>0. Installer \in Writers /\ Writers = {Installer, Helper} /\ overlap \subseteq Files
  BY DEF Writers, ConfigTypeOK
<1>1. /\ GoesOn
      /\ UNCHANGED <<os, target, phase, step, left, registered, notes>>
      /\ errors => errors'
  BY EditsOnGoesOn
<1>2. Undoing /\ ~Busy(Helper) /\ overlap = {}
  BY <1>1 DEF Undoing, RunInv, notes
<1>3. Undone
  BY <1>2 DEF Progress
<1>4. Busy(Installer) => step = "configs" /\ edit[Installer].file \in Files
                         /\ Ours \notin edit[Installer].doc
  BY <1>0, <1>2, BusyEdit DEF RunInv, Undoing
<1> DEFINE g == edit[Installer].file
           Cleared(f) == Ours \notin Entries(config'[f])
\* A file is as clear as it was, and the one whose edit ends is clear.
<1>5. /\ \A f \in Files : Clear(f) => Cleared(f)
      /\ Busy(Installer) => \/ Busy(Installer)' /\ edit'[Installer].file = g
                            \/ Cleared(g)
  <2>1. ASSUME NEW w \in Writers, Opens(w) \/ Writes(w)
        PROVE  /\ \A f \in Files : Clear(f) => Cleared(f)
               /\ Busy(Installer) => Busy(Installer)' /\ edit'[Installer].file = g
    <3>1. Busy(w)
      BY <2>1 DEF Opens, Writes, Busy
    <3>2. w = Installer
      BY <3>1, <1>0, <1>2
    <3>3. \A f \in Files : config'[f] = config[f]
      BY <2>1, <1>2, WritesKeeps DEF Opens
    <3>4. \A f \in Files : Clear(f) => Cleared(f)
      BY <3>3 DEF Clear, Entries
    <3>5. /\ EditRecord("opened", g, edit[w].doc, "tmp").file = g
          /\ EditRecord("opened", g, edit[w].doc, "tmp").stage = "opened"
          /\ EditRecord("written", g, edit[w].doc, edit[w].handle).file = g
          /\ EditRecord("written", g, edit[w].doc, edit[w].handle).stage = "written"
      BY DEF EditRecord
    <3>6. \/ edit' = [edit EXCEPT ![w] = EditRecord("opened", g, edit[w].doc, "tmp")]
          \/ edit' = [edit EXCEPT ![w] = EditRecord("written", g, edit[w].doc, edit[w].handle)]
      BY <2>1, <3>2, EditFields
    <3>7. \/ edit'[Installer] = EditRecord("opened", g, edit[w].doc, "tmp")
          \/ edit'[Installer] = EditRecord("written", g, edit[w].doc, edit[w].handle)
      BY <3>2, <3>6, <1>0 DEF ConfigTypeOK
    <3>8. edit'[Installer].file = g /\ edit'[Installer].stage \in {"opened", "written"}
      BY <3>5, <3>7
    <3> QED BY <3>4, <3>8 DEF Busy
  <2>2. ASSUME Renames(Installer)
        PROVE  /\ \A f \in Files : Clear(f) => Cleared(f)
               /\ Cleared(g)
    <3>1. Busy(Installer)
      BY <2>2 DEF Renames, Busy
    <3>2. /\ \A f \in Files \ {g} : config'[f] = config[f]
          /\ config'[g] = edit[Installer].doc
      BY <1>0, <1>2, <2>2, RenamesKeeps
    <3>3. edit[Installer].doc \in SUBSET Servers
      BY <1>0, <3>1, BusyEdit
    <3>4. Cleared(g)
      BY <3>2, <1>4, <3>1 DEF Clear, Entries
    <3>5. \A f \in Files \ {g} : Clear(f) => Cleared(f)
      BY <3>2 DEF Clear, Entries
    <3> HIDE DEF g, Cleared
    <3> QED BY <3>4, <3>5
  <2>3. ~Renames(Helper)
    BY <1>2 DEF Renames, Busy
  <2>4. ASSUME NEW w \in Writers, EditFails(w)
        PROVE  FALSE
    <3>1. Busy(w) /\ errors' = (errors \/ w = Installer)
      BY <2>4 DEF EditFails
    <3>2. w = Installer
      BY <3>1, <1>0, <1>2
    <3> QED BY <3>1, <3>2 DEF Undoing
  <2>5. ASSUME NEW t \in Files, ToolSaves(t)
        PROVE  /\ \A f \in Files : Clear(f) => Cleared(f)
               /\ Busy(Installer) => Busy(Installer)' /\ edit'[Installer].file = g
    <3>1. /\ edit' = edit /\ config[t] \notin {Missing, Torn}
          /\ \/ \E s \in Siblings : config' = [config EXCEPT ![t] = config[t] \cup {s}]
             \/ \E s \in Servers : config' = [config EXCEPT ![t] = config[t] \ {s}]
      BY <2>5, ToolSavesKeeps
    <3>2. config \in [Files -> Documents]
      BY DEF ConfigTypeOK
    <3>3. \A f \in Files \ {t} : config'[f] = config[f]
      BY <3>1, <3>2
    <3>4. Ours \notin config[t] => Ours \notin config'[t]
      BY <3>1, <3>2, ConfigFilesAssumption
    <3>5. Clear(t) => Cleared(t)
      BY <3>1, <3>4 DEF Clear, Entries
    <3>6. \A f \in Files \ {t} : Clear(f) => Cleared(f)
      BY <3>3 DEF Clear, Entries
    <3> QED BY <3>1, <3>5, <3>6 DEF Busy
  <2>6. \/ \E w \in Writers : Opens(w) \/ Writes(w)
        \/ Renames(Installer)
        \/ \E t \in Files : ToolSaves(t)
    BY <2>3, <2>4 DEF EditsOn, Edits1, InstallerRenames, Saves
  <2> HIDE DEF g, Cleared
  <2> QED BY <2>1, <2>2, <2>5, <2>6
<1>6. OwnManifests' = OwnManifests
  BY <1>1 DEF OwnManifests
<1>7. step = "configs" =>
         \A f \in Files \ left : Cleared(f) \/ (Busy(Installer)' /\ edit'[Installer].file = f)
  <2> HIDE DEF Cleared
  <2> QED BY <1>3, <1>5 DEF Undone
<1>8. step = "browsers" => \A f \in Files : Cleared(f)
  BY <1>3, <1>5 DEF Undone
<1>9. \A f \in Files : Cleared(f) <=> Clear(f)'
  BY DEF Clear
<1> HIDE DEF Cleared, g
<1> QED BY <1>1, <1>3, <1>6, <1>7, <1>8, <1>9 DEF Undone, registered

\* The next file: an edit of it begins, or the entry is not there.
LEMMA StripsKeepsProgress ==
    ASSUME ConfigTypeOK, Progress, NEW f \in Files, Strips(f)
    PROVE  Progress'
<1> SUFFICES ASSUME Undoing'
             PROVE  Undone'
  BY DEF Progress
<1>0. Installer \in Writers
  BY DEF Writers
<1>1. /\ phase = "uninstall" /\ step = "configs" /\ ~Busy(Installer) /\ left' = left \ {f}
      /\ UNCHANGED <<os, target, phase, step, errors, registered, mixed, passedOver>>
      /\ IF HasOurs(f) THEN Reads(Installer, f, Stripped(config[f])) ELSE Unedited
      /\ config' = config
  BY DEF Strips, At, Idle, binaryVars, Reads, Unedited, configVars, Undoing
<1>2. Undone
  BY <1>1 DEF Undoing, Progress
<1>3. \A g \in Files : Clear(g) <=> Clear(g)'
  BY <1>1 DEF Clear, Entries
<1>4. \A g \in Files \ left : Clear(g)
  BY <1>1, <1>2 DEF Undone
<1>5. Clear(f) \/ (Busy(Installer)' /\ edit'[Installer].file = f)
  <2>1. CASE HasOurs(f)
    <3>1. edit' = [edit EXCEPT ![Installer] = EditRecord("read", f, Stripped(config[f]), "none")]
      BY <2>1, <1>0, <1>1, EditFields
    <3>2. edit'[Installer] = EditRecord("read", f, Stripped(config[f]), "none")
      BY <3>1, <1>0 DEF ConfigTypeOK
    <3> QED BY <3>2 DEF EditRecord, Busy
  <2>2. CASE ~HasOurs(f)
    BY <2>2, AllRemovable DEF HasOurs, Clear, Entries
  <2> QED BY <2>1, <2>2
<1>6. \A g \in Files \ left' : Clear(g)' \/ (Busy(Installer)' /\ edit'[Installer].file = g)
  BY <1>1, <1>3, <1>4, <1>5
<1>7. OwnManifests' = OwnManifests
  BY <1>1 DEF OwnManifests
<1> QED BY <1>1, <1>2, <1>6, <1>7 DEF Undone, registered

\* A repair meanwhile is one of the exceptions.
LEMMA RepairsKeepsProgress ==
    ASSUME NEW f \in Files, Repairs(f)
    PROVE  Progress'
BY DEF Repairs, Progress, Undoing, installVars

\* What the uninstaller's own steps remove stays removed.
LEMMA UninstallKeepsProgress ==
    ASSUME RunInv, Progress,
           \/ UnregistersAutostart \/ RemovesBinaries \/ RemovesManifests \/ RemovesRegistryKey
           \/ ConfigsRemoved \/ \E b \in Browsers : Unregisters(b)
    PROVE  Progress'
<1> SUFFICES ASSUME Undoing'
             PROVE  Undone'
  BY DEF Progress
<1>0. config' = config
  BY Zenon DEF UnregistersAutostart, RemovesBinaries, RemovesManifests, RemovesRegistryKey,
     ConfigsRemoved, Unregisters, configVars
<1>1. \A f \in Files : Clear(f) <=> Clear(f)'
  BY <1>0 DEF Clear, Entries
<1>2. CASE UnregistersAutostart
  <2>1. autostart' = FALSE /\ step' = "binaries"
    BY <1>2 DEF UnregistersAutostart, To, Undoing
  <2> QED BY <2>1 DEF Undone
<1>3. CASE RemovesBinaries
  <2>1. phase = "uninstall" /\ step = "binaries" /\ step' = "manifests" /\ autostart' = autostart
        /\ UNCHANGED notes
    BY <1>3 DEF RemovesBinaries, At, To
  <2>2. PICK gone \in {{}, {Bridge}, Binaries} :
           /\ target' = [b \in Binaries |-> IF b \in gone THEN "absent" ELSE target[b]]
           /\ \/ gone = Binaries /\ allowedIds' = FALSE /\ UNCHANGED errors
              \/ gone # Binaries /\ errors' = TRUE
    BY <1>3 DEF RemovesBinaries
  <2>3. gone = Binaries /\ allowedIds' = FALSE /\ errors' = errors
    BY <2>2 DEF Undoing
  <2>4. ~autostart
    BY <2>1, <2>3 DEF Undoing, Progress, Undone, notes
  <2> QED BY <2>1, <2>2, <2>3, <2>4 DEF Undone
<1>4. CASE RemovesManifests
  <2>1. /\ phase = "uninstall" /\ step = "manifests" /\ step' = "registry" /\ errors' = errors
        /\ manifests' = manifests \ OwnManifests
        /\ UNCHANGED <<os, target, autostart, allowedIds, notes>>
    BY <1>4 DEF RemovesManifests, At, To, Undoing
  <2>2. Undone
    BY <2>1 DEF Undoing, Progress, notes
  <2>3. manifests' \cap OwnManifests' = {}
    BY <2>1 DEF OwnManifests
  <2> QED BY <2>1, <2>2, <2>3 DEF Undone
<1>5. CASE RemovesRegistryKey
  <2>1. /\ phase = "uninstall" /\ step = "registry" /\ step' = "configs" /\ left' = Files
        /\ UNCHANGED <<os, target, errors, manifests, autostart, allowedIds, notes>>
    BY <1>5 DEF RemovesRegistryKey, At, To, binaryVars
  <2>2. Undone
    BY <2>1 DEF Undoing, Progress, notes
  <2>3. OwnManifests' = OwnManifests
    BY <2>1 DEF OwnManifests
  <2> QED BY <2>1, <2>2, <2>3 DEF Undone
<1>6. CASE ConfigsRemoved
  <2>1. /\ phase = "uninstall" /\ step = "configs" /\ step' = "browsers" /\ left' = Browsers
        /\ left = {} /\ ~Busy(Installer)
        /\ UNCHANGED <<os, target, errors, registered, notes>>
    BY <1>6 DEF ConfigsRemoved, At, To, Idle, binaryVars
  <2>2. Undone
    BY <2>1 DEF Undoing, Progress, notes
  <2>3. OwnManifests' = OwnManifests
    BY <2>1 DEF OwnManifests
  <2>4. \A f \in Files : Clear(f)'
    BY <1>1, <2>1, <2>2 DEF Undone
  <2>5. os' = "posix" => \A m \in manifests' : m[1] \in left'
    BY <2>1 DEF RunInv, registered
  <2> QED BY <2>1, <2>2, <2>3, <2>4, <2>5 DEF Undone, registered
<1>7. CASE \E b \in Browsers : Unregisters(b)
  <2>1. PICK b \in Browsers : Unregisters(b)
    BY <1>7
  <2>2. /\ phase = "uninstall" /\ step = "browsers" /\ left' = left \ {b}
        /\ UNCHANGED <<os, target, phase, step, autostart, allowedIds, mixed>>
    BY <2>1 DEF Unregisters, At
  <2>3. /\ (errors => errors') /\ (passedOver => passedOver')
        /\ os = "windows" => manifests' = manifests
        /\ os # "windows" => manifests' = {m \in manifests : m[1] # b} \/ errors'
    BY <2>1 DEF Unregisters, Visited
  <2>4. Undone
    BY <2>2, <2>3 DEF Undoing, Progress
  <2>5. manifests' \subseteq manifests
    BY <2>3 DEF Undoing
  <2>6. OwnManifests' = OwnManifests
    BY <2>2 DEF OwnManifests
  <2>7. os' = "posix" => \A m \in manifests' : m[1] \in left'
    <3>1. os = "posix" => manifests' = {m \in manifests : m[1] # b}
      BY <2>3 DEF Undoing
    <3> QED BY <2>2, <2>4, <3>1 DEF Undone
  <2> QED BY <1>1, <2>2, <2>4, <2>5, <2>6, <2>7 DEF Undone
<1> QED BY <1>2, <1>3, <1>4, <1>5, <1>6, <1>7

\* A step that leaves alone what an uninstall removed, and adds no run.
LEMMA SameClean ==
    ASSUME CleanUninstall,
           ranClean' /\ ~mixed' /\ ~passedOver' =>
              /\ ranClean /\ ~mixed /\ ~passedOver
              /\ UNCHANGED <<os, target, registered, config>>
    PROVE  CleanUninstall'
BY DEF CleanUninstall, registered, Reachable, Resolves, ManifestPlace, Entries

\* An uninstall that ends without an error is clean.
LEMMA UninstalledIsClean ==
    ASSUME BinaryTypeOK, Progress, Uninstalled
    PROVE  CleanUninstall'
<1> SUFFICES ASSUME ~errors, ~passedOver, ~mixed
             PROVE  /\ \A b \in Binaries : target'[b] = "absent" /\ ~Reachable(b)'
                    /\ ~autostart' /\ ~allowedIds'
                    /\ \A f \in Files : Ours \notin Entries(config'[f])
  BY DEF Uninstalled, CleanUninstall
<1>1. /\ phase = "uninstall" /\ step = "browsers" /\ left = {}
      /\ UNCHANGED <<os, target, config, manifests, keys, autostart, allowedIds>>
  BY DEF Uninstalled, At, binaryVars, configVars, registered
<1>2. Undone
  BY <1>1 DEF Progress, Undoing
<1>3. \A f \in Files : Ours \notin Entries(config'[f])
  BY <1>1, <1>2 DEF Undone, Clear
<1>4. ASSUME NEW h \in Binaries, NEW b \in Browsers
      PROVE  <<ManifestPlace(b), h>> \notin manifests
  <2>1. CASE os = "posix"
    BY <1>1, <1>2, <2>1 DEF Undone, ManifestPlace
  <2>2. CASE os = "windows"
    BY <1>1, <1>2, <2>2 DEF Undone, ManifestPlace, OwnManifests
  <2> QED BY <2>1, <2>2 DEF BinaryTypeOK
<1>5. \A h \in Binaries : ~Reachable(h)
  BY <1>4 DEF Reachable, Resolves
<1>6. \A h \in Binaries : ~Reachable(h)'
  BY <1>1, <1>5 DEF Reachable, Resolves, ManifestPlace
<1> QED BY <1>1, <1>2, <1>3, <1>6 DEF Undone

\* After a clean uninstall nothing the installer did comes back.
LEMMA NextKeepsClean ==
    ASSUME ConfigTypeOK, EditInv, BinaryTypeOK, RunInv, Progress, CleanUninstall, Next
    PROVE  CleanUninstall'
<1>1. CASE \E u \in BOOLEAN : Starts(u)
  BY <1>1 DEF Starts, CleanUninstall
<1>2. CASE Uninstalled
  BY <1>2, UninstalledIsClean
<1>3. CASE EditsOn
  <2>1. UNCHANGED <<os, target, registered, notes, phase>>
    BY <1>3, EditsOnGoesOn
  <2>2. ranClean /\ ~mixed /\ ~passedOver => \A w \in Writers : ~Busy(w)
    BY DEF RunInv, Writers
  <2>3. \E w \in Writers : Busy(w)
    <3>1. Installer \in Writers /\ Helper \in Writers
      BY DEF Writers
    <3> QED BY <1>3, <3>1 DEF EditsOn, Edits1, InstallerRenames, EditFails, Saves, Opens, Writes,
               Renames, ToolSaves, Busy
  <2>4. ~(ranClean' /\ ~mixed' /\ ~passedOver')
    BY <2>1, <2>2, <2>3 DEF notes
  <2> QED BY <2>4 DEF CleanUninstall
<1>4. ASSUME NEW f \in Files, Repairs(f)
      PROVE  CleanUninstall'
  <2>1. target[Bridge] # "absent" /\ ranClean' = ranClean /\ passedOver' = passedOver
        /\ (mixed => mixed')
    BY <1>4 DEF Repairs
  <2>2. ~(ranClean /\ ~mixed /\ ~passedOver)
    BY <2>1 DEF CleanUninstall, Binaries
  <2> QED BY <2>1, <2>2 DEF CleanUninstall
<1>5. CASE \E p \in Binaries \X {"target", "side"} : ProcessEnds(p)
  <2>1. UNCHANGED <<os, target, registered, config, notes>>
    BY <1>5 DEF ProcessEnds, configVars
  <2> QED BY <2>1, SameClean DEF notes
<1>6. ASSUME ~ranClean, ranClean' = ranClean
      PROVE  CleanUninstall'
  BY <1>6 DEF CleanUninstall
<1>7. CASE \/ Detects \/ Chooses \/ SweepsUp \/ Places
           \/ RegistersHost \/ FinishesRegistration
           \/ \E b \in Browsers : RegistersBrowser(b)
           \/ ChecksHealth \/ Discovers \/ Answers
           \/ \E f \in Files : Merges(f) \/ Strips(f)
           \/ Configures
           \/ UnregistersAutostart \/ RemovesBinaries \/ RemovesManifests
           \/ RemovesRegistryKey
           \/ ConfigsRemoved \/ \E b \in Browsers : Unregisters(b)
           \/ \E b \in Binaries : ProcessStarts(b)
  <2>1. ranClean' = ranClean
    BY <1>7, Zenon DEF Detects, Chooses, SweepsUp, Places, RegistersHost,
       FinishesRegistration, RegistersBrowser, ChecksHealth, Discovers, Answers, Merges, Strips,
       Configures, UnregistersAutostart, RemovesBinaries, RemovesManifests, RemovesRegistryKey,
       ConfigsRemoved, Unregisters, ProcessStarts, notes
  <2>2. phase # "off"
    BY <1>7 DEF Detects, Chooses, SweepsUp, Places, RegistersHost,
       FinishesRegistration, RegistersBrowser, ChecksHealth, Discovers, Answers, Merges, Strips,
       Configures, UnregistersAutostart, RemovesBinaries, RemovesManifests, RemovesRegistryKey,
       ConfigsRemoved, Unregisters, ProcessStarts, At, Browsing
  <2> QED BY <1>6, <2>1, <2>2 DEF RunInv
<1>8. CASE Kills
  BY <1>6, <1>8 DEF Kills, RunInv, notes
<1>9. CASE Dies
  BY <1>6, <1>9 DEF Dies, RunInv, notes
<1> QED BY <1>1, <1>2, <1>3, <1>4, <1>5, <1>7, <1>8, <1>9 DEF Next, EditsOn

\* The whole invariant, step by step.
LEMMA UninstallInvariant == Spec => []UninstallInv
<1>1. Init => UninstallInv
  <2> SUFFICES ASSUME Init
               PROVE  UninstallInv
    OBVIOUS
  <2>1. /\ phase = "off" /\ step = "none" /\ errors = FALSE /\ ranClean = FALSE
        /\ ConfigInit
    BY DEF Init
  <2>2. \A w \in Writers : ~Busy(w)
    BY <2>1 DEF ConfigInit, Busy, NoEdit
  <2>3. os = "posix" => manifests \subseteq Browsers \X Binaries
    <3>1. manifests = {} \/ manifests = {ManifestPlace(b) : b \in Browsers} \X Binaries
      BY DEF Init
    <3> QED BY <3>1 DEF ManifestPlace
  <2> QED BY <2>1, <2>2, <2>3 DEF UninstallInv, RunInv, Progress, Undoing, CleanUninstall, Writers
<1>2. ASSUME ConfigTypeOK, EditInv, DiskInv, UninstallInv, [Next]_vars
      PROVE  UninstallInv'
  <2>0. RunInv /\ Progress /\ CleanUninstall /\ BinaryTypeOK
    BY <1>2 DEF UninstallInv, DiskInv
  <2>1. CASE Next
    <3>1. RunInv'
      BY <1>2, <2>0, <2>1, ElsewhereKeepsRun, EditsOnKeepsRun, StartsKeepsRun, MergesKeepsRun,
         RepairsKeepsRun, UninstallKeepsRun, EndsKeepsRun DEF Next, EditsOn
    <3>2. Progress'
      BY <1>2, <2>0, <2>1, ElsewhereKeepsProgress, EditsOnKeepsProgress, StripsKeepsProgress,
         RepairsKeepsProgress, UninstallKeepsProgress DEF Next, EditsOn
    <3>3. CleanUninstall'
      BY <1>2, <2>0, <2>1, NextKeepsClean
    <3> QED BY <3>1, <3>2, <3>3 DEF UninstallInv
  <2>2. CASE UNCHANGED vars
    <3>1. UNCHANGED <<os, target, phase, step, left, errors, registered, configVars, notes>>
      BY <2>2 DEF vars, binaryVars, installVars
    <3>2. GoesOn
      BY <3>1, UnchangedGoesOn
    <3>3. RunGoesOn /\ SameUndone
      BY <2>0, <3>1 DEF RunGoesOn, SameUndone, RunInv, registered, configVars, notes
    <3>4. CleanUninstall'
      BY <2>0, <3>1, SameClean DEF notes, configVars
    <3> QED BY <2>0, <3>2, <3>3, <3>4, RunGoesOnKeeps, SameUndoneKeeps DEF UninstallInv
  <2> QED BY <1>2, <2>1, <2>2
<1> QED BY <1>1, <1>2, EditInvariant, DiskInvariant, PTL DEF Spec

\* An uninstall that reports no error leaves nothing that would start the
\* bridge it removed, whatever was installed, refused and edited meanwhile.
THEOREM UninstallIsClean == Spec => []CleanUninstall
<1>1. UninstallInv => CleanUninstall
  BY DEF UninstallInv
<1> QED BY <1>1, UninstallInvariant, PTL
=============================================================================
