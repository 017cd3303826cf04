------------------------ MODULE ExtensionPanel_proofs ------------------------
(***************************************************************************)
(* Proofs about ExtensionPanel, for any page, any number of handlers,      *)
(* fields, runs and rounds, and any scene: a tool acts on what its caller  *)
(* meant, and a provider is sent a conversation it accepts.                *)
(***************************************************************************)
EXTENDS ExtensionPanel, DataInduction, SequenceTheorems, TLAPS

-----------------------------------------------------------------------------
(***************************************************************************)
(* The tools (dispatchTool and its handlers).                              *)
(***************************************************************************)
\* A call, by its fields.
CallRecord(stage, owner, tool, aims, want, again, crossed, renumbered, settled) ==
    [stage |-> stage, owner |-> owner, tool |-> tool, aims |-> aims, want |-> want,
     again |-> again, crossed |-> crossed, renumbered |-> renumbered, settled |-> settled]

\* What a handler goes by still names what its caller meant, as long as nobody
\* renumbered the page: the refs it has not used yet before its retry, the ref
\* it found again after.  prints is what the last snapshot said of each ref.
Meant(aim, ref, prints) == aim.meant # NoLabel => LabelIn(prints, ref) = aim.meant
AllMeant(aims, prints) == \A i \in 1..Len(aims) : Meant(aims[i], aims[i].ref, prints)
Good(stage, aims, want, again, crossed, renumbered, prints) ==
    /\ stage \in {"reinject", "again"} => want # NoLabel /\ aims # <<>>
    /\ ~crossed /\ ~renumbered =>
          /\ stage \in {"attach", "act", "count", "reinject"} => AllMeant(aims, prints)
          /\ stage = "reinject" => want = LabelIn(prints, aims[1].ref)
          /\ stage = "again" => Meant(aims[1], again, prints)
GoodCall(c, prints) == Good(c.stage, c.aims, c.want, c.again, c.crossed, c.renumbered, prints)
IsCall(c) ==
    /\ c = CallRecord(c.stage, c.owner, c.tool, c.aims, c.want, c.again, c.crossed,
                      c.renumbered, c.settled)
    /\ \E S : c.aims \in Seq(S)
Sound(c, prints) == c.stage = "free" \/ (IsCall(c) /\ GoodCall(c, prints))

ToolInv ==
    /\ cache \in {<<>>, minted}
    /\ calls = [h \in Handlers |-> calls[h]]
    /\ \A h \in Handlers : Sound(calls[h], minted)

\* What the handlers, the timeout and the panel change of a call.
LEMMA CallExcept ==
    ASSUME NEW c, IsCall(c)
    PROVE  /\ \A v : [c EXCEPT !.stage = v]
                = CallRecord(v, c.owner, c.tool, c.aims, c.want, c.again, c.crossed,
                             c.renumbered, c.settled)
           /\ \A v : [c EXCEPT !.crossed = v]
                = CallRecord(c.stage, c.owner, c.tool, c.aims, c.want, c.again, v,
                             c.renumbered, c.settled)
           /\ \A v : [c EXCEPT !.settled = v]
                = CallRecord(c.stage, c.owner, c.tool, c.aims, c.want, c.again, c.crossed,
                             c.renumbered, v)
           /\ \A v : [c EXCEPT !.owner = v]
                = CallRecord(c.stage, v, c.tool, c.aims, c.want, c.again, c.crossed,
                             c.renumbered, c.settled)
           /\ \A v, y : [c EXCEPT !.stage = v, !.want = y]
                = CallRecord(v, c.owner, c.tool, c.aims, y, c.again, c.crossed,
                             c.renumbered, c.settled)
           /\ \A v, y : [c EXCEPT !.stage = v, !.again = y]
                = CallRecord(v, c.owner, c.tool, c.aims, c.want, y, c.crossed,
                             c.renumbered, c.settled)
<1> DEFINE s == c.stage  o == c.owner  t == c.tool  a == c.aims  w == c.want
           k == c.again  x == c.crossed  n == c.renumbered  z == c.settled
<1>0. c = CallRecord(s, o, t, a, w, k, x, n, z)
  BY Zenon DEF IsCall
<1> HIDE DEF s, o, t, a, w, k, x, n, z
<1>1. ASSUME NEW v
      PROVE  [c EXCEPT !.stage = v]
             = CallRecord(v, o, t, a, w, k, x, n, z)
  <2>1. [CallRecord(s, o, t, a, w, k, x, n, z) EXCEPT !.stage = v]
          = CallRecord(v, o, t, a, w, k, x, n, z)
    BY DEF CallRecord
  <2> QED BY <1>0, <2>1, Zenon
<1>2. ASSUME NEW v
      PROVE  [c EXCEPT !.crossed = v]
             = CallRecord(s, o, t, a, w, k, v, n, z)
  <2>1. [CallRecord(s, o, t, a, w, k, x, n, z) EXCEPT !.crossed = v]
          = CallRecord(s, o, t, a, w, k, v, n, z)
    BY DEF CallRecord
  <2> QED BY <1>0, <2>1, Zenon
<1>3. ASSUME NEW v
      PROVE  [c EXCEPT !.settled = v]
             = CallRecord(s, o, t, a, w, k, x, n, v)
  <2>1. [CallRecord(s, o, t, a, w, k, x, n, z) EXCEPT !.settled = v]
          = CallRecord(s, o, t, a, w, k, x, n, v)
    BY DEF CallRecord
  <2> QED BY <1>0, <2>1, Zenon
<1>4. ASSUME NEW v
      PROVE  [c EXCEPT !.owner = v]
             = CallRecord(s, v, t, a, w, k, x, n, z)
  <2>1. [CallRecord(s, o, t, a, w, k, x, n, z) EXCEPT !.owner = v]
          = CallRecord(s, v, t, a, w, k, x, n, z)
    BY DEF CallRecord
  <2> QED BY <1>0, <2>1, Zenon
<1>5. ASSUME NEW v, NEW y
      PROVE  [c EXCEPT !.stage = v, !.want = y]
             = CallRecord(v, o, t, a, y, k, x, n, z)
  <2> DEFINE c1 == [c EXCEPT !.stage = v]
             c2 == [c1 EXCEPT !.want = y]
  <2>1. [c EXCEPT !.stage = v, !.want = y] = c2
    BY Zenon
  <2>2. c1 = CallRecord(v, o, t, a, w, k, x, n, z)
    <3>1. [CallRecord(s, o, t, a, w, k, x, n, z) EXCEPT !.stage = v]
            = CallRecord(v, o, t, a, w, k, x, n, z)
      BY DEF CallRecord
    <3> QED BY <1>0, <3>1, Zenon
  <2>3. c2 = CallRecord(v, o, t, a, y, k, x, n, z)
    <3>1. [CallRecord(v, o, t, a, w, k, x, n, z) EXCEPT !.want = y]
            = CallRecord(v, o, t, a, y, k, x, n, z)
      BY DEF CallRecord
    <3> QED BY <2>2, <3>1, Zenon
  <2> QED BY <2>1, <2>3, Zenon
<1>6. ASSUME NEW v, NEW y
      PROVE  [c EXCEPT !.stage = v, !.again = y]
             = CallRecord(v, o, t, a, w, y, x, n, z)
  <2> DEFINE c1 == [c EXCEPT !.stage = v]
             c2 == [c1 EXCEPT !.again = y]
  <2>1. [c EXCEPT !.stage = v, !.again = y] = c2
    BY Zenon
  <2>2. c1 = CallRecord(v, o, t, a, w, k, x, n, z)
    <3>1. [CallRecord(s, o, t, a, w, k, x, n, z) EXCEPT !.stage = v]
            = CallRecord(v, o, t, a, w, k, x, n, z)
      BY DEF CallRecord
    <3> QED BY <1>0, <3>1, Zenon
  <2>3. c2 = CallRecord(v, o, t, a, w, y, x, n, z)
    <3>1. [CallRecord(v, o, t, a, w, k, x, n, z) EXCEPT !.again = y]
            = CallRecord(v, o, t, a, w, y, x, n, z)
      BY DEF CallRecord
    <3> QED BY <2>2, <3>1, Zenon
  <2> QED BY <2>1, <2>3, Zenon
<1> USE DEF s, o, t, a, w, k, x, n, z
<1> QED BY <1>1, <1>2, <1>3, <1>4, <1>5, <1>6, Zenon

\* fill_form goes on to its next field.
LEMMA NextField ==
    ASSUME NEW c, IsCall(c), NEW y, NEW v
    PROVE  [c EXCEPT !.aims = y, !.stage = "act", !.want = NoLabel,
                     !.again = NoRef, !.renumbered = v]
             = CallRecord("act", c.owner, c.tool, y, NoLabel, NoRef, c.crossed, v, c.settled)
<1> DEFINE s == c.stage  o == c.owner  t == c.tool  a == c.aims  w == c.want
           k == c.again  x == c.crossed  n == c.renumbered  z == c.settled
<1>0. c = CallRecord(s, o, t, a, w, k, x, n, z)
  BY Zenon DEF IsCall
<1> HIDE DEF s, o, t, a, w, k, x, n, z
<1>1. [c EXCEPT !.aims = y, !.stage = "act", !.want = NoLabel,
                !.again = NoRef, !.renumbered = v]
        = CallRecord("act", o, t, y, NoLabel, NoRef, x, v, z)
  <2> DEFINE c1 == [c EXCEPT !.aims = y]
             c2 == [c1 EXCEPT !.stage = "act"]
             c3 == [c2 EXCEPT !.want = NoLabel]
             c4 == [c3 EXCEPT !.again = NoRef]
             c5 == [c4 EXCEPT !.renumbered = v]
  <2>1. [c EXCEPT !.aims = y, !.stage = "act", !.want = NoLabel,
                  !.again = NoRef, !.renumbered = v] = c5
    BY Zenon
  <2>2. c1 = CallRecord(s, o, t, y, w, k, x, n, z)
    <3>1. [CallRecord(s, o, t, a, w, k, x, n, z) EXCEPT !.aims = y]
            = CallRecord(s, o, t, y, w, k, x, n, z)
      BY DEF CallRecord
    <3> QED BY <1>0, <3>1, Zenon
  <2>3. c2 = CallRecord("act", o, t, y, w, k, x, n, z)
    <3>1. [CallRecord(s, o, t, y, w, k, x, n, z) EXCEPT !.stage = "act"]
            = CallRecord("act", o, t, y, w, k, x, n, z)
      BY DEF CallRecord
    <3> QED BY <2>2, <3>1, Zenon
  <2>4. c3 = CallRecord("act", o, t, y, NoLabel, k, x, n, z)
    <3>1. [CallRecord("act", o, t, y, w, k, x, n, z) EXCEPT !.want = NoLabel]
            = CallRecord("act", o, t, y, NoLabel, k, x, n, z)
      BY DEF CallRecord
    <3> QED BY <2>3, <3>1, Zenon
  <2>5. c4 = CallRecord("act", o, t, y, NoLabel, NoRef, x, n, z)
    <3>1. [CallRecord("act", o, t, y, NoLabel, k, x, n, z) EXCEPT !.again = NoRef]
            = CallRecord("act", o, t, y, NoLabel, NoRef, x, n, z)
      BY DEF CallRecord
    <3> QED BY <2>4, <3>1, Zenon
  <2>6. c5 = CallRecord("act", o, t, y, NoLabel, NoRef, x, v, z)
    <3>1. [CallRecord("act", o, t, y, NoLabel, NoRef, x, n, z) EXCEPT !.renumbered = v]
            = CallRecord("act", o, t, y, NoLabel, NoRef, x, v, z)
      BY DEF CallRecord
    <3> QED BY <2>5, <3>1, Zenon
  <2> QED BY <2>1, <2>6, Zenon
<1> USE DEF s, o, t, a, w, k, x, n, z
<1> QED BY <1>1, Zenon

\* A call is sound when its fields are.
LEMMA SoundCall ==
    ASSUME NEW s, NEW o, NEW t, NEW a, NEW w, NEW k, NEW x, NEW n, NEW z, NEW prints,
           NEW c, c = CallRecord(s, o, t, a, w, k, x, n, z),
           \E S : a \in Seq(S), Good(s, a, w, k, x, n, prints)
    PROVE  Sound(c, prints)
<1>1. /\ c.stage = s /\ c.owner = o /\ c.tool = t /\ c.aims = a /\ c.want = w /\ c.again = k
      /\ c.crossed = x /\ c.renumbered = n /\ c.settled = z
  BY DEF CallRecord
<1> QED BY <1>1, Zenon DEF Sound, IsCall, GoodCall

\* The stages in which a handler holds on to nothing.
LEMMA NothingHeld ==
    ASSUME NEW a, NEW w, NEW k, NEW x, NEW n, NEW prints,
           NEW s \in {"script", "events", "query", "snapshot"}
    PROVE  Good(s, a, w, k, x, n, prints)
BY DEF Good

\* Idle is sound.
LEMMA IdleSound == ASSUME NEW prints PROVE Sound(Idle, prints)
BY DEF Sound, Idle

\* The dispatch timeout and a caller that stops listening leave what a handler
\* goes by alone (withTimeout); so does the handler's way to the next stage
\* that holds the same.
LEMMA StageSound ==
    ASSUME NEW c, NEW prints, IsCall(c), GoodCall(c, prints), NEW s,
           \/ s \in {"script", "events", "query", "snapshot"}
           \/ s \in {"act", "count"} /\ c.stage \in {"attach", "act"}
    PROVE  Sound([c EXCEPT !.stage = s], prints)
<1>1. [c EXCEPT !.stage = s]
        = CallRecord(s, c.owner, c.tool, c.aims, c.want, c.again, c.crossed, c.renumbered,
                     c.settled)
  BY CallExcept, Zenon
<1>2. Good(s, c.aims, c.want, c.again, c.crossed, c.renumbered, prints)
  BY DEF GoodCall, Good
<1>3. \E S : c.aims \in Seq(S)
  BY DEF IsCall
<1> QED BY <1>1, <1>2, <1>3, SoundCall

\* Who listens to a handler, and whether it has been answered, is nothing it
\* goes by.
LEMMA OwnerSound ==
    ASSUME NEW c, NEW prints, IsCall(c), GoodCall(c, prints), NEW v
    PROVE  Sound([c EXCEPT !.owner = v], prints) /\ Sound([c EXCEPT !.settled = v], prints)
<1>1. /\ [c EXCEPT !.owner = v]
           = CallRecord(c.stage, v, c.tool, c.aims, c.want, c.again, c.crossed, c.renumbered,
                        c.settled)
  BY CallExcept, Zenon
<1>2. [c EXCEPT !.settled = v]
        = CallRecord(c.stage, c.owner, c.tool, c.aims, c.want, c.again, c.crossed, c.renumbered,
                     v)
  BY CallExcept, Zenon
<1>3. \E S : c.aims \in Seq(S)
  BY DEF IsCall
<1>4. Good(c.stage, c.aims, c.want, c.again, c.crossed, c.renumbered, prints)
  BY Zenon DEF GoodCall
<1>5. Sound([c EXCEPT !.owner = v], prints)
  BY <1>1, <1>3, <1>4, SoundCall
<1>6. Sound([c EXCEPT !.settled = v], prints)
  BY <1>2, <1>3, <1>4, SoundCall
<1> QED BY <1>5, <1>6

\* A handler whose page somebody else renumbered claims nothing any more.
LEMMA CrossedSound ==
    ASSUME NEW c, NEW prints, NEW prints2, IsCall(c), GoodCall(c, prints)
    PROVE  Sound([c EXCEPT !.crossed = TRUE], prints2)
<1>1. [c EXCEPT !.crossed = TRUE]
        = CallRecord(c.stage, c.owner, c.tool, c.aims, c.want, c.again, TRUE, c.renumbered,
                     c.settled)
  BY CallExcept, Zenon
<1>2. Good(c.stage, c.aims, c.want, c.again, TRUE, c.renumbered, prints2)
  BY Zenon DEF GoodCall, Good
<1>3. \E S : c.aims \in Seq(S)
  BY DEF IsCall
<1> QED BY <1>1, <1>2, <1>3, SoundCall

\* The next field, or the snapshot: what is left of the form was named by the
\* same snapshot, unless the handler took a new one for this field.
LEMMA FollowingSound ==
    ASSUME NEW h \in Handlers, NEW prints, NEW prints2, IsCall(calls[h]),
           GoodCall(calls[h], prints),
           calls[h].stage \in {"act", "count", "reinject", "again"},
           prints2 = prints \/ calls[h].stage = "reinject"
    PROVE  Sound(Following(h), prints2)
<1> DEFINE c == calls[h]
           n == c.renumbered \/ c.want # NoLabel
<1>1. CASE Len(c.aims) > 1
  <2>1. Following(h) = [c EXCEPT !.aims = Tail(c.aims), !.stage = "act", !.want = NoLabel,
                                 !.again = NoRef, !.renumbered = n]
    BY <1>1 DEF Following
  <2> HIDE DEF n
  <2>2. Following(h) = CallRecord("act", c.owner, c.tool, Tail(c.aims), NoLabel, NoRef,
                                  c.crossed, n, c.settled)
    <3>0. IsCall(c)
      OBVIOUS
    <3> HIDE DEF c
    <3> DEFINE y == Tail(c.aims)
    <3>1. [c EXCEPT !.aims = y, !.stage = "act", !.want = NoLabel, !.again = NoRef,
                    !.renumbered = n]
            = CallRecord("act", c.owner, c.tool, y, NoLabel, NoRef, c.crossed, n, c.settled)
      <4> HIDE DEF y
      <4> QED BY <3>0, NextField, Zenon
    <3> QED BY <2>1, <3>1, Zenon
  <2>3. PICK S : c.aims \in Seq(S)
    BY DEF IsCall
  <2>4. /\ Tail(c.aims) \in Seq(S) /\ Len(Tail(c.aims)) = Len(c.aims) - 1
        /\ \A i \in 1..Len(Tail(c.aims)) :
              i + 1 \in 1..Len(c.aims) /\ Tail(c.aims)[i] = c.aims[i + 1]
    BY <1>1, <2>3
  <2>5. ~c.crossed /\ ~n => ~c.renumbered /\ c.want = NoLabel
    BY Zenon DEF n
  <2>6. ASSUME ~c.crossed, ~n PROVE AllMeant(Tail(c.aims), prints2)
    <3>1. ~c.renumbered /\ c.want = NoLabel /\ ~c.crossed
      BY <2>5, <2>6
    <3>2. c.stage \notin {"reinject", "again"}
      BY <3>1 DEF GoodCall, Good
    <3>3. AllMeant(c.aims, prints2)
      BY <3>1, <3>2 DEF GoodCall, Good
    <3> QED BY <2>4, <3>3, Zenon DEF AllMeant
  <2>7. Good("act", Tail(c.aims), NoLabel, NoRef, c.crossed, n, prints2)
    BY <2>6, Zenon DEF Good
  <2> QED BY <2>2, <2>4, <2>7, SoundCall
<1>2. CASE ~(Len(c.aims) > 1) /\ Tool(h).snapshot
  <2>1. Following(h) = [c EXCEPT !.stage = "snapshot"]
    BY <1>2 DEF Following
  <2>2. [c EXCEPT !.stage = "snapshot"]
          = CallRecord("snapshot", c.owner, c.tool, c.aims, c.want, c.again, c.crossed,
                       c.renumbered, c.settled)
    BY CallExcept, Zenon
  <2>3. Good("snapshot", c.aims, c.want, c.again, c.crossed, c.renumbered, prints2)
    BY NothingHeld
  <2>4. \E S : c.aims \in Seq(S)
    BY DEF IsCall
  <2> QED BY <2>1, <2>2, <2>3, <2>4, SoundCall
<1>3. CASE ~(Len(c.aims) > 1) /\ ~Tool(h).snapshot
  <2>1. Following(h) = Idle
    BY <1>3 DEF Following
  <2> QED BY <2>1, IdleSound
<1> QED BY <1>1, <1>2, <1>3

\* The tools' state as the other parts of the extension leave it.
LEMMA SameTools ==
    ASSUME ToolInv, UNCHANGED <<calls, cache, minted>>
    PROVE  ToolInv'
BY Zenon DEF ToolInv

\* One handler goes on, the page keeps its numbers.
OneCallChanges(h, next) ==
    /\ calls' = [calls EXCEPT ![h] = next]
    /\ UNCHANGED <<cache, minted>>

\* The tools stay sound when one handler's call does (dispatchTool's handlers).
LEMMA OneCall ==
    ASSUME ToolInv, NEW h \in Handlers, NEW next, OneCallChanges(h, next), Sound(next, minted)
    PROVE  ToolInv'
<1>1. /\ calls' = [g \in Handlers |-> calls'[g]]
      /\ \A g \in Handlers : calls'[g] = next \/ calls'[g] = calls[g]
  BY DEF ToolInv, OneCallChanges
<1>2. minted' = minted /\ cache' = cache
  BY DEF OneCallChanges
<1>3. \A g \in Handlers : Sound(calls'[g], minted)
  BY <1>1, Zenon DEF ToolInv
<1>4. cache' \in {<<>>, minted'}
  BY <1>2 DEF ToolInv
<1> QED BY <1>1, <1>2, <1>3, <1>4, Zenon DEF ToolInv

\* A snapshot numbers the page anew: whoever else works on it is crossed.
LEMMA OneMints ==
    ASSUME ToolInv, NEW h \in Handlers, NEW next, Minting(h, next), Sound(next, Fingerprints)
    PROVE  ToolInv'
<1>1. cache' = Fingerprints /\ minted' = Fingerprints
  BY DEF Minting, Injects
<1>2. calls' = [g \in Handlers |-> calls'[g]]
  BY DEF Minting
<1>3. ASSUME NEW g \in Handlers PROVE Sound(calls'[g], Fingerprints)
  <2>1. CASE g = h
    <3>1. calls'[g] = next
      BY <2>1 DEF Minting
    <3> QED BY <3>1, Zenon
  <2>2. CASE g # h /\ ~Free(g)
    <3>1. calls'[g] = [calls[g] EXCEPT !.crossed = TRUE]
      BY <2>2 DEF Minting, Crossed
    <3>2. IsCall(calls[g]) /\ GoodCall(calls[g], minted)
      BY <2>2, Zenon DEF ToolInv, Sound, Free
    <3>3. Sound([calls[g] EXCEPT !.crossed = TRUE], Fingerprints)
      BY <3>2, CrossedSound, Zenon
    <3> QED BY <3>1, <3>3, Zenon
  <2>3. CASE g # h /\ Free(g)
    <3>1. calls'[g] = calls[g] /\ calls[g].stage = "free"
      BY <2>3 DEF Minting, Crossed, Free
    <3> QED BY <3>1, Zenon DEF Sound
  <2> QED BY <2>1, <2>2, <2>3
<1>4. cache' \in {<<>>, minted'}
  BY <1>1
<1> QED BY <1>1, <1>2, <1>3, <1>4, Zenon DEF ToolInv

\* A handler that is at work.
LEMMA AtWork ==
    ASSUME ToolInv, NEW h \in Handlers, ~Free(h)
    PROVE  IsCall(calls[h]) /\ GoodCall(calls[h], minted)
BY Zenon DEF ToolInv, Sound, Free

\* A handler goes to its next stage, keeping what it holds or letting it go.
LEMMA ToStageKeeps ==
    ASSUME ToolInv, NEW h \in Handlers, ~Free(h), NEW s, ToStage(h, s),
           UNCHANGED <<cache, minted>>,
           \/ s \in {"script", "events", "query", "snapshot"}
           \/ s \in {"act", "count"} /\ calls[h].stage \in {"attach", "act"}
    PROVE  ToolInv'
<1>1. OneCallChanges(h, [calls[h] EXCEPT !.stage = s])
  BY DEF OneCallChanges, ToStage
<1>2. Sound([calls[h] EXCEPT !.stage = s], minted)
  BY AtWork, StageSound
<1> QED BY <1>1, <1>2, OneCall

\* It ends, it is given up, or it goes on to the next field.
LEMMA EndsKeeps ==
    ASSUME ToolInv, NEW h \in Handlers, NEW o, Ends(h, o), UNCHANGED <<cache, minted>>
    PROVE  ToolInv'
<1>1. OneCallChanges(h, Idle)
  BY Zenon DEF OneCallChanges, Ends
<1> QED BY <1>1, IdleSound, OneCall

\* The same when a snapshot's numbering failed: nothing is cached then.
LEMMA EndsEmpty ==
    ASSUME ToolInv, NEW h \in Handlers, NEW o, Ends(h, o), CacheLost
    PROVE  ToolInv'
<1>1. /\ calls' = [calls EXCEPT ![h] = Idle]
      /\ cache' = <<>> /\ minted' = minted
  BY Zenon DEF Ends, CacheLost
<1>2. /\ calls' = [g \in Handlers |-> calls'[g]]
      /\ \A g \in Handlers : calls'[g] = Idle \/ calls'[g] = calls[g]
  BY <1>1 DEF ToolInv
<1>3. \A g \in Handlers : Sound(calls'[g], minted)
  BY <1>2, IdleSound, Zenon DEF ToolInv
<1> QED BY <1>1, <1>2, <1>3 DEF ToolInv

Holding(h) == ~Free(h) /\ calls[h].stage \in {"act", "count", "reinject", "again"}

\* What it goes on with is sound.
LEMMA FollowingKeeps ==
    ASSUME ToolInv, NEW h \in Handlers, Holding(h)
    PROVE  Sound(Following(h), minted) /\ Sound(AfterFailure(h), minted)
<1>1. Sound(Following(h), minted)
  BY AtWork, FollowingSound DEF Holding
<1> QED BY <1>1, IdleSound DEF AfterFailure

\* The action came off, or it did not and the handler throws or notes the field.
LEMMA GoesOnKeeps ==
    ASSUME ToolInv, NEW h \in Handlers, Holding(h), UNCHANGED <<cache, minted>>,
           Proceeds(h) \/ Unable(h)
    PROVE  ToolInv'
<1>1. OneCallChanges(h, Following(h)) \/ OneCallChanges(h, AfterFailure(h))
  BY Zenon DEF OneCallChanges, Proceeds, Unable
<1> QED BY <1>1, FollowingKeeps, OneCall

\* What the caller names, it names by the last snapshot.
LEMMA AimsAreMeant ==
    ASSUME NEW tool, NEW aims \in AimsOf(tool), tool.aims \in Nat
    PROVE  AllMeant(aims, minted) /\ \E S : aims \in Seq(S)
<1> DEFINE named == [ref : DOMAIN minted] \cup [ref : {NoRef}]
           all == {[ref |-> a.ref, meant |-> LabelIn(minted, a.ref)] : a \in named}
<1>1. \A x \in all : Meant(x, x.ref, minted)
  BY DEF Meant
<1>2. aims = <<>> \/ \E k \in 1..tool.aims : aims \in [1..k -> all]
  BY DEF AimsOf
<1> HIDE DEF all
<1>3. CASE aims = <<>>
  BY <1>3 DEF AllMeant
<1>4. ASSUME NEW k \in 1..tool.aims, aims \in [1..k -> all]
      PROVE  AllMeant(aims, minted) /\ \E S : aims \in Seq(S)
  <2>1. aims \in Seq(all) /\ Len(aims) = k
    BY <1>4
  <2>2. \A i \in 1..Len(aims) : aims[i] \in all
    BY <2>1
  <2> QED BY <1>1, <2>1, <2>2 DEF AllMeant
<1> QED BY <1>2, <1>3, <1>4

\* dispatchTool.
LEMMA BeginsKeeps ==
    ASSUME ToolInv, NEW h \in Handlers, NEW owner, Begins(h, owner)
    PROVE  ToolInv'
<1>1. PICK tool \in {Tools[name] : name \in Asked} :
        \E aims \in AimsOf(tool) :
          calls' = [calls EXCEPT ![h] = CallRecord(FirstStage(tool), owner, tool, aims, NoLabel,
                                                   NoRef, FALSE, FALSE, FALSE)]
  BY DEF Begins, CallRecord
<1>2. PICK aims \in AimsOf(tool) :
        calls' = [calls EXCEPT ![h] = CallRecord(FirstStage(tool), owner, tool, aims, NoLabel,
                                                 NoRef, FALSE, FALSE, FALSE)]
  BY <1>1
<1>3. FirstStage(tool) \in {"attach", "script", "events", "query"} /\ tool.aims \in Nat
  <2>1. PICK name \in DOMAIN Tools : tool = Tools[name]
    BY ToolsAssumption
  <2>2. MaxFields \in Nat
    BY ToolsAssumption
  <2> QED
    BY <2>1, <2>2 DEF FirstStage, Tools, Does, GetPageContent, TakeScreenshot, ListTabs,
       GetPageMetadata, Navigate, FillForm, ClickElement, PressKey, ExtractTable, ReadForm,
       ScrollPage, GoBack, GoForward, ExtractData, Snapshot
<1> DEFINE next == CallRecord(FirstStage(tool), owner, tool, aims, NoLabel, NoRef, FALSE, FALSE,
                              FALSE)
<1>4. AllMeant(aims, minted) /\ \E S : aims \in Seq(S)
  BY <1>3, AimsAreMeant
<1>5. Good(FirstStage(tool), aims, NoLabel, NoRef, FALSE, FALSE, minted)
  BY <1>3, <1>4 DEF Good
<1>6. OneCallChanges(h, next)
  BY <1>2, Zenon DEF OneCallChanges, Begins, pageVars
<1>7. Sound(next, minted)
  BY <1>4, <1>5, SoundCall
<1> HIDE DEF next
<1> QED BY <1>6, <1>7, OneCall

\* chrome.tabs.query, executeScript, the load events; getApp, attach.
LEMMA StartKeeps ==
    ASSUME ToolInv, NEW h \in Handlers, Finishes(h) \/ Attaches(h)
    PROVE  ToolInv'
<1>1. ~Free(h) /\ UNCHANGED <<cache, minted>>
  BY Zenon DEF Finishes, Attaches, pageVars
<1>2. \/ \E o : Ends(h, o)
      \/ ToStage(h, "snapshot")
      \/ calls[h].stage = "attach" /\ \E s \in {"snapshot", "act"} : ToStage(h, s)
  BY DEF Finishes, Attaches
<1> QED BY <1>1, <1>2, EndsKeeps, ToStageKeeps

\* The locator call comes off or throws.
LEMMA ActsKeeps ==
    ASSUME ToolInv, NEW h \in Handlers, Acts(h) \/ Fails(h) \/ ActsAgain(h)
    PROVE  ToolInv'
<1>1. ~Free(h) /\ UNCHANGED <<cache, minted>>
  BY Zenon DEF Acts, Fails, ActsAgain, pageVars
<1>2. \/ calls[h].stage \in {"act", "again"} /\ (Proceeds(h) \/ Unable(h))
      \/ \E o : Ends(h, o)
      \/ calls[h].stage = "act" /\ ToStage(h, "count")
  BY DEF Acts, Fails, ActsAgain
<1> QED BY <1>1, <1>2, EndsKeeps, ToStageKeeps, GoesOnKeeps DEF Holding

\* The ref is stale: what it stood for is looked up in the cache, which the
\* caller's snapshot filled unless the worker was stopped.
LEMMA CountsKeeps ==
    ASSUME ToolInv, NEW h \in Handlers, Counts(h)
    PROVE  ToolInv'
<1> DEFINE c == calls[h]
           want == LabelIn(cache, Aim(h).ref)
<1>1. ~Free(h) /\ c.stage = "count" /\ UNCHANGED <<cache, minted>>
  BY Zenon DEF Counts, pageVars
<1>2. CASE Unable(h)
  BY <1>1, <1>2, GoesOnKeeps DEF Holding
<1>3. CASE /\ Targeted(h) /\ want # NoLabel
           /\ calls' = [calls EXCEPT ![h].stage = "reinject", ![h].want = want]
  <2>1. IsCall(c) /\ GoodCall(c, minted)
    BY <1>1, AtWork
  <2>2. cache = minted
    <3>1. LabelIn(<<>>, Aim(h).ref) = NoLabel
      BY DEF LabelIn
    <3> QED BY <1>3, <3>1 DEF ToolInv
  <2>3. c.aims # <<>> /\ Aim(h) = c.aims[1]
    BY <1>3, <2>1 DEF Targeted, Aim, IsCall
  <2> DEFINE next == [c EXCEPT !.stage = "reinject", !.want = want]
  <2>4. OneCallChanges(h, next)
    <3>1. calls' = [calls EXCEPT ![h] = next]
      BY <1>3, Zenon
    <3> QED BY <1>1, <3>1, Zenon DEF OneCallChanges
  <2>5. Good("reinject", c.aims, want, c.again, c.crossed, c.renumbered, minted)
    <3>1. want = LabelIn(minted, c.aims[1].ref)
      BY <2>2, <2>3
    <3>2. ~c.crossed /\ ~c.renumbered => AllMeant(c.aims, minted)
      BY <1>1, <2>1 DEF GoodCall, Good
    <3> HIDE DEF want
    <3> QED BY <1>3, <2>3, <3>1, <3>2 DEF Good
  <2>6. Sound(next, minted)
    <3> HIDE DEF want
    <3>0. IsCall(c)
      BY <2>1
    <3> HIDE DEF c
    <3>1. next = CallRecord("reinject", c.owner, c.tool, c.aims, want, c.again, c.crossed,
                            c.renumbered, c.settled)
      BY <3>0, CallExcept, Zenon
    <3>2. \E S : c.aims \in Seq(S)
      BY <3>0 DEF IsCall
    <3> HIDE DEF next
    <3> QED BY <2>5, <3>1, <3>2, SoundCall
  <2> HIDE DEF next
  <2> QED BY <2>4, <2>6, OneCall
<1> QED BY <1>2, <1>3 DEF Counts

\* A new snapshot, and the only ref with the wanted role and name: what the
\* caller meant, under its new number (classifyAndMaybeRetryClick).
LEMMA RetrySound ==
    ASSUME ToolInv, NEW h \in Handlers, ~Free(h), calls[h].stage = "reinject",
           NEW k \in Matches(Aim(h).ref, calls[h].want)
    PROVE  Sound(Retry(h, k), Fingerprints)
<1> DEFINE c == calls[h]
<1>1. IsCall(c) /\ GoodCall(c, minted) /\ c.stage = "reinject"
  BY AtWork
<1>2. LabelIn(Fingerprints, k) = c.want
  BY DEF Matches, LabelIn
<1>3. Retry(h, k) = [c EXCEPT !.stage = "again", !.again = k]
  BY DEF Retry
<1> HIDE DEF c
<1>4. c.want # NoLabel /\ c.aims # <<>> /\ \E S : c.aims \in Seq(S)
  BY <1>1 DEF GoodCall, Good, IsCall
<1>5. Good("again", c.aims, c.want, k, c.crossed, c.renumbered, Fingerprints)
  <2>1. ASSUME ~c.crossed, ~c.renumbered PROVE Meant(c.aims[1], k, Fingerprints)
    <3>1. AllMeant(c.aims, minted) /\ c.want = LabelIn(minted, c.aims[1].ref)
      BY <1>1, <2>1 DEF GoodCall, Good
    <3>2. 1 \in 1..Len(c.aims)
      BY <1>4
    <3>3. Meant(c.aims[1], c.aims[1].ref, minted)
      BY <3>1, <3>2, Zenon DEF AllMeant
    <3> QED BY <1>2, <3>1, <3>3, Zenon DEF Meant
  <2> QED BY <1>4, <2>1, Zenon DEF Good
<1>6. [c EXCEPT !.stage = "again", !.again = k]
        = CallRecord("again", c.owner, c.tool, c.aims, c.want, k, c.crossed, c.renumbered,
                     c.settled)
  BY <1>1, CallExcept, Zenon
<1> QED BY <1>3, <1>4, <1>5, <1>6, SoundCall

\* The retry, the failure to find the one element, the injector's own failure.
LEMMA ReinjectsKeeps ==
    ASSUME ToolInv, NEW h \in Handlers, Reinjects(h)
    PROVE  ToolInv'
<1>1. ~Free(h) /\ calls[h].stage = "reinject"
  BY DEF Reinjects
<1>2. CASE \E k \in Matches(Aim(h).ref, calls[h].want) : Minting(h, Retry(h, k))
  BY <1>1, <1>2, RetrySound, OneMints
<1>3. CASE Minting(h, AfterFailure(h))
  <2>1. Sound(Following(h), Fingerprints)
    BY <1>1, AtWork, FollowingSound
  <2>2. Sound(AfterFailure(h), Fingerprints)
    BY <2>1, IdleSound DEF AfterFailure
  <2> QED BY <1>3, <2>2, OneMints
<1>4. CASE Unable(h) /\ UNCHANGED pageVars
  BY <1>1, <1>4, GoesOnKeeps DEF Holding, pageVars
<1> QED BY <1>2, <1>3, <1>4 DEF Reinjects

\* captureSnapshot.
LEMMA SnapshotsKeeps ==
    ASSUME ToolInv, NEW h \in Handlers, Snapshots(h)
    PROVE  ToolInv'
<1>1. CASE Minting(h, Idle)
  BY <1>1, IdleSound, OneMints
<1>2. CASE UNCHANGED pageVars /\ \E o : Ends(h, o)
  BY <1>2, EndsKeeps DEF pageVars
<1>3. CASE CacheLost /\ \E o : Ends(h, o)
  BY <1>3, EndsEmpty
<1> QED BY <1>1, <1>2, <1>3 DEF Snapshots, Captureless

\* withTimeout: only the record that the caller has been answered changes.
LEMMA TimesOutKeeps ==
    ASSUME ToolInv, NEW h \in Handlers, TimesOut(h)
    PROVE  ToolInv'
<1>1. ~Free(h) /\ OneCallChanges(h, [calls[h] EXCEPT !.settled = TRUE])
  BY Zenon DEF TimesOut, Racing, OneCallChanges, pageVars
<1>2. Sound([calls[h] EXCEPT !.settled = TRUE], minted)
  BY <1>1, AtWork, OwnerSound
<1> QED BY <1>1, <1>2, OneCall

\* A caller stops listening to its handlers (dispatchToolViaBackground).
LEMMA GivesUpKeeps ==
    ASSUME ToolInv, NEW r, PanelGivesUp(r)
    PROVE  ToolInv'
<1>1. /\ calls' = [h \in Handlers |->
                     IF ~Free(h) /\ calls[h].owner = r
                     THEN [calls[h] EXCEPT !.owner = Outside] ELSE calls[h]]
      /\ UNCHANGED <<cache, minted>>
  BY DEF PanelGivesUp, OfBoth, pageVars
<1>2. calls' = [h \in Handlers |-> calls'[h]]
  BY <1>1
<1>3. ASSUME NEW h \in Handlers PROVE Sound(calls'[h], minted)
  <2>1. CASE ~Free(h) /\ calls'[h] = [calls[h] EXCEPT !.owner = Outside]
    <3>1. Sound([calls[h] EXCEPT !.owner = Outside], minted)
      BY <2>1, AtWork, OwnerSound
    <3> QED BY <2>1, <3>1, Zenon
  <2>2. CASE calls'[h] = calls[h]
    BY <2>2, Zenon DEF ToolInv
  <2> QED BY <1>1, <2>1, <2>2
<1> QED BY <1>1, <1>2, <1>3, Zenon DEF ToolInv

\* The worker is stopped: nothing is under way, nothing is cached.
LEMMA StopsKeeps ==
    ASSUME ToolInv, WorkerStops
    PROVE  ToolInv'
<1>1. /\ calls' = [h \in Handlers |-> Idle]
      /\ cache' = <<>> /\ minted' = minted
  BY DEF WorkerStops, CacheLost
<1>2. /\ calls' = [h \in Handlers |-> calls'[h]]
      /\ \A h \in Handlers : calls'[h] = Idle
  BY <1>1
<1>3. \A h \in Handlers : Sound(calls'[h], minted')
  BY <1>2, IdleSound, Zenon
<1> QED BY <1>1, <1>2, <1>3 DEF ToolInv

\* Every step of a handler.
LEMMA HandlerKeeps ==
    ASSUME ToolInv, NEW h \in Handlers, HandlerSteps(h)
    PROVE  ToolInv'
BY StartKeeps, ActsKeeps, CountsKeeps, ReinjectsKeeps, SnapshotsKeeps DEF HandlerSteps

\* Every step of the extension: the handlers', the callers', the page's, the
\* worker's end.
LEMMA NextKeeps ==
    ASSUME ToolInv, Next
    PROVE  ToolInv'
<1>1. ASSUME NEW r \in Runs,
             Says(r) \/ TabIsBound(r) \/ ProviderReplies(r) \/ ProviderFails(r) \/ FetchAborts(r)
      PROVE  ToolInv'
  <2>1. UNCHANGED <<calls, cache, minted>>
    BY <1>1, Zenon DEF Says, TabIsBound, ProviderReplies, ProviderFails, FetchAborts, OfChat,
       toolVars, pageVars, dispatchVars
  <2> QED BY <2>1, SameTools
<1>2. ASSUME NEW r \in Runs, CallsTool(r) PROVE ToolInv'
  <2>1. (\E h \in Handlers : Begins(h, r)) \/ Refused(r)
    BY <1>2, Zenon DEF CallsTool, OfBoth
  <2>2. CASE Refused(r)
    <3>1. UNCHANGED <<calls, cache, minted>>
      BY <2>2, Zenon DEF Refused, pageVars
    <3> QED BY <3>1, SameTools
  <2> QED BY <2>1, <2>2, BeginsKeeps
<1>3. ASSUME NEW r \in Runs, ToolAnswers(r) PROVE ToolInv'
  <2>1. UNCHANGED <<calls, cache, minted>>
    BY <1>3, Zenon DEF ToolAnswers, OfBoth, pageVars
  <2> QED BY <2>1, SameTools
<1>4. ASSUME NEW r \in Runs, PanelGivesUp(r) PROVE ToolInv'
  BY <1>4, GivesUpKeeps
<1>5. ASSUME NEW h \in Handlers, BridgeAsks(h) \/ HandlerGoesOn(h) \/ TimeIsUp(h)
      PROVE  ToolInv'
  <2>1. Begins(h, Outside) \/ HandlerSteps(h) \/ TimesOut(h)
    BY <1>5, Zenon DEF BridgeAsks, HandlerGoesOn, TimeIsUp, OfTools
  <2> QED BY <2>1, BeginsKeeps, HandlerKeeps, TimesOutKeeps
<1>6. CASE PageMoves
  <2>1. UNCHANGED <<calls, cache, minted>>
    BY <1>6, Zenon DEF PageMoves, OfTools, PageChanges, dispatchVars
  <2> QED BY <2>1, SameTools
<1>7. CASE WorkerEnds
  BY <1>7, StopsKeeps DEF WorkerEnds, OfTools
<1>8. CASE Clicks \/ IdIsAsked \/ IdIsFound \/ ContextIsLost
  <2>1. UNCHANGED <<calls, cache, minted>>
    BY <1>8, Zenon DEF Clicks, IdIsAsked, IdIsFound, ContextIsLost, OfChat, OfId, toolVars,
       pageVars, dispatchVars
  <2> QED BY <2>1, SameTools
<1>9. CASE StatusShifts \/ PanelWork
  <2>1. UNCHANGED <<calls, cache, minted>>
    BY <1>9, Zenon DEF StatusShifts, PanelWork, ManagerWrites, NoteIsWritten, NewsArrives,
       PullStarts, PullIsServed, PullLands, RefreshStarts, RefreshLooks, RefreshLands, OfStatus,
       toolVars, pageVars, dispatchVars
  <2> QED BY <2>1, SameTools
<1> QED BY <1>1, <1>2, <1>3, <1>4, <1>5, <1>6, <1>7, <1>8, <1>9, Zenon DEF Next

\* Nothing is under way at first.
LEMMA ToolsStart == ASSUME Init PROVE ToolInv
<1>1. calls = [h \in Handlers |-> Idle] /\ cache = <<>>
  BY DEF Init, DispatchInit, PageInit
<1>2. calls = [h \in Handlers |-> calls[h]] /\ \A h \in Handlers : calls[h] = Idle
  BY <1>1
<1>3. \A h \in Handlers : Sound(calls[h], minted)
  BY <1>2, IdleSound, Zenon
<1> QED BY <1>1, <1>2, <1>3 DEF ToolInv

\* The ref a click, key press or field goes by, the one of a retry included,
\* stands for what the caller meant unless the page was renumbered meanwhile:
\* for any page and any number of handlers at work on it.
THEOREM MeantIsActedOn == Spec => []ActsOnWhatWasMeant
<1>1. Init => ToolInv
  BY ToolsStart
<1>2. ToolInv /\ [Next]_vars => ToolInv'
  <2>1. ASSUME ToolInv, UNCHANGED vars PROVE ToolInv'
    <3>1. UNCHANGED <<calls, cache, minted>>
      BY <2>1, Zenon DEF vars, toolVars, pageVars, dispatchVars
    <3> QED BY <2>1, <3>1, SameTools
  <2> QED BY <2>1, NextKeeps
<1>3. ToolInv => ActsOnWhatWasMeant
  <2> SUFFICES ASSUME ToolInv, NEW h \in Handlers, ~Free(h),
                      calls[h].stage \in {"act", "again"}, Targeted(h),
                      Aim(h).meant # NoLabel, ~calls[h].crossed, ~calls[h].renumbered
               PROVE  LabelIn(minted, Going(h)) = Aim(h).meant
    BY Zenon DEF ActsOnWhatWasMeant
  <2> DEFINE c == calls[h]
  <2>1. IsCall(c) /\ GoodCall(c, minted)
    BY AtWork
  <2>2. Aim(h) = c.aims[1] /\ 1 \in 1..Len(c.aims)
    BY <2>1 DEF Targeted, Aim, IsCall
  <2>3. CASE c.stage = "act"
    <3>1. AllMeant(c.aims, minted)
      BY <2>1, <2>3 DEF GoodCall, Good
    <3>2. Meant(Aim(h), Aim(h).ref, minted)
      BY <2>2, <3>1, Zenon DEF AllMeant
    <3> QED BY <2>3, <3>2 DEF Meant, Going
  <2>4. CASE c.stage = "again"
    <3>1. Meant(Aim(h), c.again, minted)
      BY <2>1, <2>2, <2>4 DEF GoodCall, Good
    <3> QED BY <2>4, <3>1 DEF Meant, Going
  <2> QED BY <2>3, <2>4
<1> QED BY <1>1, <1>2, <1>3, PTL DEF Spec

-----------------------------------------------------------------------------
(***************************************************************************)
(* The folds a wire form is built by and read by (pushBlock, pushParts):   *)
(* each is what its definition says of nothing, and of one element more.   *)
(***************************************************************************)
\* The fold of a stream.
StreamIter(wire, n, it) ==
    it = [s \in SUBSET (1..n) |->
            IF s = {} THEN <<>> ELSE it[s \ {Max(s)}] \o wire[Max(s)].parts]
StreamIt(wire, n) == CHOOSE it : StreamIter(wire, n, it)

\* What is said is this fold (Stream).
LEMMA StreamIsFold ==
    ASSUME NEW wire, NEW n \in Nat, DOMAIN wire = 1..n
    PROVE  Stream(wire) = StreamIt(wire, n)[1..n]
BY Zenon DEF Stream, StreamIt, StreamIter, FoldLeft, MapThenFoldSet

\* The fold is there.
LEMMA StreamHasFold ==
    ASSUME NEW wire, NEW n \in Nat
    PROVE  StreamIter(wire, n, StreamIt(wire, n))
<1> DEFINE S == {k \in Nat : \E it : StreamIter(wire, k, it)}
<1>1. 0 \in S
  <2> DEFINE it == [s \in SUBSET (1..0) |-> <<>>]
  <2>1. \A s \in SUBSET (1..0) : s = {}
    OBVIOUS
  <2>2. StreamIter(wire, 0, it)
    BY <2>1 DEF StreamIter
  <2> QED BY <2>2
<1>2. ASSUME NEW k \in Nat, k \in S PROVE k + 1 \in S
  <2>1. PICK it : StreamIter(wire, k, it)
    BY <1>2
  <2> DEFINE jt == [s \in SUBSET (1..(k + 1)) |->
                      IF k + 1 \in s THEN it[s \ {k + 1}] \o wire[k + 1].parts ELSE it[s]]
  <2>2. \A s \in SUBSET (1..k) : jt[s] = it[s]
    OBVIOUS
  <2>3. ASSUME NEW s \in SUBSET (1..(k + 1))
        PROVE  jt[s] = IF s = {} THEN <<>> ELSE jt[s \ {Max(s)}] \o wire[Max(s)].parts
    <3>1. CASE s = {}
      BY <2>1, <2>2, <3>1 DEF StreamIter
    <3>2. CASE s # {} /\ k + 1 \in s
      BY <2>2, <3>2, SetsUpTo
    <3>3. CASE s # {} /\ k + 1 \notin s
      <4>1. s \in SUBSET (1..k) /\ s \ {Max(s)} \in SUBSET (1..k)
        BY <3>3, SetsUpTo
      <4> QED BY <2>1, <2>2, <3>3, <4>1 DEF StreamIter
    <3> QED BY <3>1, <3>2, <3>3
  <2>4. StreamIter(wire, k + 1, jt)
    BY <2>3 DEF StreamIter
  <2> QED BY <2>4
<1> HIDE DEF S
<1>3. Nat \subseteq S
  BY <1>1, <1>2, SetInduction
<1>4. \E it : StreamIter(wire, n, it)
  BY <1>3 DEF S
<1> QED BY <1>4, Zenon DEF StreamIt

\* Of nothing.
LEMMA StreamOfNone == Stream(<<>>) = <<>>
<1>1. DOMAIN <<>> = 1..0
  OBVIOUS
<1>2. Stream(<<>>) = StreamIt(<<>>, 0)[1..0]
  BY <1>1, StreamIsFold
<1>3. StreamIter(<<>>, 0, StreamIt(<<>>, 0))
  BY StreamHasFold
<1>4. 1..0 = {} /\ {} \in SUBSET (1..0)
  OBVIOUS
<1> QED BY <1>2, <1>3, <1>4, Zenon DEF StreamIter

\* One more.
LEMMA StreamOfMore ==
    ASSUME NEW S, NEW wire \in Seq(S), NEW x \in S
    PROVE  Stream(Append(wire, x)) = Stream(wire) \o x.parts
<1> DEFINE n == Len(wire)
           more == Append(wire, x)
           it == StreamIt(wire, n)
           jt == StreamIt(more, n + 1)
<1>1. n \in Nat /\ n + 1 \in Nat
  OBVIOUS
<1>2. DOMAIN wire = 1..n /\ DOMAIN more = 1..(n + 1)
  OBVIOUS
<1>3. (\A i \in 1..n : more[i] = wire[i]) /\ more[n + 1] = x
  OBVIOUS
<1>4. Stream(wire) = it[1..n] /\ Stream(more) = jt[1..(n + 1)]
  <2> HIDE DEF n, more
  <2> QED BY <1>1, <1>2, StreamIsFold
<1>5. StreamIter(wire, n, it) /\ StreamIter(more, n + 1, jt)
  BY <1>1, StreamHasFold
<1> HIDE DEF n, more, it, jt
<1>6. jt[{}] = it[{}]
  BY <1>5 DEF StreamIter
<1>7. ASSUME NEW s \in SUBSET (1..n), s # {}, jt[s \ {Max(s)}] = it[s \ {Max(s)}]
      PROVE  jt[s] = it[s]
  <2>1. s \in SUBSET (1..(n + 1))
    BY <1>1
  <2>2. Max(s) \in 1..n
    <3>1. Max(s) \in s
      BY <1>1, <1>7, MaxUpTo
    <3> QED BY <3>1
  <2>3. jt[s] = jt[s \ {Max(s)}] \o more[Max(s)].parts
    BY <1>5, <1>7, <2>1 DEF StreamIter
  <2>4. it[s] = it[s \ {Max(s)}] \o wire[Max(s)].parts
    BY <1>5, <1>7 DEF StreamIter
  <2> QED BY <1>3, <1>7, <2>2, <2>3, <2>4
<1>8. jt[1..n] = it[1..n]
  <2>1. SameSteps(n, jt, it)
    BY <1>6, <1>7 DEF SameSteps
  <2> QED BY <1>1, <2>1, FoldsAgree
<1>9. jt[1..(n + 1)] = jt[1..n] \o more[n + 1].parts
  <2>1. /\ 1..(n + 1) \in SUBSET (1..(n + 1)) /\ 1..(n + 1) # {}
        /\ Max(1..(n + 1)) = n + 1 /\ (1..(n + 1)) \ {n + 1} = 1..n
    BY <1>1, WholePrefix
  <2> QED BY <1>5, <2>1 DEF StreamIter
<1> QED BY <1>3, <1>4, <1>8, <1>9 DEF more

\* The fold of a wire form.
PushedAllIter(turns, n, it) ==
    it = [s \in SUBSET (1..n) |->
            IF s = {} THEN <<>> ELSE Pushed(it[s \ {Max(s)}], turns[Max(s)])]
PushedAllIt(turns, n) == CHOOSE it : PushedAllIter(turns, n, it)

\* The wire form is this fold (pushBlock, pushParts).
LEMMA PushedAllIsFold ==
    ASSUME NEW turns, NEW n \in Nat, DOMAIN turns = 1..n
    PROVE  PushedAll(turns) = PushedAllIt(turns, n)[1..n]
BY Zenon DEF PushedAll, PushedAllIt, PushedAllIter, FoldLeft, MapThenFoldSet

\* The fold is there.
LEMMA PushedAllHasFold ==
    ASSUME NEW turns, NEW n \in Nat
    PROVE  PushedAllIter(turns, n, PushedAllIt(turns, n))
<1> DEFINE S == {k \in Nat : \E it : PushedAllIter(turns, k, it)}
<1>1. 0 \in S
  <2> DEFINE it == [s \in SUBSET (1..0) |-> <<>>]
  <2>1. \A s \in SUBSET (1..0) : s = {}
    OBVIOUS
  <2>2. PushedAllIter(turns, 0, it)
    BY <2>1 DEF PushedAllIter
  <2> QED BY <2>2
<1>2. ASSUME NEW k \in Nat, k \in S PROVE k + 1 \in S
  <2>1. PICK it : PushedAllIter(turns, k, it)
    BY <1>2
  <2> DEFINE jt == [s \in SUBSET (1..(k + 1)) |->
                      IF k + 1 \in s THEN Pushed(it[s \ {k + 1}], turns[k + 1]) ELSE it[s]]
  <2>2. \A s \in SUBSET (1..k) : jt[s] = it[s]
    OBVIOUS
  <2>3. ASSUME NEW s \in SUBSET (1..(k + 1))
        PROVE  jt[s] = IF s = {} THEN <<>> ELSE Pushed(jt[s \ {Max(s)}], turns[Max(s)])
    <3>1. CASE s = {}
      BY <2>1, <2>2, <3>1 DEF PushedAllIter
    <3>2. CASE s # {} /\ k + 1 \in s
      BY <2>2, <3>2, SetsUpTo
    <3>3. CASE s # {} /\ k + 1 \notin s
      <4>1. s \in SUBSET (1..k) /\ s \ {Max(s)} \in SUBSET (1..k)
        BY <3>3, SetsUpTo
      <4> QED BY <2>1, <2>2, <3>3, <4>1 DEF PushedAllIter
    <3> QED BY <3>1, <3>2, <3>3
  <2>4. PushedAllIter(turns, k + 1, jt)
    BY <2>3 DEF PushedAllIter
  <2> QED BY <2>4
<1> HIDE DEF S
<1>3. Nat \subseteq S
  BY <1>1, <1>2, SetInduction
<1>4. \E it : PushedAllIter(turns, n, it)
  BY <1>3 DEF S
<1> QED BY <1>4, Zenon DEF PushedAllIt

\* Of nothing.
LEMMA PushedAllOfNone == PushedAll(<<>>) = <<>>
<1>1. DOMAIN <<>> = 1..0
  OBVIOUS
<1>2. PushedAll(<<>>) = PushedAllIt(<<>>, 0)[1..0]
  BY <1>1, PushedAllIsFold
<1>3. PushedAllIter(<<>>, 0, PushedAllIt(<<>>, 0))
  BY PushedAllHasFold
<1>4. 1..0 = {} /\ {} \in SUBSET (1..0)
  OBVIOUS
<1> QED BY <1>2, <1>3, <1>4, Zenon DEF PushedAllIter

\* One more.
LEMMA PushedAllOfMore ==
    ASSUME NEW S, NEW turns \in Seq(S), NEW x \in S
    PROVE  PushedAll(Append(turns, x)) = Pushed(PushedAll(turns), x)
<1> DEFINE n == Len(turns)
           more == Append(turns, x)
           it == PushedAllIt(turns, n)
           jt == PushedAllIt(more, n + 1)
<1>1. n \in Nat /\ n + 1 \in Nat
  OBVIOUS
<1>2. DOMAIN turns = 1..n /\ DOMAIN more = 1..(n + 1)
  OBVIOUS
<1>3. (\A i \in 1..n : more[i] = turns[i]) /\ more[n + 1] = x
  OBVIOUS
<1>4. PushedAll(turns) = it[1..n] /\ PushedAll(more) = jt[1..(n + 1)]
  <2> HIDE DEF n, more
  <2> QED BY <1>1, <1>2, PushedAllIsFold
<1>5. PushedAllIter(turns, n, it) /\ PushedAllIter(more, n + 1, jt)
  BY <1>1, PushedAllHasFold
<1> HIDE DEF n, more, it, jt
<1>6. jt[{}] = it[{}]
  BY <1>5 DEF PushedAllIter
<1>7. ASSUME NEW s \in SUBSET (1..n), s # {}, jt[s \ {Max(s)}] = it[s \ {Max(s)}]
      PROVE  jt[s] = it[s]
  <2>1. s \in SUBSET (1..(n + 1))
    BY <1>1
  <2>2. Max(s) \in 1..n
    <3>1. Max(s) \in s
      BY <1>1, <1>7, MaxUpTo
    <3> QED BY <3>1
  <2>3. jt[s] = Pushed(jt[s \ {Max(s)}], more[Max(s)])
    BY <1>5, <1>7, <2>1 DEF PushedAllIter
  <2>4. it[s] = Pushed(it[s \ {Max(s)}], turns[Max(s)])
    BY <1>5, <1>7 DEF PushedAllIter
  <2> QED BY <1>3, <1>7, <2>2, <2>3, <2>4
<1>8. jt[1..n] = it[1..n]
  <2>1. SameSteps(n, jt, it)
    BY <1>6, <1>7 DEF SameSteps
  <2> QED BY <1>1, <2>1, FoldsAgree
<1>9. jt[1..(n + 1)] = Pushed(jt[1..n], more[n + 1])
  <2>1. /\ 1..(n + 1) \in SUBSET (1..(n + 1)) /\ 1..(n + 1) # {}
        /\ Max(1..(n + 1)) = n + 1 /\ (1..(n + 1)) \ {n + 1} = 1..n
    BY <1>1, WholePrefix
  <2> QED BY <1>5, <2>1 DEF PushedAllIter
<1> QED BY <1>3, <1>4, <1>8, <1>9 DEF more

\* The fold of what a stream leaves open.
OpenAsksIter(parts, n, it) ==
    it = [s \in SUBSET (1..n) |->
            IF s = {} THEN 0 ELSE Heard(it[s \ {Max(s)}], parts[Max(s)])]
OpenAsksIt(parts, n) == CHOOSE it : OpenAsksIter(parts, n, it)

\* What is left open is this fold (Answered).
LEMMA OpenAsksIsFold ==
    ASSUME NEW parts, NEW n \in Nat, DOMAIN parts = 1..n
    PROVE  OpenAsks(parts) = OpenAsksIt(parts, n)[1..n]
BY Zenon DEF OpenAsks, OpenAsksIt, OpenAsksIter, FoldLeft, MapThenFoldSet

\* The fold is there.
LEMMA OpenAsksHasFold ==
    ASSUME NEW parts, NEW n \in Nat
    PROVE  OpenAsksIter(parts, n, OpenAsksIt(parts, n))
<1> DEFINE S == {k \in Nat : \E it : OpenAsksIter(parts, k, it)}
<1>1. 0 \in S
  <2> DEFINE it == [s \in SUBSET (1..0) |-> 0]
  <2>1. \A s \in SUBSET (1..0) : s = {}
    OBVIOUS
  <2>2. OpenAsksIter(parts, 0, it)
    BY <2>1 DEF OpenAsksIter
  <2> QED BY <2>2
<1>2. ASSUME NEW k \in Nat, k \in S PROVE k + 1 \in S
  <2>1. PICK it : OpenAsksIter(parts, k, it)
    BY <1>2
  <2> DEFINE jt == [s \in SUBSET (1..(k + 1)) |->
                      IF k + 1 \in s THEN Heard(it[s \ {k + 1}], parts[k + 1]) ELSE it[s]]
  <2>2. \A s \in SUBSET (1..k) : jt[s] = it[s]
    OBVIOUS
  <2>3. ASSUME NEW s \in SUBSET (1..(k + 1))
        PROVE  jt[s] = IF s = {} THEN 0 ELSE Heard(jt[s \ {Max(s)}], parts[Max(s)])
    <3>1. CASE s = {}
      BY <2>1, <2>2, <3>1 DEF OpenAsksIter
    <3>2. CASE s # {} /\ k + 1 \in s
      BY <2>2, <3>2, SetsUpTo
    <3>3. CASE s # {} /\ k + 1 \notin s
      <4>1. s \in SUBSET (1..k) /\ s \ {Max(s)} \in SUBSET (1..k)
        BY <3>3, SetsUpTo
      <4> QED BY <2>1, <2>2, <3>3, <4>1 DEF OpenAsksIter
    <3> QED BY <3>1, <3>2, <3>3
  <2>4. OpenAsksIter(parts, k + 1, jt)
    BY <2>3 DEF OpenAsksIter
  <2> QED BY <2>4
<1> HIDE DEF S
<1>3. Nat \subseteq S
  BY <1>1, <1>2, SetInduction
<1>4. \E it : OpenAsksIter(parts, n, it)
  BY <1>3 DEF S
<1> QED BY <1>4, Zenon DEF OpenAsksIt

\* Of nothing.
LEMMA OpenAsksOfNone == OpenAsks(<<>>) = 0
<1>1. DOMAIN <<>> = 1..0
  OBVIOUS
<1>2. OpenAsks(<<>>) = OpenAsksIt(<<>>, 0)[1..0]
  BY <1>1, OpenAsksIsFold
<1>3. OpenAsksIter(<<>>, 0, OpenAsksIt(<<>>, 0))
  BY OpenAsksHasFold
<1>4. 1..0 = {} /\ {} \in SUBSET (1..0)
  OBVIOUS
<1> QED BY <1>2, <1>3, <1>4, Zenon DEF OpenAsksIter

\* One more.
LEMMA OpenAsksOfMore ==
    ASSUME NEW S, NEW parts \in Seq(S), NEW x \in S
    PROVE  OpenAsks(Append(parts, x)) = Heard(OpenAsks(parts), x)
<1> DEFINE n == Len(parts)
           more == Append(parts, x)
           it == OpenAsksIt(parts, n)
           jt == OpenAsksIt(more, n + 1)
<1>1. n \in Nat /\ n + 1 \in Nat
  OBVIOUS
<1>2. DOMAIN parts = 1..n /\ DOMAIN more = 1..(n + 1)
  OBVIOUS
<1>3. (\A i \in 1..n : more[i] = parts[i]) /\ more[n + 1] = x
  OBVIOUS
<1>4. OpenAsks(parts) = it[1..n] /\ OpenAsks(more) = jt[1..(n + 1)]
  <2> HIDE DEF n, more
  <2> QED BY <1>1, <1>2, OpenAsksIsFold
<1>5. OpenAsksIter(parts, n, it) /\ OpenAsksIter(more, n + 1, jt)
  BY <1>1, OpenAsksHasFold
<1> HIDE DEF n, more, it, jt
<1>6. jt[{}] = it[{}]
  BY <1>5 DEF OpenAsksIter
<1>7. ASSUME NEW s \in SUBSET (1..n), s # {}, jt[s \ {Max(s)}] = it[s \ {Max(s)}]
      PROVE  jt[s] = it[s]
  <2>1. s \in SUBSET (1..(n + 1))
    BY <1>1
  <2>2. Max(s) \in 1..n
    <3>1. Max(s) \in s
      BY <1>1, <1>7, MaxUpTo
    <3> QED BY <3>1
  <2>3. jt[s] = Heard(jt[s \ {Max(s)}], more[Max(s)])
    BY <1>5, <1>7, <2>1 DEF OpenAsksIter
  <2>4. it[s] = Heard(it[s \ {Max(s)}], parts[Max(s)])
    BY <1>5, <1>7 DEF OpenAsksIter
  <2> QED BY <1>3, <1>7, <2>2, <2>3, <2>4
<1>8. jt[1..n] = it[1..n]
  <2>1. SameSteps(n, jt, it)
    BY <1>6, <1>7 DEF SameSteps
  <2> QED BY <1>1, <2>1, FoldsAgree
<1>9. jt[1..(n + 1)] = Heard(jt[1..n], more[n + 1])
  <2>1. /\ 1..(n + 1) \in SUBSET (1..(n + 1)) /\ 1..(n + 1) # {}
        /\ Max(1..(n + 1)) = n + 1 /\ (1..(n + 1)) \ {n + 1} = 1..n
    BY <1>1, WholePrefix
  <2> QED BY <1>5, <2>1 DEF OpenAsksIter
<1> QED BY <1>3, <1>4, <1>8, <1>9 DEF more

-----------------------------------------------------------------------------
(***************************************************************************)
(* What a conversation becomes on its way to a provider (buildWire,        *)
(* toWireMessages).                                                        *)
(***************************************************************************)
Msgs == [role : Roles, text : BOOLEAN, asks : Nat, of : Nat]
PartSet == {"text", "ask", "answer"}
Turns == [role : {"user", "assistant", "model"}, parts : Seq(PartSet)]

\* A wire form a provider would accept once the open asks are answered.
GoodWire(w, open) ==
    /\ w \in Seq(Turns) /\ w # <<>> /\ Head(w).role = "user"
    /\ OpenAsks(Stream(w)) = open

\* A sequence is its front and its last.
LEMMA FrontAndLast ==
    ASSUME NEW S, NEW w \in Seq(S), w # <<>>
    PROVE  Front(w) \in Seq(S) /\ Last(w) \in S /\ w = Append(Front(w), Last(w))
<1>1. PICK s \in Seq(S), e \in S : w = Append(s, e)
  BY SequenceEmptyOrAppend
<1>2. Len(w) = Len(s) + 1 /\ w[Len(w)] = e /\ \A i \in 1..Len(s) : w[i] = s[i]
  BY <1>1, AppendProperties
<1>3. Last(w) = e
  BY <1>2 DEF Last
<1>4. Front(w) = s
  <2>1. Len(s) \in Nat /\ Len(w) - 1 = Len(s)
    BY <1>2
  <2>2. Front(w) = SubSeq(w, 1, Len(s))
    BY <2>1 DEF Front
  <2>3. \A i \in 1..Len(s) : w[i] \in S
    BY <1>2
  <2>4. /\ SubSeq(w, 1, Len(s)) \in Seq(S) /\ Len(SubSeq(w, 1, Len(s))) = Len(s)
        /\ \A i \in 1..Len(s) : SubSeq(w, 1, Len(s))[i] = w[i]
    BY <2>1, <2>3
  <2> QED BY <1>2, <2>2, <2>4, SeqEqual
<1> QED BY <1>1, <1>3, <1>4

\* What is said is a sequence of parts.
LEMMA StreamIsSeq ==
    ASSUME NEW w \in Seq(Turns)
    PROVE  Stream(w) \in Seq(PartSet)
<1> DEFINE S == {n \in Nat : \A v \in Seq(Turns) : Len(v) = n => Stream(v) \in Seq(PartSet)}
<1>1. 0 \in S
  <2>1. \A v \in Seq(Turns) : Len(v) = 0 => v = <<>>
    OBVIOUS
  <2> QED BY <2>1, StreamOfNone
<1>2. ASSUME NEW n \in Nat, n \in S PROVE n + 1 \in S
  <2> SUFFICES ASSUME NEW v \in Seq(Turns), Len(v) = n + 1 PROVE Stream(v) \in Seq(PartSet)
    OBVIOUS
  <2>1. PICK s \in Seq(Turns), e \in Turns : v = Append(s, e)
    <3>1. v # <<>>
      OBVIOUS
    <3> QED BY <3>1, SequenceEmptyOrAppend
  <2>2. Len(s) = n
    BY <2>1
  <2>3. Stream(s) \in Seq(PartSet) /\ e.parts \in Seq(PartSet)
    BY <1>2, <2>2 DEF Turns
  <2>4. Stream(v) = Stream(s) \o e.parts
    BY <2>1, StreamOfMore
  <2> QED BY <2>3, <2>4, ConcatProperties
<1> HIDE DEF S
<1>3. Nat \subseteq S
  BY <1>1, <1>2, SetInduction
<1>4. Len(w) \in Nat
  OBVIOUS
<1> QED BY <1>3, <1>4 DEF S

\* A turn is added by a step of its own or continues the last one: what is
\* said is the same.
LEMMA PushedSays ==
    ASSUME NEW w \in Seq(Turns), NEW turn \in Turns
    PROVE  /\ Pushed(w, turn) \in Seq(Turns)
           /\ Stream(Pushed(w, turn)) = Stream(w) \o turn.parts
           /\ w # <<>> => Pushed(w, turn) # <<>> /\ Head(Pushed(w, turn)).role = Head(w).role
           /\ turn.parts # <<>> =>
                 Pushed(w, turn) # <<>> /\ Last(Pushed(w, turn)).role = turn.role
<1>1. CASE turn.parts = <<>>
  <2>1. Pushed(w, turn) = w
    BY <1>1 DEF Pushed
  <2>2. Stream(w) \o <<>> = Stream(w)
    BY StreamIsSeq, ConcatEmptySeq
  <2> QED BY <1>1, <2>1, <2>2
<1>2. CASE turn.parts # <<>> /\ w # <<>> /\ Last(w).role = turn.role
  <2> DEFINE f == Front(w)
             l == Last(w)
             x == [l EXCEPT !.parts = l.parts \o turn.parts]
  <2>1. f \in Seq(Turns) /\ l \in Turns /\ w = Append(f, l)
    BY <1>2, FrontAndLast
  <2>2. Pushed(w, turn) = f \o <<x>>
    <3>1. x = [Last(w) EXCEPT !.parts = Last(w).parts \o turn.parts]
      OBVIOUS
    <3> QED BY <1>2, <3>1 DEF Pushed
  <2>3. x \in Turns /\ x.role = l.role /\ x.parts = l.parts \o turn.parts
    <3>1. l.parts \o turn.parts \in Seq(PartSet)
      BY <2>1, ConcatProperties DEF Turns
    <3> DEFINE p == l.parts \o turn.parts
    <3> HIDE DEF p, l
    <3>2. l \in Turns /\ p \in Seq(PartSet)
      BY <2>1, <3>1 DEF p
    <3>3. [l EXCEPT !.parts = p] = [role |-> l.role, parts |-> p]
      <4> DEFINE u == l.role  v == l.parts
      <4>1. l = [role |-> u, parts |-> v]
        BY <3>2, Zenon DEF Turns
      <4> HIDE DEF u, v
      <4>2. [[role |-> u, parts |-> v] EXCEPT !.parts = p] = [role |-> u, parts |-> p]
        OBVIOUS
      <4> QED BY <4>1, <4>2, Zenon DEF u
    <3>4. x = [role |-> l.role, parts |-> p]
      BY <3>3 DEF p
    <3> QED BY <3>2, <3>4 DEF Turns, p
  <2>4. Pushed(w, turn) = Append(f, x)
    <3> HIDE DEF f, x
    <3> QED BY <2>1, <2>2, <2>3
  <2>5. Stream(w) = Stream(f) \o l.parts /\ Stream(Append(f, x)) = Stream(f) \o x.parts
    <3> HIDE DEF f, l, x
    <3> QED BY <2>1, <2>3, StreamOfMore
  <2> HIDE DEF f, l, x
  <2>6. Stream(Pushed(w, turn)) = Stream(w) \o turn.parts
    <3>1. /\ Stream(f) \in Seq(PartSet) /\ l.parts \in Seq(PartSet)
          /\ turn.parts \in Seq(PartSet)
      BY <2>1, StreamIsSeq DEF Turns
    <3>2. (Stream(f) \o l.parts) \o turn.parts = Stream(f) \o (l.parts \o turn.parts)
      <4> DEFINE a == Stream(f)  b == l.parts  c == turn.parts
      <4>1. a \in Seq(PartSet) /\ b \in Seq(PartSet) /\ c \in Seq(PartSet)
        BY <3>1
      <4> HIDE DEF a, b, c
      <4>2. (a \o b) \o c = a \o (b \o c)
        BY <4>1, ConcatAssociative
      <4> QED BY <4>2 DEF a, b, c
    <3> QED BY <2>3, <2>4, <2>5, <3>2
  <2>7. Pushed(w, turn) \in Seq(Turns) /\ Pushed(w, turn) # <<>>
    BY <2>1, <2>3, <2>4, AppendProperties
  <2>8. Head(Pushed(w, turn)).role = Head(w).role
    BY <2>1, <2>3, <2>4, HeadTailAppend
  <2>9. Last(Pushed(w, turn)) = x
    BY <2>1, <2>3, <2>4, AppendProperties DEF Last
  <2> QED BY <1>2, <2>3, <2>6, <2>7, <2>8, <2>9 DEF l
<1>3. CASE turn.parts # <<>> /\ ~(w # <<>> /\ Last(w).role = turn.role)
  <2>1. Pushed(w, turn) = Append(w, turn)
    BY <1>3 DEF Pushed
  <2>2. Stream(Append(w, turn)) = Stream(w) \o turn.parts
    BY StreamOfMore
  <2> QED BY <1>3, <2>1, <2>2 DEF Last
<1> QED BY <1>1, <1>2, <1>3

\* parts is said where a asks are open and leaves b.
Leaves(parts, a, b) ==
    /\ parts \in Seq(PartSet)
    /\ \A all \in Seq(PartSet) : OpenAsks(all) = a => OpenAsks(all \o parts) = b

\* A text is said when nothing is open; an answer closes one ask.
LEMMA OnePart ==
    ASSUME NEW all \in Seq(PartSet)
    PROVE  /\ OpenAsks(all) = 0 => OpenAsks(all \o <<"text">>) = 0
           /\ \A k \in Nat \ {0} : OpenAsks(all) = k => OpenAsks(all \o <<"answer">>) = k - 1
           /\ \A k \in Nat : OpenAsks(all) = k => OpenAsks(Append(all, "ask")) = k + 1
<1>1. /\ all \o <<"text">> = Append(all, "text") /\ all \o <<"answer">> = Append(all, "answer")
      /\ "text" \in PartSet /\ "answer" \in PartSet /\ "ask" \in PartSet
  BY AppendIsConcat DEF PartSet
<1>2. /\ OpenAsks(Append(all, "text")) = Heard(OpenAsks(all), "text")
      /\ OpenAsks(Append(all, "answer")) = Heard(OpenAsks(all), "answer")
      /\ OpenAsks(Append(all, "ask")) = Heard(OpenAsks(all), "ask")
  BY <1>1, OpenAsksOfMore
<1> DEFINE open == OpenAsks(all)
<1>3. open = 0 => Heard(open, "text") = 0
  BY DEF Heard
<1>4. \A k \in Nat \ {0} : Heard(k, "answer") = k - 1
  BY DEF Heard
<1>5. \A k \in Nat : Heard(k, "ask") = k + 1
  BY DEF Heard
<1> QED BY <1>1, <1>2, <1>3, <1>4, <1>5, Zenon

\* Asks add up.
Asking(n) == [i \in 1..n |-> "ask"]

\* n asks more are n more open.
LEMMA AsksAddUp ==
    ASSUME NEW all \in Seq(PartSet), NEW k \in Nat, OpenAsks(all) = k, NEW n \in Nat
    PROVE  OpenAsks(all \o Asking(n)) = k + n
<1> DEFINE S == {i \in Nat : OpenAsks(all \o Asking(i)) = k + i}
<1>0. \A i \in Nat : Asking(i) \in Seq(PartSet) /\ Len(Asking(i)) = i
  BY DEF Asking, PartSet
<1>1. 0 \in S
  <2>1. Asking(0) = <<>>
    BY <1>0
  <2>2. all \o <<>> = all
    BY ConcatEmptySeq
  <2>3. OpenAsks(all \o Asking(0)) = k + 0
    <3>1. k = k + 0
      OBVIOUS
    <3> QED BY <2>1, <2>2, <3>1, Zenon
  <2> QED BY <2>3
<1>2. ASSUME NEW i \in Nat, i \in S PROVE i + 1 \in S
  <2>1. Asking(i + 1) = Append(Asking(i), "ask")
    BY DEF Asking
  <2>2. all \o Append(Asking(i), "ask") = Append(all \o Asking(i), "ask")
    BY <1>0 DEF PartSet
  <2>3. all \o Asking(i) \in Seq(PartSet)
    BY <1>0, ConcatProperties
  <2>4. OpenAsks(all \o Asking(i)) = k + i /\ k + i \in Nat
    BY <1>2
  <2>5. OpenAsks(Append(all \o Asking(i), "ask")) = k + i + 1
    BY <2>3, <2>4, OnePart
  <2>6. OpenAsks(all \o Asking(i + 1)) = k + (i + 1)
    <3>1. k + i + 1 = k + (i + 1)
      OBVIOUS
    <3> QED BY <2>1, <2>2, <2>5, <3>1, Zenon
  <2> QED BY <2>6
<1> HIDE DEF S
<1>3. Nat \subseteq S
  BY <1>1, <1>2, SetInduction
<1> QED BY <1>3 DEF S

\* What a message leaves open.
LEMMA MessageLeaves ==
    ASSUME NEW m \in Msgs
    PROVE  /\ m.role = "tool" => /\ \A k \in Nat \ {0} : Leaves(Parts(m), k, k - 1)
                                 /\ Parts(m) # <<>>
           /\ m.role # "tool" => /\ Leaves(Parts(m), 0, m.asks)
                                 /\ m.text => Parts(m) # <<>>
<1>1. CASE m.role = "tool"
  <2>1. Parts(m) = <<"answer">> /\ <<"answer">> \in Seq(PartSet)
    BY <1>1 DEF Parts, PartSet
  <2> QED BY <1>1, <2>1, OnePart DEF Leaves
<1>2. CASE m.role # "tool"
  <2>1. Parts(m) = Text(m) \o Asking(m.asks) /\ m.asks \in Nat
    BY <1>2 DEF Parts, Asking, Msgs
  <2>2. Text(m) \in Seq(PartSet) /\ Asking(m.asks) \in Seq(PartSet)
    <3>1. <<>> \in Seq(PartSet) /\ <<"text">> \in Seq(PartSet)
      BY DEF PartSet
    <3>2. Text(m) \in Seq(PartSet)
      BY <3>1, Zenon DEF Text
    <3>3. Asking(m.asks) \in Seq(PartSet)
      BY <2>1 DEF Asking, PartSet
    <3> QED BY <3>2, <3>3
  <2>3. Parts(m) \in Seq(PartSet) /\ (m.text => Parts(m) # <<>>)
    BY <2>1, <2>2, ConcatProperties DEF Text
  <2>4. ASSUME NEW all \in Seq(PartSet), OpenAsks(all) = 0
        PROVE  OpenAsks(all \o Parts(m)) = m.asks
    <3> DEFINE said == all \o Text(m)
    <3>1. said \in Seq(PartSet) /\ OpenAsks(said) = 0
      <4>1. Text(m) = <<>> \/ Text(m) = <<"text">>
        BY DEF Text
      <4>2. all \o <<>> = all
        BY ConcatEmptySeq
      <4>3. said \in Seq(PartSet)
        BY <2>2, ConcatProperties
      <4>4. OpenAsks(all \o <<"text">>) = 0
        BY <2>4, OnePart
      <4>5. OpenAsks(said) = 0
        BY <2>4, <4>1, <4>2, <4>4, Zenon
      <4> QED BY <4>3, <4>5
    <3>2. all \o Parts(m) = said \o Asking(m.asks)
      <4> DEFINE x == Text(m)  y == Asking(m.asks)
      <4>1. x \in Seq(PartSet) /\ y \in Seq(PartSet) /\ Parts(m) = x \o y
        BY <2>1, <2>2
      <4> HIDE DEF x, y
      <4>2. (all \o x) \o y = all \o (x \o y)
        BY <4>1, ConcatAssociative
      <4> QED BY <4>1, <4>2 DEF x, y
    <3> HIDE DEF said
    <3>3. OpenAsks(said \o Asking(m.asks)) = 0 + m.asks
      BY <2>1, <3>1, AsksAddUp
    <3> QED BY <2>1, <3>2, <3>3
  <2> QED BY <1>2, <2>3, <2>4 DEF Leaves
<1> QED BY <1>1, <1>2

\* A turn more.
LEMMA WireGrows ==
    ASSUME NEW w, NEW a, NEW b, GoodWire(w, a), NEW turn \in Turns, Leaves(turn.parts, a, b)
    PROVE  /\ GoodWire(Append(w, turn), b) /\ Last(Append(w, turn)).role = turn.role
           /\ GoodWire(Pushed(w, turn), b)
           /\ turn.parts # <<>> => Last(Pushed(w, turn)).role = turn.role
<1>1. w \in Seq(Turns) /\ w # <<>> /\ Stream(w) \in Seq(PartSet)
  BY StreamIsSeq DEF GoodWire
<1>2. OpenAsks(Stream(w) \o turn.parts) = b
  BY <1>1 DEF Leaves, GoodWire
<1>3. Stream(Append(w, turn)) = Stream(w) \o turn.parts
  BY <1>1, StreamOfMore
<1>4. /\ Append(w, turn) \in Seq(Turns) /\ Append(w, turn) # <<>>
      /\ Head(Append(w, turn)) = Head(w) /\ Last(Append(w, turn)) = turn
  BY <1>1, AppendProperties, HeadTailAppend DEF Last
<1>5. GoodWire(Append(w, turn), b) /\ Last(Append(w, turn)).role = turn.role
  BY <1>2, <1>3, <1>4 DEF GoodWire
<1>6. GoodWire(Pushed(w, turn), b)
  BY <1>1, <1>2, PushedSays DEF GoodWire
<1> QED BY <1>1, <1>5, <1>6, PushedSays

\* The turns of a message, one for each provider.
OpenAITurn(m) ==
    [role |-> IF m.role = "assistant" THEN "assistant" ELSE "user", parts |-> Parts(m)]

\* What each provider makes of one message (toWireMessages, buildWire).
LEMMA TurnsOfMessage ==
    ASSUME NEW m \in Msgs
    PROVE  /\ OpenAITurn(m) \in Turns /\ AnthropicTurn(m) \in Turns /\ GeminiTurn(m) \in Turns
           /\ OpenAITurn(m).parts = Parts(m)
           /\ m.role # "system" =>
                 AnthropicTurn(m).parts = Parts(m) /\ GeminiTurn(m).parts = Parts(m)
           /\ m.role \in {"user", "tool"} => /\ OpenAITurn(m).role = "user"
                                             /\ AnthropicTurn(m).role = "user"
                                             /\ GeminiTurn(m).role = "user"
<1>1. Parts(m) \in Seq(PartSet)
  <2>1. m.role = "tool" => Leaves(Parts(m), 1, 0)
    BY MessageLeaves
  <2> QED BY <2>1, MessageLeaves DEF Leaves
<1>2. <<>> \in Seq(PartSet)
  OBVIOUS
<1> QED BY <1>1, <1>2 DEF OpenAITurn, AnthropicTurn, GeminiTurn, Turns

\* A message more is a turn more on each wire (toWireMessages, buildWire).
LEMMA WiresGrow ==
    ASSUME NEW ms \in Seq(Msgs), NEW m \in Msgs
    PROVE  /\ OpenAIWire(Append(ms, m)) = Append(OpenAIWire(ms), OpenAITurn(m))
           /\ AnthropicWire(Append(ms, m)) = Pushed(AnthropicWire(ms), AnthropicTurn(m))
           /\ GeminiWire(Append(ms, m)) = Pushed(GeminiWire(ms), GeminiTurn(m))
<1> DEFINE more == Append(ms, m)
<1>1. DOMAIN ms = 1..Len(ms) /\ DOMAIN more = 1..(Len(ms) + 1) /\ Len(ms) \in Nat
  OBVIOUS
<1>2. (\A i \in 1..Len(ms) : more[i] = ms[i]) /\ more[Len(ms) + 1] = m
  OBVIOUS
<1>3. \A i \in 1..Len(ms) : ms[i] \in Msgs
  OBVIOUS
<1> HIDE DEF more
<1>4. OpenAIWire(more) = Append(OpenAIWire(ms), OpenAITurn(m))
  <2>1. /\ OpenAIWire(ms) = [i \in 1..Len(ms) |-> OpenAITurn(ms[i])]
        /\ OpenAIWire(more) = [i \in 1..(Len(ms) + 1) |-> OpenAITurn(more[i])]
    BY <1>1 DEF OpenAIWire, OpenAITurn
  <2> QED BY <1>1, <1>2, <2>1
<1>5. AnthropicWire(more) = Pushed(AnthropicWire(ms), AnthropicTurn(m))
  <2> DEFINE old == [i \in 1..Len(ms) |-> AnthropicTurn(ms[i])]
             new == [i \in 1..(Len(ms) + 1) |-> AnthropicTurn(more[i])]
  <2>1. old \in Seq(Turns) /\ AnthropicTurn(m) \in Turns
    BY <1>1, <1>3, TurnsOfMessage
  <2>2. new = Append(old, AnthropicTurn(m))
    BY <1>1, <1>2
  <2>3. AnthropicWire(ms) = PushedAll(old) /\ AnthropicWire(more) = PushedAll(new)
    BY <1>1, Zenon DEF AnthropicWire
  <2> HIDE DEF old, new
  <2> QED BY <2>1, <2>2, <2>3, PushedAllOfMore
<1>6. GeminiWire(more) = Pushed(GeminiWire(ms), GeminiTurn(m))
  <2> DEFINE old == [i \in 1..Len(ms) |-> GeminiTurn(ms[i])]
             new == [i \in 1..(Len(ms) + 1) |-> GeminiTurn(more[i])]
  <2>1. old \in Seq(Turns) /\ GeminiTurn(m) \in Turns
    BY <1>1, <1>3, TurnsOfMessage
  <2>2. new = Append(old, GeminiTurn(m))
    BY <1>1, <1>2
  <2>3. GeminiWire(ms) = PushedAll(old) /\ GeminiWire(more) = PushedAll(new)
    BY <1>1, Zenon DEF GeminiWire
  <2> HIDE DEF old, new
  <2> QED BY <2>1, <2>2, <2>3, PushedAllOfMore
<1> QED BY <1>4, <1>5, <1>6 DEF more

\* A conversation every provider accepts but for its open asks; one in which
\* the user has the last word.
Wires(ms) == {OpenAIWire(ms), AnthropicWire(ms), GeminiWire(ms)}
Sendable(ms, open) == ms \in Seq(Msgs) /\ ms # <<>> /\ \A w \in Wires(ms) : GoodWire(w, open)
TheUsersTurn(ms) == \A w \in Wires(ms) : Last(w).role = "user"

\* What the chat adds to a conversation leaves it so.
LEMMA SendableGrows ==
    ASSUME NEW ms, NEW a, NEW b, Sendable(ms, a), NEW m \in Msgs,
           \/ m.role = "tool" /\ a \in Nat \ {0} /\ b = a - 1
           \/ m.role \in {"user", "assistant"} /\ a = 0 /\ b = m.asks
    PROVE  /\ Sendable(Append(ms, m), b)
           /\ m.role \in {"user", "tool"} /\ m.text => TheUsersTurn(Append(ms, m))
<1>1. ms \in Seq(Msgs) /\ \A w \in Wires(ms) : GoodWire(w, a)
  BY DEF Sendable
<1>2. Leaves(Parts(m), a, b) /\ (m.role \in {"user", "tool"} /\ m.text => Parts(m) # <<>>)
  BY MessageLeaves
<1>3. m.role # "system"
  OBVIOUS
<1>4. /\ GoodWire(OpenAIWire(Append(ms, m)), b)
      /\ m.role \in {"user", "tool"} /\ m.text => Last(OpenAIWire(Append(ms, m))).role = "user"
  <2> DEFINE w == OpenAIWire(ms)
             turn == OpenAITurn(m)
             next == OpenAIWire(Append(ms, m))
  <2>1. GoodWire(w, a)
    BY <1>1 DEF Wires
  <2>2. /\ turn \in Turns /\ Leaves(turn.parts, a, b)
        /\ m.role \in {"user", "tool"} => turn.role = "user"
        /\ m.role \in {"user", "tool"} /\ m.text => turn.parts # <<>>
    BY <1>2, <1>3, TurnsOfMessage
  <2>3. next = Append(w, turn)
    BY <1>1, WiresGrow
  <2> HIDE DEF w, turn, next
  <2>4. /\ GoodWire(next, b)
        /\ turn.parts # <<>> => Last(next).role = turn.role
    BY <2>1, <2>2, <2>3, WireGrows
  <2> QED BY <2>2, <2>4 DEF next
<1>5. /\ GoodWire(AnthropicWire(Append(ms, m)), b)
      /\ m.role \in {"user", "tool"} /\ m.text => Last(AnthropicWire(Append(ms, m))).role = "user"
  <2> DEFINE w == AnthropicWire(ms)
             turn == AnthropicTurn(m)
             next == AnthropicWire(Append(ms, m))
  <2>1. GoodWire(w, a)
    BY <1>1 DEF Wires
  <2>2. /\ turn \in Turns /\ Leaves(turn.parts, a, b)
        /\ m.role \in {"user", "tool"} => turn.role = "user"
        /\ m.role \in {"user", "tool"} /\ m.text => turn.parts # <<>>
    BY <1>2, <1>3, TurnsOfMessage
  <2>3. next = Pushed(w, turn)
    BY <1>1, WiresGrow
  <2> HIDE DEF w, turn, next
  <2>4. /\ GoodWire(next, b)
        /\ turn.parts # <<>> => Last(next).role = turn.role
    BY <2>1, <2>2, <2>3, WireGrows
  <2> QED BY <2>2, <2>4 DEF next
<1>6. /\ GoodWire(GeminiWire(Append(ms, m)), b)
      /\ m.role \in {"user", "tool"} /\ m.text => Last(GeminiWire(Append(ms, m))).role = "user"
  <2> DEFINE w == GeminiWire(ms)
             turn == GeminiTurn(m)
             next == GeminiWire(Append(ms, m))
  <2>1. GoodWire(w, a)
    BY <1>1 DEF Wires
  <2>2. /\ turn \in Turns /\ Leaves(turn.parts, a, b)
        /\ m.role \in {"user", "tool"} => turn.role = "user"
        /\ m.role \in {"user", "tool"} /\ m.text => turn.parts # <<>>
    BY <1>2, <1>3, TurnsOfMessage
  <2>3. next = Pushed(w, turn)
    BY <1>1, WiresGrow
  <2> HIDE DEF w, turn, next
  <2>4. /\ GoodWire(next, b)
        /\ turn.parts # <<>> => Last(next).role = turn.role
    BY <2>1, <2>2, <2>3, WireGrows
  <2> QED BY <2>2, <2>4 DEF next
<1>7. Append(ms, m) \in Seq(Msgs) /\ Append(ms, m) # <<>>
  BY <1>1, AppendProperties
<1> QED BY <1>4, <1>5, <1>6, <1>7 DEF Sendable, TheUsersTurn, Wires

\* The first message comes with the system prompt.
LEMMA FirstIsSendable ==
    ASSUME NEW g \in Nat
    PROVE  LET ms == <<Message("system", TRUE, 0, g), Message("user", TRUE, 0, g)>>
           IN  Sendable(ms, 0) /\ TheUsersTurn(ms)
<1> DEFINE s == Message("system", TRUE, 0, g)
           u == Message("user", TRUE, 0, g)
<1>1. /\ s \in Msgs /\ u \in Msgs /\ s.role = "system" /\ u.role = "user"
      /\ u.text /\ u.asks = 0 /\ s.text /\ s.asks = 0
  BY DEF Message, Msgs, Roles
<1> HIDE DEF s, u
<1>2. <<s, u>> = Append(<<s>>, u) /\ <<s>> = Append(<<>>, s)
  OBVIOUS
<1>3. <<>> \in Seq(Msgs) /\ <<s>> \in Seq(Msgs) /\ <<s, u>> \in Seq(Msgs)
  BY <1>1
<1>4. OpenAIWire(<<>>) = <<>> /\ AnthropicWire(<<>>) = <<>> /\ GeminiWire(<<>>) = <<>>
  <2>1. OpenAIWire(<<>>) = <<>>
    BY DEF OpenAIWire
  <2>2. /\ [i \in DOMAIN <<>> |-> AnthropicTurn(<<>>[i])] = <<>>
        /\ [i \in DOMAIN <<>> |-> GeminiTurn(<<>>[i])] = <<>>
    OBVIOUS
  <2> QED BY <2>1, <2>2, PushedAllOfNone, Zenon DEF AnthropicWire, GeminiWire
<1>5. /\ OpenAIWire(<<s, u>>) = Append(Append(<<>>, OpenAITurn(s)), OpenAITurn(u))
      /\ AnthropicWire(<<s, u>>) = Pushed(Pushed(<<>>, AnthropicTurn(s)), AnthropicTurn(u))
      /\ GeminiWire(<<s, u>>) = Pushed(Pushed(<<>>, GeminiTurn(s)), GeminiTurn(u))
  BY <1>1, <1>2, <1>3, <1>4, WiresGrow
<1>6. AnthropicTurn(s).parts = <<>> /\ GeminiTurn(s).parts = <<>>
  BY <1>1 DEF AnthropicTurn, GeminiTurn
<1>7. Parts(u) # <<>> /\ Leaves(Parts(u), 0, 0) /\ Leaves(Parts(s), 0, 0)
  BY <1>1, MessageLeaves
<1>8. ASSUME NEW t \in Turns, Leaves(t.parts, 0, 0), t.role = "user"
      PROVE  GoodWire(Append(<<>>, t), 0) /\ Last(Append(<<>>, t)).role = "user"
  <2>1. /\ Append(<<>>, t) \in Seq(Turns) /\ Append(<<>>, t) # <<>>
        /\ Head(Append(<<>>, t)) = t /\ Last(Append(<<>>, t)) = t
    BY DEF Last
  <2>2. Stream(Append(<<>>, t)) = <<>> \o t.parts
    <3>1. <<>> \in Seq(Turns)
      OBVIOUS
    <3>2. Stream(Append(<<>>, t)) = Stream(<<>>) \o t.parts
      BY <3>1, StreamOfMore
    <3> QED BY <3>2, StreamOfNone, Zenon
  <2>3. <<>> \in Seq(PartSet) /\ OpenAsks(<<>>) = 0
    BY OpenAsksOfNone
  <2>4. OpenAsks(<<>> \o t.parts) = 0
    BY <1>8, <2>3 DEF Leaves
  <2> QED BY <1>8, <2>1, <2>2, <2>4 DEF GoodWire
<1>9. GoodWire(OpenAIWire(<<s, u>>), 0) /\ Last(OpenAIWire(<<s, u>>)).role = "user"
  <2>1. OpenAITurn(s).role = "user"
    BY <1>1 DEF OpenAITurn
  <2>2. GoodWire(Append(<<>>, OpenAITurn(s)), 0)
    BY <1>1, <1>7, <1>8, <2>1, TurnsOfMessage
  <2> DEFINE w == Append(<<>>, OpenAITurn(s))
             turn == OpenAITurn(u)
  <2>3. GoodWire(w, 0)
    BY <2>2
  <2>4. turn \in Turns /\ Leaves(turn.parts, 0, 0) /\ turn.role = "user"
    BY <1>1, <1>7, TurnsOfMessage
  <2>5. OpenAIWire(<<s, u>>) = Append(w, turn)
    BY <1>5
  <2> HIDE DEF w, turn
  <2>6. GoodWire(Append(w, turn), 0) /\ Last(Append(w, turn)).role = turn.role
    BY <2>3, <2>4, WireGrows
  <2> QED BY <2>4, <2>5, <2>6
<1>10. ASSUME NEW t \in Turns, NEW v \in Turns, t.parts = <<>>, v.parts # <<>>
       PROVE  Pushed(Pushed(<<>>, t), v) = Append(<<>>, v)
  BY <1>10 DEF Pushed
<1>11. GoodWire(AnthropicWire(<<s, u>>), 0) /\ Last(AnthropicWire(<<s, u>>)).role = "user"
  BY <1>1, <1>5, <1>6, <1>7, <1>8, <1>10, TurnsOfMessage
<1>12. GoodWire(GeminiWire(<<s, u>>), 0) /\ Last(GeminiWire(<<s, u>>)).role = "user"
  BY <1>1, <1>5, <1>6, <1>7, <1>8, <1>10, TurnsOfMessage
<1>13. <<s, u>> # <<>>
  OBVIOUS
<1> QED BY <1>3, <1>9, <1>11, <1>12, <1>13 DEF Sendable, TheUsersTurn, Wires, s, u

\* With nothing open and the user's the last word, the provider accepts it.
LEMMA SendableIsAccepted ==
    ASSUME NEW ms, Sendable(ms, 0), TheUsersTurn(ms), NEW p
    PROVE  Accepted(p, ms)
<1>1. Wire(p, ms) \in Wires(ms)
  BY DEF Wire, Wires
<1>2. GoodWire(Wire(p, ms), 0) /\ Last(Wire(p, ms)).role = "user"
  BY <1>1 DEF Sendable, TheUsersTurn
<1> QED BY <1>2 DEF Accepted, GoodWire, Answered

-----------------------------------------------------------------------------
(***************************************************************************)
(* The chat (chat-tab.tsx send, chat-engine.ts runChat).                   *)
(***************************************************************************)
\* A run, by its fields.
RunRecord(stage, g, aborted, p, conv, base, round, todo) ==
    [stage |-> stage, gen |-> g, aborted |-> aborted, provider |-> p, conv |-> conv,
     base |-> base, round |-> round, todo |-> todo]
IsRun(c) ==
    c = RunRecord(c.stage, c.gen, c.aborted, c.provider, c.conv, c.base, c.round, c.todo)

\* A run's conversation is its generation's, and as long as something is left
\* to ask, that much is open in it.
OfGen(ms, g) == \A i \in 1..Len(ms) : ms[i].of = g
FitConv(stage, g, conv, base, todo) ==
    /\ OfGen(conv, g) /\ base \in 0..Len(conv)
    /\ stage = "calling" => Sendable(conv, 0) /\ TheUsersTurn(conv)
    /\ stage \in {"asking", "waiting"} => todo \in Nat \ {0} /\ Sendable(conv, todo)
Fit(c) ==
    /\ c.stage \in {"binding", "calling", "asking", "waiting"}
    /\ c.stage # "binding" => FitConv(c.stage, c.gen, c.conv, c.base, c.todo)

\* The run of the present generation is the one the panel can abort, and has
\* the panel's transcript; any other has been aborted.
Current(c) ==
    c.gen = gen =>
       /\ c.stage = "binding" => transcript # <<>> /\ TheUsersTurn(transcript)
       /\ c.stage # "binding" => transcript = SubSeq(c.conv, 1, c.base)
GoodRun(c) == IsRun(c) /\ c.gen \in 0..gen /\ Fit(c) /\ Current(c)
InCharge(r) == IF runs[r].gen = gen THEN busy /\ abortRef = r ELSE runs[r].aborted

ChatInv ==
    /\ gen \in Nat
    /\ runs = [r \in Runs |-> runs[r]]
    /\ transcript = <<>> \/ (Sendable(transcript, 0) /\ OfGen(transcript, gen))
    /\ \A r \in Runs : Running(r) => GoodRun(runs[r]) /\ InCharge(r)

\* A run with these fields, whichever its provider; one of them replaced.
RunOf(c, s, g, x, k, b, n, t) == \E p : c = RunRecord(s, g, x, p, k, b, n, t)

\* A record with these fields has them.
LEMMA RunFields ==
    ASSUME NEW c, NEW s, NEW g, NEW x, NEW k, NEW b, NEW n, NEW t,
           RunOf(c, s, g, x, k, b, n, t)
    PROVE  /\ IsRun(c)
           /\ c.stage = s /\ c.gen = g /\ c.aborted = x
           /\ c.conv = k /\ c.base = b /\ c.round = n /\ c.todo = t
<1>1. PICK p : c = RunRecord(s, g, x, p, k, b, n, t)
  BY DEF RunOf
<1>2. /\ c.stage = s /\ c.gen = g /\ c.aborted = x /\ c.provider = p
      /\ c.conv = k /\ c.base = b /\ c.round = n /\ c.todo = t
  BY <1>1 DEF RunRecord
<1> QED BY <1>1, <1>2, Zenon DEF IsRun

\* The run with one field replaced, as runChat's loop does.
LEMMA RunExcept ==
    ASSUME NEW c, NEW s, NEW g, NEW x, NEW k, NEW b, NEW n, NEW t,
           RunOf(c, s, g, x, k, b, n, t), NEW v
    PROVE  /\ RunOf([c EXCEPT !.stage = v], v, g, x, k, b, n, t)
           /\ RunOf([c EXCEPT !.aborted = v], s, g, v, k, b, n, t)
           /\ RunOf([c EXCEPT !.conv = v], s, g, x, v, b, n, t)
           /\ RunOf([c EXCEPT !.base = v], s, g, x, k, v, n, t)
           /\ RunOf([c EXCEPT !.round = v], s, g, x, k, b, v, t)
           /\ RunOf([c EXCEPT !.todo = v], s, g, x, k, b, n, v)
<1>1. PICK p : c = RunRecord(s, g, x, p, k, b, n, t)
  BY DEF RunOf
<1>2. /\ [RunRecord(s, g, x, p, k, b, n, t) EXCEPT !.stage = v]
           = RunRecord(v, g, x, p, k, b, n, t)
      /\ [RunRecord(s, g, x, p, k, b, n, t) EXCEPT !.aborted = v]
           = RunRecord(s, g, v, p, k, b, n, t)
  BY DEF RunRecord
<1>3. /\ [RunRecord(s, g, x, p, k, b, n, t) EXCEPT !.conv = v]
           = RunRecord(s, g, x, p, v, b, n, t)
      /\ [RunRecord(s, g, x, p, k, b, n, t) EXCEPT !.base = v]
           = RunRecord(s, g, x, p, k, v, n, t)
  BY DEF RunRecord
<1>4. /\ [RunRecord(s, g, x, p, k, b, n, t) EXCEPT !.round = v]
           = RunRecord(s, g, x, p, k, b, v, t)
      /\ [RunRecord(s, g, x, p, k, b, n, t) EXCEPT !.todo = v]
           = RunRecord(s, g, x, p, k, b, n, v)
  BY DEF RunRecord
<1> QED BY <1>1, <1>2, <1>3, <1>4, Zenon DEF RunOf

\* The other runs, and the conversation, when one run changes.
LEMMA OthersStay ==
    ASSUME ChatInv, NEW r \in Runs, NEW q \in Runs, q # r, Running(q),
           runs' = [runs EXCEPT ![r] = runs'[r]], gen' = gen,
           runs[q].gen = gen => UNCHANGED <<busy, abortRef, transcript>>
    PROVE  runs'[q] = runs[q] /\ GoodRun(runs[q])' /\ InCharge(q)'
<1>1. runs'[q] = runs[q]
  BY DEF ChatInv
<1>2. IsRun(runs[q]) /\ runs[q].gen \in 0..gen /\ Fit(runs[q]) /\ Current(runs[q]) /\ InCharge(q)
  BY DEF ChatInv, GoodRun
<1>3. Current(runs[q])' /\ InCharge(q)'
  BY <1>1, <1>2 DEF Current, InCharge
<1>4. IsRun(runs'[q]) /\ runs'[q].gen \in 0..gen' /\ Fit(runs'[q])
  BY <1>1, <1>2
<1> QED BY <1>1, <1>3, <1>4 DEF GoodRun

\* A run goes on with what fits it.
LEMMA RunGoesOn ==
    ASSUME ChatInv, NEW r \in Runs, Running(r), NEW run, GoesOn(r, run),
           NEW s \in {"calling", "asking", "waiting"}, NEW k, NEW b, NEW n, NEW t,
           RunOf(run, s, runs[r].gen, runs[r].aborted, k, b, n, t),
           FitConv(s, runs[r].gen, k, b, t), runs[r].gen = gen => transcript = SubSeq(k, 1, b)
    PROVE  ChatInv'
<1>1. /\ UNCHANGED <<gen, busy, abortRef, transcript>>
      /\ runs' = [runs EXCEPT ![r] = run] /\ runs = [q \in Runs |-> runs[q]]
  BY DEF GoesOn, Becomes, KeepsPanel, ChatInv
<1>2. runs'[r] = run /\ runs' = [q \in Runs |-> runs'[q]]
  BY <1>1
<1>3. /\ IsRun(run) /\ run.stage = s /\ run.gen = runs[r].gen /\ run.aborted = runs[r].aborted
      /\ run.conv = k /\ run.base = b /\ run.round = n /\ run.todo = t
  BY RunFields
<1>4. runs[r].gen \in 0..gen /\ InCharge(r)
  BY DEF ChatInv, GoodRun
<1>5. GoodRun(runs[r])' /\ InCharge(r)'
  <2>1. Fit(run)
    BY <1>3 DEF Fit
  <2>2. Current(run)'
    BY <1>1, <1>3 DEF Current
  <2>3. InCharge(r)'
    BY <1>1, <1>2, <1>3, <1>4 DEF InCharge
  <2>4. IsRun(run) /\ run.gen \in 0..gen'
    BY <1>1, <1>3, <1>4
  <2> QED BY <1>2, <2>1, <2>2, <2>3, <2>4 DEF GoodRun
<1>6. ASSUME NEW q \in Runs, q # r, Running(q)' PROVE GoodRun(runs[q])' /\ InCharge(q)'
  <2>1. Running(q)
    BY <1>1, <1>6 DEF Running
  <2>2. runs' = [runs EXCEPT ![r] = runs'[r]]
    BY <1>1, <1>2
  <2> QED BY <1>1, <1>6, <2>1, <2>2, OthersStay
<1> QED BY <1>1, <1>2, <1>5, <1>6 DEF ChatInv

\* A run ends: an outdated one leaves the panel alone.
LEMMA RunEnds ==
    ASSUME ChatInv, NEW r \in Runs, Running(r), TearsDown(r),
           \/ transcript' = transcript
           \/ runs[r].gen = gen /\ Sendable(transcript', 0) /\ OfGen(transcript', gen)
    PROVE  ChatInv'
<1>1. /\ gen' = gen
      /\ runs' = [runs EXCEPT ![r] = NoTurn] /\ runs = [q \in Runs |-> runs[q]]
      /\ IF SameRun(r) THEN busy' = FALSE /\ abortRef' = NoRun ELSE UNCHANGED <<busy, abortRef>>
  BY DEF TearsDown, Becomes, ChatInv
<1>2. /\ runs'[r] = NoTurn /\ runs' = [q \in Runs |-> runs'[q]]
      /\ runs' = [runs EXCEPT ![r] = runs'[r]]
  BY <1>1
<1>3. ~Running(r)'
  BY <1>2 DEF Running, NoTurn
<1>4. ASSUME NEW q \in Runs, q # r, Running(q)' PROVE GoodRun(runs[q])' /\ InCharge(q)'
  <2>1. Running(q)
    BY <1>1, <1>4 DEF Running
  <2>2. ASSUME runs[q].gen = gen PROVE ~SameRun(r)
    <3>1. InCharge(q) /\ InCharge(r)
      BY <2>1 DEF ChatInv
    <3> QED BY <1>4, <2>2, <3>1 DEF InCharge, SameRun
  <2>3. runs[q].gen = gen => UNCHANGED <<busy, abortRef, transcript>>
    BY <1>1, <2>2 DEF SameRun
  <2> QED BY <1>1, <1>2, <1>4, <2>1, <2>3, OthersStay
<1>5. transcript' = <<>> \/ (Sendable(transcript', 0) /\ OfGen(transcript', gen'))
  BY <1>1 DEF ChatInv
<1> QED BY <1>1, <1>2, <1>3, <1>4, <1>5 DEF ChatInv

\* What a run adds to its conversation is of its generation.
LEMMA OfGenGrows ==
    ASSUME NEW ms \in Seq(Msgs), NEW m, NEW g, OfGen(ms, g), m.of = g
    PROVE  OfGen(Append(ms, m), g)
BY DEF OfGen

\* A run comes to its end with one message more: the panel's transcript, when
\* the run is its own, becomes the run's conversation.
LEMMA RunConcludes ==
    ASSUME ChatInv, NEW r \in Runs, Running(r), runs[r].stage # "binding",
           NEW m \in Msgs, m.of = runs[r].gen, runs[r].conv \in Seq(Msgs),
           Sendable(Append(runs[r].conv, m), 0), Concludes(r, Append(runs[r].conv, m))
    PROVE  ChatInv'
<1> DEFINE old == runs[r].conv
           b == runs[r].base
           conv == Append(old, m)
<1>1. b \in 0..Len(old) /\ OfGen(old, runs[r].gen) /\ Current(runs[r])
  BY DEF ChatInv, GoodRun, Fit, FitConv
<1>2. CASE IsLive(r)
  <2>1. runs[r].gen = gen /\ transcript = SubSeq(old, 1, b)
    BY <1>1, <1>2 DEF IsLive, SameRun, Current
  <2>2. conv \in Seq(Msgs) /\ Len(conv) = Len(old) + 1 /\ \A i \in 1..Len(old) : conv[i] = old[i]
    OBVIOUS
  <2>3. transcript' = transcript \o SubSeq(conv, b + 1, Len(conv))
    BY <1>2 DEF Concludes
  <2>4. OfGen(conv, gen)
    BY <1>1, <2>1, OfGenGrows
  <2> HIDE DEF conv
  <2>5. SubSeq(old, 1, b) = SubSeq(conv, 1, b)
    BY <1>1, <2>2
  <2>6. SubSeq(conv, 1, b) \o SubSeq(conv, b + 1, Len(conv)) = SubSeq(conv, 1, Len(conv))
    <3>1. 1 \in 1..(Len(conv) + 1) /\ b \in (1 - 1)..Len(conv) /\ Len(conv) \in b..Len(conv)
      BY <1>1, <2>2
    <3> QED BY <2>2, <3>1, ConcatAdjacentSubSeq
  <2>7. transcript' = conv
    BY <2>1, <2>2, <2>3, <2>5, <2>6, SubSeqFull
  <2>8. Sendable(conv, 0)
    BY DEF conv
  <2>9. TearsDown(r)
    BY DEF Concludes
  <2> QED BY <2>1, <2>4, <2>7, <2>8, <2>9, RunEnds
<1>3. CASE ~IsLive(r)
  <2>1. TearsDown(r) /\ transcript' = transcript
    BY <1>3 DEF Concludes
  <2> QED BY <2>1, RunEnds
<1> QED BY <1>2, <1>3

\* A message to or from a run is one.
LEMMA MessageIs ==
    ASSUME NEW role \in Roles, NEW text \in BOOLEAN, NEW asks \in Nat, NEW g \in Nat
    PROVE  LET m == Message(role, text, asks, g) IN
           m \in Msgs /\ m.role = role /\ m.text = text /\ m.asks = asks /\ m.of = g
BY DEF Message, Msgs

\* A run past the query for the tab, by its fields.
LEMMA RunIs ==
    ASSUME ChatInv, NEW r \in Runs, Running(r)
    PROVE  LET c == runs[r] IN
           /\ RunOf(c, c.stage, c.gen, c.aborted, c.conv, c.base, c.round, c.todo)
           /\ c.gen \in Nat
           /\ c.stage # "binding" => FitConv(c.stage, c.gen, c.conv, c.base, c.todo)
           /\ c.stage # "binding" /\ c.gen = gen => transcript = SubSeq(c.conv, 1, c.base)
<1>1. GoodRun(runs[r]) /\ gen \in Nat
  BY DEF ChatInv
<1>2. IsRun(runs[r]) /\ runs[r].gen \in Nat /\ Fit(runs[r]) /\ Current(runs[r])
  BY <1>1 DEF GoodRun
<1> QED BY <1>2, Zenon DEF IsRun, RunOf, Fit, Current

\* send: nobody else is of the present generation.
LEMMA SendKeeps ==
    ASSUME ChatInv, NEW r \in Runs, Send(r)
    PROVE  ChatInv'
<1>1. /\ ~busy /\ ~Running(r) /\ busy' = TRUE /\ abortRef' = r /\ gen' = gen
      /\ transcript' = IF transcript = <<>> THEN <<System, Said>> ELSE Append(transcript, Said)
      /\ gen \in Nat
  BY DEF Send, ChatInv
<1>0. PICK run : run = RunRecord("binding", gen, FALSE, provider, <<>>, 0, 1, 0)
  OBVIOUS
<1>2. runs' = [runs EXCEPT ![r] = run] /\ runs = [q \in Runs |-> runs[q]]
  BY <1>0 DEF Send, Becomes, RunRecord, ChatInv
<1>3. IsRun(run) /\ run.stage = "binding" /\ run.gen = gen
  BY <1>0 DEF RunRecord, IsRun
<1>4. runs'[r] = run /\ runs' = [q \in Runs |-> runs'[q]] /\ runs' = [runs EXCEPT ![r] = runs'[r]]
  BY <1>2
<1>5. Sendable(transcript', 0) /\ TheUsersTurn(transcript') /\ OfGen(transcript', gen)
  <2>1. CASE transcript = <<>>
    <3>1. transcript' = <<Message("system", TRUE, 0, gen), Message("user", TRUE, 0, gen)>>
      BY <1>1, <2>1 DEF System, Said
    <3>2. Sendable(transcript', 0) /\ TheUsersTurn(transcript')
      BY <1>1, <3>1, FirstIsSendable
    <3>3. Message("system", TRUE, 0, gen).of = gen /\ Message("user", TRUE, 0, gen).of = gen
      BY DEF Message
    <3>4. \A x, y : x.of = gen /\ y.of = gen => OfGen(<<x, y>>, gen)
      BY DEF OfGen
    <3>5. OfGen(transcript', gen)
      BY <3>1, <3>3, <3>4
    <3> QED BY <3>2, <3>5
  <2>2. CASE transcript # <<>>
    <3>1. /\ Said \in Msgs /\ Said.role = "user" /\ Said.text = TRUE /\ Said.asks = 0
          /\ Said.of = gen
      BY <1>1 DEF Said, Message, Msgs, Roles
    <3>2. /\ Sendable(transcript, 0) /\ OfGen(transcript, gen)
          /\ transcript' = Append(transcript, Said)
      BY <1>1, <2>2 DEF ChatInv
    <3> HIDE DEF Said
    <3>3. Sendable(Append(transcript, Said), 0) /\ TheUsersTurn(Append(transcript, Said))
      BY <3>1, <3>2, SendableGrows
    <3>4. OfGen(Append(transcript, Said), gen)
      BY <3>1, <3>2, OfGenGrows DEF Sendable
    <3> QED BY <3>2, <3>3, <3>4
  <2> QED BY <2>1, <2>2
<1>6. GoodRun(runs[r])' /\ InCharge(r)'
  <2>1. Fit(run) /\ run.gen \in 0..gen' /\ transcript' # <<>>
    BY <1>1, <1>3, <1>5 DEF Fit, Sendable
  <2>2. Current(run)'
    BY <1>3, <1>5, <2>1 DEF Current
  <2> QED BY <1>1, <1>3, <1>4, <2>1, <2>2 DEF GoodRun, InCharge
<1>7. ASSUME NEW q \in Runs, q # r, Running(q)' PROVE GoodRun(runs[q])' /\ InCharge(q)'
  <2>1. Running(q)
    BY <1>2, <1>7 DEF Running
  <2>2. runs[q].gen # gen
    BY <1>1, <2>1 DEF ChatInv, InCharge
  <2> QED BY <1>1, <1>4, <1>7, <2>1, <2>2, OthersStay
<1> QED BY <1>1, <1>4, <1>5, <1>6, <1>7 DEF ChatInv

\* Throws.
LEMMA ThrowsKeeps ==
    ASSUME ChatInv, NEW r \in Runs, Running(r), Throws(r)
    PROVE  ChatInv'
BY RunEnds DEF Throws

\* What follows the query for the tab: the run takes the transcript with it.
LEMMA BindsKeeps ==
    ASSUME ChatInv, NEW r \in Runs, Binds(r)
    PROVE  ChatInv'
<1>1. Running(r) /\ runs[r].stage = "binding"
  BY DEF Binds, Running
<1>2. CASE runs[r].aborted
  BY <1>1, <1>2, ThrowsKeeps DEF Binds
<1>3. CASE ~runs[r].aborted
  <2> DEFINE c == runs[r]
             c1 == [c EXCEPT !.stage = "calling"]
             c2 == [c1 EXCEPT !.conv = transcript]
             c3 == [c2 EXCEPT !.base = Len(transcript)]
  <2>1. GoesOn(r, c3)
    <3>1. c3 = [c EXCEPT !.stage = "calling", !.conv = transcript, !.base = Len(transcript)]
      BY Zenon
    <3>2. GoesOn(r, [c EXCEPT !.stage = "calling", !.conv = transcript, !.base = Len(transcript)])
      BY <1>3 DEF Binds
    <3> HIDE DEF c3
    <3> QED BY <3>1, <3>2, Zenon
  <2>2. RunOf(c3, "calling", c.gen, c.aborted, transcript, Len(transcript), c.round, c.todo)
    <3>1. RunOf(c, c.stage, c.gen, c.aborted, c.conv, c.base, c.round, c.todo)
      BY <1>1, RunIs
    <3> HIDE DEF c
    <3>2. RunOf(c1, "calling", c.gen, c.aborted, c.conv, c.base, c.round, c.todo)
      BY <3>1, RunExcept
    <3> HIDE DEF c1
    <3>3. RunOf(c2, "calling", c.gen, c.aborted, transcript, c.base, c.round, c.todo)
      BY <3>2, RunExcept
    <3> HIDE DEF c2
    <3> QED BY <3>3, RunExcept
  <2>3. c.gen = gen /\ GoodRun(c)
    BY <1>1, <1>3 DEF ChatInv, InCharge
  <2>4. /\ transcript # <<>> /\ TheUsersTurn(transcript) /\ Sendable(transcript, 0)
        /\ OfGen(transcript, gen)
    BY <1>1, <2>3 DEF ChatInv, GoodRun, Current
  <2>5. transcript \in Seq(Msgs)
    BY <2>4 DEF Sendable
  <2>6. transcript = SubSeq(transcript, 1, Len(transcript))
    BY <2>5, SubSeqFull
  <2>7. FitConv("calling", c.gen, transcript, Len(transcript), c.todo)
    BY <2>3, <2>4, <2>5 DEF FitConv
  <2> HIDE DEF c3
  <2> QED BY <1>1, <2>1, <2>2, <2>6, <2>7, RunGoesOn
<1> QED BY <1>2, <1>3

\* The provider answers: its message opens what it asks for.
LEMMA RepliesKeeps ==
    ASSUME ChatInv, NEW r \in Runs, Replies(r)
    PROVE  ChatInv'
<1>1. Running(r) /\ runs[r].stage = "calling"
  BY DEF Replies, Running
<1> DEFINE c == runs[r]
<1>2. /\ c.gen \in Nat /\ FitConv("calling", c.gen, c.conv, c.base, c.todo)
      /\ c.gen = gen => transcript = SubSeq(c.conv, 1, c.base)
      /\ RunOf(c, c.stage, c.gen, c.aborted, c.conv, c.base, c.round, c.todo)
  BY <1>1, RunIs
<1>3. /\ Sendable(c.conv, 0) /\ OfGen(c.conv, c.gen) /\ c.base \in 0..Len(c.conv)
      /\ c.conv \in Seq(Msgs)
  BY <1>2 DEF FitConv, Sendable
<1>4. PICK text \in BOOLEAN : \E asks \in 0..MaxAsks :
        LET conv == Append(c.conv, Message("assistant", text, asks, c.gen)) IN
        IF asks = 0 THEN Concludes(r, conv)
        ELSE GoesOn(r, [c EXCEPT !.stage = "asking", !.conv = conv, !.todo = asks])
  BY DEF Replies
<1>5. PICK asks \in 0..MaxAsks :
        LET conv == Append(c.conv, Message("assistant", text, asks, c.gen)) IN
        IF asks = 0 THEN Concludes(r, conv)
        ELSE GoesOn(r, [c EXCEPT !.stage = "asking", !.conv = conv, !.todo = asks])
  BY <1>4
<1> DEFINE m == Message("assistant", text, asks, c.gen)
           conv == Append(c.conv, m)
<1>6. asks \in Nat
  BY ChatTabAssumption
<1>7. m \in Msgs /\ m.role = "assistant" /\ m.asks = asks /\ m.of = c.gen
  BY <1>2, <1>6, MessageIs DEF Roles
<1>8. CASE asks = 0
  <2>1. Concludes(r, conv)
    BY <1>5, <1>8
  <2> HIDE DEF m
  <2>2. Sendable(Append(c.conv, m), 0)
    BY <1>3, <1>7, <1>8, SendableGrows
  <2> QED BY <1>1, <1>3, <1>7, <2>1, <2>2, RunConcludes
<1>9. CASE asks # 0
  <2> DEFINE c1 == [c EXCEPT !.stage = "asking"]
             c2 == [c1 EXCEPT !.conv = conv]
             c3 == [c2 EXCEPT !.todo = asks]
  <2>1. GoesOn(r, c3)
    <3>1. c3 = [c EXCEPT !.stage = "asking", !.conv = conv, !.todo = asks]
      BY Zenon
    <3>2. GoesOn(r, [c EXCEPT !.stage = "asking", !.conv = conv, !.todo = asks])
      BY <1>5, <1>9
    <3> HIDE DEF c3
    <3> QED BY <3>1, <3>2, Zenon
  <2> HIDE DEF m
  <2>2. Sendable(conv, asks)
    BY <1>3, <1>7, SendableGrows
  <2>3. OfGen(conv, c.gen)
    BY <1>3, <1>7, OfGenGrows
  <2>4. c.base \in 0..Len(conv) /\ SubSeq(conv, 1, c.base) = SubSeq(c.conv, 1, c.base)
    BY <1>3, <1>7
  <2> HIDE DEF conv
  <2>5. FitConv("asking", c.gen, conv, c.base, asks)
    BY <1>6, <1>9, <2>2, <2>3, <2>4 DEF FitConv
  <2>6. RunOf(c3, "asking", c.gen, c.aborted, conv, c.base, c.round, asks)
    <3>1. RunOf(c, c.stage, c.gen, c.aborted, c.conv, c.base, c.round, c.todo)
      BY <1>2
    <3> HIDE DEF c
    <3>2. RunOf(c1, "asking", c.gen, c.aborted, c.conv, c.base, c.round, c.todo)
      BY <3>1, RunExcept
    <3> HIDE DEF c1
    <3>3. RunOf(c2, "asking", c.gen, c.aborted, conv, c.base, c.round, c.todo)
      BY <3>2, RunExcept
    <3> HIDE DEF c2
    <3> QED BY <3>3, RunExcept
  <2>7. c.gen = gen => transcript = SubSeq(conv, 1, c.base)
    BY <1>2, <2>4
  <2> HIDE DEF c3
  <2> QED BY <1>1, <2>1, <2>5, <2>6, <2>7, RunGoesOn
<1> QED BY <1>8, <1>9

\* The fetch fails.
LEMMA RejectsKeeps ==
    ASSUME ChatInv, NEW r \in Runs, Rejects(r)
    PROVE  ChatInv'
<1>1. Running(r) /\ Throws(r)
  BY DEF Rejects, Running
<1> QED BY <1>1, ThrowsKeeps

\* A tool is asked for.
LEMMA WaitsKeeps ==
    ASSUME ChatInv, NEW r \in Runs, runs[r].stage = "asking", Waits(r)
    PROVE  ChatInv'
<1> DEFINE c == runs[r]
           d == [c EXCEPT !.stage = "waiting"]
<1>1. Running(r) /\ GoesOn(r, d)
  BY DEF Running, Waits
<1>2. /\ FitConv("asking", c.gen, c.conv, c.base, c.todo)
      /\ c.gen = gen => transcript = SubSeq(c.conv, 1, c.base)
      /\ RunOf(c, c.stage, c.gen, c.aborted, c.conv, c.base, c.round, c.todo)
  BY <1>1, RunIs
<1>3. FitConv("waiting", c.gen, c.conv, c.base, c.todo)
  BY <1>2 DEF FitConv
<1>4. RunOf(d, "waiting", c.gen, c.aborted, c.conv, c.base, c.round, c.todo)
  <2>1. RunOf(c, c.stage, c.gen, c.aborted, c.conv, c.base, c.round, c.todo)
    BY <1>2
  <2> HIDE DEF c
  <2> QED BY <2>1, RunExcept
<1> HIDE DEF d
<1> QED BY <1>1, <1>2, <1>3, <1>4, RunGoesOn

\* runOneTool has its answer, which closes one of the open asks: the run goes
\* on with the next, with the provider, or comes to its end.
LEMMA ToolDoneKeeps ==
    ASSUME ChatInv, NEW r \in Runs, runs[r].stage = "waiting", ToolDone(r)
    PROVE  ChatInv'
<1> DEFINE c == runs[r]
           m == Message("tool", TRUE, 0, c.gen)
           conv == Append(c.conv, m)
           c1 == [c EXCEPT !.conv = conv]
           run == OneDone(c1)
<1>1. Running(r)
  BY DEF Running
<1>2. /\ c.gen \in Nat /\ FitConv("waiting", c.gen, c.conv, c.base, c.todo)
      /\ c.gen = gen => transcript = SubSeq(c.conv, 1, c.base)
      /\ RunOf(c, c.stage, c.gen, c.aborted, c.conv, c.base, c.round, c.todo)
  BY <1>1, RunIs
<1>3. /\ c.todo \in Nat \ {0} /\ Sendable(c.conv, c.todo) /\ OfGen(c.conv, c.gen)
      /\ c.base \in 0..Len(c.conv) /\ c.conv \in Seq(Msgs)
  BY <1>2 DEF FitConv, Sendable
<1>4. m \in Msgs /\ m.role = "tool" /\ m.text = TRUE /\ m.of = c.gen
  BY <1>2 DEF Message, Msgs, Roles
<1>5. IF run.todo > 0
      THEN IF run.aborted THEN Throws(r) ELSE GoesOn(r, [run EXCEPT !.stage = "asking"])
      ELSE IF run.round = MaxRounds THEN Concludes(r, run.conv)
      ELSE IF run.aborted THEN Throws(r)
      ELSE GoesOn(r, [run EXCEPT !.stage = "calling", !.round = run.round + 1])
  BY DEF ToolDone
<1> HIDE DEF m
<1>6. Sendable(conv, c.todo - 1) /\ TheUsersTurn(conv)
  BY <1>3, <1>4, SendableGrows
<1>7. OfGen(conv, c.gen)
  BY <1>3, <1>4, OfGenGrows
<1>8. c.base \in 0..Len(conv) /\ SubSeq(conv, 1, c.base) = SubSeq(c.conv, 1, c.base)
  BY <1>3, <1>4
<1>9. RunOf(run, "waiting", c.gen, c.aborted, conv, c.base, c.round, c.todo - 1)
  <2> HIDE DEF conv
  <2>1. RunOf(c, "waiting", c.gen, c.aborted, c.conv, c.base, c.round, c.todo)
    BY <1>2
  <2> HIDE DEF c
  <2>2. RunOf(c1, "waiting", c.gen, c.aborted, conv, c.base, c.round, c.todo)
    BY <2>1, RunExcept
  <2> HIDE DEF c1
  <2>3. c1.todo = c.todo
    BY <2>2, RunFields
  <2>4. run = [c1 EXCEPT !.todo = c.todo - 1]
    BY <2>3 DEF OneDone
  <2> HIDE DEF run
  <2> QED BY <2>2, <2>4, RunExcept
<1>10. /\ run.todo = c.todo - 1 /\ run.aborted = c.aborted /\ run.conv = conv
       /\ run.round = c.round
  <2> DEFINE n == c.todo - 1
  <2>1. RunOf(run, "waiting", c.gen, c.aborted, conv, c.base, c.round, n)
    BY <1>9
  <2> HIDE DEF run, conv, c, n
  <2>2. run.todo = n /\ run.aborted = c.aborted /\ run.conv = conv /\ run.round = c.round
    BY <2>1, RunFields
  <2> QED BY <2>2 DEF n
<1>11. c.todo - 1 \in Nat
  BY <1>3
<1> HIDE DEF run
<1>12. CASE Throws(r)
  BY <1>1, <1>12, ThrowsKeeps
<1>13. CASE run.todo > 0 /\ GoesOn(r, [run EXCEPT !.stage = "asking"])
  <2> DEFINE d == [run EXCEPT !.stage = "asking"]
  <2>1. RunOf(d, "asking", c.gen, c.aborted, conv, c.base, c.round, c.todo - 1)
    BY <1>9, RunExcept
  <2> HIDE DEF conv
  <2>2. FitConv("asking", c.gen, conv, c.base, c.todo - 1)
    BY <1>6, <1>7, <1>8, <1>10, <1>11, <1>13 DEF FitConv
  <2>3. c.gen = gen => transcript = SubSeq(conv, 1, c.base)
    BY <1>2, <1>8
  <2>4. GoesOn(r, d)
    BY <1>13
  <2> HIDE DEF d
  <2> QED BY <1>1, <2>1, <2>2, <2>3, <2>4, RunGoesOn
<1>14. CASE c.todo - 1 = 0 /\ Concludes(r, conv)
  <2>1. Sendable(Append(c.conv, m), 0) /\ Concludes(r, Append(c.conv, m))
    BY <1>6, <1>14
  <2> QED BY <1>1, <1>3, <1>4, <2>1, RunConcludes
<1>15. CASE c.todo - 1 = 0 /\ GoesOn(r, [run EXCEPT !.stage = "calling", !.round = run.round + 1])
  <2> DEFINE d == [run EXCEPT !.stage = "calling"]
             e == [d EXCEPT !.round = run.round + 1]
  <2>1. RunOf(d, "calling", c.gen, c.aborted, conv, c.base, c.round, c.todo - 1)
    BY <1>9, RunExcept
  <2>2. RunOf(e, "calling", c.gen, c.aborted, conv, c.base, run.round + 1, c.todo - 1)
    <3> HIDE DEF d
    <3> QED BY <2>1, RunExcept
  <2> HIDE DEF conv
  <2>3. FitConv("calling", c.gen, conv, c.base, c.todo - 1)
    BY <1>6, <1>7, <1>8, <1>15 DEF FitConv
  <2>4. c.gen = gen => transcript = SubSeq(conv, 1, c.base)
    BY <1>2, <1>8
  <2>5. GoesOn(r, e)
    <3>1. e = [run EXCEPT !.stage = "calling", !.round = run.round + 1]
      BY Zenon
    <3> HIDE DEF e
    <3> QED BY <1>15, <3>1, Zenon
  <2> HIDE DEF d, e
  <2> QED BY <1>1, <2>2, <2>3, <2>4, <2>5, RunGoesOn
<1>16. CASE run.todo > 0
  BY <1>5, <1>12, <1>13, <1>16
<1>17. CASE ~(run.todo > 0)
  <2>1. c.todo - 1 = 0
    <3>1. run.todo \in Nat
      BY <1>10, <1>11, Zenon
    <3>2. run.todo = 0
      BY <1>17, <3>1
    <3> QED BY <1>10, <3>2, Zenon
  <2>2. run.round = MaxRounds => Concludes(r, conv)
    BY <1>5, <1>10, <1>17, Zenon
  <2> HIDE DEF conv
  <2> QED BY <1>5, <1>12, <1>14, <1>15, <1>17, <2>1, <2>2
<1> QED BY <1>16, <1>17

\* A run that is aborted is the same run.
LEMMA AbortedKeeps ==
    ASSUME ChatInv, runs' = Aborted, NEW r \in Runs, Running(r)'
    PROVE  /\ Running(r) /\ IsRun(runs'[r]) /\ runs'[r].gen = runs[r].gen
           /\ runs'[r].gen \in 0..gen /\ Fit(runs'[r])
           /\ runs'[r].stage = runs[r].stage /\ runs'[r].conv = runs[r].conv
           /\ runs'[r].base = runs[r].base
           /\ runs[r].aborted \/ r = abortRef => runs'[r].aborted
           /\ Current(runs[r]) /\ InCharge(r)
<1> DEFINE c == runs[r]
<1>1. runs'[r] = IF r = abortRef THEN [c EXCEPT !.aborted = TRUE] ELSE c
  BY DEF Aborted
<1>2. CASE r # abortRef
  <2>1. runs'[r] = c /\ Running(r)
    BY <1>1, <1>2 DEF Running
  <2> QED BY <1>2, <2>1 DEF ChatInv, GoodRun
<1>3. CASE r = abortRef
  <2> DEFINE d == [c EXCEPT !.aborted = TRUE]
  <2>1. runs'[r] = d
    BY <1>1, <1>3
  <2>2. Running(r)
    <3>1. CASE c = NoTurn
      BY <2>1, <3>1 DEF Running, NoTurn
    <3>2. CASE c.stage = "idle"
      <4>1. \A x : [x EXCEPT !.aborted = TRUE].stage # "idle" => x.stage # "idle"
        OBVIOUS
      <4> QED BY <2>1, <4>1 DEF Running
    <3> QED BY <3>2 DEF Running
  <2>3. /\ RunOf(c, c.stage, c.gen, c.aborted, c.conv, c.base, c.round, c.todo)
        /\ GoodRun(c) /\ InCharge(r)
    BY <2>2, RunIs DEF ChatInv
  <2>4. RunOf(d, c.stage, c.gen, TRUE, c.conv, c.base, c.round, c.todo)
    <3>1. RunOf(c, c.stage, c.gen, c.aborted, c.conv, c.base, c.round, c.todo)
      BY <2>3
    <3> HIDE DEF c
    <3> QED BY <3>1, RunExcept
  <2> HIDE DEF d
  <2>5. /\ IsRun(d) /\ d.stage = c.stage /\ d.gen = c.gen /\ d.aborted = TRUE
        /\ d.conv = c.conv /\ d.base = c.base /\ d.todo = c.todo
    <3> DEFINE t == TRUE
    <3>1. RunOf(d, c.stage, c.gen, t, c.conv, c.base, c.round, c.todo)
      BY <2>4
    <3> HIDE DEF c, t
    <3>2. /\ IsRun(d) /\ d.stage = c.stage /\ d.gen = c.gen /\ d.aborted = t
          /\ d.conv = c.conv /\ d.base = c.base /\ d.todo = c.todo
      BY <3>1, RunFields
    <3> QED BY <3>2 DEF t
  <2>6. c.gen \in 0..gen /\ Fit(c) /\ Current(c)
    BY <2>3 DEF GoodRun
  <2>7. Fit(d)
    BY <2>5, <2>6 DEF Fit
  <2> QED BY <2>1, <2>2, <2>3, <2>5, <2>6, <2>7
<1> QED BY <1>2, <1>3

\* Stop.
LEMMA StopKeeps == ASSUME ChatInv, Stop PROVE ChatInv'
<1>1. runs' = Aborted /\ UNCHANGED <<transcript, busy, abortRef, gen>>
  BY DEF Stop
<1>2. runs' = [r \in Runs |-> runs'[r]]
  BY <1>1 DEF Aborted
<1>3. ASSUME NEW r \in Runs, Running(r)' PROVE GoodRun(runs[r])' /\ InCharge(r)'
  <2>1. /\ IsRun(runs'[r]) /\ runs'[r].gen = runs[r].gen
        /\ runs'[r].gen \in 0..gen' /\ Fit(runs'[r])
        /\ runs'[r].stage = runs[r].stage /\ runs'[r].conv = runs[r].conv
        /\ runs'[r].base = runs[r].base
        /\ runs[r].aborted => runs'[r].aborted
        /\ Current(runs[r]) /\ InCharge(r)
    BY <1>1, <1>3, AbortedKeeps
  <2>2. Current(runs[r])'
    BY <1>1, <2>1 DEF Current
  <2>3. InCharge(r)'
    BY <1>1, <2>1 DEF InCharge
  <2> QED BY <2>1, <2>2, <2>3 DEF GoodRun
<1> QED BY <1>1, <1>2, <1>3 DEF ChatInv

\* Clear, and another provider: the run, if there is one, is of an earlier
\* generation now, and aborted.
LEMMA ResetsKeeps == ASSUME ChatInv, Resets PROVE ChatInv'
<1>1. runs' = Aborted /\ gen' = gen + 1 /\ transcript' = <<>> /\ gen \in Nat
  BY DEF Resets, Abandons, ChatInv
<1>2. runs' = [r \in Runs |-> runs'[r]]
  BY <1>1 DEF Aborted
<1>3. ASSUME NEW r \in Runs, Running(r)' PROVE GoodRun(runs[r])' /\ InCharge(r)'
  <2>1. /\ IsRun(runs'[r]) /\ runs'[r].gen = runs[r].gen
        /\ runs'[r].gen \in 0..gen /\ Fit(runs'[r])
        /\ runs[r].aborted \/ r = abortRef => runs'[r].aborted
        /\ InCharge(r)
    BY <1>1, <1>3, AbortedKeeps
  <2>2. runs'[r].gen # gen' /\ runs'[r].gen \in 0..gen'
    BY <1>1, <2>1
  <2>3. runs'[r].aborted
    BY <2>1 DEF InCharge
  <2> QED BY <2>1, <2>2, <2>3 DEF GoodRun, Current, InCharge
<1> QED BY <1>1, <1>2, <1>3 DEF ChatInv

\* A run waits while a handler works for it or the answer is on its way, never
\* for two at once.
Listening(h, r) == ~Free(h) /\ calls[h].owner = r /\ ~calls[h].settled
Expects(r) ==
    /\ reply[r] # "none" => runs[r].stage = "waiting" /\ \A h \in Handlers : ~Listening(h, r)
    /\ \A h \in Handlers : Listening(h, r) =>
          runs[r].stage = "waiting" /\ \A g \in Handlers : Listening(g, r) => g = h
ReplyInv ==
    /\ reply = [r \in Runs |-> reply[r]]
    /\ \A r \in Runs : Expects(r)

\* A run that waits goes on waiting.
StillWaits(r) == runs[r].stage = "waiting" => runs'[r].stage = "waiting"
\* A handler is heard by nobody it was not heard by before.
Quieter(h) == \A r \in Runs : Listening(h, r)' => Listening(h, r)

\* Such a step leaves what a run expects as it is (dispatchToolViaBackground).
LEMMA ExpectsStays ==
    ASSUME NEW r \in Runs, Expects(r), StillWaits(r), reply'[r] = reply[r],
           \A h \in Handlers : Quieter(h)
    PROVE  Expects(r)'
BY DEF Expects, StillWaits, Quieter

\* The chat and the others leave the handlers and the answers alone.
LEMMA RepliesStay ==
    ASSUME ReplyInv, UNCHANGED <<calls, reply>>, \A r \in Runs : StillWaits(r)
    PROVE  ReplyInv'
<1>1. \A h \in Handlers : Quieter(h)
  BY DEF Quieter, Listening, Free
<1>2. \A r \in Runs : Expects(r)'
  BY <1>1, ExpectsStays DEF ReplyInv
<1> QED BY <1>2 DEF ReplyInv

\* A run of the chat, past one of its own steps.
LEMMA RunChanges ==
    ASSUME ChatInv, NEW r \in Runs, NEW run, Becomes(r, run)
    PROVE  runs'[r] = run /\ \A q \in Runs : q # r => StillWaits(q)
BY DEF Becomes, StillWaits, ChatInv

\* Only an answer ends a wait (send, Binds, runChat's loop).
LEMMA NobodyStopsWaiting ==
    ASSUME ChatInv, NEW r \in Runs, Send(r) \/ Binds(r) \/ Replies(r) \/ Rejects(r)
    PROVE  \A q \in Runs : StillWaits(q)
<1>1. runs[r].stage # "waiting"
  BY DEF Send, Running, Binds, Replies, Rejects
<1>2. \E run : Becomes(r, run)
  <2>1. ASSUME Send(r) PROVE \E run : Becomes(r, run)
    BY <2>1 DEF Send
  <2>2. ASSUME Throws(r) PROVE \E run : Becomes(r, run)
    BY <2>2 DEF Throws, TearsDown
  <2>3. ASSUME NEW run, GoesOn(r, run) PROVE \E d : Becomes(r, d)
    BY <2>3 DEF GoesOn
  <2>4. ASSUME NEW conv, Concludes(r, conv) PROVE \E run : Becomes(r, run)
    BY <2>4 DEF Concludes, TearsDown
  <2>5. ASSUME Binds(r) PROVE \E run : Becomes(r, run)
    BY <2>2, <2>3, <2>5 DEF Binds
  <2>6. ASSUME Replies(r) PROVE \E run : Becomes(r, run)
    BY <2>3, <2>4, <2>6 DEF Replies
  <2>7. ASSUME Rejects(r) PROVE \E run : Becomes(r, run)
    BY <2>2, <2>7 DEF Rejects
  <2> QED BY <2>1, <2>5, <2>6, <2>7
<1>3. ASSUME NEW q \in Runs PROVE StillWaits(q)
  BY <1>1, <1>2, RunChanges DEF StillWaits
<1> QED BY <1>3

\* Stop, Clear and another provider do not, either: the run hears of it when
\* its tool has answered.
LEMMA AbortedWait ==
    ASSUME ChatInv, runs' = Aborted
    PROVE  \A q \in Runs : StillWaits(q)
<1> SUFFICES ASSUME NEW q \in Runs, runs[q].stage = "waiting" PROVE runs'[q].stage = "waiting"
  BY DEF StillWaits
<1>1. IsRun(runs[q])
  BY DEF ChatInv, GoodRun, Running
<1> DEFINE c == runs[q]
           d == [c EXCEPT !.aborted = TRUE]
<1>2. runs'[q] = c \/ runs'[q] = d
  BY DEF Aborted
<1>3. d.stage = c.stage
  <2>1. RunOf(c, c.stage, c.gen, c.aborted, c.conv, c.base, c.round, c.todo)
    BY <1>1, Zenon DEF IsRun, RunOf
  <2> HIDE DEF c
  <2> DEFINE t == TRUE
  <2>2. RunOf(d, c.stage, c.gen, t, c.conv, c.base, c.round, c.todo)
    BY <2>1, RunExcept
  <2> HIDE DEF d, t
  <2> QED BY <2>2, RunFields
<1> HIDE DEF d
<1> QED BY <1>2, <1>3

\* What a handler's step may be: nobody new hears of it, and if it answers,
\* nobody hears of it any more.
Speaks(h) ==
    /\ \A g \in Handlers : Quieter(g)
    /\ \/ reply' = reply
       \/ /\ ~Free(h) /\ \E outcome : Answers(h, outcome)
          /\ \A r \in Runs : ~Listening(h, r)'

\* Every run still waits for one answer at most (withTimeout settles once).
LEMMA SpeaksKeeps ==
    ASSUME ReplyInv, NEW h \in Handlers, Speaks(h), UNCHANGED runs
    PROVE  ReplyInv'
<1>1. \A r \in Runs : StillWaits(r)
  BY DEF StillWaits
<1>2. CASE reply' = reply
  BY <1>1, <1>2, ExpectsStays DEF ReplyInv, Speaks
<1>3. CASE reply' # reply
  <2>0. PICK r : r = calls[h].owner
    OBVIOUS
  <2>1. PICK outcome : Answers(h, outcome)
    BY <1>3 DEF Speaks
  <2>2. /\ ~calls[h].settled /\ r \in DOMAIN reply
        /\ reply' = [reply EXCEPT ![r] = outcome]
    BY <1>3, <2>0, <2>1 DEF Answers
  <2>3. r \in Runs /\ reply' = [q \in Runs |-> reply'[q]]
        /\ \A q \in Runs : q # r => reply'[q] = reply[q]
    <3>1. DOMAIN reply = Runs /\ reply = [q \in Runs |-> reply[q]]
      BY DEF ReplyInv
    <3> QED BY <2>2, <3>1
  <2>4. ~Free(h) /\ \A q \in Runs : ~Listening(h, q)'
    BY <1>3 DEF Speaks
  <2>5. Listening(h, r)
    BY <2>0, <2>2, <2>4 DEF Listening
  <2>6. runs[r].stage = "waiting" /\ \A g \in Handlers : Listening(g, r) => g = h
    BY <2>3, <2>5 DEF ReplyInv, Expects
  <2>7. \A g \in Handlers : ~Listening(g, r)'
    BY <2>3, <2>4, <2>6 DEF Speaks, Quieter
  <2>8. runs'[r].stage = "waiting"
    BY <2>6
  <2>9. Expects(r)'
    BY <2>7, <2>8 DEF Expects
  <2>10. ASSUME NEW q \in Runs, q # r PROVE Expects(q)'
    BY <1>1, <2>3, <2>10, ExpectsStays DEF ReplyInv, Speaks
  <2> QED BY <2>3, <2>9, <2>10 DEF ReplyInv
<1> QED BY <1>2, <1>3

\* A call that is over, or has the same caller and is as settled as before.
KeepsCaller(d, c) == d.stage = "free" \/ (d.owner = c.owner /\ d.settled = c.settled)

\* A call with the caller and the settlement of another is as silent.
LEMMA RecordKeepsCaller ==
    ASSUME NEW c, NEW d, NEW s, NEW t, NEW a, NEW w, NEW k, NEW x, NEW n,
           d = CallRecord(s, c.owner, t, a, w, k, x, n, c.settled)
    PROVE  KeepsCaller(d, c)
BY DEF CallRecord, KeepsCaller

\* The handlers' changes of one or two fields touch neither.
LEMMA ExceptKeepsCaller ==
    ASSUME NEW c, IsCall(c)
    PROVE  /\ \A v : /\ KeepsCaller([c EXCEPT !.stage = v], c)
                     /\ KeepsCaller([c EXCEPT !.crossed = v], c)
           /\ \A v, y : /\ KeepsCaller([c EXCEPT !.stage = v, !.want = y], c)
                        /\ KeepsCaller([c EXCEPT !.stage = v, !.again = y], c)
<1>1. ASSUME NEW v PROVE KeepsCaller([c EXCEPT !.stage = v], c)
  <2> DEFINE d == [c EXCEPT !.stage = v]
  <2>1. d = CallRecord(v, c.owner, c.tool, c.aims, c.want, c.again, c.crossed,
                       c.renumbered, c.settled)
    BY CallExcept, Zenon
  <2> HIDE DEF d
  <2>2. KeepsCaller(d, c)
    BY <2>1, RecordKeepsCaller
  <2> QED BY <2>2, Zenon DEF d
<1>2. ASSUME NEW v PROVE KeepsCaller([c EXCEPT !.crossed = v], c)
  <2> DEFINE d == [c EXCEPT !.crossed = v]
  <2>1. d = CallRecord(c.stage, c.owner, c.tool, c.aims, c.want, c.again, v,
                       c.renumbered, c.settled)
    BY CallExcept, Zenon
  <2> HIDE DEF d
  <2>2. KeepsCaller(d, c)
    BY <2>1, RecordKeepsCaller
  <2> QED BY <2>2, Zenon DEF d
<1>3. ASSUME NEW v, NEW y PROVE KeepsCaller([c EXCEPT !.stage = v, !.want = y], c)
  <2> DEFINE d == [c EXCEPT !.stage = v, !.want = y]
  <2>1. d = CallRecord(v, c.owner, c.tool, c.aims, y, c.again, c.crossed,
                       c.renumbered, c.settled)
    BY CallExcept, Zenon
  <2> HIDE DEF d
  <2>2. KeepsCaller(d, c)
    BY <2>1, RecordKeepsCaller
  <2> QED BY <2>2, Zenon DEF d
<1>4. ASSUME NEW v, NEW y PROVE KeepsCaller([c EXCEPT !.stage = v, !.again = y], c)
  <2> DEFINE d == [c EXCEPT !.stage = v, !.again = y]
  <2>1. d = CallRecord(v, c.owner, c.tool, c.aims, c.want, y, c.crossed,
                       c.renumbered, c.settled)
    BY CallExcept, Zenon
  <2> HIDE DEF d
  <2>2. KeepsCaller(d, c)
    BY <2>1, RecordKeepsCaller
  <2> QED BY <2>2, Zenon DEF d
<1> QED BY <1>1, <1>2, <1>3, <1>4, Zenon

\* Nor does going on to the next field, or giving up.
LEMMA FollowingKeepsCaller ==
    ASSUME NEW h, IsCall(calls[h])
    PROVE  KeepsCaller(Following(h), calls[h]) /\ KeepsCaller(AfterFailure(h), calls[h])
<1> DEFINE c == calls[h]
           y == Tail(c.aims)
           n == c.renumbered \/ c.want # NoLabel
<1>1. KeepsCaller(Idle, c)
  BY DEF KeepsCaller, Idle
<1>2. KeepsCaller([c EXCEPT !.stage = "snapshot"], c)
  <2>1. IsCall(c)
    OBVIOUS
  <2> HIDE DEF c
  <2> QED BY <2>1, ExceptKeepsCaller
<1>3. KeepsCaller([c EXCEPT !.aims = y, !.stage = "act", !.want = NoLabel, !.again = NoRef,
                      !.renumbered = n], c)
  <2>1. IsCall(c)
    OBVIOUS
  <2> HIDE DEF c, y, n
  <2>2. [c EXCEPT !.aims = y, !.stage = "act", !.want = NoLabel, !.again = NoRef,
                  !.renumbered = n]
          = CallRecord("act", c.owner, c.tool, y, NoLabel, NoRef, c.crossed, n, c.settled)
    BY <2>1, NextField, Zenon
  <2> QED BY <2>2, RecordKeepsCaller, Zenon
<1>4. Following(h) \in {[c EXCEPT !.aims = y, !.stage = "act", !.want = NoLabel, !.again = NoRef,
                                  !.renumbered = n],
                        [c EXCEPT !.stage = "snapshot"], Idle}
  BY DEF Following
<1>5. AfterFailure(h) \in {Following(h), Idle}
  BY DEF AfterFailure
<1> HIDE DEF c, y, n
<1>6. KeepsCaller(Following(h), c)
  BY <1>1, <1>2, <1>3, <1>4
<1> QED BY <1>1, <1>5, <1>6 DEF c

\* What becomes of the other handlers: they are crossed at most.
Aside(h) ==
    \A g \in Handlers \ {h} :
        calls'[g] = calls[g] \/ (~Free(g) /\ calls'[g] = [calls[g] EXCEPT !.crossed = TRUE])
CallStep(h, d) ==
    /\ ~Free(h) /\ Aside(h) /\ calls'[h] = d /\ KeepsCaller(d, calls[h])
    /\ reply' = reply \/ (d.stage = "free" /\ \E outcome : Answers(h, outcome))

\* Such a step is heard by nobody but the caller it answers.
LEMMA CallStepSpeaks ==
    ASSUME ToolInv, NEW h \in Handlers, NEW d, CallStep(h, d)
    PROVE  Speaks(h)
<1>1. ASSUME NEW g \in Handlers PROVE Quieter(g)
  <2>1. CASE g = h
    BY <2>1 DEF CallStep, KeepsCaller, Quieter, Listening, Free
  <2>2. CASE g # h /\ calls'[g] = calls[g]
    BY <2>2 DEF Quieter, Listening, Free
  <2>3. CASE g # h /\ ~Free(g) /\ calls'[g] = [calls[g] EXCEPT !.crossed = TRUE]
    <3>1. IsCall(calls[g])
      BY <2>3, AtWork
    <3>2. KeepsCaller([calls[g] EXCEPT !.crossed = TRUE], calls[g])
      BY <3>1, ExceptKeepsCaller, Zenon
    <3>3. KeepsCaller(calls'[g], calls[g])
      BY <2>3, <3>2, Zenon
    <3> QED BY <2>3, <3>3, Zenon DEF KeepsCaller, Quieter, Listening, Free
  <2> QED BY <2>1, <2>2, <2>3 DEF CallStep, Aside
<1>2. d.stage = "free" => \A r \in Runs : ~Listening(h, r)'
  BY DEF CallStep, Listening, Free
<1> QED BY <1>1, <1>2 DEF CallStep, Speaks

\* One call changes, or the page is renumbered.
LEMMA OthersAside ==
    ASSUME ToolInv, NEW h \in Handlers, NEW d, calls' = [calls EXCEPT ![h] = d] \/ Minting(h, d)
    PROVE  Aside(h) /\ calls'[h] = d
BY DEF ToolInv, Minting, Crossed, Aside

\* Every step of a handler is one of these.
LEMMA HandlerMakesCallStep ==
    ASSUME ToolInv, NEW h \in Handlers, HandlerSteps(h)
    PROVE  \E d : CallStep(h, d)
<1>0. ~Free(h) /\ IsCall(calls[h])
  <2>1. ~Free(h)
    BY Zenon DEF HandlerSteps, Finishes, Attaches, Acts, Fails, Counts, Reinjects, ActsAgain,
       Snapshots
  <2> QED BY <2>1, AtWork
<1>1. KeepsCaller(Idle, calls[h]) /\ Idle.stage = "free"
  BY DEF KeepsCaller, Idle
<1>2. ASSUME NEW o, Ends(h, o) PROVE \E d : CallStep(h, d)
  <2>1. calls' = [calls EXCEPT ![h] = Idle] /\ Answers(h, o)
    BY <1>2, Zenon DEF Ends
  <2> QED BY <1>0, <1>1, <2>1, OthersAside, Zenon DEF CallStep
<1>3. ASSUME NEW s, ToStage(h, s), UNCHANGED reply PROVE \E d : CallStep(h, d)
  <2>1. KeepsCaller([calls[h] EXCEPT !.stage = s], calls[h])
    BY <1>0, ExceptKeepsCaller, Zenon
  <2>2. calls' = [calls EXCEPT ![h] = [calls[h] EXCEPT !.stage = s]]
    BY <1>3 DEF ToStage
  <2> QED BY <1>0, <1>3, <2>1, <2>2, OthersAside, Zenon DEF CallStep
<1>4. ASSUME Proceeds(h) PROVE \E d : CallStep(h, d)
  <2>1. calls' = [calls EXCEPT ![h] = Following(h)]
    BY <1>4 DEF Proceeds
  <2>2. reply' = reply \/ (Following(h).stage = "free" /\ \E o : Answers(h, o))
    BY <1>1, <1>4 DEF Proceeds
  <2> QED BY <1>0, <2>1, <2>2, FollowingKeepsCaller, OthersAside, Zenon DEF CallStep
<1>5. ASSUME Excuses(h)
      PROVE  reply' = reply \/ (AfterFailure(h).stage = "free" /\ \E o : Answers(h, o))
  BY <1>1, <1>5 DEF Excuses, AfterFailure
<1>6. ASSUME Unable(h) PROVE \E d : CallStep(h, d)
  <2>1. calls' = [calls EXCEPT ![h] = AfterFailure(h)] /\ Excuses(h)
    BY <1>6, Zenon DEF Unable
  <2> QED BY <1>0, <1>5, <2>1, FollowingKeepsCaller, OthersAside, Zenon DEF CallStep
<1>7. CASE Finishes(h)
  BY <1>2, <1>3, <1>7, Zenon DEF Finishes
<1>8. CASE Attaches(h)
  BY <1>2, <1>3, <1>8 DEF Attaches
<1>9. CASE Acts(h)
  BY <1>4, <1>9, Zenon DEF Acts
<1>10. CASE Fails(h)
  BY <1>2, <1>3, <1>10 DEF Fails
<1>11. CASE ActsAgain(h)
  BY <1>4, <1>6, <1>11, Zenon DEF ActsAgain
<1>12. CASE Counts(h)
  <2>1. PICK y : Unable(h) \/ (calls' = [calls EXCEPT ![h].stage = "reinject", ![h].want = y]
                                /\ UNCHANGED reply)
    BY <1>12 DEF Counts
  <2>2. CASE calls' = [calls EXCEPT ![h].stage = "reinject", ![h].want = y] /\ UNCHANGED reply
    <3> DEFINE d == [calls[h] EXCEPT !.stage = "reinject", !.want = y]
    <3>1. calls' = [calls EXCEPT ![h] = d]
      BY <2>2, Zenon
    <3>2. KeepsCaller(d, calls[h])
      BY <1>0, ExceptKeepsCaller, Zenon
    <3> HIDE DEF d
    <3> QED BY <1>0, <2>2, <3>1, <3>2, OthersAside, Zenon DEF CallStep
  <2> QED BY <1>6, <2>1, <2>2
<1>13. CASE Reinjects(h)
  <2>1. CASE UNCHANGED reply /\ \E k : Minting(h, Retry(h, k))
    <3>1. PICK k : Minting(h, Retry(h, k))
      BY <2>1
    <3>2. KeepsCaller(Retry(h, k), calls[h])
      BY <1>0, ExceptKeepsCaller, Zenon DEF Retry
    <3> QED BY <1>0, <2>1, <3>1, <3>2, OthersAside, Zenon DEF CallStep
  <2>2. CASE Excuses(h) /\ Minting(h, AfterFailure(h))
    BY <1>0, <1>5, <2>2, FollowingKeepsCaller, OthersAside, Zenon DEF CallStep
  <2>3. CASE Unable(h)
    BY <1>6, <2>3
  <2> QED BY <1>13, <2>1, <2>2, <2>3 DEF Reinjects
<1>14. CASE Snapshots(h)
  <2>1. CASE Answers(h, "ok") /\ Minting(h, Idle)
    BY <1>0, <1>1, <2>1, OthersAside, Zenon DEF CallStep
  <2>2. CASE \E o : Ends(h, o)
    BY <1>2, <2>2
  <2> QED BY <1>14, <2>1, <2>2 DEF Snapshots, Captureless
<1> QED BY <1>7, <1>8, <1>9, <1>10, <1>11, <1>12, <1>13, <1>14, Zenon DEF HandlerSteps

\* withTimeout: the caller has its answer, and what the handler says later is
\* not heard.
LEMMA TimeoutSpeaks ==
    ASSUME ToolInv, NEW h \in Handlers, TimesOut(h)
    PROVE  Speaks(h)
<1>1. /\ ~Free(h) /\ Answers(h, "error")
      /\ calls' = [calls EXCEPT ![h] = [calls[h] EXCEPT !.settled = TRUE]]
  BY Zenon DEF TimesOut, Racing
<1>2. /\ calls'[h] = [calls[h] EXCEPT !.settled = TRUE]
      /\ \A g \in Handlers : g # h => calls'[g] = calls[g]
  <2>1. calls = [g \in Handlers |-> calls[g]]
    BY DEF ToolInv
  <2> DEFINE d == [calls[h] EXCEPT !.settled = TRUE]
  <2>2. calls' = [calls EXCEPT ![h] = d]
    BY <1>1
  <2> HIDE DEF d
  <2>3. calls'[h] = d /\ \A g \in Handlers : g # h => calls'[g] = calls[g]
    BY <2>1, <2>2
  <2> QED BY <2>3 DEF d
<1>3. calls'[h].settled = TRUE
  <2> DEFINE c == calls[h]
             d == [c EXCEPT !.settled = TRUE]
  <2>1. IsCall(c)
    BY <1>1, AtWork
  <2>2. calls'[h] = d
    BY <1>2
  <2> HIDE DEF c
  <2>3. d = CallRecord(c.stage, c.owner, c.tool, c.aims, c.want, c.again, c.crossed,
                       c.renumbered, TRUE)
    BY <2>1, CallExcept, Zenon
  <2> HIDE DEF d
  <2>4. d.settled = TRUE
    BY <2>3 DEF CallRecord
  <2> QED BY <2>2, <2>4
<1>4. \A g \in Handlers : Quieter(g)
  BY <1>2, <1>3 DEF Quieter, Listening, Free
<1> QED BY <1>1, <1>3, <1>4 DEF Speaks, Listening

\* dispatchTool: the new handler is heard by its caller.
LEMMA BeginsSpeaks ==
    ASSUME ToolInv, NEW h \in Handlers, NEW owner, Begins(h, owner)
    PROVE  /\ \A g \in Handlers, r \in Runs :
                 Listening(g, r)' => Listening(g, r) \/ (g = h /\ r = owner)
           /\ reply' = reply
<1>1. /\ reply' = reply
      /\ \E tool \in {Tools[name] : name \in Asked} : \E aims \in AimsOf(tool) :
           calls' = [calls EXCEPT ![h] = CallRecord(FirstStage(tool), owner, tool, aims, NoLabel,
                                                    NoRef, FALSE, FALSE, FALSE)]
  BY DEF Begins, CallRecord
<1>2. PICK d : calls' = [calls EXCEPT ![h] = d] /\ d.owner = owner
  <2>1. ASSUME NEW s, NEW t, NEW a
        PROVE  CallRecord(s, owner, t, a, NoLabel, NoRef, FALSE, FALSE, FALSE).owner = owner
    BY DEF CallRecord
  <2> QED BY <1>1, <2>1
<1>3. calls'[h].owner = owner /\ \A g \in Handlers : g # h => calls'[g] = calls[g]
  <2>1. calls = [g \in Handlers |-> calls[g]]
    BY DEF ToolInv
  <2> QED BY <1>2, <2>1
<1> QED BY <1>1, <1>3 DEF Listening, Free

\* dispatchToolViaBackground: from now on the run waits, for one handler or
\* for the refusal.
LEMMA CallsToolKeeps ==
    ASSUME ToolInv, ChatInv, ReplyInv, NEW r \in Runs, CallsTool(r)
    PROVE  ChatInv' /\ ReplyInv'
<1>1. /\ runs[r].stage = "asking" /\ Waits(r)
      /\ (\E h \in Handlers : Begins(h, r)) \/ Refused(r)
  BY Zenon DEF CallsTool, OfBoth
<1>2. ChatInv'
  BY <1>1, WaitsKeeps
<1>3. runs'[r].stage = "waiting" /\ \A q \in Runs : StillWaits(q)
  <2> DEFINE c == runs[r]
             d == [c EXCEPT !.stage = "waiting"]
  <2>1. Becomes(r, d)
    BY <1>1 DEF Waits, GoesOn
  <2>2. runs'[r] = d /\ \A q \in Runs : q # r => StillWaits(q)
    <3> HIDE DEF d
    <3> QED BY <2>1, RunChanges
  <2>3. d.stage = "waiting"
    <3>1. RunOf(c, c.stage, c.gen, c.aborted, c.conv, c.base, c.round, c.todo)
      BY <1>1, RunIs DEF Running
    <3> HIDE DEF c
    <3> DEFINE w == "waiting"
    <3>2. RunOf(d, w, c.gen, c.aborted, c.conv, c.base, c.round, c.todo)
      BY <3>1, RunExcept
    <3> HIDE DEF d, w
    <3>3. d.stage = w
      BY <3>2, RunFields
    <3> QED BY <3>3 DEF w
  <2> QED BY <2>2, <2>3 DEF StillWaits
<1>4. reply[r] = "none" /\ \A h \in Handlers : ~Listening(h, r)
  BY <1>1 DEF ReplyInv, Expects
<1>5. CASE Refused(r)
  <2>1. /\ UNCHANGED calls /\ reply' = [reply EXCEPT ![r] = "error"]
        /\ reply = [q \in Runs |-> reply[q]]
    BY <1>5 DEF Refused, ReplyInv
  <2>2. \A h \in Handlers : Quieter(h)
    BY <2>1 DEF Quieter, Listening, Free
  <2>3. Expects(r)'
    BY <1>3, <1>4, <2>2 DEF Expects, Quieter
  <2>4. ASSUME NEW q \in Runs, q # r PROVE Expects(q)'
    BY <1>3, <2>1, <2>2, <2>4, ExpectsStays DEF ReplyInv
  <2>5. reply' = [q \in Runs |-> reply'[q]]
    BY <2>1
  <2> QED BY <1>2, <2>3, <2>4, <2>5 DEF ReplyInv
<1>6. ASSUME NEW h \in Handlers, Begins(h, r) PROVE ReplyInv'
  <2>1. /\ reply' = reply
        /\ \A g \in Handlers, q \in Runs :
             Listening(g, q)' => Listening(g, q) \/ (g = h /\ q = r)
    BY <1>6, BeginsSpeaks
  <2>2. ASSUME NEW q \in Runs PROVE Expects(q)'
    BY <1>3, <1>4, <2>1 DEF ReplyInv, Expects, StillWaits
  <2> QED BY <2>1, <2>2 DEF ReplyInv
<1> QED BY <1>1, <1>2, <1>5, <1>6

\* The answer arrives, or the panel's own limit is up: nobody works for the run
\* any more.
LEMMA DoneWaiting ==
    ASSUME ChatInv, NEW r \in Runs, ToolDone(r)
    PROVE  \A q \in Runs : q # r => StillWaits(q)
<1>1. \E run : Becomes(r, run)
  <2>1. ASSUME Throws(r) PROVE \E run : Becomes(r, run)
    BY <2>1 DEF Throws, TearsDown
  <2>2. ASSUME NEW run, GoesOn(r, run) PROVE \E d : Becomes(r, d)
    BY <2>2 DEF GoesOn
  <2>3. ASSUME NEW conv, Concludes(r, conv) PROVE \E run : Becomes(r, run)
    BY <2>3 DEF Concludes, TearsDown
  <2>4. \/ Throws(r) \/ (\E run : GoesOn(r, run)) \/ (\E conv : Concludes(r, conv))
    BY DEF ToolDone
  <2> QED BY <2>1, <2>2, <2>3, <2>4
<1> QED BY <1>1, RunChanges

\* The answer arrives (dispatchToolViaBackground's callback).
LEMMA ToolAnswersKeeps ==
    ASSUME ChatInv, ReplyInv, NEW r \in Runs, ToolAnswers(r)
    PROVE  ChatInv' /\ ReplyInv'
<1>1. /\ reply[r] # "none" /\ ToolDone(r) /\ UNCHANGED calls
      /\ reply' = [reply EXCEPT ![r] = "none"] /\ reply = [q \in Runs |-> reply[q]]
  BY DEF ToolAnswers, OfBoth, ReplyInv
<1>2. runs[r].stage = "waiting" /\ \A h \in Handlers : ~Listening(h, r)
  BY <1>1 DEF ReplyInv, Expects
<1>3. ChatInv'
  BY <1>1, <1>2, ToolDoneKeeps
<1>4. \A h \in Handlers : Quieter(h)
  BY <1>1 DEF Quieter, Listening, Free
<1>5. Expects(r)'
  BY <1>1, <1>2, <1>4 DEF Expects, Quieter
<1>6. ASSUME NEW q \in Runs, q # r PROVE Expects(q)'
  BY <1>1, <1>4, <1>6, DoneWaiting, ExpectsStays DEF ReplyInv
<1>7. reply' = [q \in Runs |-> reply'[q]]
  BY <1>1
<1> QED BY <1>3, <1>5, <1>6, <1>7 DEF ReplyInv

\* The panel's own limit is up; the handlers it waited for have no caller now
\* (dispatchToolViaBackground).
LEMMA PanelGivesUpKeeps ==
    ASSUME ToolInv, ChatInv, ReplyInv, NEW r \in Runs, PanelGivesUp(r)
    PROVE  ChatInv' /\ ReplyInv'
<1>1. /\ runs[r].stage = "waiting" /\ reply[r] = "none" /\ ToolDone(r) /\ UNCHANGED reply
      /\ calls' = [h \in Handlers |->
                     IF ~Free(h) /\ calls[h].owner = r
                     THEN [calls[h] EXCEPT !.owner = Outside] ELSE calls[h]]
  BY Zenon DEF PanelGivesUp, OfBoth
<1>2. ChatInv'
  BY <1>1, ToolDoneKeeps
<1>3. ASSUME NEW h \in Handlers PROVE Quieter(h) /\ ~Listening(h, r)'
  <2>1. CASE ~Free(h) /\ calls[h].owner = r
    <3> DEFINE c == calls[h]
               d == [c EXCEPT !.owner = Outside]
    <3>1. calls'[h] = d /\ IsCall(c)
      BY <1>1, <2>1, AtWork
    <3> HIDE DEF c
    <3>2. d = CallRecord(c.stage, Outside, c.tool, c.aims, c.want, c.again, c.crossed,
                         c.renumbered, c.settled)
      BY <3>1, CallExcept, Zenon
    <3> HIDE DEF d
    <3>3. d.owner = Outside
      BY <3>2 DEF CallRecord
    <3> QED BY <3>1, <3>3, CallersAssumption DEF Quieter, Listening
  <2>2. CASE Free(h) \/ calls[h].owner # r
    <3>1. calls'[h] = calls[h]
      BY <1>1, <2>2
    <3> QED BY <2>2, <3>1 DEF Quieter, Listening, Free
  <2> QED BY <2>1, <2>2
<1>4. Expects(r)'
  BY <1>1, <1>3 DEF Expects
<1>5. ASSUME NEW q \in Runs, q # r PROVE Expects(q)'
  BY <1>1, <1>3, <1>5, DoneWaiting, ExpectsStays DEF ReplyInv
<1> QED BY <1>1, <1>2, <1>4, <1>5 DEF ReplyInv

\* The worker is stopped: whoever waited hears that its channel closed.
LEMMA StopAnswers ==
    ASSUME ReplyInv, WorkerStops, UNCHANGED runs
    PROVE  ReplyInv'
<1>1. /\ calls' = [h \in Handlers |-> Idle]
      /\ reply' = [r \in Runs |-> IF \E h \in Handlers : Listening(h, r) THEN "error" ELSE reply[r]]
  <2>1. DOMAIN reply = Runs
    BY DEF ReplyInv
  <2> QED BY <2>1 DEF WorkerStops, Listening
<1>2. \A h \in Handlers, r \in Runs : ~Listening(h, r)'
  BY <1>1 DEF Listening, Free, Idle
<1>3. ASSUME NEW r \in Runs PROVE Expects(r)'
  BY <1>1, <1>2 DEF ReplyInv, Expects
<1> QED BY <1>1, <1>3 DEF ReplyInv

\* Neither the chat nor its answers change.
LEMMA SameChat ==
    ASSUME ChatInv, ReplyInv, UNCHANGED chatVars
    PROVE  ChatInv' /\ (\A r \in Runs : StillWaits(r)) /\ (UNCHANGED <<calls, reply>> => ReplyInv')
<1>1. UNCHANGED <<transcript, busy, abortRef, gen, runs>>
  BY DEF chatVars
<1>2. ChatInv'
  BY <1>1 DEF ChatInv, Running, GoodRun, Current, InCharge
<1>3. \A r \in Runs : StillWaits(r)
  BY <1>1 DEF StillWaits
<1> QED BY <1>2, <1>3, RepliesStay

\* Every step of the extension.
LEMMA NextChat ==
    ASSUME ToolInv, ChatInv, ReplyInv, Next
    PROVE  ChatInv' /\ ReplyInv'
<1>1. ASSUME NEW r \in Runs,
             Says(r) \/ TabIsBound(r) \/ ProviderReplies(r) \/ ProviderFails(r) \/ FetchAborts(r)
      PROVE  ChatInv' /\ ReplyInv'
  <2>1. UNCHANGED <<calls, reply>> /\ (Send(r) \/ Binds(r) \/ Replies(r) \/ Rejects(r))
    BY <1>1, Zenon DEF Says, TabIsBound, ProviderReplies, ProviderFails, FetchAborts, OfChat,
       toolVars, dispatchVars
  <2>2. ChatInv'
    BY <2>1, SendKeeps, BindsKeeps, RepliesKeeps, RejectsKeeps
  <2> QED BY <2>1, <2>2, NobodyStopsWaiting, RepliesStay
<1>2. ASSUME NEW r \in Runs, CallsTool(r) \/ ToolAnswers(r) \/ PanelGivesUp(r)
      PROVE  ChatInv' /\ ReplyInv'
  BY <1>2, CallsToolKeeps, ToolAnswersKeeps, PanelGivesUpKeeps
<1>3. CASE Clicks
  <2>1. UNCHANGED <<calls, reply>> /\ (Stop \/ Resets)
    BY <1>3, Zenon DEF Clicks, OfChat, toolVars, dispatchVars, Clear, OnProviderChange
  <2>2. runs' = Aborted
    BY <2>1, Zenon DEF Stop, Resets, Abandons
  <2>3. ChatInv'
    BY <2>1, StopKeeps, ResetsKeeps
  <2> QED BY <2>1, <2>2, <2>3, AbortedWait, RepliesStay
<1>4. ASSUME NEW h \in Handlers, HandlerGoesOn(h) \/ TimeIsUp(h)
      PROVE  ChatInv' /\ ReplyInv'
  <2>1. UNCHANGED chatVars /\ (HandlerSteps(h) \/ TimesOut(h))
    BY <1>4, Zenon DEF HandlerGoesOn, TimeIsUp, OfTools
  <2>2. Speaks(h) /\ runs' = runs
    BY <2>1, HandlerMakesCallStep, CallStepSpeaks, TimeoutSpeaks DEF chatVars
  <2> QED BY <2>1, <2>2, SameChat, SpeaksKeeps
<1>5. ASSUME NEW h \in Handlers, BridgeAsks(h) PROVE ChatInv' /\ ReplyInv'
  <2>1. UNCHANGED chatVars /\ Begins(h, Outside)
    BY <1>5, Zenon DEF BridgeAsks, OfTools
  <2>2. reply' = reply /\ \A g \in Handlers : Quieter(g)
    BY <2>1, BeginsSpeaks, CallersAssumption DEF Quieter
  <2>3. \A r \in Runs : Expects(r)'
    BY <2>1, <2>2, SameChat, ExpectsStays DEF ReplyInv
  <2> QED BY <2>1, <2>2, <2>3, SameChat DEF ReplyInv
<1>6. CASE WorkerEnds
  <2>1. UNCHANGED chatVars /\ WorkerStops
    BY <1>6, Zenon DEF WorkerEnds, OfTools
  <2> QED BY <2>1, SameChat, StopAnswers DEF chatVars
<1>7. CASE PageMoves \/ IdIsAsked \/ IdIsFound \/ ContextIsLost
  <2>1. UNCHANGED chatVars /\ UNCHANGED <<calls, reply>>
    BY <1>7, Zenon DEF PageMoves, IdIsAsked, IdIsFound, ContextIsLost, OfTools, OfId, toolVars,
       dispatchVars
  <2> QED BY <2>1, SameChat
<1>8. CASE StatusShifts \/ PanelWork
  <2>1. UNCHANGED chatVars /\ UNCHANGED <<calls, reply>>
    BY <1>8, Zenon DEF StatusShifts, PanelWork, ManagerWrites, NoteIsWritten, NewsArrives,
       PullStarts, PullIsServed, PullLands, RefreshStarts, RefreshLooks, RefreshLands, OfStatus,
       toolVars, dispatchVars
  <2> QED BY <2>1, SameChat
<1> QED BY <1>1, <1>2, <1>3, <1>4, <1>5, <1>6, <1>7, <1>8, Zenon DEF Next

\* Whatever was stopped, cleared, switched or has failed before, a provider is
\* sent a conversation of the run's own generation in a shape it accepts: for
\* any number of runs, rounds and tool calls.
THEOREM RequestsAreWell == Spec => []RequestsAreWellFormed
<1>1. Init => ToolInv /\ ChatInv /\ ReplyInv
  <2> SUFFICES ASSUME Init PROVE ToolInv /\ ChatInv /\ ReplyInv
    OBVIOUS
  <2>1. ToolInv
    BY ToolsStart
  <2>2. ChatInv
    BY DEF Init, ChatInit, ChatInv, Running, NoTurn
  <2>3. ReplyInv
    BY DEF Init, DispatchInit, ReplyInv, Expects, Listening, Free, Idle
  <2> QED BY <2>1, <2>2, <2>3
<1>2. ToolInv /\ ChatInv /\ ReplyInv /\ [Next]_vars => (ToolInv /\ ChatInv /\ ReplyInv)'
  <2>1. ASSUME ToolInv, ChatInv, ReplyInv, UNCHANGED vars PROVE (ToolInv /\ ChatInv /\ ReplyInv)'
    <3>1. UNCHANGED <<calls, cache, minted>> /\ UNCHANGED chatVars /\ UNCHANGED <<calls, reply>>
      BY <2>1, Zenon DEF vars, toolVars, pageVars, dispatchVars
    <3> QED BY <2>1, <3>1, SameTools, SameChat
  <2> QED BY <2>1, NextKeeps, NextChat
<1>3. ChatInv => RequestsAreWellFormed
  <2> SUFFICES ASSUME ChatInv, NEW r \in Runs, runs[r].stage = "calling"
               PROVE  /\ Accepted(runs[r].provider, runs[r].conv)
                      /\ \A i \in DOMAIN runs[r].conv : runs[r].conv[i].of = runs[r].gen
    BY DEF RequestsAreWellFormed
  <2>1. FitConv("calling", runs[r].gen, runs[r].conv, runs[r].base, runs[r].todo)
    BY RunIs DEF Running
  <2>2. /\ Sendable(runs[r].conv, 0) /\ TheUsersTurn(runs[r].conv)
        /\ OfGen(runs[r].conv, runs[r].gen)
    BY <2>1 DEF FitConv
  <2>3. DOMAIN runs[r].conv = 1..Len(runs[r].conv)
    BY <2>2 DEF Sendable
  <2> QED BY <2>2, <2>3, SendableIsAccepted DEF OfGen
<1> QED BY <1>1, <1>2, <1>3, PTL DEF Spec
=============================================================================
