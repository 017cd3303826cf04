-------------------------- MODULE BridgeRelay_proofs --------------------------
(***************************************************************************)
(* Proofs about BridgeRelay, for any number of sockets, browsers, requests *)
(* and clients.                                                            *)
(***************************************************************************)
EXTENDS BridgeRelay, TLAPS

-----------------------------------------------------------------------------
(***************************************************************************)
(* The order on relay identities.                                          *)
(***************************************************************************)

\* Two identities tie exactly when they are equal: an exact tie is one life.
LEMMA TieIsEquality ==
    ASSUME NEW a \in RelayIdentities, NEW b \in RelayIdentities
    PROVE  CompareRelayIdentity(a, b) = 0 <=> a = b
BY DEF CompareRelayIdentity, RelayIdentities, NoGen

\* Either identity outranks the other, never both (compareRelayIdentity).
LEMMA OutranksIsTotal ==
    ASSUME NEW a \in RelayIdentities, NEW b \in RelayIdentities
    PROVE  /\ a # b => Outranks(a, b) \/ Outranks(b, a)
           /\ ~(Outranks(a, b) /\ Outranks(b, a))
BY DEF Outranks, CompareRelayIdentity, RelayIdentities, NoGen

\* Outranking is transitive: however many lives claim a browserId, one of them
\* outranks all the others.
LEMMA OutranksIsTransitive ==
    ASSUME NEW a \in RelayIdentities, NEW b \in RelayIdentities,
           NEW c \in RelayIdentities, Outranks(a, b), Outranks(b, c)
    PROVE  Outranks(a, c)
BY DEF Outranks, CompareRelayIdentity, RelayIdentities, NoGen

-----------------------------------------------------------------------------
(***************************************************************************)
(* The inductive invariant.                                                *)
(***************************************************************************)

\* A socket has parameters from its connection on.
ParamsKnown ==
    /\ \A s \in Socks : readyState[s] = "unused" <=> params[s] = None
    /\ \A s \in wired : params[s] # None

\* Who waits on a probe: a collision probe belongs to one newcomer, an ordinary
\* socket without handlers; a fan-out probe to a request.
WaitersSound(set) ==
    \A p \in set :
        /\ p.kind = "collision" =>
             /\ p.by \in Socks \ wired
             /\ params[p.by] # None
             /\ BrowserOf(p.by) # HelperProbe
             /\ ~params[p.by].canonical
             /\ \A q \in set : q.kind = "collision" /\ q.by = p.by => q = p
        /\ p.kind = "fanout" => p.by \in Requests

ProbesSound == WaitersSound(probes)

IInv ==
    /\ TypeOK
    /\ ParamsKnown
    /\ ProbesSound
    /\ RegistrySound
    /\ NoOrphanSocket
    /\ HelperProbe \in Ids => browserRelayIdentity[HelperProbe] = None

\* The part of TypeOK that a registration changes.
RegistryTypeOK ==
    /\ params \in [Socks -> UrlParams \cup {None}]
    /\ readyState \in [Socks -> ReadyStates]
    /\ wired \subseteq Socks
    /\ browserSockets \in [Ids -> Socks \cup {None}]
    /\ browserRelayIdentity \in [Ids -> RelayIdentities \cup {None}]
    /\ gracedSockets \in [Ids -> Socks \cup {None}]
    /\ browserSupersededCount \in [Ids -> Nat]
    /\ browserLastRelayClose \in [Ids -> CloseCodes \cup {None}]
    /\ requests \in [Requests -> RequestRecords]

\* A request moved on to another state is still a request record.
LEMMA MovedType ==
    ASSUME TypeOK, NEW r \in Requests, NEW st \in RequestStates
    PROVE  Moved(r, st) \in RequestRecords
BY DEF TypeOK, Moved, RequestRecords

\* The empty bridge, before any socket connects, satisfies the invariant.
LEMMA InitEstablishes == Init => IInv
<1> SUFFICES ASSUME Init PROVE IInv
  OBVIOUS
<1> USE DEF Init
<1>1. TypeOK
  BY NoneAssumption DEF TypeOK, NoChurn, ReadyStates, RequestRecords, RequestStates
<1>2. ParamsKnown /\ ProbesSound
  BY DEF ParamsKnown, ProbesSound, WaitersSound
<1>3. RegistrySound /\ NoOrphanSocket
  BY DEF RegistrySound, NoOrphanSocket
<1> QED
  BY <1>1, <1>2, <1>3 DEF IInv

(***************************************************************************)
(* accept(), whoever calls it: s is not registered yet, and an idempotent  *)
(* acceptance displaces an open incumbent.                                 *)
(***************************************************************************)
LEMMA AcceptKeeps ==
    ASSUME IInv,
           NEW s \in Socks \ wired, NEW p \in UrlParams,
           NEW idempotent \in BOOLEAN,
           readyState[s] \in {"unused", "open"},
           params[s] \in {None, p},
           params' = [params EXCEPT ![s] = p],
           idempotent => p.browserId \in OpenIds,
           Accept(s, p, idempotent)
    PROVE  /\ RegistryTypeOK' /\ ParamsKnown'
           /\ RegistrySound' /\ NoOrphanSocket'
           /\ (HelperProbe \in Ids => browserRelayIdentity[HelperProbe] = None)'
<1> DEFINE i == p.browserId
           old == browserSockets[i]
           displaced == old \notin {None, s}
           supersede == displaced /\ ~idempotent
           retired == IF displaced THEN gracedSockets[i] ELSE None
<1>0. /\ i \in Ids /\ p.ident \in RelayIdentities /\ p # None
      /\ None \notin Socks /\ None \notin RelayIdentities
  BY ParamsAssumption, NoneAssumption
<1>1. /\ wired' = wired \cup {s}
      /\ browserSockets' = [browserSockets EXCEPT ![i] = s]
      /\ readyState' =
           [x \in Socks |->
              IF x = s THEN "open"
              ELSE IF supersede /\ x = old THEN "terminated"
              ELSE IF x = retired /\ IsOpen(x) THEN "closing"
              ELSE readyState[x]]
      /\ gracedSockets' =
           IF displaced
           THEN [gracedSockets EXCEPT ![i] = IF idempotent THEN old ELSE None]
           ELSE gracedSockets
      /\ browserRelayIdentity' =
           IF i = HelperProbe THEN browserRelayIdentity
           ELSE [browserRelayIdentity EXCEPT ![i] = p.ident]
  BY DEF Accept, IndexBrowser, Supersedes
<1>2. /\ RegistrySound /\ NoOrphanSocket /\ ParamsKnown /\ TypeOK
      /\ HelperProbe \in Ids => browserRelayIdentity[HelperProbe] = None
  BY DEF IInv
<1>3. RegistryTypeOK'
  <2>1. /\ browserSupersededCount' \in [Ids -> Nat]
        /\ browserLastRelayClose' \in [Ids -> CloseCodes \cup {None}]
    <3>1. browserSupersededCount' =
            [browserSupersededCount EXCEPT ![i] = IF supersede THEN @ + 1 ELSE @]
      BY DEF Accept, IndexBrowser, Supersedes
    <3>2. browserLastRelayClose' =
            [browserLastRelayClose EXCEPT ![i] = IF displaced THEN 1006 ELSE @]
      BY DEF Accept, IndexBrowser
    <3> QED
      BY <1>0, <1>2, <3>1, <3>2 DEF TypeOK, CloseCodes
  <2>2. requests' \in [Requests -> RequestRecords]
    <3>1. \A r \in Requests : Moved(r, "rejected") \in RequestRecords
      BY <1>2, MovedType DEF RequestStates, Settled
    <3> QED
      BY <1>2, <3>1 DEF TypeOK, Accept, IndexBrowser
  <2>3. params' \in [Socks -> UrlParams \cup {None}]
    BY <1>2 DEF TypeOK
  <2>4. /\ readyState' \in [Socks -> ReadyStates]
        /\ wired' \subseteq Socks
        /\ browserSockets' \in [Ids -> Socks \cup {None}]
        /\ browserRelayIdentity' \in [Ids -> RelayIdentities \cup {None}]
        /\ gracedSockets' \in [Ids -> Socks \cup {None}]
    BY <1>0, <1>1, <1>2 DEF TypeOK, ReadyStates
  <2> QED
    BY <2>1, <2>2, <2>3, <2>4 DEF RegistryTypeOK
<1>4. ParamsKnown'
  <2>1. \A x \in Socks \ {s} :
          /\ params'[x] = params[x]
          /\ readyState'[x] = "unused" <=> readyState[x] = "unused"
    <3>1. old # None => old \in wired
      BY <1>0, <1>2 DEF RegistrySound
    <3>2. supersede => old # None /\ readyState[old] # "unused"
      BY <1>2, <3>1 DEF ParamsKnown, TypeOK
    <3> QED
      BY <1>1, <1>2, <3>2 DEF IsOpen, TypeOK
  <2>2. params'[s] = p /\ readyState'[s] = "open"
    BY <1>1, <1>2 DEF TypeOK
  <2> QED
    BY <1>0, <1>1, <1>2, <2>1, <2>2 DEF ParamsKnown, TypeOK
<1>5. RegistrySound'
  <2> SUFFICES ASSUME NEW j \in Ids
               PROVE  /\ browserSockets'[j] # None =>
                           /\ browserSockets'[j] \in wired'
                           /\ params'[browserSockets'[j]].browserId = j
                           /\ readyState'[browserSockets'[j]] # "closed"
                           /\ j # HelperProbe =>
                                browserRelayIdentity'[j] =
                                  params'[browserSockets'[j]].ident
                      /\ browserSockets'[j] = None => browserRelayIdentity'[j] = None
                      /\ gracedSockets'[j] # None =>
                           /\ gracedSockets'[j] # browserSockets'[j]
                           /\ gracedSockets'[j] \in wired'
                           /\ params'[gracedSockets'[j]].browserId = j
                           /\ readyState'[gracedSockets'[j]] \in {"open", "closing"}
    BY DEF RegistrySound, BrowserOf
  <2>1. \A x \in wired : x # s /\ params'[x] = params[x]
    BY <1>2 DEF TypeOK
  <2>2. params'[s] = p
    BY <1>2 DEF TypeOK
  <2>3. CASE j = i
    <3>1. /\ browserSockets'[j] = s /\ s \in wired' /\ readyState'[s] = "open"
          /\ s # None
      BY <1>0, <1>1, <1>2, <2>3 DEF TypeOK
    <3>2. j # HelperProbe => browserRelayIdentity'[j] = p.ident
      BY <1>0, <1>1, <1>2, <2>3 DEF TypeOK
    <3>3. ASSUME gracedSockets'[j] # None
          PROVE  /\ gracedSockets'[j] \in wired
                 /\ params[gracedSockets'[j]].browserId = j
                 /\ readyState'[gracedSockets'[j]] \in {"open", "closing"}
      <4>1. CASE displaced
        <5>1. idempotent /\ gracedSockets'[j] = old
          BY <1>0, <1>1, <1>2, <2>3, <3>3, <4>1 DEF TypeOK
        <5>2. old \in wired /\ params[old].browserId = j /\ readyState[old] = "open"
          BY <1>2, <2>3, <4>1, <5>1 DEF RegistrySound, BrowserOf, OpenIds, IsOpen
        <5> QED
          BY <1>1, <1>2, <5>1, <5>2 DEF TypeOK, IsOpen
      <4>2. CASE ~displaced
        <5>1. gracedSockets'[j] = gracedSockets[j]
          BY <1>1, <4>2
        <5>2. /\ gracedSockets[j] \in wired /\ params[gracedSockets[j]].browserId = j
              /\ readyState[gracedSockets[j]] \in {"open", "closing"}
          BY <1>2, <3>3, <5>1 DEF RegistrySound, BrowserOf
        <5>3. gracedSockets[j] # s
          BY <5>2
        <5> QED
          BY <1>1, <1>2, <4>2, <5>1, <5>2, <5>3 DEF TypeOK, IsOpen
      <4> QED
        BY <4>1, <4>2
    <3> QED
      BY <1>0, <1>1, <2>1, <2>2, <2>3, <3>1, <3>2, <3>3
  <2>4. CASE j # i
    <3>1. /\ browserSockets'[j] = browserSockets[j]
          /\ gracedSockets'[j] = gracedSockets[j]
          /\ browserRelayIdentity'[j] = browserRelayIdentity[j]
      BY <1>1, <1>2, <2>4 DEF TypeOK
    <3>2. \A x \in wired : params[x].browserId = j => readyState'[x] = readyState[x]
      <4>1. old # None => params[old].browserId = i
        BY <1>0, <1>2 DEF RegistrySound, BrowserOf
      <4>2. gracedSockets[i] # None => params[gracedSockets[i]].browserId = i
        BY <1>0, <1>2 DEF RegistrySound, BrowserOf
      <4> QED
        BY <1>0, <1>1, <1>2, <2>1, <2>4, <4>1, <4>2 DEF TypeOK
    <3> QED
      BY <1>1, <1>2, <2>1, <3>1, <3>2 DEF RegistrySound, BrowserOf
  <2> QED
    BY <2>3, <2>4
<1>6. NoOrphanSocket'
  <2> SUFFICES ASSUME NEW x \in wired', readyState'[x] = "open"
               PROVE  x \in {browserSockets'[params'[x].browserId],
                             gracedSockets'[params'[x].browserId]}
    BY DEF NoOrphanSocket, BrowserOf, IsOpen
  <2>1. CASE x = s
    BY <1>0, <1>1, <1>2, <2>1 DEF TypeOK
  <2>2. CASE x # s
    <3>1. x \in wired /\ x \in Socks /\ params'[x] = params[x] /\ readyState[x] = "open"
      BY <1>1, <1>2, <2>2 DEF TypeOK
    <3>2. x \in {browserSockets[params[x].browserId], gracedSockets[params[x].browserId]}
      BY <1>2, <3>1 DEF NoOrphanSocket, BrowserOf, IsOpen
    <3>3. CASE params[x].browserId # i
      BY <1>1, <1>2, <3>1, <3>2, <3>3 DEF TypeOK
    <3>4. CASE params[x].browserId = i
      <4>1. CASE displaced
        <5>1. x # gracedSockets[i]
          BY <1>1, <2>2, <3>1, <4>1 DEF IsOpen
        <5>2. x = old /\ idempotent
          BY <1>1, <2>2, <3>1, <3>2, <3>4, <4>1, <5>1
        <5> QED
          BY <1>0, <1>1, <1>2, <3>1, <3>4, <4>1, <5>2 DEF TypeOK
      <4>2. CASE ~displaced
        BY <1>0, <1>1, <1>2, <2>2, <3>1, <3>2, <3>4, <4>2 DEF TypeOK
      <4> QED
        BY <4>1, <4>2
    <3> QED
      BY <3>3, <3>4
  <2> QED
    BY <2>1, <2>2
<1>7. (HelperProbe \in Ids => browserRelayIdentity[HelperProbe] = None)'
  BY <1>1, <1>2 DEF TypeOK
<1> QED
  BY <1>3, <1>4, <1>5, <1>6, <1>7

(***************************************************************************)
(* Events that only begin the close handshake of some sockets.             *)
(***************************************************************************)
LEMMA ClosingKeeps ==
    ASSUME IInv,
           readyState' \in [Socks -> ReadyStates],
           \A x \in Socks :
               \/ readyState'[x] = readyState[x]
               \/ readyState[x] = "open" /\ readyState'[x] = "closing",
           UNCHANGED <<params, wired, registry>>
    PROVE  /\ ParamsKnown' /\ RegistrySound' /\ NoOrphanSocket'
           /\ (HelperProbe \in Ids => browserRelayIdentity[HelperProbe] = None)'
<1> USE DEF IInv, registry
<1>1. ParamsKnown'
  BY DEF ParamsKnown
<1>2. RegistrySound'
  BY DEF RegistrySound, BrowserOf, TypeOK
<1>3. NoOrphanSocket'
  BY DEF NoOrphanSocket, BrowserOf, IsOpen, TypeOK
<1> QED
  BY <1>1, <1>2, <1>3

\* ws.close() leaves every readyState one of the five.
LEMMA ClosingType ==
    ASSUME TypeOK, NEW s \in Socks
    PROVE  /\ Closing(s) \in [Socks -> ReadyStates]
           /\ \A x \in Socks :
                \/ Closing(s)[x] = readyState[x]
                \/ readyState[x] = "open" /\ Closing(s)[x] = "closing"
BY DEF TypeOK, Closing, ReadyStates

\* The next probe of the sweep is neither a newcomer's nor a request's.
LEMMA SweepKeeps ==
    ASSUME NEW q \in SUBSET Socks, NEW ready \in [Socks -> ReadyStates],
           NEW others \in SUBSET ProbeRecords, NEW unanswered \in SUBSET Socks,
           WaitersSound(others),
           SweepGoesOn(q, ready, others, unanswered),
           UNCHANGED <<params, wired>>
    PROVE  /\ probes' \subseteq ProbeRecords
           /\ sweepQueue' \subseteq Socks
           /\ pinged' \subseteq Socks
           /\ ProbesSound'
<1>1. CASE probes' = others /\ sweepQueue' = {} /\ pinged' = unanswered
  BY <1>1 DEF ProbesSound, WaitersSound, BrowserOf
<1>2. ASSUME NEW s \in q,
             probes' = others \cup {Probe("sweep", None, s)},
             sweepQueue' \subseteq q, pinged' = unanswered \cup {s}
      PROVE  /\ probes' \subseteq ProbeRecords
             /\ sweepQueue' \subseteq Socks
             /\ pinged' \subseteq Socks
             /\ ProbesSound'
  <2>1. Probe("sweep", None, s) \in ProbeRecords
    BY DEF Probe, ProbeRecords
  <2>2. Probe("sweep", None, s).kind = "sweep"
    BY DEF Probe
  <2>3. ProbesSound'
    BY <1>2, <2>2 DEF ProbesSound, WaitersSound, BrowserOf
  <2> QED
    BY <1>2, <2>1, <2>3
<1> QED
  BY <1>1, <1>2 DEF SweepGoesOn

\* Parameters, sockets and waiters when a new socket is accepted at once.
LEMMA ConnectAcceptKeeps ==
    ASSUME IInv, NEW s \in Socks, NEW p \in UrlParams,
           NEW idempotent \in BOOLEAN,
           Connects(s, p),
           idempotent => Collides(p),
           Accept(s, p, idempotent),
           UNCHANGED probing
    PROVE  IInv'
<1>1. readyState[s] = "unused" /\ s \notin wired
  BY DEF IInv, ParamsKnown, Connects
<1>2. params' = [params EXCEPT ![s] = p] /\ params[s] = None
  BY DEF Connects
<1>3. /\ RegistryTypeOK' /\ ParamsKnown'
      /\ RegistrySound' /\ NoOrphanSocket'
      /\ (HelperProbe \in Ids => browserRelayIdentity[HelperProbe] = None)'
  BY <1>1, <1>2, AcceptKeeps DEF Collides
<1>4. TypeOK'
  BY <1>3 DEF IInv, TypeOK, RegistryTypeOK, probing
<1>5. ProbesSound'
  BY <1>2 DEF IInv, TypeOK, ProbesSound, WaitersSound, BrowserOf, Accept, probing
<1> QED
  BY <1>3, <1>4, <1>5 DEF IInv

\* A newcomer that is not accepted at once leaves the registry alone.
LEMMA ConnectWaitsKeeps ==
    ASSUME IInv, NEW s \in Socks, NEW p \in UrlParams,
           NEW ready \in {"open", "closing"},
           Connects(s, p),
           readyState' = [readyState EXCEPT ![s] = ready],
           UNCHANGED <<wired, registry>>
    PROVE  /\ params' \in [Socks -> UrlParams \cup {None}]
           /\ readyState' \in [Socks -> ReadyStates]
           /\ ParamsKnown' /\ RegistrySound' /\ NoOrphanSocket'
           /\ (HelperProbe \in Ids => browserRelayIdentity[HelperProbe] = None)'
<1> USE NoneAssumption DEF IInv, registry
<1>1. /\ params' \in [Socks -> UrlParams \cup {None}]
      /\ readyState' \in [Socks -> ReadyStates]
  BY DEF Connects, TypeOK, ReadyStates
<1>2. s \notin wired
  BY DEF Connects, ParamsKnown
<1>3. ParamsKnown'
  BY <1>2 DEF Connects, ParamsKnown, TypeOK
<1>4. \A x \in wired : params'[x] = params[x] /\ readyState'[x] = readyState[x]
  BY <1>2 DEF Connects, TypeOK
<1>5. RegistrySound'
  BY <1>4 DEF RegistrySound, BrowserOf
<1>6. NoOrphanSocket'
  BY <1>4 DEF NoOrphanSocket, BrowserOf, IsOpen
<1> QED
  BY <1>1, <1>3, <1>5, <1>6

\* Every outcome of an upgrade (the branches of handleExtension) keeps the
\* invariant.
LEMMA ConnectKeeps ==
    ASSUME IInv, NEW s \in Socks, NEW p \in UrlParams,
           \/ ConnectFresh(s, p)
           \/ ConnectHigher(s, p)
           \/ ConnectTie(s, p)
           \/ ConnectLower(s, p)
           \/ ConnectLegacy(s, p)
           \/ ConnectDuplicate(s, p)
    PROVE  IInv'
<1>1. CASE ConnectFresh(s, p)
  BY <1>1, ConnectAcceptKeeps DEF ConnectFresh
<1>2. CASE ConnectHigher(s, p)
  BY <1>2, ConnectAcceptKeeps DEF ConnectHigher
<1>3. CASE ConnectTie(s, p)
  BY <1>3, ConnectAcceptKeeps DEF ConnectTie
<1>4. CASE ConnectLower(s, p)
  <2>1. /\ Connects(s, p) /\ UNCHANGED <<wired, registry>>
        /\ readyState' = [readyState EXCEPT ![s] = "closing"]
    BY <1>4 DEF ConnectLower
  <2>2. TypeOK'
    <3>1. browserLastRelayClose' \in [Ids -> CloseCodes \cup {None}]
      BY <1>4, ParamsAssumption DEF IInv, TypeOK, ConnectLower, CloseCodes
    <3>2. /\ params' \in [Socks -> UrlParams \cup {None}]
          /\ readyState' \in [Socks -> ReadyStates]
      BY <2>1, ConnectWaitsKeeps
    <3> QED
      BY <1>4, <3>1, <3>2 DEF IInv, TypeOK, ConnectLower, registry, probing
  <2>3. ProbesSound'
    BY <1>4 DEF ConnectLower, Connects, IInv, TypeOK, ProbesSound, WaitersSound,
                BrowserOf, probing
  <2> QED
    BY <2>1, <2>2, <2>3, ConnectWaitsKeeps DEF IInv
<1>5. CASE ConnectLegacy(s, p)
  BY <1>5, ConnectAcceptKeeps DEF ConnectLegacy
<1>6. CASE ConnectDuplicate(s, p)
  <2> DEFINE new == Probe("collision", s, browserSockets[p.browserId])
  <2>1. /\ Connects(s, p) /\ UNCHANGED <<wired, registry>>
        /\ readyState' = [readyState EXCEPT ![s] = "open"]
        /\ probes' = probes \cup {new}
    BY <1>6 DEF ConnectDuplicate
  <2>2. browserSockets[p.browserId] \in Socks
    BY <1>6, NoneAssumption DEF ConnectDuplicate, Collides, OpenIds, IInv, TypeOK
  <2>3. /\ new.kind = "collision" /\ new.by = s
        /\ new \in ProbeRecords
    BY <2>2 DEF Probe, ProbeRecords
  <2>4. TypeOK'
    BY <1>6, <2>1, <2>2, <2>3, ConnectWaitsKeeps
    DEF IInv, TypeOK, ConnectDuplicate, registry, signals
  <2>5. s \notin wired /\ params[s] = None /\ params'[s] = p /\ p # None
    BY <2>1, NoneAssumption DEF Connects, IInv, TypeOK, ParamsKnown
  <2>6. p.browserId # HelperProbe /\ ~p.canonical
    BY <1>6 DEF ConnectDuplicate, Collides
  <2>7. \A q \in probes :
          /\ q.kind = "collision" => q.by # s /\ params'[q.by] = params[q.by]
          /\ q # new
    BY <2>1, <2>3, <2>5 DEF Connects, IInv, TypeOK, ProbesSound, WaitersSound
  <2>8. ProbesSound'
    BY <2>1, <2>3, <2>5, <2>6, <2>7 DEF IInv, ProbesSound, WaitersSound, BrowserOf
  <2> QED
    BY <2>1, <2>4, <2>8, ConnectWaitsKeeps DEF IInv
<1> QED
  BY <1>1, <1>2, <1>3, <1>4, <1>5, <1>6

\* Marking a probe keeps whose it is.
LEMMA ProbeMarked ==
    ASSUME NEW p \in ProbeRecords
    PROVE  /\ Unlisted(p) \in ProbeRecords
           /\ Unlisted(p).kind = p.kind /\ Unlisted(p).by = p.by
BY DEF ProbeRecords, Unlisted

\* So marking some of the probes leaves every waiter its probe.
LEMMA MarkedWaiters ==
    ASSUME NEW set \in SUBSET ProbeRecords, NEW mark \in [set -> ProbeRecords],
           WaitersSound(set),
           \A p \in set : mark[p].kind = p.kind /\ mark[p].by = p.by
    PROVE  WaitersSound({mark[p] : p \in set})
<1> DEFINE marked == {mark[p] : p \in set}
<1>1. \A a, b \in set :
        a.kind = "collision" /\ b.kind = "collision" /\ a.by = b.by => a = b
  BY DEF WaitersSound
<1>2. \A x, y \in marked :
        x.kind = "collision" /\ y.kind = "collision" /\ x.by = y.by => x = y
  BY <1>1
<1> QED
  BY <1>2 DEF WaitersSound

\* The 'close' event, of the incumbent or of another socket, keeps the invariant:
\* only the incumbent unregisters, and it takes its waiters along.
LEMMA SocketClosedKeeps ==
    ASSUME IInv, NEW s \in Socks, NEW code \in {1000, 1006, 1011},
           SocketClosed(s, code)
    PROVE  IInv'
<1> DEFINE i == BrowserOf(s)
<1> USE NoneAssumption
<1>1. params[s] # None /\ i \in Ids /\ params' = params /\ wired' = wired
  BY ParamsAssumption DEF SocketClosed, IInv, ParamsKnown, TypeOK, BrowserOf
<1>2. /\ readyState' = [readyState EXCEPT ![s] = "closed"]
      /\ browserSockets' =
           [browserSockets EXCEPT ![i] = IF IsIncumbent(s) THEN None ELSE @]
      /\ browserRelayIdentity' =
           [browserRelayIdentity EXCEPT
              ![i] = IF IsIncumbent(s) /\ i # HelperProbe THEN None ELSE @]
      /\ gracedSockets' =
           [gracedSockets EXCEPT ![i] = IF @ = s THEN None ELSE @]
      /\ probes' = IF IsIncumbent(s) THEN ForgetWaiters(i) ELSE probes
  BY DEF SocketClosed, StillGraced
<1>3. IInv /\ TypeOK
  BY DEF IInv
<1>4. TypeOK'
  <2>1. browserSupersededCount' \in [Ids -> Nat]
    BY <1>1, <1>3 DEF TypeOK, SocketClosed
  <2>2. browserLastRelayClose' \in [Ids -> CloseCodes \cup {None}]
    BY <1>1, <1>3 DEF TypeOK, SocketClosed, CloseCodes
  <2>3. probes' \subseteq ProbeRecords
    BY <1>2, <1>3, ProbeMarked DEF TypeOK, ForgetWaiters
  <2>4. /\ readyState' \in [Socks -> ReadyStates]
        /\ browserSockets' \in [Ids -> Socks \cup {None}]
        /\ browserRelayIdentity' \in [Ids -> RelayIdentities \cup {None}]
        /\ gracedSockets' \in [Ids -> Socks \cup {None}]
    BY <1>1, <1>2, <1>3 DEF TypeOK, ReadyStates
  <2> QED
    BY <1>3, <2>1, <2>2, <2>3, <2>4 DEF TypeOK, SocketClosed
<1>5. ParamsKnown'
  BY <1>1, <1>2, <1>3 DEF IInv, ParamsKnown, TypeOK, SocketClosed
<1>6. ProbesSound'
  <2> DEFINE mark == [p \in probes |-> IF BrowserOf(p.sock) = i THEN Unlisted(p) ELSE p]
  <2>1. /\ mark \in [probes -> ProbeRecords]
        /\ \A p \in probes : mark[p].kind = p.kind /\ mark[p].by = p.by
    BY <1>3, ProbeMarked DEF TypeOK
  <2>2. ForgetWaiters(i) = {mark[p] : p \in probes}
    BY DEF ForgetWaiters
  <2>3. WaitersSound(probes) /\ probes \in SUBSET ProbeRecords
    BY <1>3 DEF IInv, TypeOK, ProbesSound
  <2> HIDE DEF mark
  <2>4. WaitersSound({mark[p] : p \in probes})
    BY <2>1, <2>3, MarkedWaiters
  <2>5. WaitersSound(probes')
    BY <1>2, <2>2, <2>3, <2>4
  <2> QED
    BY <1>1, <2>5 DEF ProbesSound, WaitersSound, BrowserOf
<1>7. RegistrySound'
  <2>1. \A j \in Ids : browserSockets[j] = s => j = i /\ IsIncumbent(s)
    BY <1>1, <1>3 DEF IInv, RegistrySound, IsIncumbent, BrowserOf
  <2>2. \A j \in Ids : gracedSockets[j] = s => j = i
    BY <1>1, <1>3 DEF IInv, RegistrySound, BrowserOf
  <2>3. IsIncumbent(s) => browserSockets[i] = s
    BY DEF IsIncumbent
  <2> SUFFICES ASSUME NEW j \in Ids
               PROVE  LET t == browserSockets'[j]
                          g == gracedSockets'[j]
                      IN  /\ t # None =>
                               /\ t \in wired /\ BrowserOf(t) = j
                               /\ readyState'[t] # "closed"
                               /\ j # HelperProbe =>
                                    browserRelayIdentity'[j] = params[t].ident
                          /\ t = None => browserRelayIdentity'[j] = None
                          /\ g # None =>
                               /\ g # t /\ g \in wired /\ BrowserOf(g) = j
                               /\ readyState'[g] \in {"open", "closing"}
    BY <1>1 DEF RegistrySound, BrowserOf
  <2>4. CASE j # i
    BY <1>2, <1>3, <2>1, <2>2, <2>4 DEF IInv, RegistrySound, TypeOK
  <2>5. CASE j = i
    BY <1>2, <1>3, <2>1, <2>2, <2>3, <2>5 DEF IInv, RegistrySound, TypeOK
  <2> QED
    BY <2>4, <2>5
<1>8. NoOrphanSocket'
  <2> SUFFICES ASSUME NEW x \in wired, readyState'[x] = "open"
               PROVE  x \in {browserSockets'[BrowserOf(x)],
                             gracedSockets'[BrowserOf(x)]}
    BY <1>1 DEF NoOrphanSocket, BrowserOf, IsOpen
  <2>1. x # s /\ readyState[x] = "open"
    BY <1>2, <1>3 DEF TypeOK
  <2>2. IsIncumbent(s) => browserSockets[i] = s
    BY DEF IsIncumbent
  <2> QED
    BY <1>2, <1>3, <2>1, <2>2 DEF IInv, NoOrphanSocket, IsOpen, TypeOK
<1>9. (HelperProbe \in Ids => browserRelayIdentity[HelperProbe] = None)'
  BY <1>2, <1>3 DEF IInv, TypeOK
<1> QED
  BY <1>4, <1>5, <1>6, <1>7, <1>8, <1>9 DEF IInv

\* The grace timer closes the graced socket and keeps the invariant.
LEMMA GraceTimeoutKeeps ==
    ASSUME IInv, NEW i \in Ids, GraceTimeout(i)
    PROVE  IInv'
<1> DEFINE g == gracedSockets[i]
<1>1. /\ g \in Socks /\ g \in wired /\ BrowserOf(g) = i
      /\ readyState' = Closing(g)
      /\ gracedSockets' = [gracedSockets EXCEPT ![i] = None]
  BY DEF GraceTimeout, IInv, TypeOK, RegistrySound
<1>2. /\ Closing(g) \in [Socks -> ReadyStates]
      /\ \A x \in Socks : x # g => Closing(g)[x] = readyState[x]
      /\ \A x \in Socks :
           \/ Closing(g)[x] = readyState[x]
           \/ readyState[x] = "open" /\ Closing(g)[x] = "closing"
      /\ Closing(g)[g] # "open"
  BY <1>1, ClosingType DEF IInv, TypeOK, Closing
<1>3. UNCHANGED <<params, wired, browserSockets, browserRelayIdentity,
                  signals, probing, requests>>
  BY DEF GraceTimeout
<1>4. TypeOK'
  BY <1>1, <1>2, <1>3 DEF IInv, TypeOK, signals, probing
<1>5. ParamsKnown' /\ ProbesSound'
  BY <1>1, <1>2, <1>3
  DEF IInv, TypeOK, ParamsKnown, ProbesSound, WaitersSound, BrowserOf, probing
<1>6. RegistrySound'
  BY <1>1, <1>2, <1>3, NoneAssumption DEF IInv, TypeOK, RegistrySound, BrowserOf
<1>7. NoOrphanSocket'
  BY <1>1, <1>2, <1>3 DEF IInv, TypeOK, NoOrphanSocket, BrowserOf, IsOpen
<1> QED
  BY <1>3, <1>4, <1>5, <1>6, <1>7 DEF IInv

\* The sweep's probe times out, or its snapshot is taken.
LEMMA SweepTickKeeps ==
    ASSUME IInv, SweepTick
    PROVE  IInv'
<1> DEFINE q == {browserSockets[i] : i \in OpenIds \ {HelperProbe}}
<1>1. q \subseteq Socks
  BY DEF OpenIds, IInv, TypeOK
<1>2. /\ UNCHANGED <<params, readyState, wired, registry, signals, requests>>
      /\ SweepGoesOn(q, readyState, probes, pinged)
  BY DEF SweepTick
<1>3. /\ probes' \subseteq ProbeRecords /\ sweepQueue' \subseteq Socks
      /\ pinged' \subseteq Socks /\ ProbesSound'
  <2> HIDE DEF q
  <2> QED
    BY <1>1, <1>2, SweepKeeps DEF IInv, TypeOK, ProbesSound
<1>4. /\ ParamsKnown' /\ RegistrySound' /\ NoOrphanSocket'
      /\ (HelperProbe \in Ids => browserRelayIdentity[HelperProbe] = None)'
  BY <1>2, ClosingKeeps DEF IInv, TypeOK
<1> QED
  BY <1>2, <1>3, <1>4 DEF IInv, TypeOK, registry, signals

\* A probe without a pong keeps the invariant, for each of its three callers.
LEMMA ProbeTimeoutKeeps ==
    ASSUME IInv, NEW p \in probes, ProbeTimeout(p)
    PROVE  IInv'
<1>0. p \in ProbeRecords /\ p.sock \in Socks
  BY DEF IInv, TypeOK, ProbeRecords
<1>1. WaitersSound(probes \ {p})
  BY DEF IInv, ProbesSound, WaitersSound
<1>2. CASE CollisionProbeTimeout(p)
  <2>1. /\ p.by \in Socks \ wired /\ params[p.by] \in UrlParams
        /\ \A q \in probes \ {p} : q.kind = "collision" => q.by # p.by
    BY <1>2 DEF CollisionProbeTimeout, IInv, TypeOK, ProbesSound, WaitersSound
  <2>2. /\ probes' = probes \ {p} /\ UNCHANGED <<params, sweepQueue, pinged>>
    BY <1>2 DEF CollisionProbeTimeout
  <2>3. CASE IsOpen(p.by)
    <3>1. Accept(p.by, params[p.by], FALSE)
      BY <1>2, <2>3 DEF CollisionProbeTimeout
    <3>2. params' = [params EXCEPT ![p.by] = params[p.by]]
      BY <2>1, <2>2 DEF IInv, TypeOK
    <3>3. /\ RegistryTypeOK' /\ ParamsKnown' /\ RegistrySound' /\ NoOrphanSocket'
          /\ (HelperProbe \in Ids => browserRelayIdentity[HelperProbe] = None)'
      <4> DEFINE s == p.by
                 up == params[p.by]
      <4>1. /\ s \in Socks \ wired /\ up \in UrlParams /\ params[s] \in {None, up}
            /\ readyState[s] \in {"unused", "open"}
            /\ params' = [params EXCEPT ![s] = up] /\ Accept(s, up, FALSE)
        BY <2>1, <2>3, <3>1, <3>2 DEF IsOpen
      <4> HIDE DEF s, up
      <4> QED
        BY <4>1, AcceptKeeps
    <3>4. ProbesSound'
      <4>1. wired' = wired \cup {p.by}
        BY <3>1 DEF Accept
      <4> QED
        BY <1>1, <2>1, <2>2, <4>1 DEF ProbesSound, WaitersSound, BrowserOf
    <3> QED
      BY <2>2, <3>3, <3>4 DEF IInv, TypeOK, RegistryTypeOK
  <2>4. CASE ~IsOpen(p.by)
    <3>1. UNCHANGED <<readyState, wired, registry, signals, requests>>
      BY <1>2, <2>4 DEF CollisionProbeTimeout
    <3>2. ProbesSound'
      BY <1>1, <2>2, <3>1 DEF ProbesSound, WaitersSound, BrowserOf
    <3>3. /\ ParamsKnown' /\ RegistrySound' /\ NoOrphanSocket'
          /\ (HelperProbe \in Ids => browserRelayIdentity[HelperProbe] = None)'
      BY <2>2, <3>1, ClosingKeeps DEF IInv, TypeOK
    <3> QED
      BY <2>2, <3>1, <3>2, <3>3 DEF IInv, TypeOK, registry, signals
  <2> QED
    BY <2>3, <2>4
<1>3. CASE SweepProbeTimeout(p)
  <2>1. /\ readyState' = Closing(p.sock)
        /\ SweepGoesOn(sweepQueue, Closing(p.sock), probes \ {p}, pinged)
        /\ UNCHANGED <<params, wired, registry, signals, requests>>
    BY <1>3 DEF SweepProbeTimeout
  <2>2. /\ Closing(p.sock) \in [Socks -> ReadyStates]
        /\ \A x \in Socks :
             \/ readyState'[x] = readyState[x]
             \/ readyState[x] = "open" /\ readyState'[x] = "closing"
    BY <1>0, <2>1, ClosingType DEF IInv
  <2>3. /\ probes' \subseteq ProbeRecords /\ sweepQueue' \subseteq Socks
        /\ pinged' \subseteq Socks /\ ProbesSound'
    <3>1. /\ sweepQueue \in SUBSET Socks /\ pinged \in SUBSET Socks
          /\ probes \ {p} \in SUBSET ProbeRecords
      BY DEF IInv, TypeOK
    <3> QED
      BY <1>1, <2>1, <2>2, <3>1, SweepKeeps
  <2>4. /\ ParamsKnown' /\ RegistrySound' /\ NoOrphanSocket'
        /\ (HelperProbe \in Ids => browserRelayIdentity[HelperProbe] = None)'
    BY <2>1, <2>2, ClosingKeeps
  <2> QED
    BY <2>1, <2>2, <2>3, <2>4 DEF IInv, TypeOK, registry, signals
<1>4. CASE FanOutProbeTimeout(p)
  <2>1. /\ readyState' = Closing(p.sock) /\ probes' = probes \ {p}
        /\ requests' = [requests EXCEPT ![p.by] = Moved(p.by, "wedged")]
        /\ UNCHANGED <<params, wired, registry, signals, sweepQueue, pinged>>
    BY <1>4 DEF FanOutProbeTimeout
  <2>2. /\ Closing(p.sock) \in [Socks -> ReadyStates]
        /\ \A x \in Socks :
             \/ readyState'[x] = readyState[x]
             \/ readyState[x] = "open" /\ readyState'[x] = "closing"
    BY <1>0, <2>1, ClosingType DEF IInv
  <2>3. requests' \in [Requests -> RequestRecords]
    <3>1. p.by \in Requests
      BY <1>4 DEF FanOutProbeTimeout, IInv, ProbesSound, WaitersSound
    <3>2. Moved(p.by, "wedged") \in RequestRecords
      BY <3>1, MovedType DEF IInv, RequestStates, Settled
    <3> QED
      BY <2>1, <3>2 DEF IInv, TypeOK
  <2>4. ProbesSound'
    BY <1>1, <2>1 DEF ProbesSound, WaitersSound, BrowserOf
  <2>5. /\ ParamsKnown' /\ RegistrySound' /\ NoOrphanSocket'
        /\ (HelperProbe \in Ids => browserRelayIdentity[HelperProbe] = None)'
    BY <2>1, <2>2, ClosingKeeps
  <2> QED
    BY <2>1, <2>2, <2>3, <2>4, <2>5 DEF IInv, TypeOK, registry, signals
<1> QED
  BY <1>2, <1>3, <1>4 DEF ProbeTimeout

\* A pong, with the probes it settles, keeps the invariant.
LEMMA ServerPongKeeps ==
    ASSUME IInv, NEW s \in Socks, ServerPong(s)
    PROVE  IInv'
<1> DEFINE i         == BrowserOf(s)
           woken     == {p \in probes : p.listed /\ BrowserOf(p.sock) = i}
           newcomers == {p.by : p \in {q \in woken : q.kind = "collision"}}
           sent      == {p.by : p \in {q \in woken : q.kind = "fanout"}}
           asleep    == probes \ woken
<1>1. /\ readyState' =
           [x \in Socks |->
              IF x \in newcomers /\ IsOpen(x) THEN "closing" ELSE readyState[x]]
      /\ browserLastRelayClose' =
           [browserLastRelayClose EXCEPT ![i] = IF newcomers = {} THEN @ ELSE 4002]
      /\ requests' =
           [r \in Requests |->
              IF r \in sent THEN Moved(r, "pending") ELSE requests[r]]
      /\ \/ SweepGoesOn(sweepQueue, readyState, asleep, pinged \ {s})
         \/ probes' = asleep /\ pinged' = pinged \ {s} /\ UNCHANGED sweepQueue
      /\ UNCHANGED <<params, wired, registry, browserSupersededCount>>
  BY DEF ServerPong
<1>2. i \in Ids
  BY ParamsAssumption DEF ServerPong, CanDeliver, IInv, TypeOK, ParamsKnown, BrowserOf
<1>3. TypeOK /\ probes \subseteq ProbeRecords
  BY DEF IInv, TypeOK
<1>4. asleep \in SUBSET ProbeRecords /\ WaitersSound(asleep)
  BY <1>3 DEF IInv, ProbesSound, WaitersSound
<1>5. /\ probes' \subseteq ProbeRecords /\ sweepQueue' \subseteq Socks
      /\ pinged' \subseteq Socks /\ ProbesSound'
  <2> HIDE DEF asleep
  <2>1. CASE SweepGoesOn(sweepQueue, readyState, asleep, pinged \ {s})
    <3>1. /\ sweepQueue \in SUBSET Socks /\ pinged \ {s} \in SUBSET Socks
          /\ readyState \in [Socks -> ReadyStates]
      BY <1>3 DEF TypeOK
    <3> QED
      BY <1>1, <1>4, <2>1, <3>1, SweepKeeps
  <2>2. CASE probes' = asleep /\ pinged' = pinged \ {s} /\ UNCHANGED sweepQueue
    <3>1. ProbesSound'
      BY <1>1, <1>4, <2>2 DEF ProbesSound, WaitersSound, BrowserOf
    <3> QED
      BY <1>3, <1>4, <2>2, <3>1 DEF TypeOK
  <2> QED
    BY <1>1, <2>1, <2>2
<1>6. /\ readyState' \in [Socks -> ReadyStates]
      /\ ParamsKnown' /\ RegistrySound' /\ NoOrphanSocket'
      /\ (HelperProbe \in Ids => browserRelayIdentity[HelperProbe] = None)'
  <2> HIDE DEF newcomers
  <2>1. /\ readyState' \in [Socks -> ReadyStates]
        /\ \A x \in Socks :
             \/ readyState'[x] = readyState[x]
             \/ readyState[x] = "open" /\ readyState'[x] = "closing"
    BY <1>1, <1>3 DEF TypeOK, ReadyStates, IsOpen
  <2> QED
    BY <1>1, <2>1, ClosingKeeps
<1>7. /\ browserLastRelayClose' \in [Ids -> CloseCodes \cup {None}]
      /\ requests' \in [Requests -> RequestRecords]
  <2> HIDE DEF newcomers, sent
  <2>1. \A r \in Requests : Moved(r, "pending") \in RequestRecords
    BY <1>3, MovedType DEF RequestStates
  <2> QED
    BY <1>1, <1>2, <1>3, <2>1 DEF TypeOK, CloseCodes
<1> QED
  BY <1>1, <1>3, <1>5, <1>6, <1>7 DEF IInv, TypeOK, registry

\* Events that touch only the pings and the requests.
LEMMA RequestStepKeeps ==
    ASSUME IInv,
           UNCHANGED <<params, readyState, wired, registry, signals, sweepQueue>>,
           pinged' \subseteq Socks,
           requests' \in [Requests -> RequestRecords],
           probes' = probes
    PROVE  IInv'
<1>1. /\ ParamsKnown' /\ RegistrySound' /\ NoOrphanSocket'
      /\ (HelperProbe \in Ids => browserRelayIdentity[HelperProbe] = None)'
  BY ClosingKeeps DEF IInv, TypeOK
<1>2. ProbesSound'
  BY DEF IInv, ProbesSound, WaitersSound, BrowserOf
<1> QED
  BY <1>1, <1>2 DEF IInv, TypeOK, registry, signals

\* Sending one tool request keeps the invariant.
LEMMA ToolRequestKeeps ==
    ASSUME IInv, NEW r \in Requests,
           \/ \E t \in Targets : SendToolRequest(r, t)
           \/ \E s \in Socks : ToolResponse(r, s)
           \/ RequestTimeout(r)
    PROVE  IInv'
<1>0. TypeOK
  BY DEF IInv
<1>1. ASSUME NEW t \in Targets, SendToolRequest(r, t) PROVE IInv'
  <2>1. PICK s \in ResolveSocket(t) :
          /\ requests' = [requests EXCEPT ![r] =
               [st |-> "pending", kind |-> "single", target |-> t, sock |-> s]]
          /\ pinged' = pinged \cup {s}
    BY <1>1 DEF SendToolRequest
  <2>2. s \in Socks
    BY <1>0, NoneAssumption DEF ResolveSocket, OpenIds, TypeOK
  <2>3. requests' \in [Requests -> RequestRecords]
    BY <1>0, <2>1, <2>2 DEF TypeOK, RequestRecords, RequestStates
  <2> QED
    BY <1>0, <1>1, <2>1, <2>2, <2>3, RequestStepKeeps DEF SendToolRequest, TypeOK
<1>2. ASSUME NEW s \in Socks, ToolResponse(r, s) PROVE IInv'
  <2>1. requests' = [requests EXCEPT ![r] = Moved(r, "resolved")]
    BY <1>2 DEF ToolResponse
  <2>2. Moved(r, "resolved") \in RequestRecords
    BY <1>0, MovedType DEF RequestStates, Settled
  <2> QED
    BY <1>0, <1>2, <2>1, <2>2, RequestStepKeeps DEF ToolResponse, TypeOK, probing
<1>3. CASE RequestTimeout(r)
  <2>1. requests' = [requests EXCEPT ![r] = Moved(r, "timedout")]
    BY <1>3 DEF RequestTimeout
  <2>2. Moved(r, "timedout") \in RequestRecords
    BY <1>0, MovedType DEF RequestStates, Settled
  <2> QED
    BY <1>0, <1>3, <2>1, <2>2, RequestStepKeeps DEF RequestTimeout, TypeOK, probing
<1> QED
  BY <1>1, <1>2, <1>3

\* Fanning a request out, one probe a target, keeps the invariant.
LEMMA FanOutKeeps ==
    ASSUME IInv, NEW t \in Targets, FanOut(t)
    PROVE  IInv'
<1> DEFINE idle == {r \in Requests : requests[r].st = "idle"}
<1>0. TypeOK /\ FanOutIds(t) \subseteq Ids
  BY DEF IInv, FanOutIds, OpenIds
<1>1. PICK part \in [FanOutIds(t) -> idle] :
        /\ requests' =
             [r \in Requests |->
                IF \E i \in FanOutIds(t) : part[i] = r
                THEN LET i == CHOOSE i \in FanOutIds(t) : part[i] = r
                     IN  [st |-> "probing", kind |-> "fanout",
                          target |-> i, sock |-> browserSockets[i]]
                ELSE requests[r]]
        /\ probes' = probes \cup
             {Probe("fanout", part[i], browserSockets[i]) : i \in FanOutIds(t)}
        /\ pinged' = pinged \cup {browserSockets[i] : i \in FanOutIds(t)}
        /\ UNCHANGED <<params, readyState, wired, registry, signals, sweepQueue>>
  BY DEF FanOut
<1>2. \A i \in FanOutIds(t) : browserSockets[i] \in Socks /\ part[i] \in Requests
  BY <1>0, NoneAssumption DEF TypeOK, FanOutIds, OpenIds
<1>3. \A i \in FanOutIds(t) :
        /\ Probe("fanout", part[i], browserSockets[i]) \in ProbeRecords
        /\ Probe("fanout", part[i], browserSockets[i]).kind = "fanout"
        /\ Probe("fanout", part[i], browserSockets[i]).by \in Requests
  BY <1>2 DEF Probe, ProbeRecords
<1>4. requests' \in [Requests -> RequestRecords]
  <2>1. ASSUME NEW i \in FanOutIds(t)
        PROVE  [st |-> "probing", kind |-> "fanout",
                target |-> i, sock |-> browserSockets[i]] \in RequestRecords
    <3>1. i \in Targets
      BY <1>0, NoneAssumption
    <3> QED
      BY <1>2, <3>1 DEF RequestRecords, RequestStates
  <2> QED
    BY <1>0, <1>1, <2>1 DEF TypeOK
<1>5. probes' \subseteq ProbeRecords /\ pinged' \subseteq Socks
  BY <1>0, <1>1, <1>2, <1>3 DEF TypeOK
<1>6. ProbesSound'
  <2>1. \A q \in probes' : q \in probes \/ (q.kind = "fanout" /\ q.by \in Requests)
    <3> TAKE q \in probes'
    <3>1. CASE q \notin probes
      <4>1. PICK i \in FanOutIds(t) : q = Probe("fanout", part[i], browserSockets[i])
        BY <1>1, <3>1
      <4> QED
        BY <1>3, <4>1
    <3> QED
      BY <3>1
  <2>2. UNCHANGED <<params, wired>>
    BY <1>1
  <2> QED
    BY <2>1, <2>2 DEF IInv, ProbesSound, WaitersSound, BrowserOf
<1>7. /\ ParamsKnown' /\ RegistrySound' /\ NoOrphanSocket'
      /\ (HelperProbe \in Ids => browserRelayIdentity[HelperProbe] = None)'
  BY <1>0, <1>1, ClosingKeeps DEF TypeOK
<1> QED
  BY <1>0, <1>1, <1>4, <1>5, <1>6, <1>7 DEF IInv, TypeOK, registry, signals

\* Every step keeps the invariant.
LEMMA NextKeeps == IInv /\ [Next]_vars => IInv'
<1> SUFFICES ASSUME IInv, [Next]_vars PROVE IInv'
  OBVIOUS
<1>0. TypeOK
  BY DEF IInv
<1>1. CASE Connect
  BY <1>1, ConnectKeeps DEF Connect
<1>2. CASE \E s \in Socks, code \in {1000, 1006, 1011} : SocketClosed(s, code)
  BY <1>2, SocketClosedKeeps
<1>3. CASE \E i \in Ids : GraceTimeout(i)
  BY <1>3, GraceTimeoutKeeps
<1>4. ASSUME NEW s \in Socks, ServerPing(s) PROVE IInv'
  BY <1>0, <1>4, RequestStepKeeps DEF ServerPing, TypeOK
<1>5. ASSUME NEW s \in Socks, ServerPong(s) PROVE IInv'
  BY <1>5, ServerPongKeeps
<1>6. CASE SweepTick
  BY <1>6, SweepTickKeeps
<1>7. CASE \E p \in probes : ProbeTimeout(p)
  BY <1>7, ProbeTimeoutKeeps
<1>8. CASE \E r \in Requests, t \in Targets : SendToolRequest(r, t)
  BY <1>8, ToolRequestKeeps
<1>9. CASE \E t \in Targets : FanOut(t)
  BY <1>9, FanOutKeeps
<1>10. CASE \E r \in Requests, s \in Socks : ToolResponse(r, s)
  BY <1>10, ToolRequestKeeps
<1>11. CASE \E r \in Requests : RequestTimeout(r)
  BY <1>11, ToolRequestKeeps
<1>12. ASSUME NEW c \in Clients, McpClientClosed(c) PROVE IInv'
  <2>1. \A r \in Requests : Moved(r, "dropped") \in RequestRecords
    BY <1>0, MovedType DEF RequestStates
  <2>2. requests' \in [Requests -> RequestRecords]
    BY <1>0, <1>12, <2>1 DEF McpClientClosed, TypeOK
  <2> QED
    BY <1>0, <1>12, <2>2, RequestStepKeeps DEF McpClientClosed, TypeOK, probing
<1>13. CASE UNCHANGED vars
  BY <1>0, <1>13, RequestStepKeeps DEF vars, registry, signals, probing, TypeOK
<1> QED
  BY <1>1, <1>2, <1>3, <1>4, <1>5, <1>6, <1>7, <1>8, <1>9, <1>10, <1>11, <1>12, <1>13
  DEF Next

\* The inductive invariant holds in every reachable state of the bridge.
THEOREM Invariance == Spec => []IInv
BY InitEstablishes, NextKeeps, PTL DEF Spec

\* Every variable keeps its type, for any number of sockets and browsers.
THEOREM TypeCorrect == Spec => []TypeOK
<1>1. IInv => TypeOK
  BY DEF IInv
<1> QED
  BY <1>1, Invariance, PTL

\* The registry's three maps agree with the sockets and with each other.
THEOREM RegistryIsSound == Spec => []RegistrySound
<1>1. IInv => RegistrySound
  BY DEF IInv
<1> QED
  BY <1>1, Invariance, PTL

\* No socket with handlers stays open outside the registry.
THEOREM NoOrphan == Spec => []NoOrphanSocket
<1>1. IInv => NoOrphanSocket
  BY DEF IInv
<1> QED
  BY <1>1, Invariance, PTL

-----------------------------------------------------------------------------
(***************************************************************************)
(* What a step may never do.                                               *)
(***************************************************************************)

\* A registration of socket x with parameters p moves no other browserId.
LEMMA AcceptMovesOne ==
    ASSUME TypeOK, NEW x \in Socks, NEW p \in UrlParams,
           NEW idempotent \in BOOLEAN, Accept(x, p, idempotent),
           NEW i \in Ids, NEW s \in Socks, NEW u \in Socks, Replaced(i, s, u)
    PROVE  i = p.browserId /\ u = x
BY DEF TypeOK, Accept, IndexBrowser, Replaced

\* A relay with a numeric gen displaces another whose socket is open only by
\* ranking at least as high, through the total order of the collision rule.
LEMMA ReplacementIsRanked ==
    ASSUME IInv, Next, NEW i \in Ids, NEW s \in Socks, NEW u \in Socks,
           Replaced(i, s, u), IsOpen(s)
    PROVE  \E p \in UrlParams :
               /\ p.browserId = i /\ params'[u] = p
               /\ ConnectHigher(u, p) \/ ConnectTie(u, p)
<1>0. /\ TypeOK /\ RegistrySound /\ ProbesSound
      /\ browserSockets[i] = s /\ i \in OpenIds
      /\ IsRelay(s) /\ IsRelay(u)' /\ browserSockets'[i] # browserSockets[i]
      /\ browserSockets'[i] # None
  BY NoneAssumption DEF IInv, Replaced, OpenIds
<1>1. i # HelperProbe
  BY <1>0, ProbeAssumption, NoneAssumption
  DEF RegistrySound, IsRelay, BrowserOf, TypeOK, Replaced, IInv, ParamsKnown
<1>2. browserRelayIdentity[i] = params[s].ident /\ browserRelayIdentity[i] # None
  BY <1>0, <1>1, ParamsAssumption, NoneAssumption
  DEF RegistrySound, TypeOK, IInv, ParamsKnown
<1>3. CASE Connect
  <2>1. PICK x \in Socks, p \in UrlParams :
          \/ ConnectFresh(x, p)
          \/ ConnectHigher(x, p)
          \/ ConnectTie(x, p)
          \/ ConnectLower(x, p)
          \/ ConnectLegacy(x, p)
          \/ ConnectDuplicate(x, p)
    BY <1>3 DEF Connect
  <2>2. Connects(x, p) => params'[x] = p
    BY <1>0 DEF Connects, TypeOK
  <2>3. CASE ConnectFresh(x, p)
    <3>1. i = p.browserId
      BY <1>0, <2>3, AcceptMovesOne DEF ConnectFresh
    <3> QED
      BY <1>0, <1>1, <2>3, <3>1 DEF ConnectFresh, Collides
  <2>4. CASE ConnectHigher(x, p) \/ ConnectTie(x, p)
    <3>1. i = p.browserId /\ u = x
      BY <1>0, <2>4, AcceptMovesOne DEF ConnectHigher, ConnectTie
    <3> QED
      BY <2>2, <2>4, <3>1 DEF ConnectHigher, ConnectTie
  <2>5. CASE ConnectLegacy(x, p)
    <3>1. i = p.browserId /\ u = x
      BY <1>0, <2>5, AcceptMovesOne DEF ConnectLegacy
    <3> QED
      BY <1>0, <1>2, <2>2, <2>5, <3>1 DEF ConnectLegacy, Ranked, IsRelay
  <2>6. CASE ConnectLower(x, p) \/ ConnectDuplicate(x, p)
    BY <1>0, <2>6 DEF ConnectLower, ConnectDuplicate, registry
  <2> QED
    BY <2>1, <2>3, <2>4, <2>5, <2>6
<1>4. ASSUME NEW p \in probes, ProbeTimeout(p) PROVE FALSE
  <2>1. CASE CollisionProbeTimeout(p) /\ IsOpen(p.by)
    <3>1. /\ p.by \in Socks /\ params[p.by] \in UrlParams
          /\ ~params[p.by].canonical /\ params' = params
          /\ Accept(p.by, params[p.by], FALSE)
      BY <1>0, <2>1 DEF CollisionProbeTimeout, ProbesSound, WaitersSound, TypeOK
    <3>2. u = p.by
      <4> DEFINE x == p.by
                 up == params[p.by]
      <4>1. x \in Socks /\ up \in UrlParams /\ Accept(x, up, FALSE)
        BY <3>1
      <4>2. u = x
        <5> HIDE DEF x, up
        <5> QED
          BY <1>0, <4>1, AcceptMovesOne
      <4> QED
        BY <4>2
    <3> QED
      BY <1>0, <3>1, <3>2 DEF IsRelay
  <2>2. CASE ~(CollisionProbeTimeout(p) /\ IsOpen(p.by))
    BY <1>0, <1>4, <2>2
    DEF ProbeTimeout, CollisionProbeTimeout, SweepProbeTimeout, FanOutProbeTimeout,
        registry
  <2> QED
    BY <2>1, <2>2
<1>5. ASSUME NEW x \in Socks, NEW code \in {1000, 1006, 1011}, SocketClosed(x, code)
      PROVE  FALSE
  BY <1>0, <1>5 DEF SocketClosed, TypeOK
<1>6. CASE \/ \E j \in Ids : GraceTimeout(j)
           \/ \E x \in Socks : ServerPing(x) \/ ServerPong(x)
           \/ SweepTick
           \/ \E r \in Requests, t \in Targets : SendToolRequest(r, t)
           \/ \E t \in Targets : FanOut(t)
           \/ \E r \in Requests, x \in Socks : ToolResponse(r, x)
           \/ \E r \in Requests : RequestTimeout(r)
           \/ \E c \in Clients : McpClientClosed(c)
  <2>1. browserSockets' = browserSockets
    BY <1>6 DEF GraceTimeout, ServerPing, ServerPong, SweepTick, SendToolRequest,
                FanOut, ToolResponse, RequestTimeout, McpClientClosed, registry
  <2> QED
    BY <1>0, <2>1
<1> QED
  BY <1>3, <1>4, <1>5, <1>6 DEF Next

\* No lower life takes over from a higher one that is connected, in whatever
\* order lives connect, drop and are probed.
THEOREM LowerNeverWins == Spec => LowerNeverReplaces
<1>1. ASSUME IInv, Next, NEW i \in Ids, NEW s \in Socks, NEW u \in Socks,
             Replaced(i, s, u), IsOpen(s)
      PROVE  ~Outranks(params[s].ident, params'[u].ident)
  <2>1. PICK p \in UrlParams :
          /\ p.browserId = i /\ params'[u] = p
          /\ ConnectHigher(u, p) \/ ConnectTie(u, p)
    BY <1>1, ReplacementIsRanked
  <2>2. Rank(p) >= 0 /\ Rank(p) \in {-1, 0, 1}
    <3>1. Rank(p) \in {-1, 0, 1}
      BY DEF Rank, CompareRelayIdentity
    <3>2. Rank(p) > 0 \/ Rank(p) = 0
      BY <2>1 DEF ConnectHigher, ConnectTie
    <3> QED
      BY <3>1, <3>2
  <2>3. p.ident \in RelayIdentities /\ params[s].ident \in RelayIdentities
    BY <1>1, ParamsAssumption DEF Replaced, IInv, RegistrySound, ParamsKnown, TypeOK
  <2>4. browserRelayIdentity[i] = params[s].ident
    BY <1>1, <2>1 DEF IInv, Replaced, RegistrySound, ConnectHigher, ConnectTie, Collides
  <2>5. Rank(p) = 0 => p.ident = params[s].ident
    BY <2>1, <2>3, <2>4, TieIsEquality DEF Rank
  <2>6. Rank(p) > 0 => Outranks(p.ident, params[s].ident)
    BY <2>1, <2>4 DEF Rank, Outranks
  <2> QED
    BY <2>1, <2>2, <2>3, <2>5, <2>6, OutranksIsTotal
<1>2. IInv /\ [Next]_vars =>
        [\A i \in Ids : \A s, u \in Socks :
           Replaced(i, s, u) /\ IsOpen(s)
           => ~Outranks(params[s].ident, params'[u].ident)]_vars
  BY <1>1
<1> QED
  BY <1>2, Invariance, PTL DEF Spec, LowerNeverReplaces

\* A life that opens a second socket while its first is open loses nothing.
THEOREM TieLosesNothing == Spec => TieKeepsInFlight
<1>1. ASSUME IInv, Next, NEW i \in Ids, NEW s \in Socks, NEW u \in Socks,
             Replaced(i, s, u), IsOpen(s), params[s].ident = params'[u].ident
      PROVE  IsOpen(s)' /\ UNCHANGED <<requests, browserSupersededCount>>
  <2>1. PICK p \in UrlParams :
          /\ p.browserId = i /\ params'[u] = p
          /\ ConnectHigher(u, p) \/ ConnectTie(u, p)
    BY <1>1, ReplacementIsRanked
  <2>2. browserRelayIdentity[i] = params[s].ident
    BY <1>1, <2>1 DEF IInv, Replaced, RegistrySound, ConnectHigher, ConnectTie, Collides
  <2>3. p.ident \in RelayIdentities
    BY ParamsAssumption
  <2>4. ConnectTie(u, p)
    <3>1. CompareRelayIdentity(p.ident, p.ident) = 0
      BY <2>3, TieIsEquality
    <3>2. browserRelayIdentity[p.browserId] = p.ident
      BY <1>1, <2>1, <2>2
    <3>3. Rank(p) = 0
      BY <3>1, <3>2 DEF Rank
    <3> QED
      BY <2>1, <3>3 DEF ConnectHigher
  <2>5. /\ s \notin {None, u} /\ browserSockets[i] = s /\ gracedSockets[i] # s
        /\ TypeOK
    BY <1>1 DEF IInv, Replaced, RegistrySound
  <2>6. IndexBrowser(i, u, TRUE)
    BY <2>1, <2>4 DEF ConnectTie, Accept
  <2>7. IsOpen(s)'
    BY <1>1, <2>5, <2>6 DEF IndexBrowser, Supersedes, IsOpen
  <2>8. requests' = requests
    BY <2>5, <2>6 DEF IndexBrowser, Supersedes, TypeOK
  <2>9. browserSupersededCount' = browserSupersededCount
    BY <2>5, <2>6 DEF IndexBrowser, Supersedes, TypeOK
  <2> QED
    BY <2>7, <2>8, <2>9
<1>2. IInv /\ [Next]_vars =>
        [\A i \in Ids : \A s, u \in Socks :
           Replaced(i, s, u) /\ IsOpen(s) /\ params[s].ident = params'[u].ident
           => /\ IsOpen(s)'
              /\ UNCHANGED <<requests, browserSupersededCount>>]_vars
  BY <1>1
<1> QED
  BY <1>2, Invariance, PTL DEF Spec, TieKeepsInFlight

-----------------------------------------------------------------------------
(***************************************************************************)
(* Requests, the probes they wait for, and newcomers that wait.            *)
(***************************************************************************)

\* Each fan-out probe waits for one request, which waits for it.
ProbesAsk ==
    \A p \in probes : p.kind = "fanout" =>
        /\ requests[p.by].st = "probing" /\ requests[p.by].sock = p.sock
        /\ \A q \in probes : q.kind = "fanout" /\ q.by = p.by => q = p

\* A request that waits for a probe has one.
ProbingAsked ==
    \A r \in Requests : requests[r].st = "probing" =>
        /\ requests[r].kind = "fanout"
        /\ \E p \in probes : p.kind = "fanout" /\ p.by = r

\* The sweep probes on nobody's behalf.
SweepsAreNobodys == \A p \in probes : p.kind = "sweep" => p.by = None

\* A single request in flight went to a socket with handlers, and not to one its
\* target has lost.
RoutedAlive ==
    \A r \in Requests : Pending(r) /\ requests[r].kind = "single" =>
        /\ requests[r].sock \in wired
        /\ requests[r].target = BrowserOf(requests[r].sock) =>
             readyState[requests[r].sock] # "terminated"

WaitInv ==
    /\ ProbesAsk /\ ProbingAsked /\ SweepsAreNobodys
    /\ RoutedAlive
    /\ NoNewcomerForgotten

\* Moving a request on changes nothing else of it.
LEMMA MovedFields ==
    ASSUME TypeOK, NEW r \in Requests, NEW st
    PROVE  /\ Moved(r, st).st = st /\ Moved(r, st).kind = requests[r].kind
           /\ Moved(r, st).sock = requests[r].sock
           /\ Moved(r, st).target = requests[r].target
BY DEF TypeOK, Moved, RequestRecords

(***************************************************************************)
(* What accept() does to requests and sockets: it rejects the requests of  *)
(* the browser whose incumbent it terminates, and opens only s.            *)
(***************************************************************************)
LEMMA AcceptEffects ==
    ASSUME IInv, NEW s \in Socks \ wired, NEW p \in UrlParams,
           NEW idempotent \in BOOLEAN, Accept(s, p, idempotent)
    PROVE  /\ wired' = wired \cup {s}
           /\ \A r \in Requests :
                 \/ requests'[r] = requests[r]
                 \/ Pending(r) /\ requests'[r] = Moved(r, "rejected")
           /\ \A x \in Socks : readyState'[x] = "terminated" =>
                 \/ readyState[x] = "terminated"
                 \/ \A r \in Requests :
                       requests'[r].target = BrowserOf(x) => requests'[r].st # "pending"
           /\ \A x \in Socks : IsOpen(x)' => x = s \/ IsOpen(x)
<1> DEFINE i == p.browserId
           old == browserSockets[i]
           displaced == old \notin {None, s}
           supersede == displaced /\ ~idempotent
           retired == IF displaced THEN gracedSockets[i] ELSE None
<1>1. /\ wired' = wired \cup {s}
      /\ readyState' =
           [x \in Socks |->
              IF x = s THEN "open"
              ELSE IF supersede /\ x = old THEN "terminated"
              ELSE IF x = retired /\ IsOpen(x) THEN "closing"
              ELSE readyState[x]]
      /\ requests' =
           [r \in Requests |->
              IF supersede /\ Rejects(i, r) THEN Moved(r, "rejected") ELSE requests[r]]
  BY DEF Accept, IndexBrowser, Supersedes
<1>2. i \in Ids /\ TypeOK
  BY ParamsAssumption DEF IInv
<1>3. \A r \in Requests :
         \/ requests'[r] = requests[r]
         \/ Pending(r) /\ requests'[r] = Moved(r, "rejected")
  BY <1>1 DEF Rejects
<1>4. ASSUME NEW x \in Socks, readyState'[x] = "terminated", readyState[x] # "terminated",
             NEW r \in Requests, requests'[r].target = BrowserOf(x)
      PROVE  requests'[r].st # "pending"
  <2>1. supersede /\ x = old
    BY <1>1, <1>4
  <2>2. BrowserOf(x) = i
    BY <1>2, <2>1, NoneAssumption DEF IInv, RegistrySound
  <2>3. CASE requests'[r] = Moved(r, "rejected")
    BY <1>2, <2>3, MovedFields
  <2>4. CASE requests'[r] # Moved(r, "rejected")
    <3>1. ~Rejects(i, r) /\ requests'[r] = requests[r]
      BY <1>1, <2>1, <2>4
    <3> QED BY <1>4, <2>2, <3>1 DEF Rejects, Pending
  <2> QED BY <2>3, <2>4
<1>5. \A x \in Socks : IsOpen(x)' => x = s \/ IsOpen(x)
  BY <1>1 DEF IsOpen
<1> QED BY <1>1, <1>3, <1>4, <1>5

(***************************************************************************)
(* What one step may do to a request r.                                    *)
(***************************************************************************)
RequestStep(r) ==
    \/ requests'[r] = requests[r]
    \/ /\ Pending(r)
       /\ \E st \in {"rejected", "resolved", "timedout", "dropped"} :
             requests'[r] = Moved(r, st)
    \/ /\ \E p \in probes : p.kind = "fanout" /\ p.by = r
       /\ \E st \in {"pending", "wedged"} : requests'[r] = Moved(r, st)
    \/ /\ requests[r].st = "idle"
       /\ requests'[r].st = "pending" /\ requests'[r].kind = "single"
       /\ requests'[r].sock \in wired /\ readyState'[requests'[r].sock] = "open"
    \/ requests[r].st = "idle" /\ requests'[r].st = "probing"

\* The outcomes of an upgrade: refused, kept waiting for a probe, or accepted.
LEMMA UpgradeCases ==
    ASSUME NEW s \in Socks, NEW p \in UrlParams,
           \/ ConnectFresh(s, p) \/ ConnectHigher(s, p) \/ ConnectTie(s, p)
           \/ ConnectLower(s, p) \/ ConnectLegacy(s, p) \/ ConnectDuplicate(s, p)
    PROVE  /\ Connects(s, p)
           /\ \/ /\ readyState' = [readyState EXCEPT ![s] = "closing"]
                 /\ UNCHANGED <<wired, probes, requests>>
              \/ /\ readyState' = [readyState EXCEPT ![s] = "open"]
                 /\ probes' = probes \cup {Probe("collision", s, browserSockets[p.browserId])}
                 /\ UNCHANGED <<wired, requests>>
              \/ /\ \E idempotent \in BOOLEAN : Accept(s, p, idempotent)
                 /\ UNCHANGED probes
<1>1. CASE ConnectFresh(s, p)
  BY <1>1 DEF ConnectFresh, probing
<1>2. CASE ConnectHigher(s, p)
  BY <1>2 DEF ConnectHigher, probing
<1>3. CASE ConnectTie(s, p)
  BY <1>3 DEF ConnectTie, probing
<1>4. CASE ConnectLower(s, p)
  BY <1>4 DEF ConnectLower, probing
<1>5. CASE ConnectLegacy(s, p)
  BY <1>5 DEF ConnectLegacy, probing
<1>6. CASE ConnectDuplicate(s, p)
  BY <1>6 DEF ConnectDuplicate
<1> QED BY <1>1, <1>2, <1>3, <1>4, <1>5, <1>6

\* Which events move a request, and from which state (pendingRequests is keyed by
\* request id, and every handler looks the entry up first).
LEMMA RequestSteps ==
    ASSUME IInv, [Next]_vars, NEW r \in Requests
    PROVE  RequestStep(r)
<1>0. TypeOK /\ RegistrySound
  BY DEF IInv
<1>1. ASSUME NEW s \in Socks, NEW p \in UrlParams,
             \/ ConnectFresh(s, p) \/ ConnectHigher(s, p) \/ ConnectTie(s, p)
             \/ ConnectLower(s, p) \/ ConnectLegacy(s, p) \/ ConnectDuplicate(s, p)
      PROVE  RequestStep(r)
  <2>1. s \notin wired
    BY <1>1, UpgradeCases DEF Connects, IInv, ParamsKnown
  <2>2. CASE UNCHANGED requests
    BY <2>2 DEF RequestStep
  <2>3. CASE \E idempotent \in BOOLEAN : Accept(s, p, idempotent)
    BY <2>1, <2>3, AcceptEffects DEF RequestStep
  <2> QED BY <1>1, <2>2, <2>3, UpgradeCases
<1>2. ASSUME NEW p \in probes, ProbeTimeout(p)
      PROVE  RequestStep(r)
  <2>1. CASE CollisionProbeTimeout(p)
    <3>1. p.by \in Socks \ wired /\ params[p.by] \in UrlParams
      BY <2>1 DEF CollisionProbeTimeout, IInv, TypeOK, ProbesSound, WaitersSound
    <3>2. CASE IsOpen(p.by)
      <4> DEFINE s == p.by
                 up == params[p.by]
      <4>1. s \in Socks \ wired /\ up \in UrlParams /\ Accept(s, up, FALSE)
        BY <2>1, <3>1, <3>2 DEF CollisionProbeTimeout
      <4> HIDE DEF s, up
      <4> QED BY <4>1, AcceptEffects DEF RequestStep
    <3>3. CASE ~IsOpen(p.by)
      BY <2>1, <3>3 DEF CollisionProbeTimeout, RequestStep
    <3> QED BY <3>2, <3>3
  <2>2. CASE SweepProbeTimeout(p)
    BY <2>2 DEF SweepProbeTimeout, RequestStep
  <2>3. CASE FanOutProbeTimeout(p)
    <3>1. /\ p.kind = "fanout"
          /\ requests' = [requests EXCEPT ![p.by] = Moved(p.by, "wedged")]
      BY <2>3 DEF FanOutProbeTimeout
    <3>2. CASE r = p.by
      <4>1. requests'[r] = Moved(r, "wedged")
        BY <1>0, <3>1, <3>2 DEF TypeOK
      <4> QED BY <3>1, <3>2, <4>1 DEF RequestStep
    <3>3. CASE r # p.by
      BY <1>0, <3>1, <3>3 DEF RequestStep, TypeOK
    <3> QED BY <3>2, <3>3
  <2> QED BY <1>2, <2>1, <2>2, <2>3 DEF ProbeTimeout
<1>3. ASSUME NEW s \in Socks, ServerPong(s)
      PROVE  RequestStep(r)
  BY <1>3 DEF ServerPong, RequestStep
<1>4. ASSUME NEW q \in Requests, NEW t \in Targets, SendToolRequest(q, t)
      PROVE  RequestStep(r)
  <2>1. PICK s \in ResolveSocket(t) :
            requests' = [requests EXCEPT ![q] =
               [st |-> "pending", kind |-> "single", target |-> t, sock |-> s]]
    BY <1>4 DEF SendToolRequest
  <2>2. s \in wired /\ readyState'[s] = "open"
    BY <1>0, <1>4 DEF ResolveSocket, OpenIds, RegistrySound, SendToolRequest, IsOpen
  <2>3. CASE r = q
    BY <1>0, <1>4, <2>1, <2>2, <2>3 DEF TypeOK, SendToolRequest, RequestStep
  <2>4. CASE r # q
    BY <1>0, <2>1, <2>4 DEF TypeOK, RequestStep
  <2> QED BY <2>3, <2>4
<1>5. ASSUME NEW t \in Targets, FanOut(t)
      PROVE  RequestStep(r)
  BY <1>5 DEF FanOut, RequestStep
<1>6. ASSUME NEW q \in Requests, RequestTimeout(q) \/ \E s \in Socks : ToolResponse(q, s)
      PROVE  RequestStep(r)
  BY <1>0, <1>6 DEF RequestTimeout, ToolResponse, RequestStep, TypeOK
<1>7. ASSUME NEW c \in Clients, McpClientClosed(c)
      PROVE  RequestStep(r)
  BY <1>7 DEF McpClientClosed, RequestStep
<1>8. CASE \/ \E s \in Socks, code \in {1000, 1006, 1011} : SocketClosed(s, code)
           \/ \E i \in Ids : GraceTimeout(i)
           \/ \E s \in Socks : ServerPing(s)
           \/ SweepTick
           \/ UNCHANGED vars
  BY <1>8 DEF SocketClosed, GraceTimeout, ServerPing, SweepTick, vars, RequestStep
<1> QED
  BY <1>1, <1>2, <1>3, <1>4, <1>5, <1>6, <1>7, <1>8 DEF Next, Connect

\* Sockets keep their handlers and parameters once they have them.
LEMMA WiredKept ==
    ASSUME IInv, [Next]_vars, NEW s \in wired
    PROVE  s \in wired' /\ params'[s] = params[s]
<1>0. TypeOK /\ params[s] # None /\ s \in Socks
  BY DEF IInv, ParamsKnown, TypeOK
<1>1. ASSUME NEW x \in Socks, NEW p \in UrlParams,
             \/ ConnectFresh(x, p) \/ ConnectHigher(x, p) \/ ConnectTie(x, p)
             \/ ConnectLower(x, p) \/ ConnectLegacy(x, p) \/ ConnectDuplicate(x, p)
      PROVE  s \in wired' /\ params'[s] = params[s]
  <2>1. Connects(x, p)
    BY <1>1, UpgradeCases
  <2>2. params'[s] = params[s]
    BY <1>0, <2>1 DEF Connects, TypeOK
  <2>3. wired' = wired \/ wired' = wired \cup {x}
    BY <1>1, UpgradeCases DEF Accept
  <2> QED BY <2>2, <2>3
<1>2. ASSUME NEW p \in probes, ProbeTimeout(p)
      PROVE  s \in wired' /\ params'[s] = params[s]
  BY <1>2 DEF ProbeTimeout, CollisionProbeTimeout, SweepProbeTimeout, FanOutProbeTimeout,
     Accept
<1>3. CASE UNCHANGED <<params, wired>>
  BY <1>3
<1>4. CASE \/ \E x \in Socks, code \in {1000, 1006, 1011} : SocketClosed(x, code)
           \/ \E i \in Ids : GraceTimeout(i)
           \/ \E x \in Socks : ServerPing(x) \/ ServerPong(x)
           \/ SweepTick
           \/ \E r \in Requests, t \in Targets : SendToolRequest(r, t)
           \/ \E t \in Targets : FanOut(t)
           \/ \E r \in Requests, x \in Socks : ToolResponse(r, x)
           \/ \E r \in Requests : RequestTimeout(r)
           \/ \E c \in Clients : McpClientClosed(c)
           \/ UNCHANGED vars
  <2>1. CASE \/ \E x \in Socks, code \in {1000, 1006, 1011} : SocketClosed(x, code)
             \/ \E i \in Ids : GraceTimeout(i)
             \/ \E x \in Socks : ServerPing(x)
             \/ SweepTick
             \/ UNCHANGED vars
    BY <1>3, <2>1 DEF SocketClosed, GraceTimeout, ServerPing, SweepTick, vars
  <2>2. CASE \E x \in Socks : ServerPong(x)
    BY <1>3, <2>2 DEF ServerPong
  <2>3. CASE \/ \E r \in Requests, t \in Targets : SendToolRequest(r, t)
             \/ \E t \in Targets : FanOut(t)
    BY <1>3, <2>3 DEF SendToolRequest, FanOut
  <2>4. CASE \/ \E r \in Requests, x \in Socks : ToolResponse(r, x)
             \/ \E r \in Requests : RequestTimeout(r)
             \/ \E c \in Clients : McpClientClosed(c)
    BY <1>3, <2>4 DEF ToolResponse, RequestTimeout, McpClientClosed
  <2> QED BY <1>4, <2>1, <2>2, <2>3, <2>4
<1> QED BY <1>1, <1>2, <1>4 DEF Next, Connect

\* A socket is terminated only by indexBrowser, which rejects what its browser
\* still owes.
LEMMA Terminates ==
    ASSUME IInv, [Next]_vars, NEW x \in Socks,
           readyState[x] # "terminated", readyState'[x] = "terminated"
    PROVE  \A r \in Requests :
               requests'[r].target = BrowserOf(x) => requests'[r].st # "pending"
<1>0. TypeOK /\ RegistrySound
  BY DEF IInv
<1>1. ASSUME NEW s \in Socks \ wired, NEW p \in UrlParams, NEW idempotent \in BOOLEAN,
             Accept(s, p, idempotent)
      PROVE  \A r \in Requests :
                 requests'[r].target = BrowserOf(x) => requests'[r].st # "pending"
  BY <1>1, AcceptEffects
<1>2. ASSUME NEW s \in Socks, NEW p \in UrlParams,
             \/ ConnectFresh(s, p) \/ ConnectHigher(s, p) \/ ConnectTie(s, p)
             \/ ConnectLower(s, p) \/ ConnectLegacy(s, p) \/ ConnectDuplicate(s, p)
      PROVE  \E idempotent \in BOOLEAN : s \in Socks \ wired /\ Accept(s, p, idempotent)
  <2>1. s \notin wired
    BY <1>2, UpgradeCases DEF Connects, IInv, ParamsKnown
  <2>2. /\ readyState' # [readyState EXCEPT ![s] = "closing"]
        /\ readyState' # [readyState EXCEPT ![s] = "open"]
    BY <1>0 DEF TypeOK
  <2> QED BY <1>2, <2>1, <2>2, UpgradeCases
<1>3. ASSUME NEW p \in probes, ProbeTimeout(p)
      PROVE  /\ p.by \in Socks \ wired /\ params[p.by] \in UrlParams
             /\ Accept(p.by, params[p.by], FALSE)
  <2>1. p.sock \in Socks
    BY <1>0 DEF TypeOK, ProbeRecords
  <2>2. Closing(p.sock)[x] # "terminated"
    BY <1>0, <2>1, ClosingType
  <2>3. CollisionProbeTimeout(p) /\ IsOpen(p.by)
    BY <1>3, <2>2 DEF ProbeTimeout, CollisionProbeTimeout, SweepProbeTimeout,
       FanOutProbeTimeout
  <2> QED
    BY <2>3 DEF CollisionProbeTimeout, IInv, TypeOK, ProbesSound, WaitersSound
<1>4. ASSUME NEW p \in probes, ProbeTimeout(p)
      PROVE  \A r \in Requests :
                 requests'[r].target = BrowserOf(x) => requests'[r].st # "pending"
  <2> DEFINE s == p.by
             up == params[p.by]
  <2>1. s \in Socks \ wired /\ up \in UrlParams /\ Accept(s, up, FALSE)
    BY <1>3, <1>4
  <2> HIDE DEF s, up
  <2> QED BY <1>1, <2>1
<1>5. ASSUME NEW i \in Ids, GraceTimeout(i)
      PROVE  FALSE
  BY <1>0, <1>5, ClosingType DEF GraceTimeout, TypeOK
<1>6. ASSUME NEW s \in Socks, NEW code \in {1000, 1006, 1011}, SocketClosed(s, code)
      PROVE  FALSE
  BY <1>0, <1>6 DEF SocketClosed, TypeOK
<1>7. ASSUME NEW s \in Socks, ServerPong(s)
      PROVE  FALSE
  BY <1>0, <1>7 DEF ServerPong, TypeOK
<1>8. CASE UNCHANGED readyState
  BY <1>8
<1>9. CASE \/ \E s \in Socks : ServerPing(s)
           \/ SweepTick
           \/ \E r \in Requests, t \in Targets : SendToolRequest(r, t)
           \/ \E t \in Targets : FanOut(t)
           \/ \E r \in Requests, s \in Socks : ToolResponse(r, s)
           \/ \E r \in Requests : RequestTimeout(r)
           \/ \E c \in Clients : McpClientClosed(c)
           \/ UNCHANGED vars
  BY <1>8, <1>9 DEF ServerPing, SweepTick, SendToolRequest, FanOut, ToolResponse,
     RequestTimeout, McpClientClosed, vars
<1> QED
  BY <1>1, <1>2, <1>4, <1>5, <1>6, <1>7, <1>9 DEF Next, Connect

\* No terminated socket is left with a request its own browser still owes.
LEMMA RoutedKept ==
    ASSUME IInv, WaitInv, [Next]_vars
    PROVE  RoutedAlive'
<1> SUFFICES ASSUME NEW r \in Requests,
                    requests'[r].st = "pending", requests'[r].kind = "single"
             PROVE  /\ requests'[r].sock \in wired'
                    /\ requests'[r].target = params'[requests'[r].sock].browserId =>
                         readyState'[requests'[r].sock] # "terminated"
  BY DEF RoutedAlive, Pending, BrowserOf
<1> DEFINE x == requests'[r].sock
<1>0. TypeOK /\ wired \subseteq Socks
  BY DEF IInv, TypeOK
<1>1. /\ x \in wired
      /\ \/ readyState'[x] = "open"
         \/ requests[r].target = BrowserOf(x) => readyState[x] # "terminated"
      /\ readyState'[x] = "open" \/ requests'[r].target = requests[r].target
  <2>1. CASE requests'[r] = requests[r]
    BY <2>1 DEF WaitInv, RoutedAlive, Pending
  <2>2. ASSUME NEW st \in {"rejected", "resolved", "timedout", "dropped"},
               requests'[r] = Moved(r, st)
        PROVE  FALSE
    BY <1>0, <2>2, MovedFields
  <2>3. ASSUME NEW p \in probes, p.kind = "fanout", p.by = r, NEW st,
               requests'[r] = Moved(r, st)
        PROVE  FALSE
    BY <1>0, <2>3, MovedFields DEF WaitInv, ProbesAsk, ProbingAsked
  <2> QED
    BY <2>1, <2>2, <2>3, RequestSteps DEF RequestStep
<1>2. x \in wired' /\ params'[x].browserId = BrowserOf(x)
  BY <1>1, WiredKept DEF BrowserOf
<1>3. ASSUME requests'[r].target = BrowserOf(x), readyState'[x] = "terminated"
      PROVE  FALSE
  <2>1. readyState[x] # "terminated"
    BY <1>1, <1>3
  <2> QED BY <1>0, <1>1, <1>3, <2>1, Terminates
<1> QED BY <1>2, <1>3

(***************************************************************************)
(* Every event but a fan-out keeps the probes of kept, with at most a new  *)
(* collision or sweep probe, and lets no request start to wait.            *)
(***************************************************************************)
Settles(kept, extra) ==
    /\ kept \subseteq probes /\ probes' = kept \cup extra
    /\ \A p \in extra : p.kind # "fanout" /\ (p.kind = "sweep" => p.by = None)
    /\ \A p \in probes \ kept : p.kind = "fanout" => requests'[p.by].st # "probing"
    /\ \A p \in kept : p.kind = "fanout" => requests'[p.by] = requests[p.by]
    /\ \A r \in Requests : requests'[r].st = "probing" => requests'[r] = requests[r]
    /\ \A s \in Socks : readyState'[s] = "open" /\ s \notin wired' =>
          \/ \E p \in extra : p.kind = "collision" /\ p.by = s
          \/ /\ readyState[s] = "open" /\ s \notin wired
             /\ \A p \in probes \ kept : p.kind = "collision" => p.by # s

\* Such an event leaves every waiter its probe and every probe its waiter.
LEMMA ProbesKept ==
    ASSUME IInv, WaitInv, NEW kept, NEW extra, Settles(kept, extra)
    PROVE  ProbesAsk' /\ ProbingAsked' /\ SweepsAreNobodys' /\ NoNewcomerForgotten'
<1>1. ProbesAsk'
  BY DEF Settles, WaitInv, ProbesAsk
<1>2. ProbingAsked'
  BY DEF Settles, WaitInv, ProbingAsked
<1>3. NoNewcomerForgotten'
  BY DEF Settles, WaitInv, NoNewcomerForgotten, IsOpen
<1>4. SweepsAreNobodys'
  BY DEF Settles, WaitInv, SweepsAreNobodys
<1> QED BY <1>1, <1>2, <1>3, <1>4

\* The requests that fan-out probes wait for are requests, and do wait.
LEMMA AskedProbing ==
    ASSUME IInv, WaitInv
    PROVE  /\ probes \subseteq ProbeRecords
           /\ \A p \in probes : p.kind = "fanout" =>
                 p.by \in Requests /\ requests[p.by].st = "probing"
BY DEF WaitInv, ProbesAsk, IInv, ProbesSound, WaitersSound, TypeOK

\* A registration leaves the waiting requests alone, and decides one newcomer.
LEMMA AcceptWaits ==
    ASSUME IInv, WaitInv, NEW s \in Socks \ wired, NEW p \in UrlParams,
           NEW idempotent \in BOOLEAN, Accept(s, p, idempotent),
           NEW kept, kept \subseteq probes, probes' = kept,
           \A q \in probes \ kept : q.kind = "collision" /\ q.by = s
    PROVE  ProbesAsk' /\ ProbingAsked' /\ SweepsAreNobodys' /\ NoNewcomerForgotten'
<1>0. TypeOK
  BY DEF IInv
<1>1. \A r \in Requests :
         /\ requests'[r].st = "probing" => requests'[r] = requests[r]
         /\ requests[r].st = "probing" => requests'[r] = requests[r]
  BY <1>0, AcceptEffects, MovedFields DEF Pending
<1>2. \A q \in probes : q.kind = "fanout" => q.by \in Requests /\ requests[q.by].st = "probing"
  BY DEF WaitInv, ProbesAsk, IInv, ProbesSound, WaitersSound
<1>3. \A x \in Socks : readyState'[x] = "open" /\ x \notin wired' =>
          x # s /\ IsOpen(x) /\ x \notin wired
  BY AcceptEffects DEF IsOpen
<1>4. Settles(kept, {})
  BY <1>1, <1>2, <1>3 DEF Settles, IsOpen
<1> QED BY <1>4, ProbesKept

\* The sweep goes on with at most one probe, its own.
LEMMA SweepProbes ==
    ASSUME NEW q, NEW ready, NEW others, NEW unanswered,
           SweepGoesOn(q, ready, others, unanswered)
    PROVE  \/ probes' = others
           \/ \E x : x.kind = "sweep" /\ x.by = None /\ probes' = others \cup {x}
BY DEF SweepGoesOn, Probe

\* Closing sockets, or moving requests that wait for no probe, settles nothing.
LEMMA QuietWaits ==
    ASSUME IInv, WaitInv, UNCHANGED <<wired, probes>>,
           \A s \in Socks : readyState'[s] = "open" => readyState[s] = "open",
           \A r \in Requests :
               requests[r].st = "probing" \/ requests'[r].st = "probing" =>
                   requests'[r] = requests[r]
    PROVE  ProbesAsk' /\ ProbingAsked' /\ SweepsAreNobodys' /\ NoNewcomerForgotten'
<1>1. Settles(probes, {})
  BY AskedProbing DEF Settles
<1> QED BY <1>1, ProbesKept

\* An upgrade: a newcomer that is kept waiting gets a probe.
LEMMA UpgradeWaits ==
    ASSUME IInv, WaitInv, NEW s \in Socks, NEW p \in UrlParams,
           \/ ConnectFresh(s, p) \/ ConnectHigher(s, p) \/ ConnectTie(s, p)
           \/ ConnectLower(s, p) \/ ConnectLegacy(s, p) \/ ConnectDuplicate(s, p)
    PROVE  ProbesAsk' /\ ProbingAsked' /\ SweepsAreNobodys' /\ NoNewcomerForgotten'
<1>0. TypeOK /\ s \notin wired
  BY UpgradeCases DEF IInv, Connects, ParamsKnown
<1>1. CASE /\ readyState' = [readyState EXCEPT ![s] = "closing"]
           /\ UNCHANGED <<wired, probes, requests>>
  <2>1. \A x \in Socks : readyState'[x] = "open" => readyState[x] = "open"
    BY <1>0, <1>1 DEF TypeOK
  <2> QED BY <1>1, <2>1, QuietWaits
<1>2. CASE /\ readyState' = [readyState EXCEPT ![s] = "open"]
           /\ probes' = probes \cup {Probe("collision", s, browserSockets[p.browserId])}
           /\ UNCHANGED <<wired, requests>>
  <2> DEFINE new == Probe("collision", s, browserSockets[p.browserId])
  <2>1. new.kind = "collision" /\ new.by = s
    BY DEF Probe
  <2> HIDE DEF new
  <2>2. \A x \in Socks : readyState'[x] = "open" => x = s \/ readyState[x] = "open"
    BY <1>0, <1>2 DEF TypeOK
  <2>3. Settles(probes, {new})
    BY <1>2, <2>1, <2>2 DEF Settles, new
  <2> QED BY <2>3, ProbesKept
<1>3. CASE (\E idempotent \in BOOLEAN : Accept(s, p, idempotent)) /\ UNCHANGED probes
  BY <1>0, <1>3, AcceptWaits
<1> QED BY <1>1, <1>2, <1>3, UpgradeCases

\* A probe that times out decides its own newcomer or request and no other.
LEMMA TimeoutWaits ==
    ASSUME IInv, WaitInv, NEW p \in probes, ProbeTimeout(p)
    PROVE  ProbesAsk' /\ ProbingAsked' /\ SweepsAreNobodys' /\ NoNewcomerForgotten'
<1>0. /\ TypeOK /\ p \in ProbeRecords /\ p.sock \in Socks
      /\ \A x \in Socks : Closing(p.sock)[x] = "open" => readyState[x] = "open"
  BY ClosingType DEF IInv, TypeOK, ProbeRecords
<1>1. CASE CollisionProbeTimeout(p)
  <2>1. /\ p.kind = "collision" /\ probes' = probes \ {p}
        /\ p.by \in Socks \ wired /\ params[p.by] \in UrlParams
    BY <1>1 DEF CollisionProbeTimeout, IInv, TypeOK, ProbesSound, WaitersSound
  <2>2. CASE IsOpen(p.by)
    <3> DEFINE s == p.by
               up == params[p.by]
               kept == probes \ {p}
    <3>1. s \in Socks \ wired /\ up \in UrlParams /\ Accept(s, up, FALSE)
      BY <1>1, <2>1, <2>2 DEF CollisionProbeTimeout
    <3>2. /\ kept \subseteq probes /\ probes' = kept
          /\ \A q \in probes \ kept : q.kind = "collision" /\ q.by = s
      BY <2>1
    <3> HIDE DEF s, up, kept
    <3> QED BY <3>1, <3>2, AcceptWaits
  <2>3. CASE ~IsOpen(p.by)
    <3>1. UNCHANGED <<readyState, wired, requests>>
      BY <1>1, <2>3 DEF CollisionProbeTimeout
    <3>2. Settles(probes \ {p}, {})
      BY <2>1, <2>3, <3>1, AskedProbing DEF Settles, IsOpen
    <3> QED BY <3>2, ProbesKept
  <2> QED BY <2>2, <2>3
<1>2. CASE SweepProbeTimeout(p)
  <2>1. /\ p.kind = "sweep" /\ UNCHANGED <<wired, requests>>
        /\ \A x \in Socks : readyState'[x] = "open" => readyState[x] = "open"
    BY <1>0, <1>2 DEF SweepProbeTimeout
  <2>2. Settles(probes \ {p}, {}) \/ \E x : Settles(probes \ {p}, {x})
    <3>1. \/ probes' = probes \ {p}
          \/ \E x : x.kind = "sweep" /\ x.by = None /\ probes' = (probes \ {p}) \cup {x}
      BY <1>2, SweepProbes DEF SweepProbeTimeout
    <3>2. CASE probes' = probes \ {p}
      BY <2>1, <3>2 DEF Settles
    <3>3. ASSUME NEW x, x.kind = "sweep", x.by = None, probes' = (probes \ {p}) \cup {x}
          PROVE  Settles(probes \ {p}, {x})
      BY <2>1, <3>3 DEF Settles
    <3> QED BY <3>1, <3>2, <3>3
  <2> QED BY <2>2, ProbesKept
<1>3. CASE FanOutProbeTimeout(p)
  <2>1. /\ p.kind = "fanout" /\ probes' = probes \ {p} /\ UNCHANGED wired
        /\ requests' = [requests EXCEPT ![p.by] = Moved(p.by, "wedged")]
        /\ \A x \in Socks : readyState'[x] = "open" => readyState[x] = "open"
    BY <1>0, <1>3 DEF FanOutProbeTimeout
  <2>2. p.by \in Requests
    BY <2>1, AskedProbing
  <2>3. requests'[p.by].st = "wedged"
    BY <1>0, <2>1, <2>2, MovedFields DEF TypeOK
  <2>4. \A r \in Requests \ {p.by} : requests'[r] = requests[r]
    BY <1>0, <2>1 DEF TypeOK
  <2>5. \A q \in probes \ {p} : q.kind = "fanout" => q.by # p.by /\ q.by \in Requests
    BY <2>1, AskedProbing DEF WaitInv, ProbesAsk
  <2>6. Settles(probes \ {p}, {})
    BY <2>1, <2>3, <2>4, <2>5 DEF Settles
  <2> QED BY <2>6, ProbesKept
<1> QED BY <1>1, <1>2, <1>3 DEF ProbeTimeout

\* A pong decides every newcomer and sends every request whose probe it wakes,
\* and no other.
LEMMA PongWaits ==
    ASSUME IInv, WaitInv, NEW s \in Socks, ServerPong(s)
    PROVE  ProbesAsk' /\ ProbingAsked' /\ SweepsAreNobodys' /\ NoNewcomerForgotten'
<1> DEFINE woken     == {p \in probes : p.listed /\ BrowserOf(p.sock) = BrowserOf(s)}
           newcomers == {p.by : p \in {q \in woken : q.kind = "collision"}}
           sent      == {p.by : p \in {q \in woken : q.kind = "fanout"}}
           asleep    == probes \ woken
<1>0. TypeOK
  BY DEF IInv
<1>1. /\ readyState' =
           [x \in Socks |->
              IF x \in newcomers /\ IsOpen(x) THEN "closing" ELSE readyState[x]]
      /\ requests' =
           [r \in Requests |-> IF r \in sent THEN Moved(r, "pending") ELSE requests[r]]
      /\ \/ SweepGoesOn(sweepQueue, readyState, asleep, pinged \ {s})
         \/ probes' = asleep
      /\ UNCHANGED wired
  BY DEF ServerPong
<1>2. woken \subseteq probes /\ probes \ asleep = woken
  OBVIOUS
<1>3. \A p \in woken : p.kind = "fanout" => p.by \in sent
  OBVIOUS
<1>4. \A p \in asleep : p.kind = "fanout" => p.by \notin sent
  BY DEF WaitInv, ProbesAsk
<1>5. \A p \in woken : p.kind = "collision" => p.by \in newcomers
  OBVIOUS
<1> HIDE DEF woken, newcomers, sent, asleep
<1>6. \A r \in sent \cap Requests : requests'[r].st = "pending"
  BY <1>0, <1>1, MovedFields
<1>7. \A r \in Requests : r \notin sent => requests'[r] = requests[r]
  BY <1>1
<1>8. \A x \in Socks : readyState'[x] = "open" => readyState[x] = "open" /\ x \notin newcomers
  BY <1>1 DEF IsOpen
<1>9. ASSUME NEW extra, probes' = asleep \cup extra,
             \A x \in extra : x.kind = "sweep" /\ x.by = None
      PROVE  Settles(asleep, extra)
  <2>1. \A p \in woken : p.kind = "fanout" => requests'[p.by].st # "probing"
    BY <1>2, <1>3, <1>6, AskedProbing
  <2>2. \A p \in asleep : p.kind = "fanout" => requests'[p.by] = requests[p.by]
    BY <1>4, <1>7, AskedProbing DEF asleep
  <2>3. \A r \in Requests : requests'[r].st = "probing" => requests'[r] = requests[r]
    BY <1>6, <1>7
  <2>4. \A x \in Socks : readyState'[x] = "open" /\ x \notin wired' =>
            /\ readyState[x] = "open" /\ x \notin wired
            /\ \A p \in woken : p.kind = "collision" => p.by # x
    BY <1>1, <1>5, <1>8
  <2>5. asleep \subseteq probes
    BY DEF asleep
  <2> QED BY <1>2, <1>9, <2>1, <2>2, <2>3, <2>4, <2>5 DEF Settles
<1>10. CASE probes' = asleep
  <2>1. Settles(asleep, {})
    BY <1>9, <1>10
  <2> QED BY <2>1, ProbesKept
<1>11. ASSUME NEW x, x.kind = "sweep", x.by = None, probes' = asleep \cup {x}
       PROVE  ProbesAsk' /\ ProbingAsked' /\ SweepsAreNobodys' /\ NoNewcomerForgotten'
  <2>1. Settles(asleep, {x})
    BY <1>9, <1>11
  <2> QED BY <2>1, ProbesKept
<1> QED BY <1>1, <1>10, <1>11, SweepProbes

\* A close drops waiters (pendingPongs.delete), whose timers still run: each
\* request and newcomer keeps its probe.
LEMMA CloseWaits ==
    ASSUME IInv, WaitInv, NEW s \in Socks, NEW code \in {1000, 1006, 1011},
           SocketClosed(s, code)
    PROVE  ProbesAsk' /\ ProbingAsked' /\ SweepsAreNobodys' /\ NoNewcomerForgotten'
<1>0. TypeOK
  BY DEF IInv
<1>1. UNCHANGED <<wired, requests>> /\ readyState' = [readyState EXCEPT ![s] = "closed"]
  BY DEF SocketClosed
<1>2. \A x \in Socks : readyState'[x] = "open" => readyState[x] = "open"
  BY <1>0, <1>1 DEF TypeOK
<1>3. CASE UNCHANGED probes
  BY <1>1, <1>2, <1>3, QuietWaits
<1>4. CASE probes' = ForgetWaiters(BrowserOf(s))
  <2> DEFINE mark(p) == IF BrowserOf(p.sock) = BrowserOf(s) THEN Unlisted(p) ELSE p
  <2>1. \A p \in probes :
           mark(p).kind = p.kind /\ mark(p).by = p.by /\ mark(p).sock = p.sock
    BY AskedProbing DEF Unlisted, ProbeRecords
  <2>2. probes' = {mark(p) : p \in probes}
    BY <1>4 DEF ForgetWaiters
  <2> HIDE DEF mark
  <2>3. ProbesAsk'
    BY <1>1, <2>1, <2>2 DEF ProbesAsk, WaitInv
  <2>4. ProbingAsked'
    BY <1>1, <2>1, <2>2 DEF ProbingAsked, WaitInv
  <2>5. NoNewcomerForgotten'
    BY <1>1, <1>2, <2>1, <2>2 DEF NoNewcomerForgotten, WaitInv, IsOpen
  <2>6. SweepsAreNobodys'
    BY <2>1, <2>2 DEF SweepsAreNobodys, WaitInv
  <2> QED BY <2>3, <2>4, <2>5, <2>6
<1> QED BY <1>3, <1>4 DEF SocketClosed

\* A fan-out starts a probe for each of its requests, each request for one target.
LEMMA FanOutWaits ==
    ASSUME IInv, WaitInv, NEW t \in Targets, FanOut(t)
    PROVE  ProbesAsk' /\ ProbingAsked' /\ SweepsAreNobodys' /\ NoNewcomerForgotten'
<1> DEFINE ids == FanOutIds(t)
           idle == {r \in Requests : requests[r].st = "idle"}
           rec(i) == [st |-> "probing", kind |-> "fanout", target |-> i,
                      sock |-> browserSockets[i]]
<1>1. PICK part \in [ids -> idle] :
        /\ \A i, j \in ids : part[i] = part[j] => i = j
        /\ requests' =
             [r \in Requests |->
                IF \E i \in ids : part[i] = r
                THEN LET i == CHOOSE i \in ids : part[i] = r IN rec(i)
                ELSE requests[r]]
        /\ probes' = probes \cup {Probe("fanout", part[i], browserSockets[i]) : i \in ids}
        /\ UNCHANGED <<readyState, wired>>
  BY DEF FanOut
<1> DEFINE new(i) == Probe("fanout", part[i], browserSockets[i])
<1>2. \A i \in ids : /\ new(i).kind = "fanout" /\ new(i).by = part[i]
                     /\ new(i).sock = browserSockets[i]
                     /\ rec(i).st = "probing" /\ rec(i).kind = "fanout"
                     /\ rec(i).sock = browserSockets[i]
  BY DEF Probe
<1>3. \A i \in ids : part[i] \in Requests /\ requests[part[i]].st = "idle"
  OBVIOUS
<1>4. probes' = probes \cup {new(i) : i \in ids}
  BY <1>1
<1>5. \A i \in ids : requests'[part[i]] = rec(i)
  <2> TAKE i \in ids
  <2>1. (CHOOSE j \in ids : part[j] = part[i]) = i
    BY <1>1
  <2> QED BY <1>1, <1>3, <2>1
<1>6. \A r \in Requests : (\A i \in ids : part[i] # r) => requests'[r] = requests[r]
  BY <1>1
<1> HIDE DEF ids, rec, new
<1>7. \A p \in probes : p.kind = "fanout" =>
          /\ \A i \in ids : part[i] # p.by
          /\ requests'[p.by] = requests[p.by]
  BY <1>3, <1>6, AskedProbing
<1>8. ProbesAsk'
  <2> SUFFICES ASSUME NEW p \in probes', p.kind = "fanout"
               PROVE  /\ requests'[p.by].st = "probing" /\ requests'[p.by].sock = p.sock
                      /\ \A q \in probes' : q.kind = "fanout" /\ q.by = p.by => q = p
    BY DEF ProbesAsk
  <2>1. CASE p \in probes
    BY <1>2, <1>4, <1>7, <2>1 DEF WaitInv, ProbesAsk
  <2>2. ASSUME NEW i \in ids, p = new(i)
        PROVE  /\ requests'[p.by].st = "probing" /\ requests'[p.by].sock = p.sock
               /\ \A q \in probes' : q.kind = "fanout" /\ q.by = p.by => q = p
    BY <1>1, <1>2, <1>4, <1>5, <1>7, <2>2
  <2> QED BY <1>4, <2>1, <2>2
<1>9. ProbingAsked'
  <2> SUFFICES ASSUME NEW r \in Requests, requests'[r].st = "probing"
               PROVE  /\ requests'[r].kind = "fanout"
                      /\ \E p \in probes' : p.kind = "fanout" /\ p.by = r
    BY DEF ProbingAsked
  <2>1. ASSUME NEW i \in ids, part[i] = r
        PROVE  /\ requests'[r].kind = "fanout"
               /\ \E p \in probes' : p.kind = "fanout" /\ p.by = r
    BY <1>2, <1>4, <1>5, <2>1
  <2>2. CASE \A i \in ids : part[i] # r
    BY <1>4, <1>6, <2>2 DEF WaitInv, ProbingAsked
  <2> QED BY <2>1, <2>2
<1>10. NoNewcomerForgotten'
  BY <1>1, <1>4 DEF WaitInv, NoNewcomerForgotten, IsOpen
<1>11. SweepsAreNobodys'
  BY <1>2, <1>4 DEF WaitInv, SweepsAreNobodys
<1> QED BY <1>8, <1>9, <1>10, <1>11

\* Every step keeps every waiter's probe.
LEMMA WaitInvKept ==
    ASSUME IInv, WaitInv, [Next]_vars
    PROVE  WaitInv'
<1>0. TypeOK
  BY DEF IInv
<1> DEFINE Goal == ProbesAsk' /\ ProbingAsked' /\ SweepsAreNobodys' /\ NoNewcomerForgotten'
<1> SUFFICES Goal
  BY RoutedKept DEF WaitInv
<1>1. CASE Connect
  BY <1>1, UpgradeWaits DEF Connect
<1>2. CASE \E s \in Socks, code \in {1000, 1006, 1011} : SocketClosed(s, code)
  BY <1>2, CloseWaits
<1>3. ASSUME NEW i \in Ids, GraceTimeout(i)
      PROVE  Goal
  <2>1. \A x \in Socks : readyState'[x] = "open" => readyState[x] = "open"
    BY <1>0, <1>3, ClosingType DEF GraceTimeout, TypeOK
  <2> QED BY <1>3, <2>1, QuietWaits DEF GraceTimeout, probing
<1>4. CASE \E s \in Socks : ServerPong(s)
  BY <1>4, PongWaits
<1>5. CASE SweepTick
  <2>1. UNCHANGED <<wired, readyState, requests>>
    BY <1>5 DEF SweepTick
  <2>2. probes' = probes \/ \E x : x.kind = "sweep" /\ x.by = None /\ probes' = probes \cup {x}
    BY <1>5, SweepProbes DEF SweepTick
  <2>3. CASE probes' = probes
    BY <2>1, <2>3, QuietWaits
  <2>4. ASSUME NEW x, x.kind = "sweep", x.by = None, probes' = probes \cup {x}
        PROVE  Goal
    <3>1. Settles(probes, {x})
      BY <2>1, <2>4 DEF Settles
    <3> QED BY <3>1, ProbesKept
  <2> QED BY <2>2, <2>3, <2>4
<1>6. CASE \E p \in probes : ProbeTimeout(p)
  BY <1>6, TimeoutWaits
<1>7. CASE \E t \in Targets : FanOut(t)
  BY <1>7, FanOutWaits
<1>8. CASE \/ \E s \in Socks : ServerPing(s)
           \/ \E r \in Requests, t \in Targets : SendToolRequest(r, t)
           \/ \E r \in Requests, s \in Socks : ToolResponse(r, s)
           \/ \E r \in Requests : RequestTimeout(r)
           \/ \E c \in Clients : McpClientClosed(c)
           \/ UNCHANGED vars
  <2>1. UNCHANGED <<wired, readyState, probes>>
    BY <1>8 DEF ServerPing, SendToolRequest, ToolResponse, RequestTimeout,
       McpClientClosed, vars, probing
  <2>2. \A r \in Requests :
           requests[r].st = "probing" \/ requests'[r].st = "probing" =>
               requests'[r] = requests[r]
    <3>1. CASE UNCHANGED requests
      BY <3>1
    <3>2. ASSUME NEW q \in Requests, Pending(q), NEW st \in {"resolved", "timedout"},
                 requests' = [requests EXCEPT ![q] = Moved(q, st)]
          PROVE  \A r \in Requests :
                    requests[r].st = "probing" \/ requests'[r].st = "probing" =>
                        requests'[r] = requests[r]
      BY <1>0, <3>2, MovedFields DEF TypeOK, Pending
    <3>3. ASSUME NEW q \in Requests, NEW t \in Targets, SendToolRequest(q, t)
          PROVE  \A r \in Requests :
                    requests[r].st = "probing" \/ requests'[r].st = "probing" =>
                        requests'[r] = requests[r]
      BY <1>0, <3>3 DEF TypeOK, SendToolRequest
    <3>4. ASSUME NEW c \in Clients, McpClientClosed(c)
          PROVE  \A r \in Requests :
                    requests[r].st = "probing" \/ requests'[r].st = "probing" =>
                        requests'[r] = requests[r]
      BY <1>0, <3>4, MovedFields DEF McpClientClosed, Pending
    <3> QED
      BY <1>8, <3>1, <3>2, <3>3, <3>4 DEF ServerPing, ToolResponse, RequestTimeout, vars
  <2> QED BY <2>1, <2>2, QuietWaits
<1> QED
  BY <1>1, <1>2, <1>3, <1>4, <1>5, <1>6, <1>7, <1>8 DEF Next

-----------------------------------------------------------------------------
\* Every request and every newcomer that waits is waited for, in every reachable
\* state.
THEOREM WaitersInvariance == Spec => []WaitInv
<1>1. Init => WaitInv
  BY DEF Init, WaitInv, ProbesAsk, ProbingAsked, SweepsAreNobodys, RoutedAlive,
     NoNewcomerForgotten, Pending, IsOpen
<1>2. IInv /\ WaitInv /\ [Next]_vars => WaitInv'
  BY WaitInvKept
<1> QED BY <1>1, <1>2, Invariance, PTL DEF Spec

\* A newcomer kept waiting always has a probe that will accept or reject it.
THEOREM NewcomersAreDecided == Spec => []NoNewcomerForgotten
<1>1. WaitInv => NoNewcomerForgotten
  BY DEF WaitInv
<1> QED BY <1>1, WaitersInvariance, PTL

\* A fan-out request waits for exactly one probe, and no probe outlives it.
THEOREM FanOutProbesMatch == Spec => []ProbesMatchRequests
<1>1. IInv /\ WaitInv => ProbesMatchRequests
  <2> SUFFICES ASSUME IInv, WaitInv, NEW r \in Requests
               PROVE  (requests[r].st = "probing") <=>
                         \E p \in probes :
                            /\ p.kind = "fanout" /\ p.by = r /\ p.sock = requests[r].sock
                            /\ \A q \in probes : q.by = r => q = p
    BY DEF ProbesMatchRequests
  <2>1. \A q \in probes : q.by = r => q.kind = "fanout"
    BY WaiterAssumption, NoneAssumption, AskedProbing
    DEF IInv, ProbesSound, WaitersSound, WaitInv, SweepsAreNobodys, ProbeRecords
  <2> QED BY <2>1 DEF WaitInv, ProbesAsk, ProbingAsked
<1> QED BY <1>1, Invariance, WaitersInvariance, PTL

\* A higher life that takes a browser over leaves none of the requests addressed
\* to that browser waiting for their timeout.
THEOREM SupersedeRejects == Spec => []SupersedeRejectsRouted
<1>1. WaitInv => SupersedeRejectsRouted
  BY DEF WaitInv, RoutedAlive, SupersedeRejectsRouted
<1> QED BY <1>1, WaitersInvariance, PTL

\* What settled or dropped a request is final, whatever still arrives for it.
THEOREM SettledStays == Spec => SettledIsFinal
<1>1. ASSUME IInv, WaitInv, [Next]_vars, NEW r \in Requests,
             requests[r].st \in Settled \cup {"dropped"}
      PROVE  requests'[r] = requests[r]
  <2>1. requests[r].st \notin {"idle", "pending", "probing"}
    BY <1>1 DEF Settled
  <2> QED
    BY <1>1, <2>1, RequestSteps DEF RequestStep, Pending, WaitInv, ProbesAsk
<1>2. IInv /\ WaitInv /\ [Next]_vars =>
          [\A r \in Requests : requests[r].st \in Settled \cup {"dropped"} =>
              requests'[r] = requests[r]]_vars
  BY <1>1
<1> QED BY <1>2, Invariance, WaitersInvariance, PTL DEF Spec, SettledIsFinal
=============================================================================
