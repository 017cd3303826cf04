-------------------------- MODULE McpBridge_proofs --------------------------
(***************************************************************************)
(* Proofs about McpBridge, for any number of calls, clients and browsers,  *)
(* any tools and targets, and any JSON-RPC ids: the pending map, the rows  *)
(* of the dashboard, and the promise of ToolCalls.                         *)
(***************************************************************************)
EXTENDS McpBridge, FiniteSetTheorems, SequenceTheorems, TLAPS

-----------------------------------------------------------------------------
(***************************************************************************)
(* The rows of the dashboard (RecentActivity).                             *)
(***************************************************************************)

Rows == [id : Parts, status : {"pending", "success", "error", "timeout"}]

\* The rows of new requests are pending, and each belongs to one of them.
LEMMA StartedRows ==
    ASSUME NEW ids, IsFiniteSet(ids)
    PROVE  Started(ids) \in Seq([id : ids, status : {"pending"}])
<1> DEFINE order == SetToSeq(ids)
           n == Cardinality(ids)
<1>1. n \in Nat /\ ExistsBijection(1..n, ids)
  BY FS_CardinalityType
<1>2. \E f \in [1..n -> ids] : IsInjective(f)
  BY <1>1 DEF ExistsBijection, Bijection, Injection
<1>3. order \in [1..n -> ids]
  BY <1>2 DEF SetToSeq
<1>4. Started(ids) = [i \in 1..n |-> [id |-> order[i], status |-> "pending"]]
  <2>1. DOMAIN order = 1..n
    BY <1>3
  <2> QED BY <2>1, Zenon DEF Started
<1> HIDE DEF order, n
<1>5. \A i \in 1..n : [id |-> order[i], status |-> "pending"] \in [id : ids, status : {"pending"}]
  BY <1>3
<1>6. Started(ids) \in [1..n -> [id : ids, status : {"pending"}]]
  BY <1>4, <1>5
<1> QED BY <1>1, <1>6, SeqDef

\* The ring keeps at most MaxRows rows, and each of them is one it had or one
\* of the new ones (start).
LEMMA StartRequestsRows ==
    ASSUME NEW buf \in Seq(Rows), NEW ids \in SUBSET Parts, IsFiniteSet(ids)
    PROVE  /\ StartRequests(buf, ids) \in Seq(Rows)
           /\ Len(StartRequests(buf, ids)) <= MaxRows
           /\ \A i \in DOMAIN StartRequests(buf, ids) :
                 LET row == StartRequests(buf, ids)[i]
                 IN  \/ \E j \in DOMAIN buf : row = buf[j]
                     \/ row.id \in ids /\ row.status = "pending"
<1> DEFINE new == Started(ids)
           all == buf \o new
           excess == IF Len(all) > MaxRows THEN Len(all) - MaxRows ELSE 0
           out == SubSeq(all, excess + 1, Len(all))
<1>1. new \in Seq([id : ids, status : {"pending"}])
  BY StartedRows
<1>2. [id : ids, status : {"pending"}] \subseteq Rows
  BY DEF Rows
<1>3. new \in Seq(Rows)
  BY <1>1, <1>2, SeqMonotonic
<1>4. \A i \in 1..Len(new) : new[i].id \in ids /\ new[i].status = "pending"
  <2> TAKE i \in 1..Len(new)
  <2>1. new[i] \in [id : ids, status : {"pending"}]
    BY <1>1, ElementOfSeq
  <2> QED BY <2>1
<1>5. StartRequests(buf, ids) = out
  BY DEF StartRequests
<1> HIDE DEF new
<1>6. /\ all \in Seq(Rows)
      /\ Len(all) = Len(buf) + Len(new)
      /\ \A i \in 1..Len(buf) + Len(new) :
            all[i] = IF i <= Len(buf) THEN buf[i] ELSE new[i - Len(buf)]
  BY <1>3, ConcatProperties
<1>7. Len(buf) \in Nat /\ Len(new) \in Nat /\ DOMAIN buf = 1..Len(buf)
  BY <1>3, LenProperties
<1> HIDE DEF all
<1>8. excess \in Nat /\ Len(all) \in Nat /\ excess <= Len(all) /\ Len(all) - excess <= MaxRows
  BY <1>6, <1>7, MaxRowsAssumption
<1> HIDE DEF excess
<1>9. \A i \in excess + 1 .. Len(all) : all[i] \in Rows
  BY <1>6, <1>8, ElementOfSeq
<1>10. /\ out \in Seq(Rows)
       /\ Len(out) = IF excess + 1 <= Len(all) THEN Len(all) - (excess + 1) + 1 ELSE 0
       /\ \A i \in 1..Len(all) - (excess + 1) + 1 : out[i] = all[excess + 1 + i - 1]
  BY <1>8, <1>9, SubSeqProperties
<1> HIDE DEF out
<1>11. Len(out) <= MaxRows /\ Len(out) = Len(all) - excess
  BY <1>8, <1>10, MaxRowsAssumption
<1>12. DOMAIN out = 1..Len(out)
  BY <1>10, LenProperties
<1>13. ASSUME NEW i \in DOMAIN out
       PROVE  \/ \E j \in DOMAIN buf : out[i] = buf[j]
              \/ out[i].id \in ids /\ out[i].status = "pending"
  <2>1. i \in 1..Len(all) - excess
    BY <1>11, <1>12
  <2>2. out[i] = all[excess + i]
    BY <2>1, <1>8, <1>10
  <2>3. excess + i \in 1..Len(buf) + Len(new)
    BY <2>1, <1>6, <1>7, <1>8
  <2>4. CASE excess + i <= Len(buf)
    BY <2>2, <2>3, <2>4, <1>6, <1>7
  <2>5. CASE excess + i > Len(buf)
    <3> DEFINE k == excess + i
    <3>1. k \in 1..Len(buf) + Len(new) /\ out[i] = all[k] /\ ~(k <= Len(buf))
      BY <2>2, <2>3, <2>5, <1>7, <1>8
    <3> HIDE DEF k
    <3>2. out[i] = new[k - Len(buf)]
      BY <3>1, <1>6
    <3>3. k - Len(buf) \in 1..Len(new)
      BY <3>1, <1>7
    <3> QED BY <3>2, <3>3, <1>4
  <2> QED BY <2>3, <2>4, <2>5, <1>7
<1> QED BY <1>5, <1>10, <1>11, <1>13

\* Finishing changes the status of the rows named, and nothing else (finish).
LEMMA FinishRequestsRows ==
    ASSUME NEW buf \in Seq(Rows), NEW ids,
           NEW status \in {"pending", "success", "error", "timeout"}
    PROVE  /\ FinishRequests(buf, ids, status) \in Seq(Rows)
           /\ Len(FinishRequests(buf, ids, status)) = Len(buf)
           /\ DOMAIN FinishRequests(buf, ids, status) = DOMAIN buf
           /\ \A i \in DOMAIN buf :
                 LET row == FinishRequests(buf, ids, status)[i]
                 IN  /\ row.id = buf[i].id
                     /\ row.status = IF buf[i].id \in ids THEN status ELSE buf[i].status
<1> DEFINE out == FinishRequests(buf, ids, status)
<1>1. Len(buf) \in Nat /\ DOMAIN buf = 1..Len(buf)
  BY LenProperties
<1>2. ASSUME NEW i \in DOMAIN buf
      PROVE  /\ out[i] \in Rows
             /\ out[i].id = buf[i].id
             /\ out[i].status = IF buf[i].id \in ids THEN status ELSE buf[i].status
  <2>1. buf[i] \in Rows
    BY <1>1, ElementOfSeq
  <2>2. out[i] = IF buf[i].id \in ids THEN [buf[i] EXCEPT !.status = status] ELSE buf[i]
    BY DEF FinishRequests
  <2>3. [buf[i] EXCEPT !.status = status] = [id |-> buf[i].id, status |-> status]
    BY <2>1 DEF Rows
  <2>4. out[i] = IF buf[i].id \in ids THEN [id |-> buf[i].id, status |-> status] ELSE buf[i]
    BY <2>2, <2>3
  <2> QED BY <2>1, <2>4 DEF Rows
<1>3. DOMAIN out = DOMAIN buf
  BY DEF FinishRequests
<1>4. out = [i \in 1..Len(buf) |-> out[i]]
  BY <1>1 DEF FinishRequests
<1> HIDE DEF out
<1>5. out \in [1..Len(buf) -> Rows]
  BY <1>1, <1>2, <1>4
<1>6. out \in Seq(Rows)
  BY <1>1, <1>5, SeqDef
<1>7. Len(out) = Len(buf)
  BY <1>1, <1>3, <1>6, LenProperties
<1> QED BY <1>2, <1>3, <1>6, <1>7 DEF out

-----------------------------------------------------------------------------
(***************************************************************************)
(* The inductive invariant.                                                *)
(***************************************************************************)

\* The map holds one entry, under the request's own id, for each that waits.
EntriesWait ==
    /\ \A e \in pendingRequests :
          e.part \in Parts /\ e = Entry(e.part) /\ parts[e.part].st = "pending"
    /\ \A p \in Parts : parts[p].st = "pending" => Entry(p) \in pendingRequests

\* A browser answers under the id it was sent.
AskedWereSent == \A m \in asked : m.part \in Parts /\ m = Entry(m.part)

\* What settled a part with an answer was the answer to that part.
AnsweredByItself ==
    \A p \in Parts : parts[p].st \in Outcomes => parts[p].from = p

\* The parts of a call are those of the browsers it is addressed to.
PartsAddressed ==
    \A c \in Calls :
        /\ \A b \in Browsers : parts[<<c, b>>].st # "none" <=> b \in calls[c].addressed
        /\ calls[c].st \in {"idle", "waiting"} => calls[c].addressed = {}

\* A call is not answered before its last part.
InFlightIsOpen ==
    \A c \in Calls, b \in Browsers :
        parts[<<c, b>>].st \in InFlight => calls[c].st = "open"

\* A row tells the truth about a request that was made.
RowTrue(row) ==
    /\ parts[row.id].st # "none"
    /\ row.status = "pending" <=> parts[row.id].st \in InFlight \cup {"dropped"}
    /\ row.status = "timeout" <=> parts[row.id].st \in {"timeout", "wedged"}

RowsInv == \A i \in DOMAIN recentActivity : RowTrue(recentActivity[i])

\* However many browsers have come, at any time a finite number is there.
FiniteOpen == IsFiniteSet(Open)

IInv ==
    /\ TypeOK /\ FiniteOpen
    /\ EntriesWait /\ AskedWereSent /\ AnsweredByItself
    /\ PartsAddressed /\ InFlightIsOpen /\ RowsInv

-----------------------------------------------------------------------------
(***************************************************************************)
(* What the helpers do to a call and to its parts.                         *)
(***************************************************************************)

\* Marking changes the state of the parts named, and nothing else.
LEMMA MarkedParts ==
    ASSUME TypeOK, NEW P, NEW st, [st |-> st, from |-> None] \in PartRecords
    PROVE  /\ Marked(P, st) \in [Parts -> PartRecords]
           /\ \A p \in Parts :
                 /\ p \in P => Marked(P, st)[p] = [st |-> st, from |-> parts[p].from]
                 /\ p \notin P => Marked(P, st)[p] = parts[p]
<1>1. ASSUME NEW p \in Parts
      PROVE  /\ [parts[p] EXCEPT !.st = st] = [st |-> st, from |-> parts[p].from]
             /\ parts[p] \in PartRecords
             /\ [st |-> st, from |-> parts[p].from] \in PartRecords
  <2>1. parts[p] \in PartRecords
    BY DEF TypeOK
  <2> QED BY <2>1 DEF PartRecords
<1>2. Marked(P, st) =
         [p \in Parts |-> IF p \in P THEN [st |-> st, from |-> parts[p].from] ELSE parts[p]]
  BY <1>1 DEF Marked
<1>3. ASSUME NEW p \in Parts
      PROVE  (IF p \in P THEN [st |-> st, from |-> parts[p].from] ELSE parts[p]) \in PartRecords
  BY <1>1
<1> QED BY <1>2, <1>3

\* A call that is answered keeps its target and the browsers it is addressed
\* to; the reply is recorded only if its client is there (reply).
LEMMA RepliedCall ==
    ASSUME NEW c \in Calls, NEW call \in CallRecords, NEW r \in Replies
    PROVE  /\ Replied(c, call, r) \in CallRecords
           /\ Replied(c, call, r).addressed = call.addressed
           /\ Replied(c, call, r).target = call.target
           /\ Replied(c, call, r).st =
                 IF ClientOf[c] \in clients THEN "replied" ELSE "unheard"
           /\ Replied(c, call, r).reply =
                 IF ClientOf[c] \in clients THEN r ELSE call.reply
<1>1. [call EXCEPT !.st = "unheard"] =
         [st |-> "unheard", target |-> call.target, addressed |-> call.addressed,
          reply |-> call.reply]
  BY DEF CallRecords
<1>2. [call EXCEPT !.st = "replied", !.reply = r] =
         [st |-> "replied", target |-> call.target, addressed |-> call.addressed,
          reply |-> r]
  <2> DEFINE heard == [st |-> "replied", target |-> call.target,
                       addressed |-> call.addressed, reply |-> call.reply]
  <2>1. [call EXCEPT !.st = "replied"] = heard
    BY DEF CallRecords
  <2>2. [heard EXCEPT !.reply = r] = [st |-> "replied", target |-> call.target,
                                      addressed |-> call.addressed, reply |-> r]
    OBVIOUS
  <2>3. [call EXCEPT !.st = "replied", !.reply = r]
           = [[call EXCEPT !.st = "replied"] EXCEPT !.reply = r]
    BY DEF CallRecords
  <2> QED BY <2>1, <2>2, <2>3, Zenon
<1>3. CASE ClientOf[c] \in clients
  <2>1. Replied(c, call, r) =
           [st |-> "replied", target |-> call.target, addressed |-> call.addressed,
            reply |-> r]
    BY <1>2, <1>3 DEF Replied
  <2> QED BY <2>1, <1>3 DEF CallRecords
<1>4. CASE ClientOf[c] \notin clients
  <2>1. Replied(c, call, r) =
           [st |-> "unheard", target |-> call.target, addressed |-> call.addressed,
            reply |-> call.reply]
    BY <1>1, <1>4 DEF Replied
  <2> QED BY <2>1, <1>4 DEF CallRecords
<1> QED BY <1>3, <1>4

\* A call that starts names its target and the browsers it is addressed to.
LEMMA CalledCall ==
    ASSUME TypeOK, NEW c \in Calls, NEW t \in Targets \cup {None},
           NEW st \in {"waiting", "open"}, NEW T \in SUBSET Browsers
    PROVE  /\ Called(c, t, st, T) \in CallRecords
           /\ Called(c, t, st, T).st = st
           /\ Called(c, t, st, T).addressed = T
           /\ Called(c, t, st, T).reply = calls[c].reply
<1>1. calls[c] \in CallRecords
  BY DEF TypeOK
<1>2. Called(c, t, st, T) =
         [st |-> st, target |-> t, addressed |-> T, reply |-> calls[c].reply]
  <2> DEFINE old == calls[c]
             a == [st |-> st, target |-> old.target, addressed |-> old.addressed,
                   reply |-> old.reply]
             b == [st |-> st, target |-> t, addressed |-> old.addressed,
                   reply |-> old.reply]
  <2>1. Called(c, t, st, T) = [old EXCEPT !.st = st, !.target = t, !.addressed = T]
    BY Zenon DEF Called
  <2>2. [old EXCEPT !.st = st] = a
    BY <1>1 DEF CallRecords
  <2>3. [a EXCEPT !.target = t] = b
    OBVIOUS
  <2>4. [b EXCEPT !.addressed = T] =
           [st |-> st, target |-> t, addressed |-> T, reply |-> old.reply]
    OBVIOUS
  <2>5. [old EXCEPT !.st = st, !.target = t, !.addressed = T]
           = [[[old EXCEPT !.st = st] EXCEPT !.target = t] EXCEPT !.addressed = T]
    BY <1>1 DEF CallRecords
  <2> QED BY <2>1, <2>2, <2>3, <2>4, <2>5, Zenon
<1> QED BY <1>1, <1>2 DEF CallRecords

\* The refusal of a call is a reply without contents.
LEMMA NoBrowserReply == NoBrowser \in Replies
BY DEF NoBrowser, Replies

-----------------------------------------------------------------------------
(***************************************************************************)
(* Every step moves some parts P to one state st.  Its calls either start, *)
(* or settle, or are left alone.                                           *)
(***************************************************************************)

PartsMove(P, st) ==
    /\ P \subseteq Parts /\ st \in InFlight \cup Final \cup {"dropped"}
    /\ parts' \in [Parts -> PartRecords]
    /\ \A p \in Parts :
          /\ p \in P => parts'[p].st = st /\ (st \in Outcomes => parts'[p].from = p)
          /\ p \notin P => parts'[p] = parts[p]
    /\ pendingRequests' = IF st = "pending"
                          THEN pendingRequests \cup {Entry(p) : p \in P}
                          ELSE {e \in pendingRequests : e.part \notin P}
    /\ asked' \subseteq asked \cup {Entry(p) : p \in P}

\* c starts, or goes on waiting, or is refused (then T is empty).
Starts(c, T, st) ==
    /\ c \in Calls /\ T \subseteq Browsers /\ st \in InFlight
    /\ calls[c].st \in {"idle", "waiting"}
    /\ PartsMove({c} \X T, st)
    /\ calls' \in [Calls -> CallRecords]
    /\ calls'[c].addressed = T /\ (T # {} => calls'[c].st = "open")
    /\ \A k \in Calls \ {c} : calls'[k] = calls[k]
    /\ recentActivity' \in Seq(Rows) /\ Len(recentActivity') <= MaxRows
    /\ \A i \in DOMAIN recentActivity' :
          \/ \E j \in DOMAIN recentActivity : recentActivity'[i] = recentActivity[j]
          \/ /\ recentActivity'[i].id \in {c} \X T
             /\ recentActivity'[i].status = "pending"

Answered(c, np) ==
    calls[c].st = "open" /\ \A b \in calls[c].addressed : np[<<c, b>>].st \in Final

\* Requests in flight get a result.
Settles(P, st, status) ==
    /\ \A p \in P : parts[p].st \in InFlight
    /\ st \in Final /\ status \in {"success", "error", "timeout"}
    /\ status = "timeout" <=> st \in {"timeout", "wedged"}
    /\ PartsMove(P, st)
    /\ calls' = [c \in Calls |-> IF Answered(c, parts')
                                 THEN Replied(c, calls[c], ReplyTo(c, parts'))
                                 ELSE calls[c]]
    /\ recentActivity' \in Seq(Rows) /\ Len(recentActivity') <= MaxRows
    /\ DOMAIN recentActivity' = DOMAIN recentActivity
    /\ \A i \in DOMAIN recentActivity :
          /\ recentActivity'[i].id = recentActivity[i].id
          /\ recentActivity'[i].status = IF recentActivity[i].id \in P THEN status
                                         ELSE recentActivity[i].status

\* Requests in flight stay so, or lose their client.
Goes(P, st) ==
    /\ \A p \in P : parts[p].st \in InFlight
    /\ st \in InFlight \cup {"dropped"}
    /\ PartsMove(P, st)
    /\ UNCHANGED <<calls, recentActivity>>

-----------------------------------------------------------------------------
(***************************************************************************)
(* Steps of these shapes keep the invariant.                               *)
(***************************************************************************)

\* The map follows the parts: an entry is made when a request is sent, and goes
\* when it no longer waits.
LEMMA EntriesKept ==
    ASSUME TypeOK, EntriesWait, AskedWereSent, AnsweredByItself,
           NEW P, NEW st, PartsMove(P, st)
    PROVE  /\ EntriesWait' /\ AskedWereSent' /\ AnsweredByItself'
           /\ pendingRequests' \subseteq Entries /\ asked' \subseteq Entries
<1>1. P \subseteq Parts
  BY DEF PartsMove
<1>2. ASSUME NEW p \in Parts
      PROVE  /\ Entry(p).part = p /\ Entry(p).id = p
             /\ Entry(p) \in Entries
  BY DEF Entry, BoundId, Entries
<1>3. ASSUME NEW e \in pendingRequests'
      PROVE  e.part \in Parts /\ e = Entry(e.part) /\ parts'[e.part].st = "pending"
  <2>1. CASE st = "pending"
    <3>1. CASE e \in pendingRequests
      <4>1. e.part \in Parts /\ e = Entry(e.part) /\ parts[e.part].st = "pending"
        BY <3>1 DEF EntriesWait
      <4> QED BY <4>1, <2>1 DEF PartsMove
    <3>2. CASE \E p \in P : e = Entry(p)
      <4>1. PICK p \in P : e = Entry(p)
        BY <3>2
      <4> QED BY <4>1, <1>1, <1>2, <2>1 DEF PartsMove
    <3> QED BY <2>1, <3>1, <3>2 DEF PartsMove
  <2>2. CASE st # "pending"
    <3>1. e \in pendingRequests /\ e.part \notin P
      BY <2>2 DEF PartsMove
    <3>2. e.part \in Parts /\ e = Entry(e.part) /\ parts[e.part].st = "pending"
      BY <3>1 DEF EntriesWait
    <3> QED BY <3>1, <3>2 DEF PartsMove
  <2> QED BY <2>1, <2>2
<1>4. ASSUME NEW p \in Parts, parts'[p].st = "pending"
      PROVE  Entry(p) \in pendingRequests'
  <2>1. CASE p \in P
    BY <1>4, <2>1 DEF PartsMove
  <2>2. CASE p \notin P
    <3>1. parts[p].st = "pending"
      BY <1>4, <2>2 DEF PartsMove
    <3>2. Entry(p) \in pendingRequests
      BY <3>1 DEF EntriesWait
    <3> QED BY <3>2, <2>2, <1>2 DEF PartsMove
  <2> QED BY <2>1, <2>2
<1>5. EntriesWait'
  BY <1>3, <1>4 DEF EntriesWait, Entry, BoundId
<1>6. ASSUME NEW m \in asked'
      PROVE  m.part \in Parts /\ m = Entry(m.part)
  <2>1. CASE m \in asked
    BY <2>1 DEF AskedWereSent
  <2>2. CASE \E p \in P : m = Entry(p)
    BY <2>2, <1>1, <1>2
  <2> QED BY <2>1, <2>2 DEF PartsMove
<1>7. AskedWereSent'
  BY <1>6 DEF AskedWereSent, Entry, BoundId
<1>8. AnsweredByItself'
  <2> SUFFICES ASSUME NEW p \in Parts, parts'[p].st \in Outcomes
               PROVE  parts'[p].from = p
    BY DEF AnsweredByItself
  <2>1. CASE p \in P
    BY <2>1 DEF PartsMove
  <2>2. CASE p \notin P
    BY <2>2 DEF PartsMove, AnsweredByItself
  <2> QED BY <2>1, <2>2
<1> QED BY <1>2, <1>3, <1>5, <1>6, <1>7, <1>8

\* The ring holds rows.
LEMMA RowsTyped ==
    ASSUME TypeOK
    PROVE  /\ recentActivity \in Seq(Rows)
           /\ \A i \in DOMAIN recentActivity : recentActivity[i] \in Rows
<1>1. recentActivity \in Seq(Rows)
  BY DEF TypeOK, Rows
<1>2. DOMAIN recentActivity = 1..Len(recentActivity)
  BY <1>1, LenProperties
<1> QED BY <1>1, <1>2, ElementOfSeq

\* A call that starts has just the parts it is addressed to, with a row each
\* unless the ring has no room.
LEMMA StartsKept ==
    ASSUME IInv, NEW c, NEW T, NEW st, Starts(c, T, st)
    PROVE  /\ PartsAddressed' /\ InFlightIsOpen' /\ RowsInv'
           /\ calls' \in [Calls -> CallRecords]
           /\ recentActivity' \in Seq(Rows) /\ Len(recentActivity') <= MaxRows
<1>1. c \in Calls /\ T \subseteq Browsers /\ st \in InFlight
  BY DEF Starts
<1>2. \A b \in Browsers : parts[<<c, b>>].st = "none"
  BY <1>1 DEF Starts, IInv, PartsAddressed
<1>3. ASSUME NEW k \in Calls, NEW b \in Browsers
      PROVE  /\ (k = c /\ b \in T) => parts'[<<k, b>>].st = st
             /\ ~(k = c /\ b \in T) => parts'[<<k, b>>] = parts[<<k, b>>]
  BY <1>1 DEF Starts, PartsMove, Parts
<1>4. PartsAddressed'
  <2>1. ASSUME NEW k \in Calls, NEW b \in Browsers
        PROVE  parts'[<<k, b>>].st # "none" <=> b \in calls'[k].addressed
    <3>1. CASE k = c
      BY <3>1, <1>1, <1>2, <1>3 DEF Starts, InFlight
    <3>2. CASE k # c
      BY <3>2, <1>1, <1>3 DEF Starts, IInv, PartsAddressed
    <3> QED BY <3>1, <3>2
  <2>2. ASSUME NEW k \in Calls, calls'[k].st \in {"idle", "waiting"}
        PROVE  calls'[k].addressed = {}
    <3>1. CASE k = c
      BY <3>1, <2>2, <1>1 DEF Starts
    <3>2. CASE k # c
      BY <3>2, <2>2, <1>1 DEF Starts, IInv, PartsAddressed
    <3> QED BY <3>1, <3>2
  <2> QED BY <2>1, <2>2 DEF PartsAddressed
<1>5. InFlightIsOpen'
  <2> SUFFICES ASSUME NEW k \in Calls, NEW b \in Browsers,
                      parts'[<<k, b>>].st \in InFlight
               PROVE  calls'[k].st = "open"
    BY DEF InFlightIsOpen
  <2>1. CASE k = c /\ b \in T
    BY <2>1, <1>1 DEF Starts
  <2>2. CASE k = c /\ b \notin T
    BY <2>2, <1>2, <1>3 DEF InFlight
  <2>3. CASE k # c
    BY <2>3, <1>1, <1>3 DEF Starts, IInv, InFlightIsOpen
  <2> QED BY <2>1, <2>2, <2>3
<1>6. RowsInv'
  <2> SUFFICES ASSUME NEW i \in DOMAIN recentActivity'
               PROVE  RowTrue(recentActivity[i])'
    BY DEF RowsInv
  <2> DEFINE row == recentActivity'[i]
  <2>1. CASE \E j \in DOMAIN recentActivity : row = recentActivity[j]
    <3>1. PICK j \in DOMAIN recentActivity : row = recentActivity[j]
      BY <2>1
    <3>2. recentActivity[j] \in Rows
      BY RowsTyped DEF IInv
    <3>3. RowTrue(recentActivity[j])
      BY DEF IInv, RowsInv
    <3>4. PICK k \in Calls, b \in Browsers : row.id = <<k, b>>
      BY <3>1, <3>2 DEF Rows, Parts
    <3>5. parts'[row.id] = parts[row.id]
      BY <3>1, <3>3, <3>4, <1>2, <1>3, <1>1 DEF RowTrue, Starts
    <3> QED BY <3>1, <3>3, <3>5 DEF RowTrue
  <2>2. CASE row.id \in {c} \X T /\ row.status = "pending"
    <3>1. parts'[row.id].st = st
      BY <2>2, <1>1, <1>3
    <3> QED BY <3>1, <2>2, <1>1 DEF RowTrue, InFlight
  <2> QED BY <2>1, <2>2 DEF Starts
<1> QED BY <1>4, <1>5, <1>6 DEF Starts

\* A reply speaks of parts and browsers of its call.
LEMMA ReplyTyped ==
    ASSUME TypeOK, NEW c \in Calls, NEW np \in [Parts -> PartRecords],
           \A p \in Parts : np[p].st \in Outcomes => np[p].from = p
    PROVE  ReplyTo(c, np) \in Replies
<1> DEFINE own == {c} \X calls[c].addressed
           good == {p \in own : np[p].st \in Contents(ToolOf[c])}
<1>1. calls[c].addressed \subseteq Browsers
  BY DEF TypeOK, CallRecords
<1>2. own \subseteq Parts
  BY <1>1 DEF Parts
<1>3. {np[p].from : p \in good} \subseteq Parts
  BY <1>2 DEF Contents, Outcomes
<1>4. {p[2] : p \in own \ good} \subseteq Browsers
  BY <1>1
<1>5. ReplyTo(c, np) =
         [contents |-> {np[p].from : p \in good}, failed |-> {p[2] : p \in own \ good},
          isError |-> good = {}]
  BY DEF ReplyTo
<1> HIDE DEF good, own
<1>6. (good = {}) \in BOOLEAN
  OBVIOUS
<1> QED BY <1>3, <1>4, <1>5, <1>6 DEF Replies

\* What the settling of parts does to a call: it is answered if it was open and
\* no part is left.
LEMMA SettledCall ==
    ASSUME IInv, NEW P, NEW st, NEW status, Settles(P, st, status), NEW c \in Calls
    PROVE  /\ calls'[c] \in CallRecords
           /\ calls'[c].addressed = calls[c].addressed
           /\ Answered(c, parts') =>
                 /\ calls'[c].st = IF ClientOf[c] \in clients THEN "replied" ELSE "unheard"
                 /\ calls'[c].reply = IF ClientOf[c] \in clients THEN ReplyTo(c, parts')
                                      ELSE calls[c].reply
           /\ ~Answered(c, parts') => calls'[c] = calls[c]
<1>1. calls[c] \in CallRecords
  BY DEF IInv, TypeOK
<1>2. /\ parts' \in [Parts -> PartRecords]
      /\ \A p \in Parts : parts'[p].st \in Outcomes => parts'[p].from = p
  BY EntriesKept DEF IInv, Settles, PartsMove, AnsweredByItself
<1>3. ReplyTo(c, parts') \in Replies
  BY <1>2, ReplyTyped DEF IInv
<1>4. calls'[c] = IF Answered(c, parts')
                  THEN Replied(c, calls[c], ReplyTo(c, parts')) ELSE calls[c]
  BY DEF Settles
<1> QED BY <1>1, <1>3, <1>4, RepliedCall

\* A result ends a request, its row with it, and the call only with its last
\* part.
LEMMA SettlesKept ==
    ASSUME IInv, NEW P, NEW st, NEW status, Settles(P, st, status)
    PROVE  /\ PartsAddressed' /\ InFlightIsOpen' /\ RowsInv'
           /\ calls' \in [Calls -> CallRecords]
           /\ recentActivity' \in Seq(Rows) /\ Len(recentActivity') <= MaxRows
<1>1. /\ P \subseteq Parts /\ st \in Final
      /\ \A p \in P : parts[p].st \in InFlight /\ parts'[p].st = st
      /\ \A p \in Parts \ P : parts'[p] = parts[p]
  BY DEF Settles, PartsMove
<1>2. ASSUME NEW c \in Calls, NEW b \in Browsers
      PROVE  <<c, b>> \in Parts
  BY DEF Parts
<1>3. calls' \in [Calls -> CallRecords]
  <2>1. calls' = [c \in Calls |-> calls'[c]]
    BY DEF Settles
  <2> QED BY <2>1, SettledCall
<1>4. PartsAddressed'
  <2>1. ASSUME NEW c \in Calls, NEW b \in Browsers
        PROVE  parts'[<<c, b>>].st # "none" <=> b \in calls'[c].addressed
    <3>1. calls'[c].addressed = calls[c].addressed
      BY SettledCall
    <3>2. parts[<<c, b>>].st # "none" <=> b \in calls[c].addressed
      BY DEF IInv, PartsAddressed
    <3>3. parts'[<<c, b>>].st = "none" <=> parts[<<c, b>>].st = "none"
      BY <1>1, <1>2 DEF Final, Outcomes, InFlight
    <3> QED BY <3>1, <3>2, <3>3
  <2>2. ASSUME NEW c \in Calls, calls'[c].st \in {"idle", "waiting"}
        PROVE  calls'[c].addressed = {}
    BY <2>2, SettledCall DEF IInv, PartsAddressed
  <2> QED BY <2>1, <2>2 DEF PartsAddressed
<1>5. InFlightIsOpen'
  <2> SUFFICES ASSUME NEW c \in Calls, NEW b \in Browsers,
                      parts'[<<c, b>>].st \in InFlight
               PROVE  calls'[c].st = "open"
    BY DEF InFlightIsOpen
  <2>1. parts'[<<c, b>>].st \notin Final
    BY DEF InFlight, Final, Outcomes
  <2>2. parts[<<c, b>>].st \in InFlight
    BY <1>1, <1>2
  <2>3. calls[c].st = "open" /\ b \in calls[c].addressed
    BY <2>2 DEF IInv, InFlightIsOpen, PartsAddressed, InFlight
  <2>4. ~Answered(c, parts')
    BY <2>1, <2>3 DEF Answered
  <2> QED BY <2>3, <2>4, SettledCall
<1>6. RowsInv'
  <2> SUFFICES ASSUME NEW i \in DOMAIN recentActivity
               PROVE  RowTrue(recentActivity[i])'
    BY DEF RowsInv, Settles
  <2> DEFINE row == recentActivity[i]
  <2>1. row.id \in Parts /\ RowTrue(row)
    BY RowsTyped DEF IInv, RowsInv, Rows
  <2>2. /\ recentActivity'[i].id = row.id
        /\ recentActivity'[i].status = IF row.id \in P THEN status ELSE row.status
    BY DEF Settles
  <2>3. CASE row.id \in P
    <3>1. parts'[row.id].st = st /\ recentActivity'[i].status = status
      BY <2>3, <2>2, <1>1
    <3>2. /\ status # "pending" /\ st # "none" /\ st \notin InFlight \cup {"dropped"}
          /\ status = "timeout" <=> st \in {"timeout", "wedged"}
      BY DEF Settles, Final, Outcomes, InFlight
    <3> QED BY <2>2, <3>1, <3>2 DEF RowTrue
  <2>4. CASE row.id \notin P
    <3>1. parts'[row.id] = parts[row.id] /\ recentActivity'[i].status = row.status
      BY <2>1, <2>2, <2>4, <1>1
    <3> QED BY <2>1, <2>2, <3>1 DEF RowTrue
  <2> QED BY <2>3, <2>4
<1> QED BY <1>3, <1>4, <1>5, <1>6 DEF Settles

\* A request that goes on, or whose client leaves, keeps its row pending.
LEMMA GoesKept ==
    ASSUME IInv, NEW P, NEW st, Goes(P, st)
    PROVE  /\ PartsAddressed' /\ InFlightIsOpen' /\ RowsInv'
           /\ calls' \in [Calls -> CallRecords]
           /\ recentActivity' \in Seq(Rows) /\ Len(recentActivity') <= MaxRows
<1>1. /\ P \subseteq Parts /\ st \in InFlight \cup {"dropped"}
      /\ \A p \in P : parts[p].st \in InFlight /\ parts'[p].st = st
      /\ \A p \in Parts \ P : parts'[p] = parts[p]
      /\ calls' = calls /\ recentActivity' = recentActivity
  BY DEF Goes, PartsMove
<1>2. ASSUME NEW c \in Calls, NEW b \in Browsers
      PROVE  <<c, b>> \in Parts
  BY DEF Parts
<1>3. PartsAddressed'
  <2>1. ASSUME NEW c \in Calls, NEW b \in Browsers
        PROVE  parts'[<<c, b>>].st = "none" <=> parts[<<c, b>>].st = "none"
    BY <1>1, <1>2 DEF InFlight
  <2> QED BY <1>1, <2>1 DEF IInv, PartsAddressed
<1>4. InFlightIsOpen'
  <2>1. ASSUME NEW c \in Calls, NEW b \in Browsers, parts'[<<c, b>>].st \in InFlight
        PROVE  parts[<<c, b>>].st \in InFlight
    BY <1>1, <1>2, <2>1
  <2> QED BY <1>1, <2>1 DEF IInv, InFlightIsOpen
<1>5. RowsInv'
  <2> SUFFICES ASSUME NEW i \in DOMAIN recentActivity
               PROVE  RowTrue(recentActivity[i])'
    BY <1>1 DEF RowsInv
  <2> DEFINE row == recentActivity[i]
  <2>1. row.id \in Parts /\ RowTrue(row)
    BY RowsTyped DEF IInv, RowsInv, Rows
  <2>2. CASE row.id \in P
    BY <1>1, <2>1, <2>2 DEF RowTrue, InFlight
  <2>3. CASE row.id \notin P
    BY <1>1, <2>1, <2>3 DEF RowTrue
  <2> QED BY <2>2, <2>3
<1> QED BY <1>1, <1>3, <1>4, <1>5, RowsTyped DEF IInv, TypeOK

-----------------------------------------------------------------------------
(***************************************************************************)
(* The actions have these shapes.                                          *)
(***************************************************************************)

\* Browsers are resolved among those with an open socket.
LEMMA ResolvedAreOpen ==
    ASSUME NEW t
    PROVE  /\ Resolve(t) \subseteq Open /\ FanOutTargets(t) \subseteq Open
           /\ Open \subseteq Browsers
BY DEF Resolve, FanOutTargets, Open

\* The rest of sendToolRequest overwrites no other entry: its id is new.
LEMMA WithAdds ==
    ASSUME EntriesWait, NEW P \in SUBSET Parts
    PROVE  With(P) = pendingRequests \cup {Entry(p) : p \in P}
<1>1. ASSUME NEW e \in pendingRequests
      PROVE  e.id = e.part /\ e = Entry(e.part)
  BY DEF EntriesWait, Entry, BoundId
<1>2. \A e \in pendingRequests : e.id \in {BoundId(p) : p \in P} => e \in {Entry(p) : p \in P}
  BY <1>1 DEF BoundId
<1> QED BY <1>2 DEF With, Without

\* Marking parts in flight moves them (markPending, and the timers).
LEMMA MarkedMoves ==
    ASSUME TypeOK, NEW P \in SUBSET Parts, NEW st,
           st \in InFlight \cup {"timeout", "wedged", "rejected", "dropped"},
           parts' = Marked(P, st)
    PROVE  /\ parts' \in [Parts -> PartRecords]
           /\ \A p \in Parts :
                 /\ p \in P => parts'[p].st = st /\ (st \in Outcomes => parts'[p].from = p)
                 /\ p \notin P => parts'[p] = parts[p]
<1>1. [st |-> st, from |-> None] \in PartRecords /\ st \notin Outcomes
  BY DEF PartRecords, InFlight, Final, Outcomes
<1>2. Marked(P, st) \in [Parts -> PartRecords]
  BY <1>1, MarkedParts
<1>3. ASSUME NEW p \in Parts
      PROVE  /\ p \in P => parts'[p] = [st |-> st, from |-> parts[p].from]
             /\ p \notin P => parts'[p] = parts[p]
  BY <1>1, MarkedParts
<1>4. ASSUME NEW p \in P
      PROVE  parts'[p].st = st
  <2>1. parts'[p] = [st |-> st, from |-> parts[p].from]
    BY <1>3
  <2> QED BY <2>1
<1> QED BY <1>1, <1>2, <1>3, <1>4

\* Rows that are left alone, and no row lost.
LEMMA RowsStay ==
    ASSUME TypeOK, recentActivity' = recentActivity
    PROVE  /\ recentActivity' \in Seq(Rows) /\ Len(recentActivity') <= MaxRows
           /\ \A i \in DOMAIN recentActivity' :
                 \E j \in DOMAIN recentActivity : recentActivity'[i] = recentActivity[j]
BY RowsTyped DEF TypeOK

\* Rows of the finite set T of browsers.
LEMMA RowsStart ==
    ASSUME TypeOK, NEW c \in Calls, NEW T \in SUBSET Browsers, IsFiniteSet(T),
           recentActivity' = StartRequests(recentActivity, {c} \X T)
    PROVE  /\ recentActivity' \in Seq(Rows) /\ Len(recentActivity') <= MaxRows
           /\ \A i \in DOMAIN recentActivity' :
                 \/ \E j \in DOMAIN recentActivity : recentActivity'[i] = recentActivity[j]
                 \/ /\ recentActivity'[i].id \in {c} \X T
                    /\ recentActivity'[i].status = "pending"
<1>1. IsFiniteSet({c})
  BY FS_Singleton
<1>2. IsFiniteSet({c} \X T)
  BY <1>1, FS_Product
<1>3. {c} \X T \in SUBSET Parts
  BY DEF Parts
<1> QED BY <1>2, <1>3, RowsTyped, StartRequestsRows

\* A call that is sent to one browser starts (sendToolRequest).
LEMMA SendToStarts ==
    ASSUME IInv, NEW c \in Calls, NEW t \in Targets \cup {None}, NEW b \in Browsers,
           calls[c].st \in {"idle", "waiting"}, SendTo(c, t, b)
    PROVE  Starts(c, {b}, "pending") /\ calls'[c].reply = calls[c].reply
<1>1. {<<c, b>>} = {c} \X {b} /\ {<<c, b>>} \in SUBSET Parts
  BY DEF Parts
<1>2. /\ Called(c, t, "open", {b}) \in CallRecords
      /\ Called(c, t, "open", {b}).st = "open"
      /\ Called(c, t, "open", {b}).addressed = {b}
      /\ Called(c, t, "open", {b}).reply = calls[c].reply
  BY CalledCall DEF IInv
<1>3. /\ calls' = [calls EXCEPT ![c] = Called(c, t, "open", {b})]
      /\ parts' = Marked({<<c, b>>}, "pending")
      /\ pendingRequests' = With({<<c, b>>})
      /\ asked' = asked \cup {Entry(<<c, b>>)}
      /\ recentActivity' = StartRequests(recentActivity, {<<c, b>>})
  BY DEF SendTo
<1>4. /\ calls' \in [Calls -> CallRecords]
      /\ calls'[c] = Called(c, t, "open", {b})
      /\ \A k \in Calls \ {c} : calls'[k] = calls[k]
  BY <1>2, <1>3 DEF IInv, TypeOK
<1>5. PartsMove({<<c, b>>}, "pending")
  <2>1. pendingRequests' = pendingRequests \cup {Entry(p) : p \in {<<c, b>>}}
    BY <1>1, <1>3, WithAdds DEF IInv
  <2>2. asked' \subseteq asked \cup {Entry(p) : p \in {<<c, b>>}}
    BY <1>3
  <2>3. "pending" \in InFlight
    BY DEF InFlight
  <2>4. /\ parts' \in [Parts -> PartRecords]
        /\ \A p \in Parts :
              /\ p \in {<<c, b>>} => /\ parts'[p].st = "pending"
                                     /\ "pending" \in Outcomes => parts'[p].from = p
              /\ p \notin {<<c, b>>} => parts'[p] = parts[p]
    BY <1>1, <1>3, <2>3, MarkedMoves DEF IInv
  <2> QED BY <1>1, <2>1, <2>2, <2>3, <2>4 DEF PartsMove
<1>6. IsFiniteSet({b})
  BY FS_Singleton
<1>7. {b} \in SUBSET Browsers
  OBVIOUS
<1>8. /\ recentActivity' \in Seq(Rows) /\ Len(recentActivity') <= MaxRows
      /\ \A i \in DOMAIN recentActivity' :
            \/ \E j \in DOMAIN recentActivity : recentActivity'[i] = recentActivity[j]
            \/ /\ recentActivity'[i].id \in {c} \X {b}
               /\ recentActivity'[i].status = "pending"
  BY <1>1, <1>3, <1>6, <1>7, RowsStart DEF IInv
<1> QED BY <1>1, <1>2, <1>4, <1>5, <1>8 DEF Starts, InFlight

\* A call that no browser can take waits or is refused.
LEMMA RefusalStarts ==
    ASSUME IInv, NEW c \in Calls, calls[c].st \in {"idle", "waiting"},
           calls' \in [Calls -> CallRecords], calls'[c].addressed = {},
           \A k \in Calls \ {c} : calls'[k] = calls[k],
           UNCHANGED <<parts, pendingRequests, asked, recentActivity>>
    PROVE  Starts(c, {}, "pending")
<1>1. {c} \X {} = {}
  OBVIOUS
<1>2. PartsMove({}, "pending")
  BY DEF IInv, TypeOK, PartsMove, InFlight
<1>3. /\ recentActivity' \in Seq(Rows) /\ Len(recentActivity') <= MaxRows
      /\ \A i \in DOMAIN recentActivity' :
            \E j \in DOMAIN recentActivity : recentActivity'[i] = recentActivity[j]
  BY RowsStay DEF IInv
<1> QED BY <1>1, <1>2, <1>3 DEF Starts, InFlight

\* What becomes of the calls when one is refused: it is answered if its client
\* is there.
Refuses(c) ==
    /\ calls' \in [Calls -> CallRecords] /\ calls'[c].addressed = {}
    /\ \A k \in Calls \ {c} : calls'[k] = calls[k]
    /\ calls'[c].st = IF ClientOf[c] \in clients THEN "replied" ELSE "unheard"
    /\ calls'[c].reply = IF ClientOf[c] \in clients THEN NoBrowser ELSE calls[c].reply

Refused(c) ==
    /\ Refuses(c)
    /\ UNCHANGED <<clients, browsers, parts, pendingRequests, asked, recentActivity>>

Waits(c) ==
    /\ calls' \in [Calls -> CallRecords] /\ calls'[c].addressed = {}
    /\ \A k \in Calls \ {c} : calls'[k] = calls[k]
    /\ calls'[c].st = "waiting" /\ calls'[c].reply = calls[c].reply
    /\ UNCHANGED <<clients, browsers, parts, pendingRequests, asked, recentActivity>>

\* A tools/call of a single browser is sent, or waits, or is refused.
LEMMA CallToolSteps ==
    ASSUME IInv, NEW c \in Calls, NEW t \in Targets, CallTool(c, t)
    PROVE  /\ calls[c].st = "idle" /\ ClientOf[c] \in clients
           /\ UNCHANGED <<clients, browsers>>
           /\ \/ \E b \in Browsers : SendTo(c, t, b)
              \/ Waits(c) \/ Refused(c)
<1>1. calls[c].st = "idle" /\ ClientOf[c] \in clients /\ UNCHANGED <<clients, browsers>>
  BY DEF CallTool, CanCall
<1>2. CASE \E b \in Resolve(t) : SendTo(c, t, b)
  BY <1>1, <1>2, ResolvedAreOpen
<1>3. CASE /\ \/ calls' = [calls EXCEPT ![c] = Called(c, t, "waiting", {})]
              \/ calls' = [calls EXCEPT ![c] =
                             Replied(c, Called(c, t, "waiting", {}), NoBrowser)]
           /\ UNCHANGED <<parts, pendingRequests, asked, recentActivity>>
  <2> DEFINE call == Called(c, t, "waiting", {})
             refused == Replied(c, call, NoBrowser)
  <2>1. /\ call \in CallRecords /\ call.st = "waiting" /\ call.addressed = {}
        /\ call.reply = calls[c].reply
    BY CalledCall DEF IInv
  <2> HIDE DEF call
  <2>2. /\ refused \in CallRecords /\ refused.addressed = {}
        /\ refused.st = IF ClientOf[c] \in clients THEN "replied" ELSE "unheard"
        /\ refused.reply = IF ClientOf[c] \in clients THEN NoBrowser ELSE calls[c].reply
    BY <2>1, NoBrowserReply, RepliedCall
  <2> HIDE DEF refused
  <2>3. CASE calls' = [calls EXCEPT ![c] = call]
    BY <1>1, <1>3, <2>1, <2>3 DEF Waits, IInv, TypeOK
  <2>4. CASE calls' = [calls EXCEPT ![c] = refused]
    BY <1>1, <1>3, <2>2, <2>4 DEF Refused, Refuses, IInv, TypeOK
  <2> QED BY <1>3, <1>1, <2>3, <2>4 DEF call, refused
<1> QED BY <1>2, <1>3 DEF CallTool

\* A poll of the wait sends the call or refuses it.
LEMMA PollSteps ==
    ASSUME IInv, NEW c \in Calls, Poll(c)
    PROVE  /\ calls[c].st = "waiting" /\ UNCHANGED <<clients, browsers>>
           /\ \/ \E t \in Targets \cup {None}, b \in Browsers : SendTo(c, t, b)
              \/ Refused(c)
<1>1. calls[c].st = "waiting" /\ UNCHANGED <<clients, browsers>>
  BY DEF Poll
<1>2. calls[c] \in CallRecords /\ calls[c].addressed = {}
  BY <1>1 DEF IInv, TypeOK, PartsAddressed
<1>3. calls[c].target \in Targets \cup {None}
  BY <1>2 DEF CallRecords
<1>4. CASE \E b \in Resolve(calls[c].target) : SendTo(c, calls[c].target, b)
  BY <1>1, <1>3, <1>4, ResolvedAreOpen
<1>5. CASE /\ calls' = [calls EXCEPT ![c] = Replied(c, calls[c], NoBrowser)]
           /\ UNCHANGED <<parts, pendingRequests, asked, recentActivity>>
  <2> DEFINE refused == Replied(c, calls[c], NoBrowser)
  <2>1. /\ refused \in CallRecords /\ refused.addressed = {}
        /\ refused.st = IF ClientOf[c] \in clients THEN "replied" ELSE "unheard"
        /\ refused.reply = IF ClientOf[c] \in clients THEN NoBrowser ELSE calls[c].reply
    BY <1>2, NoBrowserReply, RepliedCall
  <2> HIDE DEF refused
  <2>2. calls' = [calls EXCEPT ![c] = refused]
    BY <1>5 DEF refused
  <2>3. Refused(c)
    BY <1>1, <1>5, <2>1, <2>2 DEF Refused, Refuses, IInv, TypeOK
  <2> QED BY <1>1, <2>3
<1> QED BY <1>4, <1>5 DEF Poll

\* list_tabs probes every open browser of the brand, or is refused.
LEMMA ListTabsSteps ==
    ASSUME IInv, NEW c \in Calls, NEW t \in Targets, ListTabs(c, t)
    PROVE  /\ calls[c].st = "idle" /\ ClientOf[c] \in clients
           /\ UNCHANGED <<clients, browsers>>
           /\ Starts(c, FanOutTargets(t), "probing")
           /\ \A p \in Parts : p[1] # c => parts'[p] = parts[p]
           /\ IF FanOutTargets(t) = {}
              THEN calls'[c].st = "replied" /\ calls'[c].reply = NoBrowser
              ELSE calls'[c].st = "open" /\ calls'[c].reply = calls[c].reply
<1> DEFINE T == FanOutTargets(t)
           call == Called(c, t, "open", T)
           refused == Replied(c, call, NoBrowser)
<1>1. calls[c].st = "idle" /\ ClientOf[c] \in clients /\ UNCHANGED <<clients, browsers>>
  BY DEF ListTabs, CanCall
<1>2. T \in SUBSET Browsers /\ IsFiniteSet(T)
  BY ResolvedAreOpen, FS_Subset DEF IInv, FiniteOpen
<1>3. /\ calls' = [calls EXCEPT ![c] = IF T = {} THEN refused ELSE call]
      /\ parts' = Marked({c} \X T, "probing")
      /\ recentActivity' = StartRequests(recentActivity, {c} \X T)
      /\ UNCHANGED <<pendingRequests, asked>>
  BY DEF ListTabs
<1> HIDE DEF T
<1>4. /\ call \in CallRecords /\ call.st = "open" /\ call.addressed = T
      /\ call.reply = calls[c].reply
  BY <1>2, CalledCall DEF IInv
<1> HIDE DEF call
<1>5. /\ refused \in CallRecords /\ refused.addressed = T
      /\ refused.st = "replied" /\ refused.reply = NoBrowser
  BY <1>1, <1>4, NoBrowserReply, RepliedCall
<1> HIDE DEF refused
<1>6. /\ calls' \in [Calls -> CallRecords]
      /\ calls'[c] = IF T = {} THEN refused ELSE call
      /\ \A k \in Calls \ {c} : calls'[k] = calls[k]
  BY <1>3, <1>4, <1>5 DEF IInv, TypeOK
<1>7. {c} \X T \in SUBSET Parts
  BY <1>2 DEF Parts
<1>8. "probing" \in InFlight
  BY DEF InFlight
<1>9. /\ parts' \in [Parts -> PartRecords]
      /\ \A p \in Parts :
            /\ p \in {c} \X T => /\ parts'[p].st = "probing"
                                 /\ "probing" \in Outcomes => parts'[p].from = p
            /\ p \notin {c} \X T => parts'[p] = parts[p]
  BY <1>3, <1>7, <1>8, MarkedMoves DEF IInv
<1>10. ASSUME NEW e \in pendingRequests
       PROVE  e.part \notin {c} \X T
  <2>1. e.part \in Parts /\ parts[e.part].st = "pending"
    BY DEF IInv, EntriesWait
  <2>2. PICK k \in Calls, b \in Browsers : e.part = <<k, b>>
    BY <2>1 DEF Parts
  <2>3. calls[k].st = "open"
    BY <2>1, <2>2 DEF IInv, InFlightIsOpen, InFlight
  <2> QED BY <1>1, <2>2, <2>3
<1>11. PartsMove({c} \X T, "probing")
  <2>1. pendingRequests' = {e \in pendingRequests : e.part \notin {c} \X T}
    BY <1>3, <1>10
  <2> QED BY <1>3, <1>7, <1>8, <1>9, <2>1 DEF PartsMove
<1>12. /\ recentActivity' \in Seq(Rows) /\ Len(recentActivity') <= MaxRows
       /\ \A i \in DOMAIN recentActivity' :
             \/ \E j \in DOMAIN recentActivity : recentActivity'[i] = recentActivity[j]
             \/ /\ recentActivity'[i].id \in {c} \X T
                /\ recentActivity'[i].status = "pending"
  BY <1>2, <1>3, RowsStart DEF IInv
<1>13. Starts(c, T, "probing")
  BY <1>1, <1>2, <1>4, <1>5, <1>6, <1>8, <1>11, <1>12 DEF Starts
<1>14. \A p \in Parts : p[1] # c => parts'[p] = parts[p]
  BY <1>9
<1> QED BY <1>1, <1>4, <1>5, <1>6, <1>13, <1>14 DEF T

\* Rows of requests that get a result.
LEMMA RowsFinish ==
    ASSUME TypeOK, NEW P, NEW status \in {"success", "error", "timeout"},
           recentActivity' = FinishRequests(recentActivity, P, status)
    PROVE  /\ recentActivity' \in Seq(Rows) /\ Len(recentActivity') <= MaxRows
           /\ DOMAIN recentActivity' = DOMAIN recentActivity
           /\ \A i \in DOMAIN recentActivity :
                 /\ recentActivity'[i].id = recentActivity[i].id
                 /\ recentActivity'[i].status = IF recentActivity[i].id \in P THEN status
                                                ELSE recentActivity[i].status
<1>1. recentActivity \in Seq(Rows) /\ Len(recentActivity) <= MaxRows
  BY RowsTyped DEF TypeOK
<1> QED BY <1>1, FinishRequestsRows

\* Parts in flight that are marked with a final state, and their entries gone.
LEMMA MarkedSettles ==
    ASSUME IInv, NEW P \in SUBSET Parts, NEW st \in {"timeout", "wedged", "rejected"},
           NEW status \in {"error", "timeout"},
           status = "timeout" <=> st \in {"timeout", "wedged"},
           \A p \in P : parts[p].st \in InFlight,
           Settle(Marked(P, st)),
           pendingRequests' = {e \in pendingRequests : e.part \notin P},
           asked' = asked,
           recentActivity' = FinishRequests(recentActivity, P, status)
    PROVE  Settles(P, st, status)
<1>1. /\ parts' = Marked(P, st)
      /\ calls' = [c \in Calls |-> IF Answered(c, parts')
                                   THEN Replied(c, calls[c], ReplyTo(c, parts'))
                                   ELSE calls[c]]
  BY Zenon DEF Settle, Answered
<1>2. /\ parts' \in [Parts -> PartRecords]
      /\ \A p \in Parts :
            /\ p \in P => parts'[p].st = st /\ (st \in Outcomes => parts'[p].from = p)
            /\ p \notin P => parts'[p] = parts[p]
  BY <1>1, MarkedMoves DEF IInv
<1>3. PartsMove(P, st)
  BY <1>2 DEF PartsMove, Final
<1>4. /\ recentActivity' \in Seq(Rows) /\ Len(recentActivity') <= MaxRows
      /\ DOMAIN recentActivity' = DOMAIN recentActivity
      /\ \A i \in DOMAIN recentActivity :
            /\ recentActivity'[i].id = recentActivity[i].id
            /\ recentActivity'[i].status = IF recentActivity[i].id \in P THEN status
                                           ELSE recentActivity[i].status
  BY RowsFinish DEF IInv
<1> QED BY <1>1, <1>3, <1>4 DEF Settles, Final

\* The probe of a fan-out target fails.
LEMMA ProbeTimeoutSettles ==
    ASSUME IInv, NEW p \in Parts, ProbeTimeout(p)
    PROVE  Settles({p}, "wedged", "timeout")
<1>1. /\ parts[p].st \in InFlight /\ parts[p].st # "pending"
      /\ Settle(Marked({p}, "wedged"))
      /\ recentActivity' = FinishRequests(recentActivity, {p}, "timeout")
      /\ pendingRequests' = pendingRequests /\ asked' = asked
  BY DEF ProbeTimeout, InFlight
<1>2. pendingRequests' = {e \in pendingRequests : e.part \notin {p}}
  BY <1>1 DEF IInv, EntriesWait
<1> QED BY <1>1, <1>2, MarkedSettles

\* A request times out, and its entry leaves the map.
LEMMA RequestTimeoutSettles ==
    ASSUME IInv, NEW p \in Parts, RequestTimeout(p)
    PROVE  Settles({p}, "timeout", "timeout")
<1>1. /\ parts[p].st \in InFlight
      /\ Settle(Marked({p}, "timeout"))
      /\ recentActivity' = FinishRequests(recentActivity, {p}, "timeout")
      /\ pendingRequests' = {e \in pendingRequests : e.id \notin {p}} /\ asked' = asked
  BY DEF RequestTimeout, InFlight, Without, TimeoutRemoves, BoundId
<1>2. ASSUME NEW e \in pendingRequests
      PROVE  e.id = e.part
  BY DEF IInv, EntriesWait, Entry, BoundId
<1>3. pendingRequests' = {e \in pendingRequests : e.part \notin {p}}
  BY <1>1, <1>2
<1> QED BY <1>1, <1>3, MarkedSettles

\* A superseded browser's requests are rejected.
LEMMA BrowserReplacedSettles ==
    ASSUME IInv, NEW b \in Browsers, BrowserReplaced(b)
    PROVE  \E P \in SUBSET Parts :
              /\ Settles(P, "rejected", "error")
              /\ \A p \in P : parts[p].st = "pending"
<1> DEFINE gone == {e \in pendingRequests : RoutedTo(e, b)}
           P == {e.part : e \in gone}
<1>1. /\ pendingRequests' = pendingRequests \ gone
      /\ Settle(Marked(P, "rejected"))
      /\ recentActivity' = FinishRequests(recentActivity, P, "error")
      /\ asked' = asked
  BY DEF BrowserReplaced, Rejected
<1>2. ASSUME NEW e \in pendingRequests
      PROVE  e.part \in Parts /\ e = Entry(e.part) /\ parts[e.part].st = "pending"
  BY DEF IInv, EntriesWait
<1>3. P \in SUBSET Parts /\ \A p \in P : parts[p].st = "pending"
  BY <1>2
<1>4. ASSUME NEW e \in pendingRequests
      PROVE  e \in gone <=> e.part \in P
  <2>1. ASSUME NEW f \in gone, f.part = e.part
        PROVE  e \in gone
    <3>1. e = Entry(e.part) /\ f = Entry(f.part)
      BY <1>2
    <3> QED BY <2>1, <3>1
  <2> HIDE DEF gone
  <2> QED BY <2>1
<1>5. pendingRequests' = {e \in pendingRequests : e.part \notin P}
  BY <1>1, <1>4
<1> HIDE DEF P, gone
<1>6. Settles(P, "rejected", "error")
  BY <1>1, <1>3, <1>5, MarkedSettles DEF InFlight
<1> QED BY <1>3, <1>6

\* An answer settles its own request, if that still waits.
LEMMA ToolResponseSettles ==
    ASSUME IInv, NEW m \in asked, NEW o \in Outcomes, ToolResponse(m, o)
    PROVE  \E P \in SUBSET Parts, status \in {"success", "error"} :
              Settles(P, o, status) /\ \A p \in P : parts[p].st = "pending"
<1> DEFINE known == {e \in pendingRequests : e.id = m.id}
           p == m.part
           P == IF Entry(p) \in pendingRequests THEN {p} ELSE {}
           status == RowStatus(p, o)
<1>1. p \in Parts /\ m = Entry(p) /\ m.id = p
  BY DEF IInv, AskedWereSent, Entry, BoundId
<1>2. ASSUME NEW e \in pendingRequests
      PROVE  /\ e.part \in Parts /\ e = Entry(e.part) /\ e.id = e.part
             /\ parts[e.part].st = "pending"
  BY DEF IInv, EntriesWait, Entry, BoundId
<1>3. known = {Entry(q) : q \in P} /\ known \subseteq pendingRequests
  BY <1>1, <1>2
<1>4. ASSUME NEW q \in Parts
      PROVE  (\E e \in known : e.part = q) <=> q \in P
  BY <1>1, <1>3 DEF Entry
<1>5. P \in SUBSET Parts /\ \A q \in P : parts[q].st = "pending" /\ q = p
  BY <1>1, <1>2 DEF Entry
<1>6. pendingRequests' = {e \in pendingRequests : e.part \notin P}
  <2>1. pendingRequests' = pendingRequests \ known
    BY Zenon DEF ToolResponse
  <2>2. ASSUME NEW e \in pendingRequests
        PROVE  e \in known <=> e.part \in P
    BY <1>1, <1>2
  <2> QED BY <2>1, <2>2
<1>7. [st |-> o, from |-> p] \in PartRecords
  BY <1>1 DEF PartRecords, Final
<1> DEFINE np == [q \in Parts |-> IF \E e \in known : e.part = q
                                  THEN [st |-> o, from |-> m.part] ELSE parts[q]]
<1>8. Settle(np)
  BY Zenon DEF ToolResponse
<1>9. ASSUME NEW q \in Parts
      PROVE  np[q] = IF q \in P THEN [st |-> o, from |-> p] ELSE parts[q]
  BY <1>4
<1>10. np = [q \in Parts |-> np[q]]
  OBVIOUS
<1> HIDE DEF np, P
<1>11. np \in [Parts -> PartRecords]
  BY <1>7, <1>9, <1>10 DEF IInv, TypeOK
<1>12. /\ parts' = np
       /\ calls' = [c \in Calls |-> IF Answered(c, parts')
                                    THEN Replied(c, calls[c], ReplyTo(c, parts'))
                                    ELSE calls[c]]
  BY <1>8, Zenon DEF Settle, Answered
<1>13. PartsMove(P, o)
  <2>1. ASSUME NEW q \in Parts
        PROVE  /\ q \in P => parts'[q].st = o /\ parts'[q].from = q
               /\ q \notin P => parts'[q] = parts[q]
    BY <1>5, <1>9, <1>12
  <2>2. asked' \subseteq asked
    BY DEF ToolResponse
  <2>3. o \in Final /\ o # "pending"
    BY DEF Final, Outcomes
  <2> QED BY <1>5, <1>6, <1>11, <1>12, <2>1, <2>2, <2>3 DEF PartsMove
<1>14. status \in {"success", "error"}
  BY DEF RowStatus
<1> HIDE DEF status
<1>15. /\ recentActivity' \in Seq(Rows) /\ Len(recentActivity') <= MaxRows
       /\ DOMAIN recentActivity' = DOMAIN recentActivity
       /\ \A i \in DOMAIN recentActivity :
             /\ recentActivity'[i].id = recentActivity[i].id
             /\ recentActivity'[i].status = IF recentActivity[i].id \in P THEN status
                                            ELSE recentActivity[i].status
  <2>1. CASE known = {}
    <3>1. recentActivity' = recentActivity
      BY <2>1 DEF ToolResponse
    <3>2. P = {}
      BY <1>5, <1>4, <2>1
    <3> QED BY <3>1, <3>2, RowsTyped DEF IInv, TypeOK
  <2>2. CASE known # {}
    <3>1. known = {m} /\ P = {p}
      BY <1>1, <1>3, <2>2 DEF P
    <3>2. (CHOOSE e \in known : TRUE) = m
      BY <3>1
    <3>3. recentActivity' = FinishRequests(recentActivity, {p}, status)
      <4>1. recentActivity' =
               FinishRequests(recentActivity, {(CHOOSE e \in known : TRUE).part},
                              RowStatus((CHOOSE e \in known : TRUE).part, o))
        BY <2>2 DEF ToolResponse
      <4> QED BY <4>1, <3>2 DEF status
    <3> QED BY <3>1, <3>3, <1>14, RowsFinish DEF IInv
  <2> QED BY <2>1, <2>2
<1>16. Settles(P, o, status)
  BY <1>5, <1>12, <1>13, <1>14, <1>15 DEF Settles, Final, Outcomes, InFlight
<1> QED BY <1>5, <1>14, <1>16

\* A pong sends the requests of the probes that waited for it.
LEMMA ServerPongGoes ==
    ASSUME IInv, NEW b \in Browsers, ServerPong(b)
    PROVE  Goes(Probing(b), "pending")
<1>1. /\ parts' = Marked(Probing(b), "pending")
      /\ pendingRequests' = With(Probing(b))
      /\ asked' = asked \cup {Entry(p) : p \in Probing(b)}
      /\ UNCHANGED <<calls, recentActivity>>
  BY DEF ServerPong
<1>2. Probing(b) \in SUBSET Parts /\ \A p \in Probing(b) : parts[p].st \in InFlight
  BY DEF Probing, InFlight
<1>3. "pending" \in InFlight
  BY DEF InFlight
<1> HIDE DEF Probing
<1>4. /\ parts' \in [Parts -> PartRecords]
      /\ \A p \in Parts :
            /\ p \in Probing(b) => /\ parts'[p].st = "pending"
                                   /\ "pending" \in Outcomes => parts'[p].from = p
            /\ p \notin Probing(b) => parts'[p] = parts[p]
  BY <1>1, <1>2, <1>3, MarkedMoves DEF IInv
<1>5. pendingRequests' = pendingRequests \cup {Entry(p) : p \in Probing(b)}
  BY <1>1, <1>2, WithAdds DEF IInv
<1>6. PartsMove(Probing(b), "pending")
  BY <1>1, <1>2, <1>3, <1>4, <1>5 DEF PartsMove
<1> QED BY <1>1, <1>2, <1>3, <1>6 DEF Goes

\* Parts that were not sent, or whose entries go, in flight or dropped.
LEMMA MarkedGoes ==
    ASSUME IInv, NEW P \in SUBSET Parts, NEW st \in {"deaf", "dropped"},
           \A p \in P : parts[p].st \in InFlight,
           parts' = Marked(P, st),
           pendingRequests' = {e \in pendingRequests : e.part \notin P},
           UNCHANGED <<calls, asked, recentActivity>>
    PROVE  Goes(P, st)
<1>1. st \in InFlight \cup {"dropped"}
  BY DEF InFlight
<1>2. /\ parts' \in [Parts -> PartRecords]
      /\ \A p \in Parts :
            /\ p \in P => parts'[p].st = st /\ (st \in Outcomes => parts'[p].from = p)
            /\ p \notin P => parts'[p] = parts[p]
  BY <1>1, MarkedMoves DEF IInv
<1>3. PartsMove(P, st)
  BY <1>1, <1>2 DEF PartsMove
<1> QED BY <1>1, <1>3 DEF Goes

\* A socket that closes leaves the requests sent alone, and the probes deaf.
LEMMA BrowserClosesGoes ==
    ASSUME IInv, NEW b \in Browsers, NEW current \in BOOLEAN, BrowserCloses(b, current)
    PROVE  Goes(Probing(b), "deaf")
<1>1. /\ parts' = Marked(Probing(b), "deaf")
      /\ UNCHANGED <<calls, pendingRequests, asked, recentActivity>>
  BY DEF BrowserCloses
<1>2. Probing(b) \in SUBSET Parts /\ \A p \in Probing(b) : parts[p].st \in InFlight
  BY DEF Probing, InFlight
<1>3. pendingRequests' = {e \in pendingRequests : e.part \notin Probing(b)}
  BY <1>1 DEF IInv, EntriesWait, Probing
<1> HIDE DEF Probing
<1> QED BY <1>1, <1>2, <1>3, MarkedGoes

\* A client that leaves takes the entries of its requests with it.
LEMMA McpClientClosedGoes ==
    ASSUME IInv, NEW m \in Clients, McpClientClosed(m)
    PROVE  \E P \in SUBSET Parts :
              Goes(P, "dropped") /\ \A p \in P : parts[p].st = "pending"
<1> DEFINE gone == EntriesOf(m)
           P == {e.part : e \in gone}
<1>1. /\ parts' = Marked(P, "dropped")
      /\ pendingRequests' = pendingRequests \ gone
      /\ UNCHANGED <<calls, asked, recentActivity>>
  BY DEF McpClientClosed
<1>2. gone = {e \in pendingRequests : ClientOf[e.part[1]] = m}
  BY DEF EntriesOf
<1> HIDE DEF gone
<1>3. \A e \in pendingRequests : e.part \in Parts /\ parts[e.part].st = "pending"
  BY DEF IInv, EntriesWait
<1>4. P \in SUBSET Parts /\ \A p \in P : parts[p].st = "pending"
  BY <1>2, <1>3
<1>5. \A e \in pendingRequests : e \in gone <=> e.part \in P
  BY <1>2
<1>6. pendingRequests' = {e \in pendingRequests : e.part \notin P}
  BY <1>1, <1>5
<1> HIDE DEF P
<1>7. Goes(P, "dropped")
  BY <1>1, <1>4, <1>6, MarkedGoes DEF InFlight
<1> QED BY <1>4, <1>7

\* A browser that comes moves no request.
LEMMA BrowserConnectsGoes ==
    ASSUME IInv, NEW b \in Browsers, BrowserConnects(b)
    PROVE  Goes({}, "dropped")
<1>1. UNCHANGED <<calls, parts, pendingRequests, asked, recentActivity>>
  BY DEF BrowserConnects
<1>2. PartsMove({}, "dropped")
  BY <1>1 DEF IInv, TypeOK, PartsMove
<1> QED BY <1>1, <1>2 DEF Goes

-----------------------------------------------------------------------------
(***************************************************************************)
(* The invariant is inductive.                                             *)
(***************************************************************************)

\* What a step of Next is, in these terms.
Step ==
    \/ \E c \in Calls, T \in SUBSET Browsers, st \in InFlight : Starts(c, T, st)
    \/ \E P \in SUBSET Parts, st \in Final, status \in {"success", "error", "timeout"} :
          Settles(P, st, status)
    \/ \E P \in SUBSET Parts, st \in InFlight \cup {"dropped"} : Goes(P, st)

\* Every handler and timer starts a call, settles requests, or leaves them in
\* flight.
LEMMA NextSteps ==
    ASSUME IInv, Next
    PROVE  Step
<1>1. ASSUME NEW c \in Calls, NEW t \in Targets, CallTool(c, t)
      PROVE  Step
  <2>1. CASE \E b \in Browsers : SendTo(c, t, b)
    <3>1. PICK b \in Browsers : SendTo(c, t, b)
      BY <2>1
    <3>2. Starts(c, {b}, "pending")
      BY <1>1, <3>1, CallToolSteps, SendToStarts
    <3> QED BY <3>2 DEF Step, InFlight
  <2>2. CASE Waits(c) \/ Refused(c)
    <3>1. Starts(c, {}, "pending")
      BY <1>1, <2>2, CallToolSteps, RefusalStarts DEF Waits, Refused, Refuses
    <3> QED BY <3>1 DEF Step, InFlight
  <2> QED BY <1>1, <2>1, <2>2, CallToolSteps
<1>2. ASSUME NEW c \in Calls, NEW t \in Targets, ListTabs(c, t)
      PROVE  Step
  <2>1. Starts(c, FanOutTargets(t), "probing")
    BY <1>2, ListTabsSteps
  <2> QED BY <2>1, ResolvedAreOpen DEF Step, InFlight
<1>3. ASSUME NEW c \in Calls, Poll(c)
      PROVE  Step
  <2>1. CASE \E t \in Targets \cup {None}, b \in Browsers : SendTo(c, t, b)
    <3>1. PICK t \in Targets \cup {None}, b \in Browsers : SendTo(c, t, b)
      BY <2>1
    <3>2. Starts(c, {b}, "pending")
      BY <1>3, <3>1, PollSteps, SendToStarts
    <3> QED BY <3>2 DEF Step, InFlight
  <2>2. CASE Refused(c)
    <3>1. Starts(c, {}, "pending")
      BY <1>3, <2>2, PollSteps, RefusalStarts DEF Refused, Refuses
    <3> QED BY <3>1 DEF Step, InFlight
  <2> QED BY <1>3, <2>1, <2>2, PollSteps
<1>4. ASSUME NEW m \in Clients, McpClientClosed(m)
      PROVE  Step
  BY <1>4, McpClientClosedGoes DEF Step
<1>5. ASSUME NEW b \in Browsers, ServerPong(b)
      PROVE  Step
  <2>1. Goes(Probing(b), "pending") /\ Probing(b) \in SUBSET Parts
    BY <1>5, ServerPongGoes DEF Probing
  <2> QED BY <2>1 DEF Step, InFlight
<1>6. ASSUME NEW p \in Parts, ProbeTimeout(p)
      PROVE  Step
  BY <1>6, ProbeTimeoutSettles DEF Step, Final
<1>7. ASSUME NEW p \in Parts, RequestTimeout(p)
      PROVE  Step
  BY <1>7, RequestTimeoutSettles DEF Step, Final
<1>8. ASSUME NEW m \in asked, NEW o \in Outcomes, ToolResponse(m, o)
      PROVE  Step
  BY <1>8, ToolResponseSettles DEF Step, Final
<1>9. ASSUME NEW b \in Browsers, BrowserReplaced(b)
      PROVE  Step
  BY <1>9, BrowserReplacedSettles DEF Step, Final
<1>10. ASSUME NEW b \in Browsers, BrowserConnects(b)
       PROVE  Step
  BY <1>10, BrowserConnectsGoes DEF Step
<1>11. ASSUME NEW b \in Browsers, NEW current \in BOOLEAN, BrowserCloses(b, current)
       PROVE  Step
  <2>1. Goes(Probing(b), "deaf") /\ Probing(b) \in SUBSET Parts
    BY <1>11, BrowserClosesGoes DEF Probing
  <2> QED BY <2>1 DEF Step, InFlight
<1> QED
  BY <1>1, <1>2, <1>3, <1>4, <1>5, <1>6, <1>7, <1>8, <1>9, <1>10, <1>11 DEF Next

\* Of the browsers a step opens one at most.
LEMMA BrowsersKept ==
    ASSUME IInv, Next
    PROVE  /\ browsers' \in [Browsers -> {"absent", "open", "closing"}]
           /\ clients' \subseteq Clients
           /\ FiniteOpen'
<1>1. /\ browsers \in [Browsers -> {"absent", "open", "closing"}]
      /\ clients \subseteq Clients
      /\ IsFiniteSet(Open)
  BY DEF IInv, TypeOK, FiniteOpen
<1>2. clients' \subseteq clients
  BY DEF Next, CallTool, ListTabs, Poll, McpClientClosed, ServerPong, ProbeTimeout,
         RequestTimeout, ToolResponse, BrowserConnects, BrowserReplaced, BrowserCloses
<1>3. \/ browsers' = browsers
      \/ \E b \in Browsers, to \in {"absent", "open", "closing"} :
            browsers' = [browsers EXCEPT ![b] = to]
  <2>1. ASSUME NEW c \in Calls, NEW t \in Targets, CallTool(c, t) \/ ListTabs(c, t)
        PROVE  browsers' = browsers
    BY <2>1 DEF CallTool, ListTabs
  <2>2. ASSUME NEW c \in Calls, Poll(c)
        PROVE  browsers' = browsers
    BY <2>2 DEF Poll
  <2>3. ASSUME NEW m \in Clients, McpClientClosed(m)
        PROVE  browsers' = browsers
    BY <2>3 DEF McpClientClosed
  <2>4. ASSUME NEW b \in Browsers, ServerPong(b)
        PROVE  browsers' = browsers
    BY <2>4 DEF ServerPong
  <2>5. ASSUME NEW p \in Parts, ProbeTimeout(p)
        PROVE  \/ browsers' = browsers
               \/ \E b \in Browsers : browsers' = [browsers EXCEPT ![b] = "closing"]
    BY <2>5 DEF ProbeTimeout, Parts
  <2>6. ASSUME NEW p \in Parts, RequestTimeout(p)
        PROVE  browsers' = browsers
    BY <2>6 DEF RequestTimeout
  <2>7. ASSUME NEW m \in asked, NEW o \in Outcomes, ToolResponse(m, o)
        PROVE  browsers' = browsers
    BY <2>7 DEF ToolResponse
  <2>8. ASSUME NEW b \in Browsers, BrowserConnects(b) \/ BrowserReplaced(b)
        PROVE  browsers' = [browsers EXCEPT ![b] = "open"]
    BY <2>8 DEF BrowserConnects, BrowserReplaced
  <2>9. ASSUME NEW b \in Browsers, NEW current \in BOOLEAN, BrowserCloses(b, current)
        PROVE  browsers' = browsers \/ browsers' = [browsers EXCEPT ![b] = "absent"]
    BY <2>9 DEF BrowserCloses
  <2> QED BY <2>1, <2>2, <2>3, <2>4, <2>5, <2>6, <2>7, <2>8, <2>9 DEF Next
<1>4. CASE browsers' = browsers
  BY <1>1, <1>2, <1>4 DEF FiniteOpen, Open
<1>5. ASSUME NEW b \in Browsers, NEW to \in {"absent", "open", "closing"},
             browsers' = [browsers EXCEPT ![b] = to]
      PROVE  /\ browsers' \in [Browsers -> {"absent", "open", "closing"}]
             /\ FiniteOpen'
  <2>1. Open' \subseteq Open \cup {b}
    BY <1>1, <1>5 DEF Open
  <2>2. IsFiniteSet(Open \cup {b})
    BY <1>1, FS_AddElement
  <2> QED BY <1>1, <1>5, <2>1, <2>2, FS_Subset DEF FiniteOpen
<1> QED BY <1>1, <1>2, <1>3, <1>4, <1>5

\* Whatever requests, answers, timeouts, pongs, supersedes and departures come,
\* in any order, every step of Next keeps the invariant.
LEMMA NextKept ==
    ASSUME IInv, Next
    PROVE  IInv'
<1>1. /\ browsers' \in [Browsers -> {"absent", "open", "closing"}]
      /\ clients' \subseteq Clients /\ FiniteOpen'
  BY BrowsersKept
<1>2. ASSUME NEW P, NEW st, PartsMove(P, st),
             PartsAddressed', InFlightIsOpen', RowsInv',
             calls' \in [Calls -> CallRecords],
             recentActivity' \in Seq(Rows), Len(recentActivity') <= MaxRows
      PROVE  IInv'
  <2>1. /\ EntriesWait' /\ AskedWereSent' /\ AnsweredByItself'
        /\ pendingRequests' \subseteq Entries /\ asked' \subseteq Entries
    BY <1>2, EntriesKept DEF IInv
  <2>2. parts' \in [Parts -> PartRecords]
    BY <1>2 DEF PartsMove
  <2>3. TypeOK'
    BY <1>1, <1>2, <2>1, <2>2 DEF TypeOK, Rows
  <2> QED BY <1>1, <1>2, <2>1, <2>3 DEF IInv
<1>3. ASSUME NEW c \in Calls, NEW T \in SUBSET Browsers, NEW st \in InFlight,
             Starts(c, T, st)
      PROVE  IInv'
  <2> DEFINE P == {c} \X T
  <2>1. PartsMove(P, st)
    BY <1>3 DEF Starts
  <2>2. /\ PartsAddressed' /\ InFlightIsOpen' /\ RowsInv'
        /\ calls' \in [Calls -> CallRecords]
        /\ recentActivity' \in Seq(Rows) /\ Len(recentActivity') <= MaxRows
    BY <1>3, StartsKept
  <2> HIDE DEF P
  <2> QED BY <1>2, <2>1, <2>2
<1>4. ASSUME NEW P \in SUBSET Parts, NEW st \in Final,
             NEW status \in {"success", "error", "timeout"}, Settles(P, st, status)
      PROVE  IInv'
  BY <1>2, <1>4, SettlesKept DEF Settles
<1>5. ASSUME NEW P \in SUBSET Parts, NEW st \in InFlight \cup {"dropped"}, Goes(P, st)
      PROVE  IInv'
  BY <1>2, <1>5, GoesKept DEF Goes
<1> QED BY NextSteps, <1>3, <1>4, <1>5 DEF Step

\* IInv holds of every behaviour.
LEMMA IInvInvariant == Spec => []IInv
<1>1. Init => IInv
  <2> SUFFICES ASSUME Init
               PROVE  IInv
    OBVIOUS
  <2>1. Open = {}
    BY DEF Init, Open
  <2>2. FiniteOpen
    BY <2>1, FS_EmptySet DEF FiniteOpen
  <2>3. recentActivity \in Seq(Rows) /\ Len(recentActivity) = 0 /\ DOMAIN recentActivity = {}
    BY EmptySeq DEF Init
  <2>4. TypeOK
    BY <2>3, MaxRowsAssumption
    DEF Init, TypeOK, Rows, CallRecords, PartRecords
  <2>5. EntriesWait /\ AskedWereSent /\ AnsweredByItself
    BY DEF Init, EntriesWait, AskedWereSent, AnsweredByItself, Outcomes
  <2>6. PartsAddressed /\ InFlightIsOpen
    BY DEF Init, PartsAddressed, InFlightIsOpen, InFlight, Parts
  <2>7. RowsInv
    BY <2>3 DEF RowsInv
  <2> QED BY <2>2, <2>4, <2>5, <2>6, <2>7 DEF IInv
<1>2. ASSUME IInv, [Next]_vars
      PROVE  IInv'
  <2>1. CASE Next
    BY <1>2, <2>1, NextKept
  <2>2. CASE UNCHANGED vars
    BY <1>2, <2>2 DEF vars, IInv, TypeOK, FiniteOpen, Open, EntriesWait, AskedWereSent,
       AnsweredByItself, PartsAddressed, InFlightIsOpen, RowsInv, RowTrue
  <2> QED BY <1>2, <2>1, <2>2
<1> QED BY <1>1, <1>2, PTL DEF Spec

-----------------------------------------------------------------------------
(***************************************************************************)
(* Every step is one of ToolCalls, or changes nothing there.               *)
(***************************************************************************)

\* The state of a call and what was forwarded, as ToolCalls sees them.
StateOf(c) == IF calls[c].st = "waiting" THEN "open" ELSE calls[c].st
Forwarded(p) == parts[p].st \notin {"none", "probing", "deaf", "wedged"}

mState == [c \in Calls |-> StateOf(c)]
mForwarded == {p \in Parts : Forwarded(p)}
mReply == [c \in Calls |-> calls[c].reply]

\* ToolCalls, over the mapped state.
LEMMA PromiseActions ==
    /\ Promise!Init <=>
          /\ clients = Clients /\ mState = [c \in Calls |-> "idle"]
          /\ mForwarded = {} /\ mReply = [c \in Calls |-> None]
    /\ \A c : Promise!Receive(c) <=>
          /\ mState[c] = "idle" /\ ClientOf[c] \in clients
          /\ mState' = [mState EXCEPT ![c] = "open"]
          /\ \E B \in SUBSET Browsers : mForwarded' = mForwarded \cup ({c} \X B)
          /\ clients' = clients /\ mReply' = mReply
    /\ Promise!Forward <=>
          /\ \E P \in SUBSET Parts :
               /\ \A p \in P : mState[p[1]] = "open"
               /\ mForwarded' = mForwarded \cup P
          /\ clients' = clients /\ mState' = mState /\ mReply' = mReply
    /\ \A m : Promise!Leave(m) <=>
          /\ m \in clients /\ clients' = clients \ {m}
          /\ mState' = mState /\ mForwarded' = mForwarded /\ mReply' = mReply
    /\ (UNCHANGED Promise!vars) <=>
          /\ clients' = clients
          /\ mState' = mState /\ mForwarded' = mForwarded /\ mReply' = mReply
<1> USE DEF mState, mForwarded, mReply, StateOf, Forwarded
<1>1. Promise!Init <=>
          /\ clients = Clients /\ mState = [c \in Calls |-> "idle"]
          /\ mForwarded = {} /\ mReply = [c \in Calls |-> None]
  BY Zenon DEF Promise!Init
<1>2. ASSUME NEW c
      PROVE  Promise!Receive(c) <=>
          /\ mState[c] = "idle" /\ ClientOf[c] \in clients
          /\ mState' = [mState EXCEPT ![c] = "open"]
          /\ \E B \in SUBSET Browsers : mForwarded' = mForwarded \cup ({c} \X B)
          /\ clients' = clients /\ mReply' = mReply
  BY DEF Promise!Receive
<1>3. Promise!Forward <=>
          /\ \E P \in SUBSET Parts :
               /\ \A p \in P : mState[p[1]] = "open"
               /\ mForwarded' = mForwarded \cup P
          /\ clients' = clients /\ mState' = mState /\ mReply' = mReply
  BY DEF Promise!Forward, Promise!Parts, Parts
<1>4. ASSUME NEW m
      PROVE  Promise!Leave(m) <=>
          /\ m \in clients /\ clients' = clients \ {m}
          /\ mState' = mState /\ mForwarded' = mForwarded /\ mReply' = mReply
  BY DEF Promise!Leave
<1>5. (UNCHANGED Promise!vars) <=>
          /\ clients' = clients
          /\ mState' = mState /\ mForwarded' = mForwarded /\ mReply' = mReply
  BY DEF Promise!vars
<1> QED BY <1>1, <1>2, <1>3, <1>4, <1>5

\* What a reply to c may say, over the mapped state.
FaithfulTo(c, r) ==
    /\ \A p \in r.contents : p \in mForwarded /\ p[1] = c /\ p[2] \notin r.failed
    /\ \A p \in mForwarded : p[1] = c => p \in r.contents \/ p[2] \in r.failed
    /\ r.isError <=> r.contents = {}

\* Calls that are answered together, each with a faithful reply if its client is
\* there, are an Answer of ToolCalls.
LEMMA AnswersPromise ==
    ASSUME NEW C \in SUBSET Calls,
           \A c \in C : /\ calls[c].st \in {"idle", "waiting", "open"}
                        /\ calls[c].st = "idle" => ClientOf[c] \in clients
                        /\ calls'[c].st = IF ClientOf[c] \in clients THEN "replied"
                                          ELSE "unheard"
                        /\ IF ClientOf[c] \in clients
                           THEN calls'[c].reply \in Replies /\ FaithfulTo(c, calls'[c].reply)
                           ELSE calls'[c].reply = calls[c].reply,
           \A c \in Calls \ C : calls'[c] = calls[c],
           clients' = clients, mForwarded' = mForwarded
    PROVE  Promise!Answer
<1>1. C \in SUBSET {c \in Calls : mState[c] \in {"idle", "open"}}
  BY DEF mState, StateOf
<1>2. \A c \in C : mState[c] = "idle" => ClientOf[c] \in clients
  BY DEF mState, StateOf
<1>3. mState' = [c \in Calls |->
                   IF c \notin C THEN mState[c]
                   ELSE IF ClientOf[c] \in clients THEN "replied" ELSE "unheard"]
  <2>1. ASSUME NEW c \in Calls
        PROVE  (IF calls'[c].st = "waiting" THEN "open" ELSE calls'[c].st) =
                  IF c \notin C THEN mState[c]
                  ELSE IF ClientOf[c] \in clients THEN "replied" ELSE "unheard"
    <3>1. CASE c \in C
      BY <3>1
    <3>2. CASE c \notin C
      BY <3>2 DEF mState, StateOf
    <3> QED BY <3>1, <3>2
  <2> QED BY <2>1 DEF mState, StateOf
<1>4. ASSUME NEW c \in Calls
      PROVE  IF c \in C /\ ClientOf[c] \in clients
             THEN mReply'[c] \in Replies /\ FaithfulTo(c, mReply'[c])
             ELSE mReply'[c] = mReply[c]
  <2>1. mReply'[c] = calls'[c].reply /\ mReply[c] = calls[c].reply
    BY DEF mReply
  <2>2. CASE c \in C
    BY <2>1, <2>2
  <2>3. CASE c \notin C
    BY <2>1, <2>3
  <2> QED BY <2>2, <2>3
<1>5. Promise!Answer <=>
        /\ \E D \in SUBSET {c \in Calls : mState[c] \in {"idle", "open"}} :
             /\ \A c \in D : mState[c] = "idle" => ClientOf[c] \in clients
             /\ mState' = [c \in Calls |->
                            IF c \notin D THEN mState[c]
                            ELSE IF ClientOf[c] \in clients THEN "replied" ELSE "unheard"]
             /\ \A c \in Calls :
                  IF c \in D /\ ClientOf[c] \in clients
                  THEN mReply'[c] \in Replies /\ FaithfulTo(c, mReply'[c])
                  ELSE mReply'[c] = mReply[c]
        /\ clients' = clients /\ mForwarded' = mForwarded
  BY DEF Promise!Answer, Promise!Faithful, Promise!Replies, Promise!Parts, Replies, Parts,
         FaithfulTo, mState, mReply, mForwarded, StateOf, Forwarded
<1> QED BY <1>1, <1>2, <1>3, <1>4, <1>5

\* A call is received, and sent at once to the browsers B.
LEMMA ReceivesPromise ==
    ASSUME TypeOK, NEW c \in Calls, NEW B \in SUBSET Browsers,
           calls[c].st = "idle", ClientOf[c] \in clients,
           calls'[c].st \in {"open", "waiting"}, calls'[c].reply = calls[c].reply,
           \A k \in Calls \ {c} : calls'[k] = calls[k],
           clients' = clients, mForwarded' = mForwarded \cup ({c} \X B)
    PROVE  Promise!Receive(c)
<1>1. mState[c] = "idle"
  BY DEF mState, StateOf
<1>2. mState' = [mState EXCEPT ![c] = "open"]
  BY DEF mState, StateOf
<1>3. mReply' = mReply
  <2>1. ASSUME NEW k \in Calls
        PROVE  calls'[k].reply = calls[k].reply
    OBVIOUS
  <2> QED BY <2>1 DEF mReply
<1> QED BY <1>1, <1>2, <1>3, PromiseActions

\* A call that is open is sent to more browsers.
LEMMA ForwardsPromise ==
    ASSUME NEW P \in SUBSET Parts, \A p \in P : StateOf(p[1]) = "open",
           \A c \in Calls : StateOf(c)' = StateOf(c) /\ calls'[c].reply = calls[c].reply,
           clients' = clients, mForwarded' = mForwarded \cup P
    PROVE  Promise!Forward
<1>1. \A p \in P : mState[p[1]] = "open"
  BY DEF mState, Parts
<1>2. mState' = mState
  BY DEF mState
<1>3. mReply' = mReply
  BY DEF mReply
<1> QED BY <1>1, <1>2, <1>3, PromiseActions

\* What is forwarded follows the parts.
LEMMA ForwardedMoves ==
    ASSUME NEW P, NEW st, PartsMove(P, st)
    PROVE  /\ st \in {"probing", "deaf"} /\ (\A p \in P : ~Forwarded(p))
                 => mForwarded' = mForwarded
           /\ st = "wedged" /\ (\A p \in P : ~Forwarded(p))
                 => mForwarded' = mForwarded
           /\ st \notin {"probing", "deaf", "wedged"} => mForwarded' = mForwarded \cup P
<1>1. /\ P \subseteq Parts
      /\ st \in InFlight \cup Final \cup {"dropped"}
      /\ \A p \in P : parts'[p].st = st
      /\ \A p \in Parts \ P : parts'[p] = parts[p]
  BY DEF PartsMove
<1>2. ASSUME st \in {"probing", "deaf", "wedged"}, \A p \in P : ~Forwarded(p)
      PROVE  mForwarded' = mForwarded
  BY <1>1, <1>2 DEF mForwarded, Forwarded
<1>3. ASSUME st \notin {"probing", "deaf", "wedged"}
      PROVE  mForwarded' = mForwarded \cup P
  BY <1>1, <1>3 DEF mForwarded, Forwarded, InFlight, Final, Outcomes
<1> QED BY <1>2, <1>3

\* The reply to a call whose parts have all ended contains what browsers
\* answered to this very call, and names the others it was sent to.
LEMMA ReplyIsFaithful ==
    ASSUME IInv, NEW P, NEW st, NEW status, Settles(P, st, status),
           mForwarded' = mForwarded, NEW c \in Calls, Answered(c, parts')
    PROVE  ReplyTo(c, parts') \in Replies /\ FaithfulTo(c, ReplyTo(c, parts'))
<1> DEFINE own == {c} \X calls[c].addressed
           good == {p \in own : parts'[p].st \in Contents(ToolOf[c])}
           r == ReplyTo(c, parts')
<1>1. /\ parts' \in [Parts -> PartRecords]
      /\ \A p \in Parts : parts'[p].st \in Outcomes => parts'[p].from = p
  BY EntriesKept DEF IInv, Settles, PartsMove, AnsweredByItself
<1>2. r \in Replies
  BY <1>1, ReplyTyped DEF IInv
<1>3. calls[c].addressed \subseteq Browsers
  BY DEF IInv, TypeOK, CallRecords
<1>4. own \subseteq Parts /\ \A p \in own : p = <<c, p[2]>> /\ p[1] = c
  BY <1>3 DEF Parts
<1>5. /\ r.contents = {parts'[p].from : p \in good}
      /\ r.failed = {p[2] : p \in own \ good}
      /\ r.isError = (good = {})
  BY DEF ReplyTo
<1>6. Contents(ToolOf[c]) \subseteq Outcomes
  BY DEF Contents, Outcomes
<1>7. \A p \in good : p \in own /\ p \in Parts /\ parts'[p].from = p
  BY <1>1, <1>4, <1>6
<1>8. r.contents = good
  BY <1>5, <1>7
<1>9. ASSUME NEW p \in Parts
      PROVE  p \in mForwarded <=> parts'[p].st \notin {"none", "probing", "deaf", "wedged"}
  <2>1. p \in mForwarded' <=> parts'[p].st \notin {"none", "probing", "deaf", "wedged"}
    BY DEF mForwarded, Forwarded
  <2> QED BY <2>1
<1>10. \A p \in good : p \in mForwarded
  BY <1>6, <1>7, <1>9 DEF Outcomes
<1>11. \A p \in good : p[1] = c /\ p[2] \notin r.failed
  BY <1>4, <1>5, <1>7
<1>12. ASSUME NEW p \in mForwarded, p[1] = c
       PROVE  p \in good \/ p[2] \in r.failed
  <2>1. PICK b \in Browsers : p = <<c, b>>
    BY <1>12 DEF mForwarded, Parts
  <2>2. p \in Parts /\ parts[p].st # "none"
    BY DEF mForwarded, Forwarded
  <2>3. b \in calls[c].addressed
    BY <2>1, <2>2 DEF IInv, PartsAddressed
  <2>4. p \in own /\ p[2] = b
    BY <2>1, <2>3
  <2> HIDE DEF own, good
  <2> QED BY <2>4, <1>5
<1> HIDE DEF good, own, r
<1>13. r.isError <=> r.contents = {}
  BY <1>5, <1>8
<1>14. FaithfulTo(c, r)
  BY <1>8, <1>10, <1>11, <1>12, <1>13 DEF FaithfulTo
<1> QED BY <1>2, <1>14 DEF r

\* Results of requests are an Answer: of the calls they were the last part of.
LEMMA SettlesPromise ==
    ASSUME IInv, NEW P, NEW st, NEW status, Settles(P, st, status), clients' = clients,
           \/ st = "wedged" /\ \A p \in P : parts[p].st # "pending"
           \/ st # "wedged" /\ \A p \in P : parts[p].st = "pending"
    PROVE  Promise!Answer
<1>1. mForwarded' = mForwarded
  <2>1. PartsMove(P, st) /\ P \subseteq Parts /\ st \in Final
    BY DEF Settles, PartsMove
  <2>2. CASE st = "wedged" /\ \A p \in P : parts[p].st # "pending"
    <3>1. \A p \in P : ~Forwarded(p)
      BY <2>2 DEF Settles, Forwarded, InFlight
    <3> QED BY <2>1, <2>2, <3>1, ForwardedMoves
  <2>3. CASE st # "wedged" /\ \A p \in P : parts[p].st = "pending"
    <3>1. P \subseteq mForwarded
      BY <2>1, <2>3 DEF mForwarded, Forwarded
    <3>2. mForwarded' = mForwarded \cup P
      BY <2>1, <2>3, ForwardedMoves DEF Final, Outcomes
    <3> QED BY <3>1, <3>2
  <2> QED BY <2>2, <2>3
<1> DEFINE C == {c \in Calls : Answered(c, parts')}
<1>2. ASSUME NEW c \in C
      PROVE  /\ calls[c].st = "open"
             /\ calls'[c].st = IF ClientOf[c] \in clients THEN "replied" ELSE "unheard"
             /\ calls'[c].reply = IF ClientOf[c] \in clients THEN ReplyTo(c, parts')
                                  ELSE calls[c].reply
             /\ ReplyTo(c, parts') \in Replies /\ FaithfulTo(c, ReplyTo(c, parts'))
  <2>1. c \in Calls /\ Answered(c, parts')
    OBVIOUS
  <2>2. calls[c].st = "open"
    BY <2>1 DEF Answered
  <2> QED BY <2>1, <2>2, <1>1, SettledCall, ReplyIsFaithful
<1>3. \A c \in Calls \ C : calls'[c] = calls[c]
  BY SettledCall
<1>4. C \in SUBSET Calls
  OBVIOUS
<1> HIDE DEF C
<1>5. ASSUME NEW c \in C
      PROVE  /\ calls[c].st \in {"idle", "waiting", "open"}
             /\ calls[c].st = "idle" => ClientOf[c] \in clients
             /\ calls'[c].st = IF ClientOf[c] \in clients THEN "replied" ELSE "unheard"
             /\ IF ClientOf[c] \in clients
                THEN calls'[c].reply \in Replies /\ FaithfulTo(c, calls'[c].reply)
                ELSE calls'[c].reply = calls[c].reply
  BY <1>2
<1> QED BY <1>1, <1>3, <1>4, <1>5, AnswersPromise

\* A refusal is an Answer without contents, of a call that was sent nowhere.
LEMMA RefusedPromise ==
    ASSUME IInv, NEW c \in Calls, Refuses(c), calls[c].st \in {"idle", "waiting"},
           calls[c].st = "idle" => ClientOf[c] \in clients,
           clients' = clients, mForwarded' = mForwarded
    PROVE  Promise!Answer
<1>1. ASSUME NEW p \in mForwarded
      PROVE  p[1] # c
  <2>1. PICK k \in Calls, b \in Browsers : p = <<k, b>>
    BY DEF mForwarded, Parts
  <2>2. parts[<<k, b>>].st # "none"
    BY <2>1 DEF mForwarded, Forwarded
  <2>3. calls[k].addressed # {}
    BY <2>2 DEF IInv, PartsAddressed
  <2> QED BY <2>1, <2>3 DEF IInv, PartsAddressed
<1>2. FaithfulTo(c, NoBrowser)
  BY <1>1 DEF FaithfulTo, NoBrowser
<1>3. {c} \in SUBSET Calls
  OBVIOUS
<1>4. \A k \in {c} :
         /\ calls[k].st \in {"idle", "waiting", "open"}
         /\ calls[k].st = "idle" => ClientOf[k] \in clients
         /\ calls'[k].st = IF ClientOf[k] \in clients THEN "replied" ELSE "unheard"
         /\ IF ClientOf[k] \in clients
            THEN calls'[k].reply \in Replies /\ FaithfulTo(k, calls'[k].reply)
            ELSE calls'[k].reply = calls[k].reply
  BY <1>2, NoBrowserReply DEF Refuses
<1>5. \A k \in Calls \ {c} : calls'[k] = calls[k]
  BY DEF Refuses
<1> QED BY <1>3, <1>4, <1>5, AnswersPromise

\* A request that is sent is a Receive of its call, or a Forward after its wait.
LEMMA SendToPromise ==
    ASSUME IInv, NEW c \in Calls, NEW t \in Targets \cup {None}, NEW b \in Browsers,
           SendTo(c, t, b), clients' = clients,
           \/ calls[c].st = "idle" /\ ClientOf[c] \in clients
           \/ calls[c].st = "waiting"
    PROVE  Promise!Receive(c) \/ Promise!Forward
<1>1. Starts(c, {b}, "pending") /\ calls'[c].reply = calls[c].reply
  BY SendToStarts
<1>2. /\ PartsMove({c} \X {b}, "pending") /\ calls'[c].st = "open"
      /\ \A k \in Calls \ {c} : calls'[k] = calls[k]
  BY <1>1 DEF Starts
<1> DEFINE P == {c} \X {b}
<1>3. P \in SUBSET Parts /\ (\A p \in P : p[1] = c) /\ {b} \in SUBSET Browsers
  BY DEF Parts
<1>4. mForwarded' = mForwarded \cup P
  <2> HIDE DEF P
  <2>1. PartsMove(P, "pending")
    BY <1>2 DEF P
  <2> QED BY <2>1, ForwardedMoves
<1>5. CASE calls[c].st = "idle" /\ ClientOf[c] \in clients
  BY <1>1, <1>2, <1>3, <1>4, <1>5, ReceivesPromise DEF IInv
<1>6. CASE calls[c].st = "waiting"
  <2>1. \A p \in P : StateOf(p[1]) = "open"
    BY <1>3, <1>6 DEF StateOf
  <2>2. ASSUME NEW k \in Calls
        PROVE  StateOf(k)' = StateOf(k) /\ calls'[k].reply = calls[k].reply
    BY <1>1, <1>2, <1>6 DEF StateOf
  <2> HIDE DEF P
  <2> QED BY <1>3, <1>4, <2>1, <2>2, ForwardsPromise
<1> QED BY <1>5, <1>6

\* A step that changes no call, sends nothing and lets no client go is not seen.
LEMMA UnseenPromise ==
    ASSUME calls' = calls, clients' = clients, mForwarded' = mForwarded
    PROVE  UNCHANGED Promise!vars
<1>1. mState' = mState /\ mReply' = mReply
  BY DEF mState, StateOf, mReply
<1> QED BY <1>1, PromiseActions

\* Every handler and timer of the bridge is a step of ToolCalls, or is not seen
\* there.
LEMMA NextPromise ==
    ASSUME IInv, Next
    PROVE  [Promise!Next]_(Promise!vars)
<1> DEFINE Goal == Promise!Next \/ UNCHANGED Promise!vars
<1>1. /\ Promise!Answer => Goal
      /\ Promise!Forward => Goal
      /\ \A c \in Calls : Promise!Receive(c) => Goal
      /\ \A m \in Clients : Promise!Leave(m) => Goal
      /\ UNCHANGED Promise!vars => Goal
  BY DEF Promise!Next
<1> HIDE DEF Goal
<1>2. ASSUME NEW c \in Calls, NEW t \in Targets, CallTool(c, t)
      PROVE  Goal
  <2>1. /\ calls[c].st = "idle" /\ ClientOf[c] \in clients /\ clients' = clients
        /\ \/ \E b \in Browsers : SendTo(c, t, b)
           \/ Waits(c) \/ Refused(c)
    BY <1>2, CallToolSteps
  <2>2. CASE \E b \in Browsers : SendTo(c, t, b)
    BY <2>1, <2>2, <1>1, SendToPromise
  <2>3. CASE Waits(c)
    <3>1. mForwarded' = mForwarded
      BY <2>3 DEF Waits, mForwarded, Forwarded
    <3>2. mForwarded' = mForwarded \cup ({c} \X {}) /\ {} \in SUBSET Browsers
      BY <3>1
    <3>3. /\ calls'[c].st = "waiting" /\ calls'[c].reply = calls[c].reply
          /\ \A k \in Calls \ {c} : calls'[k] = calls[k]
      BY <2>3 DEF Waits
    <3>4. Promise!Receive(c)
      BY <2>1, <3>2, <3>3, ReceivesPromise DEF IInv
    <3> QED BY <3>4, <1>1
  <2>4. CASE Refused(c)
    <3>1. Refuses(c) /\ mForwarded' = mForwarded
      BY <2>4 DEF Refused, mForwarded, Forwarded
    <3> QED BY <2>1, <3>1, <1>1, RefusedPromise
  <2> QED BY <2>1, <2>2, <2>3, <2>4
<1>3. ASSUME NEW c \in Calls, NEW t \in Targets, ListTabs(c, t)
      PROVE  Goal
  <2> DEFINE T == FanOutTargets(t)
             P == {c} \X T
  <2>1. /\ calls[c].st = "idle" /\ ClientOf[c] \in clients /\ UNCHANGED <<clients, browsers>>
        /\ Starts(c, T, "probing")
        /\ IF T = {} THEN calls'[c].st = "replied" /\ calls'[c].reply = NoBrowser
           ELSE calls'[c].st = "open" /\ calls'[c].reply = calls[c].reply
    BY <1>3, ListTabsSteps
  <2> HIDE DEF T
  <2>2. /\ T \in SUBSET Browsers /\ PartsMove(P, "probing")
        /\ calls' \in [Calls -> CallRecords] /\ calls'[c].addressed = T
        /\ \A k \in Calls \ {c} : calls'[k] = calls[k]
    BY <2>1 DEF Starts
  <2>3. \A p \in P : ~Forwarded(p)
    BY <2>1, <2>2 DEF IInv, PartsAddressed, Forwarded
  <2> HIDE DEF P
  <2>4. mForwarded' = mForwarded
    BY <2>2, <2>3, ForwardedMoves
  <2>5. CASE T = {}
    <3>1. Refuses(c)
      BY <2>1, <2>2, <2>5 DEF Refuses
    <3> QED BY <2>1, <2>4, <3>1, <1>1, RefusedPromise
  <2>6. CASE T # {}
    <3>1. mForwarded' = mForwarded \cup ({c} \X {}) /\ {} \in SUBSET Browsers
      BY <2>4
    <3>2. Promise!Receive(c)
      BY <2>1, <2>2, <2>6, <3>1, ReceivesPromise DEF IInv
    <3> QED BY <3>2, <1>1
  <2> QED BY <2>5, <2>6
<1>4. ASSUME NEW c \in Calls, Poll(c)
      PROVE  Goal
  <2>1. /\ calls[c].st = "waiting" /\ clients' = clients
        /\ \/ \E t \in Targets \cup {None}, b \in Browsers : SendTo(c, t, b)
           \/ Refused(c)
    BY <1>4, PollSteps
  <2>2. CASE \E t \in Targets \cup {None}, b \in Browsers : SendTo(c, t, b)
    BY <2>1, <2>2, <1>1, SendToPromise
  <2>3. CASE Refused(c)
    <3>1. Refuses(c) /\ mForwarded' = mForwarded
      BY <2>3 DEF Refused, mForwarded, Forwarded
    <3> QED BY <2>1, <3>1, <1>1, RefusedPromise
  <2> QED BY <2>1, <2>2, <2>3
<1>5. ASSUME NEW m \in Clients, McpClientClosed(m)
      PROVE  Goal
  <2>1. PICK P \in SUBSET Parts : Goes(P, "dropped") /\ \A p \in P : parts[p].st = "pending"
    BY <1>5, McpClientClosedGoes
  <2>2. PartsMove(P, "dropped") /\ calls' = calls
    BY <2>1 DEF Goes
  <2>3. mForwarded' = mForwarded
    <3>1. mForwarded' = mForwarded \cup P
      BY <2>2, ForwardedMoves
    <3>2. P \subseteq mForwarded
      BY <2>1 DEF mForwarded, Forwarded
    <3> QED BY <3>1, <3>2
  <2>4. mState' = mState /\ mReply' = mReply
    BY <2>2 DEF mState, StateOf, mReply
  <2>5. m \in clients /\ clients' = clients \ {m}
    BY <1>5 DEF McpClientClosed
  <2> QED BY <2>3, <2>4, <2>5, <1>1, PromiseActions
<1>6. ASSUME NEW b \in Browsers, ServerPong(b)
      PROVE  Goal
  <2> DEFINE P == Probing(b)
  <2>1. Goes(P, "pending") /\ clients' = clients
    BY <1>6, ServerPongGoes DEF ServerPong
  <2>2. PartsMove(P, "pending") /\ calls' = calls
    BY <2>1 DEF Goes
  <2>3. P \in SUBSET Parts /\ \A p \in P : StateOf(p[1]) = "open"
    <3>1. ASSUME NEW p \in P
          PROVE  p \in Parts /\ StateOf(p[1]) = "open"
      <4>1. PICK c \in Calls, d \in Browsers : p = <<c, d>>
        BY DEF Probing, Parts
      <4>2. parts[<<c, d>>].st \in InFlight
        BY <4>1 DEF Probing, InFlight
      <4> QED BY <4>1, <4>2 DEF IInv, InFlightIsOpen, StateOf, Parts
    <3> QED BY <3>1
  <2> HIDE DEF P
  <2>4. mForwarded' = mForwarded \cup P
    BY <2>2, ForwardedMoves
  <2>5. \A c \in Calls : StateOf(c)' = StateOf(c) /\ calls'[c].reply = calls[c].reply
    BY <2>2 DEF StateOf
  <2> QED BY <2>1, <2>3, <2>4, <2>5, <1>1, ForwardsPromise
<1>7. ASSUME NEW p \in Parts, ProbeTimeout(p)
      PROVE  Goal
  <2>1. Settles({p}, "wedged", "timeout") /\ clients' = clients /\ parts[p].st # "pending"
    BY <1>7, ProbeTimeoutSettles DEF ProbeTimeout
  <2> QED BY <2>1, <1>1, SettlesPromise
<1>8. ASSUME NEW p \in Parts, RequestTimeout(p)
      PROVE  Goal
  <2>1. Settles({p}, "timeout", "timeout") /\ clients' = clients /\ parts[p].st = "pending"
    BY <1>8, RequestTimeoutSettles DEF RequestTimeout
  <2> QED BY <2>1, <1>1, SettlesPromise
<1>9. ASSUME NEW m \in asked, NEW o \in Outcomes, ToolResponse(m, o)
      PROVE  Goal
  <2>1. PICK P \in SUBSET Parts, status \in {"success", "error"} :
           Settles(P, o, status) /\ \A p \in P : parts[p].st = "pending"
    BY <1>9, ToolResponseSettles
  <2>2. clients' = clients /\ o # "wedged"
    BY <1>9 DEF ToolResponse, Outcomes
  <2> QED BY <2>1, <2>2, <1>1, SettlesPromise
<1>10. ASSUME NEW b \in Browsers, BrowserReplaced(b)
       PROVE  Goal
  <2>1. PICK P \in SUBSET Parts :
           Settles(P, "rejected", "error") /\ \A p \in P : parts[p].st = "pending"
    BY <1>10, BrowserReplacedSettles
  <2>2. clients' = clients
    BY <1>10 DEF BrowserReplaced
  <2> QED BY <2>1, <2>2, <1>1, SettlesPromise
<1>11. ASSUME NEW b \in Browsers, BrowserConnects(b)
       PROVE  Goal
  <2>1. calls' = calls /\ clients' = clients /\ mForwarded' = mForwarded
    BY <1>11 DEF BrowserConnects, mForwarded, Forwarded
  <2> QED BY <2>1, <1>1, UnseenPromise
<1>12. ASSUME NEW b \in Browsers, NEW current \in BOOLEAN, BrowserCloses(b, current)
       PROVE  Goal
  <2> DEFINE P == Probing(b)
  <2>1. Goes(P, "deaf") /\ clients' = clients
    BY <1>12, BrowserClosesGoes DEF BrowserCloses
  <2>2. PartsMove(P, "deaf") /\ calls' = calls /\ \A p \in P : ~Forwarded(p)
    BY <2>1 DEF Goes, Probing, Forwarded
  <2> HIDE DEF P
  <2>3. mForwarded' = mForwarded
    BY <2>2, ForwardedMoves
  <2> QED BY <2>1, <2>2, <2>3, <1>1, UnseenPromise
<1>13. Goal
  BY <1>2, <1>3, <1>4, <1>5, <1>6, <1>7, <1>8, <1>9, <1>10, <1>11, <1>12 DEF Next
<1> QED BY <1>13 DEF Goal

-----------------------------------------------------------------------------
(***************************************************************************)
(* The theorems.                                                           *)
(***************************************************************************)

\* The state keeps its type, the ring of rows its bound.
THEOREM TypeCorrect == Spec => []TypeOK
<1>1. IInv => TypeOK
  BY DEF IInv
<1> QED BY <1>1, IInvInvariant, PTL

\* pendingRequests holds exactly the requests that still wait, however
\* answers, timeouts, supersedes and departing clients race.
THEOREM MapIsExact == Spec => []MapHoldsWhatWaits
<1>1. IInv => MapHoldsWhatWaits
  <2> SUFFICES ASSUME EntriesWait
               PROVE  MapHoldsWhatWaits
    BY DEF IInv
  <2>1. \A e \in pendingRequests : e.part \in {p \in Parts : parts[p].st = "pending"}
    BY DEF EntriesWait
  <2>2. ASSUME NEW p \in Parts, parts[p].st = "pending"
        PROVE  p \in {e.part : e \in pendingRequests}
    <3>1. Entry(p) \in pendingRequests
      BY <2>2 DEF EntriesWait
    <3>2. Entry(p).part = p
      BY DEF Entry
    <3> QED BY <3>1, <3>2
  <2> QED BY <2>1, <2>2 DEF MapHoldsWhatWaits
<1> QED BY <1>1, IInvInvariant, PTL

\* The rows of the dashboard say pending and timed out of those requests of
\* which it is so.
THEOREM DashboardIsTrue == Spec => []RowsAreTrue
<1>1. IInv => RowsAreTrue
  BY DEF IInv, RowsInv, RowTrue, RowsAreTrue
<1> QED BY <1>1, IInvInvariant, PTL

\* The bridge implements ToolCalls: however calls, answers, timeouts, probes,
\* supersedes and departures interleave, a call is answered at most once, with
\* what browsers answered to this very call, and naming the others it was sent to.
THEOREM BridgeKeepsPromise == Spec => KeepsPromise
<1>1. Init => Promise!Init
  <2> SUFFICES ASSUME Init
               PROVE  Promise!Init
    OBVIOUS
  <2>1. mState = [c \in Calls |-> "idle"] /\ mReply = [c \in Calls |-> None]
    BY DEF Init, mState, StateOf, mReply
  <2>2. mForwarded = {}
    BY DEF Init, mForwarded, Forwarded
  <2> QED BY <2>1, <2>2, PromiseActions DEF Init
<1>2. ASSUME IInv, [Next]_vars
      PROVE  [Promise!Next]_(Promise!vars)
  <2>1. CASE UNCHANGED vars
    <3>1. calls' = calls /\ clients' = clients /\ mForwarded' = mForwarded
      BY <2>1 DEF vars, mForwarded, Forwarded
    <3> QED BY <3>1, UnseenPromise
  <2> QED BY <1>2, <2>1, NextPromise
<1> QED BY <1>1, <1>2, IInvInvariant, PTL DEF Spec, KeepsPromise, Promise!Spec
=============================================================================
