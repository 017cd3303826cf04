------------------------- MODULE LogPipeline_proofs -------------------------
(***************************************************************************)
(* Proofs about LogPipeline, for any number of records, any limits of      *)
(* buffers, frames and batches, any number of generations, and any         *)
(* crashes: the log is in order, rotation loses the oldest lines only,     *)
(* and no row is inserted twice.                                           *)
(*                                                                         *)
(* The model folds over sequences in four places (AllLines, AllWritten,    *)
(* Enqueued, Passing).  For each of them the first part shows what the fold  *)
(* of nothing is and what one element more does to it; all that follows    *)
(* is induction from these two (DataInduction).                            *)
(***************************************************************************)
EXTENDS LogPipeline, DataInduction, SequenceTheorems, TLAPS
-----------------------------------------------------------------------------
(***************************************************************************)
(* Sequences.                                                              *)
(***************************************************************************)

\* What is appended to the second half is appended to the whole: a line written
\* to the current file is the last line of the log.
LEMMA ConcatAppends ==
    ASSUME NEW S, NEW s \in Seq(S), NEW t \in Seq(S), NEW x \in S
    PROVE  s \o Append(t, x) = Append(s \o t, x)
<1>1. <<x>> \in Seq(S) /\ s \o t \in Seq(S)
  BY ConcatProperties
<1>2. Append(t, x) = t \o <<x>> /\ Append(s \o t, x) = (s \o t) \o <<x>>
  BY <1>1, AppendIsConcat
<1>3. s \o (t \o <<x>>) = (s \o t) \o <<x>>
  BY <1>1, ConcatAssociative
<1> QED BY <1>2, <1>3

\* The lines of the generations with these distances from the oldest.
Lines(fs, is) == FoldLeft(LAMBDA lines, i : lines \o fs[Keep - i], <<>>, is)

\* The fold of the generations, the oldest first (AllLines).
LinesIter(fs, is, n, it) ==
    it = [s \in SUBSET (1..n) |->
            IF s = {} THEN <<>> ELSE it[s \ {Max(s)}] \o fs[Keep - is[Max(s)]]]
LinesIt(fs, is, n) == CHOOSE it : LinesIter(fs, is, n, it)

\* The lines are the value of this fold at all the generations.
LEMMA LinesIsFold ==
    ASSUME NEW fs, NEW is, NEW n \in Nat, DOMAIN is = 1..n
    PROVE  Lines(fs, is) = LinesIt(fs, is, n)[1..n]
BY Zenon DEF Lines, LinesIt, LinesIter, FoldLeft, MapThenFoldSet

\* Such a fold exists, by induction over the number of generations.
LEMMA LinesHasFold ==
    ASSUME NEW fs, NEW is, NEW n \in Nat
    PROVE  LinesIter(fs, is, n, LinesIt(fs, is, n))
<1> DEFINE S == {k \in Nat : \E it : LinesIter(fs, is, k, it)}
<1>1. 0 \in S
  <2> DEFINE it == [s \in SUBSET (1..0) |-> <<>>]
  <2>1. \A s \in SUBSET (1..0) : s = {}
    OBVIOUS
  <2>2. LinesIter(fs, is, 0, it)
    BY <2>1 DEF LinesIter
  <2> QED BY <2>2
<1>2. ASSUME NEW k \in Nat, k \in S PROVE k + 1 \in S
  <2>1. PICK it : LinesIter(fs, is, k, it)
    BY <1>2
  <2> DEFINE jt == [s \in SUBSET (1..(k + 1)) |->
                      IF k + 1 \in s THEN it[s \ {k + 1}] \o fs[Keep - is[k + 1]] ELSE it[s]]
  <2>2. \A s \in SUBSET (1..k) : jt[s] = it[s]
    OBVIOUS
  <2>3. ASSUME NEW s \in SUBSET (1..(k + 1))
        PROVE  jt[s] = IF s = {} THEN <<>> ELSE jt[s \ {Max(s)}] \o fs[Keep - is[Max(s)]]
    <3>1. CASE s = {}
      BY <2>1, <2>2, <3>1 DEF LinesIter
    <3>2. CASE s # {} /\ k + 1 \in s
      BY <2>2, <3>2, SetsUpTo
    <3>3. CASE s # {} /\ k + 1 \notin s
      <4>1. s \in SUBSET (1..k) /\ s \ {Max(s)} \in SUBSET (1..k)
        BY <3>3, SetsUpTo
      <4> QED BY <2>1, <2>2, <3>3, <4>1 DEF LinesIter
    <3> QED BY <3>1, <3>2, <3>3
  <2>4. LinesIter(fs, is, k + 1, jt)
    BY <2>3 DEF LinesIter
  <2> QED BY <2>4
<1> HIDE DEF S
<1>3. Nat \subseteq S
  BY <1>1, <1>2, SetInduction
<1>4. \E it : LinesIter(fs, is, n, it)
  BY <1>3 DEF S
<1> QED BY <1>4, Zenon DEF LinesIt

\* No generations have no lines.
LEMMA LinesOfNone ==
    ASSUME NEW fs
    PROVE  Lines(fs, <<>>) = <<>>
<1>1. DOMAIN <<>> = 1..0
  OBVIOUS
<1>2. Lines(fs, <<>>) = LinesIt(fs, <<>>, 0)[1..0]
  BY <1>1, LinesIsFold
<1>3. LinesIter(fs, <<>>, 0, LinesIt(fs, <<>>, 0))
  BY LinesHasFold
<1>4. 1..0 = {} /\ {} \in SUBSET (1..0)
  OBVIOUS
<1> QED BY <1>2, <1>3, <1>4, Zenon DEF LinesIter

\* One generation more adds its lines at the end.
LEMMA LinesOfMore ==
    ASSUME NEW fs, NEW S, NEW is \in Seq(S), NEW x \in S
    PROVE  Lines(fs, Append(is, x)) = Lines(fs, is) \o fs[Keep - x]
<1> DEFINE n == Len(is)
           more == Append(is, x)
           it == LinesIt(fs, is, n)
           jt == LinesIt(fs, more, n + 1)
<1>1. n \in Nat /\ n + 1 \in Nat
  OBVIOUS
<1>2. DOMAIN is = 1..n /\ DOMAIN more = 1..(n + 1)
  OBVIOUS
<1>3. (\A i \in 1..n : more[i] = is[i]) /\ more[n + 1] = x
  OBVIOUS
<1>4. Lines(fs, is) = it[1..n] /\ Lines(fs, more) = jt[1..(n + 1)]
  <2> HIDE DEF n, more
  <2> QED BY <1>1, <1>2, LinesIsFold
<1>5. LinesIter(fs, is, n, it) /\ LinesIter(fs, more, n + 1, jt)
  BY <1>1, LinesHasFold
<1> HIDE DEF n, more, it, jt
<1>6. jt[{}] = it[{}]
  BY <1>5 DEF LinesIter
<1>7. ASSUME NEW s \in SUBSET (1..n), s # {}, jt[s \ {Max(s)}] = it[s \ {Max(s)}]
      PROVE  jt[s] = it[s]
  <2>1. s \in SUBSET (1..(n + 1))
    BY <1>1
  <2>2. Max(s) \in 1..n
    <3>1. Max(s) \in s
      BY <1>1, <1>7, MaxUpTo
    <3> QED BY <3>1
  <2>3. jt[s] = jt[s \ {Max(s)}] \o fs[Keep - more[Max(s)]]
    BY <1>5, <1>7, <2>1 DEF LinesIter
  <2>4. it[s] = it[s \ {Max(s)}] \o fs[Keep - is[Max(s)]]
    BY <1>5, <1>7 DEF LinesIter
  <2> QED BY <1>3, <1>7, <2>2, <2>3, <2>4
<1>8. jt[1..n] = it[1..n]
  <2>1. SameSteps(n, jt, it)
    BY <1>6, <1>7 DEF SameSteps
  <2> QED BY <1>1, <2>1, FoldsAgree
<1>9. jt[1..(n + 1)] = jt[1..n] \o fs[Keep - more[n + 1]]
  <2>1. /\ 1..(n + 1) \in SUBSET (1..(n + 1)) /\ 1..(n + 1) # {}
        /\ Max(1..(n + 1)) = n + 1 /\ (1..(n + 1)) \ {n + 1} = 1..n
    BY <1>1, WholePrefix
  <2> QED BY <1>5, <2>1 DEF LinesIter
<1> QED BY <1>3, <1>4, <1>8, <1>9 DEF more

\* The fold of a batch that is written line by line (service.ts log_batch).
AllWrittenIter(fs, busy, refused, lines, n, it) ==
    it = [s \in SUBSET (1..n) |->
            IF s = {} THEN fs ELSE Written(it[s \ {Max(s)}], lines[Max(s)], busy, refused)]
AllWrittenIt(fs, busy, refused, lines, n) ==
    CHOOSE it : AllWrittenIter(fs, busy, refused, lines, n, it)

\* The files after a batch are the value of this fold at the whole batch.
LEMMA AllWrittenIsFold ==
    ASSUME NEW fs, NEW busy, NEW refused, NEW lines, NEW n \in Nat, DOMAIN lines = 1..n
    PROVE  AllWritten(fs, lines, busy, refused) = AllWrittenIt(fs, busy, refused, lines, n)[1..n]
BY Zenon DEF AllWritten, AllWrittenIt, AllWrittenIter, FoldLeft, MapThenFoldSet

\* Such a fold exists, by induction over the lines of the batch.
LEMMA AllWrittenHasFold ==
    ASSUME NEW fs, NEW busy, NEW refused, NEW lines, NEW n \in Nat
    PROVE  AllWrittenIter(fs, busy, refused, lines, n, AllWrittenIt(fs, busy, refused, lines, n))
<1> DEFINE S == {k \in Nat : \E it : AllWrittenIter(fs, busy, refused, lines, k, it)}
<1>1. 0 \in S
  <2> DEFINE it == [s \in SUBSET (1..0) |-> fs]
  <2>1. \A s \in SUBSET (1..0) : s = {}
    OBVIOUS
  <2>2. AllWrittenIter(fs, busy, refused, lines, 0, it)
    BY <2>1 DEF AllWrittenIter
  <2> QED BY <2>2
<1>2. ASSUME NEW k \in Nat, k \in S PROVE k + 1 \in S
  <2>1. PICK it : AllWrittenIter(fs, busy, refused, lines, k, it)
    BY <1>2
  <2> DEFINE jt == [s \in SUBSET (1..(k + 1)) |->
                      IF k + 1 \in s THEN Written(it[s \ {k + 1}], lines[k + 1], busy, refused)
                      ELSE it[s]]
  <2>2. \A s \in SUBSET (1..k) : jt[s] = it[s]
    OBVIOUS
  <2>3. ASSUME NEW s \in SUBSET (1..(k + 1))
        PROVE  jt[s] = IF s = {} THEN fs
                       ELSE Written(jt[s \ {Max(s)}], lines[Max(s)], busy, refused)
    <3>1. CASE s = {}
      BY <2>1, <2>2, <3>1 DEF AllWrittenIter
    <3>2. CASE s # {} /\ k + 1 \in s
      BY <2>2, <3>2, SetsUpTo
    <3>3. CASE s # {} /\ k + 1 \notin s
      <4>1. s \in SUBSET (1..k) /\ s \ {Max(s)} \in SUBSET (1..k)
        BY <3>3, SetsUpTo
      <4> QED BY <2>1, <2>2, <3>3, <4>1 DEF AllWrittenIter
    <3> QED BY <3>1, <3>2, <3>3
  <2>4. AllWrittenIter(fs, busy, refused, lines, k + 1, jt)
    BY <2>3 DEF AllWrittenIter
  <2> QED BY <2>4
<1> HIDE DEF S
<1>3. Nat \subseteq S
  BY <1>1, <1>2, SetInduction
<1>4. \E it : AllWrittenIter(fs, busy, refused, lines, n, it)
  BY <1>3 DEF S
<1> QED BY <1>4, Zenon DEF AllWrittenIt

\* An empty batch leaves the files as they are.
LEMMA AllWrittenOfNone ==
    ASSUME NEW fs, NEW busy, NEW refused
    PROVE  AllWritten(fs, <<>>, busy, refused) = fs
<1>1. DOMAIN <<>> = 1..0
  OBVIOUS
<1>2. AllWritten(fs, <<>>, busy, refused) = AllWrittenIt(fs, busy, refused, <<>>, 0)[1..0]
  BY <1>1, AllWrittenIsFold
<1>3. AllWrittenIter(fs, busy, refused, <<>>, 0, AllWrittenIt(fs, busy, refused, <<>>, 0))
  BY AllWrittenHasFold
<1>4. 1..0 = {} /\ {} \in SUBSET (1..0)
  OBVIOUS
<1> QED BY <1>2, <1>3, <1>4, Zenon DEF AllWrittenIter

\* A batch with one line more writes that line to the files the others leave
\* (logRecord).
LEMMA AllWrittenOfMore ==
    ASSUME NEW fs, NEW busy, NEW refused, NEW S, NEW lines \in Seq(S), NEW x \in S
    PROVE  AllWritten(fs, Append(lines, x), busy, refused)
             = Written(AllWritten(fs, lines, busy, refused), x, busy, refused)
<1> DEFINE n == Len(lines)
           more == Append(lines, x)
           it == AllWrittenIt(fs, busy, refused, lines, n)
           jt == AllWrittenIt(fs, busy, refused, more, n + 1)
<1>1. n \in Nat /\ n + 1 \in Nat
  OBVIOUS
<1>2. DOMAIN lines = 1..n /\ DOMAIN more = 1..(n + 1)
  OBVIOUS
<1>3. (\A i \in 1..n : more[i] = lines[i]) /\ more[n + 1] = x
  OBVIOUS
<1>4. /\ AllWritten(fs, lines, busy, refused) = it[1..n]
      /\ AllWritten(fs, more, busy, refused) = jt[1..(n + 1)]
  <2> HIDE DEF n, more
  <2> QED BY <1>1, <1>2, AllWrittenIsFold
<1>5. /\ AllWrittenIter(fs, busy, refused, lines, n, it)
      /\ AllWrittenIter(fs, busy, refused, more, n + 1, jt)
  BY <1>1, AllWrittenHasFold
<1> HIDE DEF n, more, it, jt
<1>6. jt[{}] = it[{}]
  BY <1>5 DEF AllWrittenIter
<1>7. ASSUME NEW s \in SUBSET (1..n), s # {}, jt[s \ {Max(s)}] = it[s \ {Max(s)}]
      PROVE  jt[s] = it[s]
  <2>1. s \in SUBSET (1..(n + 1))
    BY <1>1
  <2>2. Max(s) \in 1..n
    <3>1. Max(s) \in s
      BY <1>1, <1>7, MaxUpTo
    <3> QED BY <3>1
  <2>3. jt[s] = Written(jt[s \ {Max(s)}], more[Max(s)], busy, refused)
    BY <1>5, <1>7, <2>1 DEF AllWrittenIter
  <2>4. it[s] = Written(it[s \ {Max(s)}], lines[Max(s)], busy, refused)
    BY <1>5, <1>7 DEF AllWrittenIter
  <2> QED BY <1>3, <1>7, <2>2, <2>3, <2>4
<1>8. jt[1..n] = it[1..n]
  <2>1. SameSteps(n, jt, it)
    BY <1>6, <1>7 DEF SameSteps
  <2> QED BY <1>1, <2>1, FoldsAgree
<1>9. jt[1..(n + 1)] = Written(jt[1..n], more[n + 1], busy, refused)
  <2>1. /\ 1..(n + 1) \in SUBSET (1..(n + 1)) /\ 1..(n + 1) # {}
        /\ Max(1..(n + 1)) = n + 1 /\ (1..(n + 1)) \ {n + 1} = 1..n
    BY <1>1, WholePrefix
  <2> QED BY <1>5, <2>1 DEF AllWrittenIter
<1> QED BY <1>3, <1>4, <1>8, <1>9 DEF more

\* The sink after a batch.
EnqueuedAll(sink, lines) == FoldLeft(Enqueued, sink, lines)

\* The fold of a batch that is teed line by line (enqueue).
EnqueuedAllIter(sink, lines, n, it) ==
    it = [s \in SUBSET (1..n) |->
            IF s = {} THEN sink ELSE Enqueued(it[s \ {Max(s)}], lines[Max(s)])]
EnqueuedAllIt(sink, lines, n) == CHOOSE it : EnqueuedAllIter(sink, lines, n, it)

\* The sink after a batch is the value of this fold at the whole batch.
LEMMA EnqueuedAllIsFold ==
    ASSUME NEW sink, NEW lines, NEW n \in Nat, DOMAIN lines = 1..n
    PROVE  EnqueuedAll(sink, lines) = EnqueuedAllIt(sink, lines, n)[1..n]
BY Zenon DEF EnqueuedAll, EnqueuedAllIt, EnqueuedAllIter, FoldLeft, MapThenFoldSet

\* Such a fold exists, by induction over the lines of the batch.
LEMMA EnqueuedAllHasFold ==
    ASSUME NEW sink, NEW lines, NEW n \in Nat
    PROVE  EnqueuedAllIter(sink, lines, n, EnqueuedAllIt(sink, lines, n))
<1> DEFINE S == {k \in Nat : \E it : EnqueuedAllIter(sink, lines, k, it)}
<1>1. 0 \in S
  <2> DEFINE it == [s \in SUBSET (1..0) |-> sink]
  <2>1. \A s \in SUBSET (1..0) : s = {}
    OBVIOUS
  <2>2. EnqueuedAllIter(sink, lines, 0, it)
    BY <2>1 DEF EnqueuedAllIter
  <2> QED BY <2>2
<1>2. ASSUME NEW k \in Nat, k \in S PROVE k + 1 \in S
  <2>1. PICK it : EnqueuedAllIter(sink, lines, k, it)
    BY <1>2
  <2> DEFINE jt == [s \in SUBSET (1..(k + 1)) |->
                      IF k + 1 \in s THEN Enqueued(it[s \ {k + 1}], lines[k + 1]) ELSE it[s]]
  <2>2. \A s \in SUBSET (1..k) : jt[s] = it[s]
    OBVIOUS
  <2>3. ASSUME NEW s \in SUBSET (1..(k + 1))
        PROVE  jt[s] = IF s = {} THEN sink ELSE Enqueued(jt[s \ {Max(s)}], lines[Max(s)])
    <3>1. CASE s = {}
      BY <2>1, <2>2, <3>1 DEF EnqueuedAllIter
    <3>2. CASE s # {} /\ k + 1 \in s
      BY <2>2, <3>2, SetsUpTo
    <3>3. CASE s # {} /\ k + 1 \notin s
      <4>1. s \in SUBSET (1..k) /\ s \ {Max(s)} \in SUBSET (1..k)
        BY <3>3, SetsUpTo
      <4> QED BY <2>1, <2>2, <3>3, <4>1 DEF EnqueuedAllIter
    <3> QED BY <3>1, <3>2, <3>3
  <2>4. EnqueuedAllIter(sink, lines, k + 1, jt)
    BY <2>3 DEF EnqueuedAllIter
  <2> QED BY <2>4
<1> HIDE DEF S
<1>3. Nat \subseteq S
  BY <1>1, <1>2, SetInduction
<1>4. \E it : EnqueuedAllIter(sink, lines, n, it)
  BY <1>3 DEF S
<1> QED BY <1>4, Zenon DEF EnqueuedAllIt

\* An empty batch leaves the sink as it is.
LEMMA EnqueuedAllOfNone ==
    ASSUME NEW sink
    PROVE  EnqueuedAll(sink, <<>>) = sink
<1>1. DOMAIN <<>> = 1..0
  OBVIOUS
<1>2. EnqueuedAll(sink, <<>>) = EnqueuedAllIt(sink, <<>>, 0)[1..0]
  BY <1>1, EnqueuedAllIsFold
<1>3. EnqueuedAllIter(sink, <<>>, 0, EnqueuedAllIt(sink, <<>>, 0))
  BY EnqueuedAllHasFold
<1>4. 1..0 = {} /\ {} \in SUBSET (1..0)
  OBVIOUS
<1> QED BY <1>2, <1>3, <1>4, Zenon DEF EnqueuedAllIter

\* A batch with one line more tees that line to the sink the others leave
\* (enqueue).
LEMMA EnqueuedAllOfMore ==
    ASSUME NEW sink, NEW S, NEW lines \in Seq(S), NEW x \in S
    PROVE  EnqueuedAll(sink, Append(lines, x)) = Enqueued(EnqueuedAll(sink, lines), x)
<1> DEFINE n == Len(lines)
           more == Append(lines, x)
           it == EnqueuedAllIt(sink, lines, n)
           jt == EnqueuedAllIt(sink, more, n + 1)
<1>1. n \in Nat /\ n + 1 \in Nat
  OBVIOUS
<1>2. DOMAIN lines = 1..n /\ DOMAIN more = 1..(n + 1)
  OBVIOUS
<1>3. (\A i \in 1..n : more[i] = lines[i]) /\ more[n + 1] = x
  OBVIOUS
<1>4. EnqueuedAll(sink, lines) = it[1..n] /\ EnqueuedAll(sink, more) = jt[1..(n + 1)]
  <2> HIDE DEF n, more
  <2> QED BY <1>1, <1>2, EnqueuedAllIsFold
<1>5. EnqueuedAllIter(sink, lines, n, it) /\ EnqueuedAllIter(sink, more, n + 1, jt)
  BY <1>1, EnqueuedAllHasFold
<1> HIDE DEF n, more, it, jt
<1>6. jt[{}] = it[{}]
  BY <1>5 DEF EnqueuedAllIter
<1>7. ASSUME NEW s \in SUBSET (1..n), s # {}, jt[s \ {Max(s)}] = it[s \ {Max(s)}]
      PROVE  jt[s] = it[s]
  <2>1. s \in SUBSET (1..(n + 1))
    BY <1>1
  <2>2. Max(s) \in 1..n
    <3>1. Max(s) \in s
      BY <1>1, <1>7, MaxUpTo
    <3> QED BY <3>1
  <2>3. jt[s] = Enqueued(jt[s \ {Max(s)}], more[Max(s)])
    BY <1>5, <1>7, <2>1 DEF EnqueuedAllIter
  <2>4. it[s] = Enqueued(it[s \ {Max(s)}], lines[Max(s)])
    BY <1>5, <1>7 DEF EnqueuedAllIter
  <2> QED BY <1>3, <1>7, <2>2, <2>3, <2>4
<1>8. jt[1..n] = it[1..n]
  <2>1. SameSteps(n, jt, it)
    BY <1>6, <1>7 DEF SameSteps
  <2> QED BY <1>1, <2>1, FoldsAgree
<1>9. jt[1..(n + 1)] = Enqueued(jt[1..n], more[n + 1])
  <2>1. /\ 1..(n + 1) \in SUBSET (1..(n + 1)) /\ 1..(n + 1) # {}
        /\ Max(1..(n + 1)) = n + 1 /\ (1..(n + 1)) \ {n + 1} = 1..n
    BY <1>1, WholePrefix
  <2> QED BY <1>5, <2>1 DEF EnqueuedAllIter
<1> QED BY <1>3, <1>4, <1>8, <1>9 DEF more

\* The fold of a batch that is looked through line by line.
Passed(kept, r, out) == IF r \in out THEN kept ELSE Append(kept, r)

PassingIter(batch, out, n, it) ==
    it = [s \in SUBSET (1..n) |->
            IF s = {} THEN <<>> ELSE Passed(it[s \ {Max(s)}], batch[Max(s)], out)]
PassingIt(batch, out, n) == CHOOSE it : PassingIter(batch, out, n, it)

\* What is kept of a batch is the value of this fold at the whole batch.
LEMMA PassingIsFold ==
    ASSUME NEW batch, NEW out, NEW n \in Nat, DOMAIN batch = 1..n
    PROVE  Passing(batch, out) = PassingIt(batch, out, n)[1..n]
BY Zenon DEF Passing, PassingIt, PassingIter, Passed, FoldLeft, MapThenFoldSet

\* Such a fold exists, by induction over the entries of the batch.
LEMMA PassingHasFold ==
    ASSUME NEW batch, NEW out, NEW n \in Nat
    PROVE  PassingIter(batch, out, n, PassingIt(batch, out, n))
<1> DEFINE S == {k \in Nat : \E it : PassingIter(batch, out, k, it)}
<1>1. 0 \in S
  <2> DEFINE it == [s \in SUBSET (1..0) |-> <<>>]
  <2>1. \A s \in SUBSET (1..0) : s = {}
    OBVIOUS
  <2>2. PassingIter(batch, out, 0, it)
    BY <2>1 DEF PassingIter
  <2> QED BY <2>2
<1>2. ASSUME NEW k \in Nat, k \in S PROVE k + 1 \in S
  <2>1. PICK it : PassingIter(batch, out, k, it)
    BY <1>2
  <2> DEFINE jt == [s \in SUBSET (1..(k + 1)) |->
                      IF k + 1 \in s THEN Passed(it[s \ {k + 1}], batch[k + 1], out) ELSE it[s]]
  <2>2. \A s \in SUBSET (1..k) : jt[s] = it[s]
    OBVIOUS
  <2>3. ASSUME NEW s \in SUBSET (1..(k + 1))
        PROVE  jt[s] = IF s = {} THEN <<>> ELSE Passed(jt[s \ {Max(s)}], batch[Max(s)], out)
    <3>1. CASE s = {}
      BY <2>1, <2>2, <3>1 DEF PassingIter
    <3>2. CASE s # {} /\ k + 1 \in s
      BY <2>2, <3>2, SetsUpTo
    <3>3. CASE s # {} /\ k + 1 \notin s
      <4>1. s \in SUBSET (1..k) /\ s \ {Max(s)} \in SUBSET (1..k)
        BY <3>3, SetsUpTo
      <4> QED BY <2>1, <2>2, <3>3, <4>1 DEF PassingIter
    <3> QED BY <3>1, <3>2, <3>3
  <2>4. PassingIter(batch, out, k + 1, jt)
    BY <2>3 DEF PassingIter
  <2> QED BY <2>4
<1> HIDE DEF S
<1>3. Nat \subseteq S
  BY <1>1, <1>2, SetInduction
<1>4. \E it : PassingIter(batch, out, n, it)
  BY <1>3 DEF S
<1> QED BY <1>4, Zenon DEF PassingIt

\* Nothing is kept of an empty batch.
LEMMA PassingOfNone == ASSUME NEW out PROVE Passing(<<>>, out) = <<>>
<1>1. DOMAIN <<>> = 1..0
  OBVIOUS
<1>2. Passing(<<>>, out) = PassingIt(<<>>, out, 0)[1..0]
  BY <1>1, PassingIsFold
<1>3. PassingIter(<<>>, out, 0, PassingIt(<<>>, out, 0))
  BY PassingHasFold
<1>4. 1..0 = {} /\ {} \in SUBSET (1..0)
  OBVIOUS
<1> QED BY <1>2, <1>3, <1>4, Zenon DEF PassingIter

\* One entry more is kept if it is not one of those left out.
LEMMA PassingOfMore ==
    ASSUME NEW S, NEW out, NEW batch \in Seq(S), NEW x \in S
    PROVE  Passing(Append(batch, x), out) = Passed(Passing(batch, out), x, out)
<1> DEFINE n == Len(batch)
           more == Append(batch, x)
           it == PassingIt(batch, out, n)
           jt == PassingIt(more, out, n + 1)
<1>1. n \in Nat /\ n + 1 \in Nat
  OBVIOUS
<1>2. DOMAIN batch = 1..n /\ DOMAIN more = 1..(n + 1)
  OBVIOUS
<1>3. (\A i \in 1..n : more[i] = batch[i]) /\ more[n + 1] = x
  OBVIOUS
<1>4. Passing(batch, out) = it[1..n] /\ Passing(more, out) = jt[1..(n + 1)]
  <2> HIDE DEF n, more
  <2> QED BY <1>1, <1>2, PassingIsFold
<1>5. PassingIter(batch, out, n, it) /\ PassingIter(more, out, n + 1, jt)
  BY <1>1, PassingHasFold
<1> HIDE DEF n, more, it, jt
<1>6. jt[{}] = it[{}]
  BY <1>5 DEF PassingIter
<1>7. ASSUME NEW s \in SUBSET (1..n), s # {}, jt[s \ {Max(s)}] = it[s \ {Max(s)}]
      PROVE  jt[s] = it[s]
  <2>1. s \in SUBSET (1..(n + 1))
    BY <1>1
  <2>2. Max(s) \in 1..n
    <3>1. Max(s) \in s
      BY <1>1, <1>7, MaxUpTo
    <3> QED BY <3>1
  <2>3. jt[s] = Passed(jt[s \ {Max(s)}], more[Max(s)], out)
    BY <1>5, <1>7, <2>1 DEF PassingIter
  <2>4. it[s] = Passed(it[s \ {Max(s)}], batch[Max(s)], out)
    BY <1>5, <1>7 DEF PassingIter
  <2> QED BY <1>3, <1>7, <2>2, <2>3, <2>4
<1>8. jt[1..n] = it[1..n]
  <2>1. SameSteps(n, jt, it)
    BY <1>6, <1>7 DEF SameSteps
  <2> QED BY <1>1, <2>1, FoldsAgree
<1>9. jt[1..(n + 1)] = Passed(jt[1..n], more[n + 1], out)
  <2>1. /\ 1..(n + 1) \in SUBSET (1..(n + 1)) /\ 1..(n + 1) # {}
        /\ Max(1..(n + 1)) = n + 1 /\ (1..(n + 1)) \ {n + 1} = 1..n
    BY <1>1, WholePrefix
  <2> QED BY <1>5, <2>1 DEF PassingIter
<1> QED BY <1>3, <1>4, <1>8, <1>9 DEF more
-----------------------------------------------------------------------------
(***************************************************************************)
(* What the extension and the sink cut from their buffers.                 *)
(***************************************************************************)

\* The limits of the buffers and batches are positive.
LEMMA LimitsAreNats ==
    /\ MaxRecords \in Nat /\ MaxRecords > 0 /\ MaxBuffer \in Nat /\ MaxBuffer > 0
    /\ MaxChunk \in Nat /\ MaxChunk > 0 /\ MaxRemote \in Nat /\ MaxRemote > 0
    /\ MaxBatch \in Nat /\ MaxBatch > 0
BY LogPipelineAssumption

\* The smaller of two numbers.
LEMMA MinOfTwo ==
    ASSUME NEW a \in Int, NEW b \in Int
    PROVE  Min({a, b}) = IF a <= b THEN a ELSE b
<1> DEFINE m == IF a <= b THEN a ELSE b
<1>1. m \in {a, b} /\ \A y \in {a, b} : m <= y
  OBVIOUS
<1>2. \A x \in {a, b} : (\A y \in {a, b} : x <= y) => x = m
  OBVIOUS
<1> HIDE DEF m
<1>3. Min({a, b}) = m
  BY <1>1, <1>2, Zenon DEF Min
<1> QED BY <1>3 DEF m

\* Without takes entries off the front and keeps the others in their places
\* (fresh.slice in flushPending).
LEMMA WithoutIs ==
    ASSUME NEW S, NEW s \in Seq(S), NEW n \in Nat
    PROVE  /\ Without(s, n) \in Seq(S)
           /\ \A i \in DOMAIN Without(s, n) : i + n \in DOMAIN s /\ Without(s, n)[i] = s[i + n]
<1> DEFINE w == SubSeq(s, n + 1, Len(s))
<1>1. Len(s) \in Nat /\ n + 1 \in Int /\ Len(s) \in Int
  BY LenProperties
<1>2. \A i \in (n + 1)..Len(s) : s[i] \in S
  BY <1>1, ElementOfSeq
<1>3. /\ w \in Seq(S)
      /\ Len(w) = IF n + 1 <= Len(s) THEN Len(s) - (n + 1) + 1 ELSE 0
      /\ \A i \in 1..(Len(s) - (n + 1) + 1) : w[i] = s[(n + 1) + i - 1]
  BY <1>1, <1>2, SubSeqProperties
<1> HIDE DEF w
<1>4. DOMAIN w = 1..Len(w) /\ DOMAIN s = 1..Len(s)
  BY <1>3, LenProperties
<1>5. ASSUME NEW i \in DOMAIN w PROVE i + n \in DOMAIN s /\ w[i] = s[i + n]
  <2>1. i \in 1..Len(w)
    BY <1>4
  <2>2. i \in 1..(Len(s) - (n + 1) + 1) /\ (n + 1) + i - 1 = i + n /\ i + n \in 1..Len(s)
    <3>1. n + 1 <= Len(s) /\ Len(w) = Len(s) - (n + 1) + 1 /\ Len(w) \in Nat
      <4>1. Len(w) \in Nat
        BY <1>3, LenProperties
      <4>2. Len(w) # 0
        BY <2>1, <4>1
      <4> QED BY <1>1, <1>3, <4>1, <4>2
    <3>2. i \in Nat /\ i >= 1 /\ i <= Len(s) - (n + 1) + 1
      BY <2>1, <3>1
    <3> QED BY <1>1, <3>1, <3>2
  <2> QED BY <1>3, <1>4, <2>2
<1>6. Without(s, n) = w
  BY DEF Without, w
<1> QED BY <1>3, <1>5, <1>6

\* Dropping the oldest entries takes them off the front (logger.ts, enqueue of
\* remote-sink.ts).
LEMMA NewestIs ==
    ASSUME NEW S, NEW s \in Seq(S), NEW n \in Nat
    PROVE  \E m \in Nat : Newest(s, n) = Without(s, m)
<1>1. Len(s) \in Nat
  BY LenProperties
<1>2. CASE Len(s) > n
  <2>1. Len(s) - n \in Nat /\ (Len(s) - n) + 1 = Len(s) - n + 1
    BY <1>1, <1>2
  <2>2. Newest(s, n) = Without(s, Len(s) - n)
    BY <1>2, <2>1 DEF Newest, Without
  <2> QED BY <2>1, <2>2
<1>3. CASE ~(Len(s) > n)
  <2>1. Newest(s, n) = s /\ SubSeq(s, 0 + 1, Len(s)) = s
    BY <1>3, SubSeqFull DEF Newest
  <2>2. Newest(s, n) = Without(s, 0)
    BY <2>1 DEF Without
  <2> QED BY <2>2
<1> QED BY <1>2, <1>3

\* First is the front of a sequence, entry by entry (snapshot.slice).
LEMMA FirstIs ==
    ASSUME NEW S, NEW s \in Seq(S), NEW n \in Nat
    PROVE  /\ First(s, n) \in Seq(S)
           /\ \A i \in DOMAIN First(s, n) : i \in DOMAIN s /\ i <= n /\ First(s, n)[i] = s[i]
           /\ \A i \in DOMAIN s : i <= n => i \in DOMAIN First(s, n)
<1> DEFINE m == IF n <= Len(s) THEN n ELSE Len(s)
           w == SubSeq(s, 1, m)
<1>1. Len(s) \in Nat /\ Len(s) \in Int /\ m \in Nat /\ m <= Len(s)
  BY LenProperties
<1>2. Min({n, Len(s)}) = m
  BY <1>1, MinOfTwo
<1>3. \A i \in 1..m : s[i] \in S
  BY <1>1, ElementOfSeq
<1> HIDE DEF m
<1>4. /\ w \in Seq(S)
      /\ Len(w) = IF 1 <= m THEN m - 1 + 1 ELSE 0
      /\ \A i \in 1..(m - 1 + 1) : w[i] = s[1 + i - 1]
  BY <1>1, <1>3, SubSeqProperties
<1> HIDE DEF w
<1>5. DOMAIN w = 1..m /\ DOMAIN s = 1..Len(s)
  <2>1. Len(w) = m
    BY <1>1, <1>4
  <2> QED BY <1>4, <2>1, LenProperties
<1>6. ASSUME NEW i \in 1..m PROVE w[i] = s[i]
  <2>1. i \in 1..(m - 1 + 1) /\ 1 + i - 1 = i
    BY <1>1
  <2> QED BY <1>4, <2>1
<1>7. (\A i \in 1..m : i \in 1..Len(s) /\ i <= n) /\ \A i \in 1..Len(s) : i <= n => i \in 1..m
  BY <1>1 DEF m
<1>8. First(s, n) = w
  BY <1>2 DEF First, w
<1> QED BY <1>4, <1>5, <1>6, <1>7, <1>8

\* An entry of a frame is an entry of the buffer, and the frames keep the order.
ChunkOf(s, f, a, p) == p \in DOMAIN s /\ p = (f - 1) * MaxChunk + a /\ Chunks(s)[f][a] = s[p]

\* The frames of a flush hold the entries of the buffer, each at its place.
LEMMA ChunksAre ==
    ASSUME NEW S, NEW s \in Seq(S)
    PROVE  /\ Chunks(s) \in Seq(Seq(S))
           /\ \A f \in DOMAIN Chunks(s) : \A a \in DOMAIN Chunks(s)[f] :
                 f \in Nat \ {0} /\ a \in 1..MaxChunk /\ \E p : ChunkOf(s, f, a, p)
<1> DEFINE n == (Len(s) + MaxChunk - 1) \div MaxChunk
<1>1. Len(s) \in Nat /\ MaxChunk \in Nat /\ MaxChunk > 0
  BY LenProperties, LimitsAreNats
<1>2. n \in Nat
  BY <1>1
<1> HIDE DEF n
<1>3. Chunks(s) = [i \in 1..n |-> First(Without(s, (i - 1) * MaxChunk), MaxChunk)]
  BY DEF Chunks, n
<1>4. ASSUME NEW f \in 1..n
      PROVE  /\ Chunks(s)[f] \in Seq(S)
             /\ \A a \in DOMAIN Chunks(s)[f] :
                   f \in Nat \ {0} /\ a \in 1..MaxChunk /\ \E p : ChunkOf(s, f, a, p)
  <2> DEFINE at == (f - 1) * MaxChunk
             rest == Without(s, at)
  <2>0. f \in Nat /\ f >= 1 /\ f - 1 \in Nat
    BY <1>2
  <2>1. at \in Nat
    <3>1. \A x, y \in Nat : x * y \in Nat
      OBVIOUS
    <3> QED BY <1>1, <2>0, <3>1
  <2>2. Chunks(s)[f] = First(rest, MaxChunk)
    BY <1>3
  <2> HIDE DEF at
  <2>3. /\ rest \in Seq(S)
        /\ \A i \in DOMAIN rest : i + at \in DOMAIN s /\ rest[i] = s[i + at]
    BY <2>1, WithoutIs
  <2> HIDE DEF rest
  <2>4. /\ First(rest, MaxChunk) \in Seq(S)
        /\ \A i \in DOMAIN First(rest, MaxChunk) :
              i \in DOMAIN rest /\ i <= MaxChunk /\ First(rest, MaxChunk)[i] = rest[i]
    BY <1>1, <2>3, FirstIs
  <2>5. ASSUME NEW a \in DOMAIN Chunks(s)[f]
        PROVE  a \in 1..MaxChunk /\ \E p : ChunkOf(s, f, a, p)
    <3>1. a \in DOMAIN rest /\ a <= MaxChunk /\ Chunks(s)[f][a] = rest[a]
      BY <2>2, <2>4
    <3>2. a \in Nat /\ a >= 1
      BY <2>3, <3>1, LenProperties
    <3>3. a + at \in DOMAIN s /\ Chunks(s)[f][a] = s[a + at]
      BY <2>3, <3>1
    <3>4. a + at = (f - 1) * MaxChunk + a
      BY <1>1, <2>0, <2>1, <3>2 DEF at
    <3>5. ChunkOf(s, f, a, a + at)
      BY <3>3, <3>4 DEF ChunkOf
    <3> QED BY <1>1, <3>1, <3>2, <3>5
  <2> QED BY <2>0, <2>2, <2>4, <2>5
<1>5. Chunks(s) \in Seq(Seq(S)) /\ DOMAIN Chunks(s) = 1..n
  <2>1. DOMAIN Chunks(s) = 1..n
    BY <1>3
  <2>2. Chunks(s) \in [1..n -> Seq(S)]
    <3>1. Chunks(s) = [i \in 1..n |-> Chunks(s)[i]]
      BY <1>3
    <3> QED BY <1>4, <3>1
  <2> QED BY <1>2, <2>1, <2>2, SeqDef
<1> QED BY <1>4, <1>5

\* What is in an earlier frame is earlier in the buffer.
LEMMA ChunksKeepOrder ==
    ASSUME NEW f \in Nat \ {0}, NEW g \in Nat, f < g,
           NEW a \in 1..MaxChunk, NEW b \in 1..MaxChunk
    PROVE  (f - 1) * MaxChunk + a < (g - 1) * MaxChunk + b
<1>1. MaxChunk \in Nat /\ MaxChunk > 0 /\ a \in Nat /\ b \in Nat /\ a <= MaxChunk /\ 1 <= b
  BY LimitsAreNats
<1>2. g - 1 - f \in Nat /\ f - 1 \in Nat
  OBVIOUS
<1>3. (g - 1) * MaxChunk = (g - 1 - f) * MaxChunk + (f - 1) * MaxChunk + MaxChunk
  BY <1>1, <1>2
<1>4. (g - 1 - f) * MaxChunk >= 0
  <2>1. \A x, y \in Nat : x * y >= 0
    OBVIOUS
  <2> QED BY <1>1, <1>2, <2>1
<1>5. (g - 1 - f) * MaxChunk \in Int /\ (f - 1) * MaxChunk \in Int
  BY <1>1, <1>2
<1> QED BY <1>1, <1>3, <1>4, <1>5

\* What is kept of a batch are entries of it, in its order.
PassingIsPart(s, out) ==
    /\ \A i \in DOMAIN Passing(s, out) : \E p \in DOMAIN s : Passing(s, out)[i] = s[p]
    /\ \A i, j \in DOMAIN Passing(s, out) : i < j =>
          \E p, q \in DOMAIN s : p < q /\ Passing(s, out)[i] = s[p] /\ Passing(s, out)[j] = s[q]

\* Leaving entries out does not reorder the others.
LEMMA PassingIs ==
    ASSUME NEW S, NEW out, NEW batch \in Seq(S)
    PROVE  Passing(batch, out) \in Seq(S) /\ PassingIsPart(batch, out)
<1> DEFINE Kept(s) == Passing(s, out) \in Seq(S) /\ PassingIsPart(s, out)
           T == {n \in Nat : \A s \in Seq(S) : Len(s) = n => Kept(s)}
<1>1. 0 \in T
  <2> SUFFICES ASSUME NEW s \in Seq(S), Len(s) = 0 PROVE Kept(s)
    OBVIOUS
  <2>1. Passing(s, out) = <<>>
    BY EmptySeq, PassingOfNone
  <2>2. DOMAIN Passing(s, out) = {} /\ Passing(s, out) \in Seq(S)
    BY <2>1, EmptySeq
  <2> QED BY <2>2 DEF PassingIsPart
<1>2. ASSUME NEW n \in Nat, n \in T PROVE n + 1 \in T
  <2> SUFFICES ASSUME NEW ss \in Seq(S), Len(ss) = n + 1 PROVE Kept(ss)
    OBVIOUS
  <2>1. ss # <<>>
    BY EmptySeq
  <2>2. PICK s \in Seq(S), x \in S : ss = Append(s, x)
    BY <2>1, SequenceEmptyOrAppend
  <2>3. /\ Len(s) = n /\ DOMAIN s = 1..n /\ DOMAIN ss = 1..(n + 1)
        /\ \A i \in 1..n : ss[i] = s[i]
        /\ ss[n + 1] = x
    BY <2>2, AppendProperties, LenProperties
  <2>4. Passing(s, out) \in Seq(S) /\ PassingIsPart(s, out)
    BY <1>2, <2>3
  <2>5. Passing(ss, out) = Passed(Passing(s, out), x, out)
    BY <2>2, PassingOfMore
  <2>6. DOMAIN s \subseteq DOMAIN ss
    BY <2>3
  <2> HIDE DEF T
  <2>7. CASE x \in out
    <3>1. Passing(ss, out) = Passing(s, out)
      BY <2>5, <2>7 DEF Passed
    <3>2. ASSUME NEW i \in DOMAIN Passing(ss, out)
          PROVE  \E p \in DOMAIN ss : Passing(ss, out)[i] = ss[p]
      <4>1. PICK p \in DOMAIN s : Passing(s, out)[i] = s[p]
        BY <2>4, <3>1 DEF PassingIsPart
      <4> QED BY <2>3, <2>6, <3>1, <4>1
    <3>3. ASSUME NEW i \in DOMAIN Passing(ss, out), NEW j \in DOMAIN Passing(ss, out), i < j
          PROVE  \E p, q \in DOMAIN ss :
                    p < q /\ Passing(ss, out)[i] = ss[p] /\ Passing(ss, out)[j] = ss[q]
      <4>1. PICK p \in DOMAIN s, q \in DOMAIN s :
                    p < q /\ Passing(s, out)[i] = s[p] /\ Passing(s, out)[j] = s[q]
        BY <2>4, <3>1, <3>3 DEF PassingIsPart
      <4> QED BY <2>3, <2>6, <3>1, <4>1
    <3> QED BY <2>4, <3>1, <3>2, <3>3 DEF PassingIsPart
  <2>8. CASE x \notin out
    <3> DEFINE m == Len(Passing(s, out))
    <3>1. /\ Passing(ss, out) = Append(Passing(s, out), x)
          /\ Passing(ss, out) \in Seq(S) /\ m \in Nat
          /\ DOMAIN Passing(s, out) = 1..m /\ DOMAIN Passing(ss, out) = 1..(m + 1)
          /\ \A i \in 1..m : Passing(ss, out)[i] = Passing(s, out)[i]
          /\ Passing(ss, out)[m + 1] = x
      <4>1. Passing(ss, out) = Append(Passing(s, out), x)
        BY <2>5, <2>8 DEF Passed
      <4> QED BY <2>4, <4>1, AppendProperties, LenProperties
    <3> HIDE DEF m
    <3>2. ASSUME NEW i \in 1..m PROVE \E p \in DOMAIN s : Passing(ss, out)[i] = s[p]
      BY <2>4, <3>1 DEF PassingIsPart
    <3>3. ASSUME NEW i \in DOMAIN Passing(ss, out)
          PROVE  \E p \in DOMAIN ss : Passing(ss, out)[i] = ss[p]
      <4>1. CASE i \in 1..m
        <5>1. PICK p \in DOMAIN s : Passing(ss, out)[i] = s[p]
          BY <3>2, <4>1
        <5> QED BY <2>3, <2>6, <5>1
      <4>2. CASE i = m + 1
        <5>1. n + 1 \in DOMAIN ss /\ Passing(ss, out)[i] = ss[n + 1]
          BY <2>3, <3>1, <4>2
        <5> QED BY <5>1
      <4> QED BY <3>1, <4>1, <4>2
    <3>4. ASSUME NEW i \in DOMAIN Passing(ss, out), NEW j \in DOMAIN Passing(ss, out), i < j
          PROVE  \E p, q \in DOMAIN ss :
                    p < q /\ Passing(ss, out)[i] = ss[p] /\ Passing(ss, out)[j] = ss[q]
      <4>0. i \in 1..m /\ (j \in 1..m \/ j = m + 1)
        BY <3>1, <3>4
      <4>1. CASE j \in 1..m
        <5>0. i \in DOMAIN Passing(s, out) /\ j \in DOMAIN Passing(s, out)
          BY <3>1, <4>0, <4>1
        <5>1. PICK p \in DOMAIN s, q \in DOMAIN s :
                 p < q /\ Passing(s, out)[i] = s[p] /\ Passing(s, out)[j] = s[q]
          BY <2>4, <3>4, <5>0, Zenon DEF PassingIsPart
        <5>2. Passing(ss, out)[i] = ss[p] /\ Passing(ss, out)[j] = ss[q]
          BY <2>3, <3>1, <4>0, <4>1, <5>1
        <5> QED BY <2>6, <5>1, <5>2
      <4>2. CASE j = m + 1
        <5>1. PICK p \in DOMAIN s : Passing(ss, out)[i] = s[p]
          BY <3>2, <4>0
        <5>2. /\ n + 1 \in DOMAIN ss /\ Passing(ss, out)[j] = ss[n + 1]
              /\ p < n + 1 /\ p \in DOMAIN ss
          BY <2>3, <3>1, <4>2
        <5>3. Passing(ss, out)[i] = ss[p]
          BY <2>3, <5>1
        <5> QED BY <5>2, <5>3
      <4> QED BY <4>0, <4>1, <4>2
    <3> QED BY <3>1, <3>3, <3>4 DEF PassingIsPart
  <2> QED BY <2>7, <2>8
<1> HIDE DEF Kept, T
<1>3. Nat \subseteq T
  BY <1>1, <1>2, SetInduction
<1>4. Len(batch) \in T
  BY <1>3, LenProperties
<1>5. Kept(batch)
  BY <1>4 DEF T
<1> QED BY <1>5 DEF Kept
-----------------------------------------------------------------------------
(***************************************************************************)
(* What the files hold.                                                    *)
(***************************************************************************)

\* The first n distances from the oldest generation.
Oldest(n) == [i \in 1..n |-> i - 1]

\* With one generation more, the last of them is the next newer.
LEMMA OldestOfMore ==
    ASSUME NEW n \in Nat
    PROVE  Oldest(n) \in Seq(Nat) /\ Oldest(n + 1) = Append(Oldest(n), n)
<1>1. Oldest(n) \in Seq(Nat) /\ Len(Oldest(n)) = n
  <2>1. \A i \in 1..n : i - 1 \in Nat
    OBVIOUS
  <2> QED BY <2>1, IsASeq DEF Oldest
<1>2. Oldest(n + 1) \in Seq(Nat) /\ Len(Oldest(n + 1)) = n + 1
  <2>1. \A i \in 1..(n + 1) : i - 1 \in Nat
    OBVIOUS
  <2>2. n + 1 \in Nat
    OBVIOUS
  <2> QED BY <2>1, <2>2, IsASeq DEF Oldest
<1>3. /\ Append(Oldest(n), n) \in Seq(Nat) /\ Len(Append(Oldest(n), n)) = n + 1
      /\ \A i \in 1..n : Append(Oldest(n), n)[i] = Oldest(n)[i]
      /\ Append(Oldest(n), n)[n + 1] = n
  BY <1>1, AppendProperties
<1>4. ASSUME NEW i \in 1..(n + 1)
      PROVE  Oldest(n + 1)[i] = Append(Oldest(n), n)[i]
  BY <1>3 DEF Oldest
<1> QED BY <1>1, <1>2, <1>3, <1>4, SeqEqual

\* The lines of the n oldest generations.
LinesOfOldest(fs, n) == Lines(fs, Oldest(n))

\* No generation, no lines.
LEMMA NoneOfOldest == ASSUME NEW fs PROVE LinesOfOldest(fs, 0) = <<>>
<1>1. Oldest(0) = <<>>
  BY DEF Oldest
<1> QED BY <1>1, LinesOfNone DEF LinesOfOldest

\* The next newer generation adds its lines at the end.
LEMMA MoreOfOldest ==
    ASSUME NEW fs, NEW n \in Nat
    PROVE  LinesOfOldest(fs, n + 1) = LinesOfOldest(fs, n) \o fs[Keep - n]
BY OldestOfMore, LinesOfMore DEF LinesOfOldest

\* The log is the lines of all the generations, from the oldest.
LEMMA AllAreOldest == ASSUME NEW fs PROVE AllLines(fs) = LinesOfOldest(fs, Keep + 1)
BY DEF AllLines, LinesOfOldest, Lines, Oldest

\* At least one rotated generation is kept.
LEMMA KeepIsNat == Keep \in Nat /\ Keep > 0 /\ Keep + 1 \in Nat
BY LogFilesAssumption

\* The lines of the oldest generations are lines of the files.
LEMMA OldestAreLines ==
    ASSUME NEW S, NEW fs \in [Generations -> Seq(S)]
    PROVE  \A n \in 0..(Keep + 1) : LinesOfOldest(fs, n) \in Seq(S)
<1> DEFINE T == {n \in Nat : n <= Keep + 1 => LinesOfOldest(fs, n) \in Seq(S)}
<1>1. 0 \in T
  BY NoneOfOldest, EmptySeq
<1>2. ASSUME NEW n \in Nat, n \in T PROVE n + 1 \in T
  <2> SUFFICES ASSUME n + 1 <= Keep + 1 PROVE LinesOfOldest(fs, n + 1) \in Seq(S)
    OBVIOUS
  <2>1. n <= Keep + 1 /\ Keep - n \in Generations
    BY KeepIsNat DEF Generations
  <2>2. LinesOfOldest(fs, n) \in Seq(S) /\ fs[Keep - n] \in Seq(S)
    BY <1>2, <2>1
  <2>3. LinesOfOldest(fs, n) \o fs[Keep - n] \in Seq(S)
    BY <2>2, ConcatProperties
  <2> QED BY <2>3, MoreOfOldest
<1> HIDE DEF T
<1>3. Nat \subseteq T
  BY <1>1, <1>2, SetInduction
<1> QED BY <1>3, KeepIsNat DEF T

\* The log is a sequence of lines of the files.
LEMMA AllLinesIsSeq ==
    ASSUME NEW S, NEW fs \in [Generations -> Seq(S)]
    PROVE  AllLines(fs) \in Seq(S)
BY KeepIsNat, OldestAreLines, AllAreOldest

\* Files that agree on the n oldest generations hold the same lines there.
LEMMA SameOldest ==
    ASSUME NEW fs, NEW hs, NEW n \in Nat, \A m \in 0..(n - 1) : hs[Keep - m] = fs[Keep - m]
    PROVE  LinesOfOldest(hs, n) = LinesOfOldest(fs, n)
<1> DEFINE T == {m \in Nat : m <= n => LinesOfOldest(hs, m) = LinesOfOldest(fs, m)}
<1>1. 0 \in T
  BY NoneOfOldest
<1>2. ASSUME NEW m \in Nat, m \in T PROVE m + 1 \in T
  <2> SUFFICES ASSUME m + 1 <= n PROVE LinesOfOldest(hs, m + 1) = LinesOfOldest(fs, m + 1)
    OBVIOUS
  <2>1. LinesOfOldest(hs, m) = LinesOfOldest(fs, m) /\ hs[Keep - m] = fs[Keep - m]
    BY <1>2
  <2> QED BY <2>1, MoreOfOldest
<1> HIDE DEF T
<1>3. Nat \subseteq T
  BY <1>1, <1>2, SetInduction
<1> QED BY <1>3 DEF T

\* The n oldest generations after the shift: without the oldest, and with the
\* gap at k + 1.
ShiftedLines(fs, hs, k, n) ==
    LET joined == fs[Keep] \o LinesOfOldest(hs, n)
    IN  /\ n < Keep - k => joined = LinesOfOldest(fs, n + 1)
        /\ n >= Keep - k => joined = LinesOfOldest(fs, n)

\* A rotation takes the oldest generation off the old end, whichever generation
\* it stops at, and nothing else.
LEMMA ShiftTakesOldest ==
    ASSUME NEW S, NEW fs \in [Generations -> Seq(S)], NEW k \in (-1)..(Keep - 1)
    PROVE  /\ ShiftedAbove(fs, k) \in [Generations -> Seq(S)]
           /\ AllLines(fs) = fs[Keep] \o AllLines(ShiftedAbove(fs, k))
<1> DEFINE hs == ShiftedAbove(fs, k)
<1>0. Keep \in Nat /\ Keep > 0 /\ k \in Int /\ -1 <= k /\ k <= Keep - 1
  BY KeepIsNat
<1>1. hs \in [Generations -> Seq(S)]
  <2>1. <<>> \in Seq(S)
    BY EmptySeq
  <2>2. \A i \in Generations : i > k + 1 => i - 1 \in Generations
    BY <1>0 DEF Generations
  <2> QED BY <2>1, <2>2 DEF ShiftedAbove
<1>2. ASSUME NEW m \in Nat, m <= Keep
      PROVE  /\ m < Keep - k - 1 => hs[Keep - m] = fs[Keep - (m + 1)]
             /\ m = Keep - k - 1 => hs[Keep - m] = <<>>
             /\ m > Keep - k - 1 => hs[Keep - m] = fs[Keep - m]
  <2>1. Keep - m \in Generations /\ (Keep - m) - 1 = Keep - (m + 1)
    BY <1>0, <1>2 DEF Generations
  <2>2. hs[Keep - m] = IF Keep - m > k + 1 THEN fs[(Keep - m) - 1]
                       ELSE IF Keep - m = k + 1 THEN <<>> ELSE fs[Keep - m]
    BY <2>1 DEF ShiftedAbove
  <2>3. /\ m < Keep - k - 1 => Keep - m > k + 1
        /\ m = Keep - k - 1 => ~(Keep - m > k + 1) /\ Keep - m = k + 1
        /\ m > Keep - k - 1 => ~(Keep - m > k + 1) /\ Keep - m # k + 1
    BY <1>0, <1>2
  <2> QED BY <2>1, <2>2, <2>3
<1>3. fs[Keep] \in Seq(S) /\ Keep \in Generations
  BY <1>0 DEF Generations
<1> DEFINE T == {n \in Nat : n <= Keep + 1 => ShiftedLines(fs, hs, k, n)}
<1> HIDE DEF hs
<1>4. 0 \in T
  <2>1. 0 < Keep - k /\ Keep - 0 = Keep
    BY <1>0
  <2>2. LinesOfOldest(fs, 0 + 1) = <<>> \o fs[Keep]
    BY <2>1, MoreOfOldest, NoneOfOldest
  <2>3. <<>> \o fs[Keep] = fs[Keep] /\ fs[Keep] \o <<>> = fs[Keep]
    BY <1>3, ConcatEmptySeq
  <2>4. fs[Keep] \o LinesOfOldest(hs, 0) = LinesOfOldest(fs, 0 + 1)
    BY <2>2, <2>3, NoneOfOldest, Zenon
  <2>5. ShiftedLines(fs, hs, k, 0)
    <3>1. ~(0 >= Keep - k)
      BY <1>0
    <3> QED BY <2>4, <3>1, Zenon DEF ShiftedLines
  <2> QED BY <2>5
<1>5. ASSUME NEW n \in Nat, n \in T PROVE n + 1 \in T
  <2> SUFFICES ASSUME n + 1 <= Keep + 1 PROVE ShiftedLines(fs, hs, k, n + 1)
    OBVIOUS
  <2>1. n <= Keep /\ n \in 0..(Keep + 1) /\ Keep - n \in Generations
    BY <1>0 DEF Generations
  <2>2. LinesOfOldest(hs, n) \in Seq(S) /\ hs[Keep - n] \in Seq(S)
    BY <1>1, <2>1, OldestAreLines
  <2>3. fs[Keep] \o LinesOfOldest(hs, n + 1)
          = (fs[Keep] \o LinesOfOldest(hs, n)) \o hs[Keep - n]
    <3>1. LinesOfOldest(hs, n + 1) = LinesOfOldest(hs, n) \o hs[Keep - n]
      BY MoreOfOldest
    <3>2. (fs[Keep] \o LinesOfOldest(hs, n)) \o hs[Keep - n]
            = fs[Keep] \o (LinesOfOldest(hs, n) \o hs[Keep - n])
      <4> DEFINE s == fs[Keep]
                 t == LinesOfOldest(hs, n)
                 u == hs[Keep - n]
      <4>1. s \in Seq(S) /\ t \in Seq(S) /\ u \in Seq(S)
        BY <2>2, <1>3
      <4> HIDE DEF s, t, u
      <4>2. (s \o t) \o u = s \o (t \o u)
        BY <4>1, ConcatAssociative
      <4> QED BY <4>2 DEF s, t, u
    <3> QED BY <3>1, <3>2, Zenon
  <2>4. /\ n < Keep - k => fs[Keep] \o LinesOfOldest(hs, n) = LinesOfOldest(fs, n + 1)
        /\ n >= Keep - k => fs[Keep] \o LinesOfOldest(hs, n) = LinesOfOldest(fs, n)
    <3>1. ShiftedLines(fs, hs, k, n)
      BY <1>5, <2>1
    <3> QED BY <3>1, Zenon DEF ShiftedLines
  <2>5. CASE n < Keep - k - 1
    <3>1. n < Keep - k /\ ~(n + 1 >= Keep - k)
      BY <1>0, <2>5
    <3>2. hs[Keep - n] = fs[Keep - (n + 1)]
      BY <1>2, <2>1, <2>5
    <3>3. LinesOfOldest(fs, (n + 1) + 1) = LinesOfOldest(fs, n + 1) \o fs[Keep - (n + 1)]
      <4>1. n + 1 \in Nat
        OBVIOUS
      <4> QED BY <4>1, MoreOfOldest
    <3> QED BY <2>3, <2>4, <3>1, <3>2, <3>3, Zenon DEF ShiftedLines
  <2>6. CASE n = Keep - k - 1
    <3>1. n < Keep - k /\ n + 1 >= Keep - k /\ ~(n + 1 < Keep - k)
      BY <1>0, <2>6
    <3>2. hs[Keep - n] = <<>>
      BY <1>2, <2>1, <2>6
    <3>3. LinesOfOldest(fs, n + 1) \in Seq(S)
      <4>1. n + 1 \in 0..(Keep + 1)
        BY <1>0, <2>1
      <4> QED BY <4>1, OldestAreLines
    <3>4. LinesOfOldest(fs, n + 1) \o <<>> = LinesOfOldest(fs, n + 1)
      BY <3>3, ConcatEmptySeq
    <3> QED BY <2>3, <2>4, <3>1, <3>2, <3>4, Zenon DEF ShiftedLines
  <2>7. CASE n > Keep - k - 1
    <3>1. n >= Keep - k /\ ~(n + 1 < Keep - k)
      BY <1>0, <2>7
    <3>2. hs[Keep - n] = fs[Keep - n]
      BY <1>2, <2>1, <2>7
    <3>3. LinesOfOldest(fs, n + 1) = LinesOfOldest(fs, n) \o fs[Keep - n]
      BY MoreOfOldest
    <3> QED BY <2>3, <2>4, <3>1, <3>2, <3>3, Zenon DEF ShiftedLines
  <2> QED BY <1>0, <2>5, <2>6, <2>7
<1> HIDE DEF T
<1>6. Nat \subseteq T
  BY <1>4, <1>5, SetInduction
<1>7. Keep + 1 \in Nat /\ Keep + 1 >= Keep - k
  BY <1>0
<1>8. fs[Keep] \o LinesOfOldest(hs, Keep + 1) = LinesOfOldest(fs, Keep + 1)
  <2>1. ShiftedLines(fs, hs, k, Keep + 1)
    BY <1>6, <1>7 DEF T
  <2> QED BY <1>7, <2>1, Zenon DEF ShiftedLines
<1> QED BY <1>1, <1>8, AllAreOldest DEF hs

\* A line is appended to the current file at the new end of all.
Appended(fs, line) == [fs EXCEPT ![0] = Append(@, line)]

\* Appending to the current file (appendFileSync) adds the last line of the log.
LEMMA AppendIsLast ==
    ASSUME NEW S, NEW fs \in [Generations -> Seq(S)], NEW line \in S
    PROVE  /\ Appended(fs, line) \in [Generations -> Seq(S)]
           /\ AllLines(Appended(fs, line)) = Append(AllLines(fs), line)
<1> DEFINE hs == Appended(fs, line)
<1>0. 0 \in Generations /\ Keep \in Nat /\ Keep - Keep = 0
  BY KeepIsNat DEF Generations
<1>1. Append(fs[0], line) \in Seq(S) /\ fs[0] \in Seq(S)
  BY <1>0, AppendProperties
<1>2. hs \in [Generations -> Seq(S)] /\ hs[0] = Append(fs[0], line)
  BY <1>0, <1>1 DEF Appended
<1>3. \A m \in 0..(Keep - 1) : hs[Keep - m] = fs[Keep - m]
  <2> TAKE m \in 0..(Keep - 1)
  <2>1. Keep - m \in Generations /\ Keep - m # 0
    BY <1>0 DEF Generations
  <2> QED BY <2>1 DEF Appended
<1> HIDE DEF hs
<1>4. LinesOfOldest(hs, Keep) = LinesOfOldest(fs, Keep)
  BY <1>0, <1>3, SameOldest
<1>5. /\ AllLines(hs) = LinesOfOldest(hs, Keep) \o hs[0]
      /\ AllLines(fs) = LinesOfOldest(fs, Keep) \o fs[0]
  BY <1>0, MoreOfOldest, AllAreOldest
<1>6. LinesOfOldest(fs, Keep) \in Seq(S)
  <2>1. Keep \in 0..(Keep + 1)
    BY <1>0
  <2> QED BY <2>1, OldestAreLines
<1>7. LinesOfOldest(fs, Keep) \o Append(fs[0], line)
        = Append(LinesOfOldest(fs, Keep) \o fs[0], line)
  BY <1>1, <1>6, ConcatAppends
<1> QED BY <1>2, <1>4, <1>5, <1>7 DEF hs

\* The maximum of a set of numbers from 0 on is one of them, and the largest.
LEMMA MaxFromZero ==
    ASSUME NEW n \in Nat, NEW s \in SUBSET (0..n), s # {}
    PROVE  Max(s) \in s /\ \A y \in s : y <= Max(s)
<1>1. \E x \in s : \A y \in s : x >= y
  <2>1. CASE s \ {0} = {}
    <3>1. \A y \in s : y = 0
      BY <2>1
    <3>2. PICK x \in s : TRUE
      OBVIOUS
    <3>3. \A y \in s : x >= y
      BY <3>1, <3>2
    <3> QED BY <3>3
  <2>2. CASE s \ {0} # {}
    <3> DEFINE t == s \ {0}
    <3>1. t \in SUBSET (1..n) /\ t # {}
      BY <2>2
    <3> HIDE DEF t
    <3>2. Max(t) \in t /\ \A y \in t : y <= Max(t)
      BY <3>1, MaxUpTo
    <3>3. \A y \in s : Max(t) >= y
      <4> TAKE y \in s
      <4>1. Max(t) \in 1..n
        BY <3>1, <3>2
      <4>2. CASE y = 0
        BY <4>1, <4>2
      <4>3. CASE y # 0
        <5>1. y \in t /\ y \in Nat
          BY <4>3 DEF t
        <5> QED BY <3>2, <4>1, <5>1
      <4> QED BY <4>2, <4>3
    <3>4. Max(t) \in s
      BY <3>2 DEF t
    <3> QED BY <3>3, <3>4
  <2> QED BY <2>1, <2>2
<1>2. Max(s) \in s /\ \A y \in s : Max(s) >= y
  BY <1>1, Zenon DEF Max
<1>3. \A y \in s : y \in Int
  OBVIOUS
<1> QED BY <1>2, <1>3

\* What stands in the way of a rotation is below the oldest generation.
LEMMA BlockingIs ==
    ASSUME NEW fs, NEW busy \in SUBSET Generations
    PROVE  Blocking(fs, busy) \in SUBSET (0..(Keep - 1))
<1>1. Keep \in Nat /\ Keep > 0
  BY KeepIsNat
<1>2. ASSUME NEW i \in Blocking(fs, busy) PROVE i \in 0..(Keep - 1)
  <2>1. (i \in 0..Keep /\ i < Keep) \/ i = Keep - 1
    BY DEF Blocking, Generations
  <2> QED BY <1>1, <2>1
<1> QED BY <1>2

\* A rotation stops below the oldest generation, or not at all.
LEMMA RotationStops ==
    ASSUME NEW fs, NEW busy \in SUBSET Generations
    PROVE  \E k \in (-1)..(Keep - 1) : Shifted(fs, busy) = ShiftedAbove(fs, k)
<1>1. Keep \in Nat /\ Keep > 0
  BY KeepIsNat
<1>2. CASE Rotates(fs, busy)
  <2>1. Shifted(fs, busy) = ShiftedAbove(fs, -1) /\ -1 \in (-1)..(Keep - 1)
    BY <1>1, <1>2 DEF Shifted
  <2> QED BY <2>1
<1>3. CASE ~Rotates(fs, busy)
  <2> DEFINE b == Blocking(fs, busy)
  <2>1. b \in SUBSET (0..(Keep - 1)) /\ b # {}
    BY <1>3, BlockingIs DEF Rotates
  <2>2. Shifted(fs, busy) = ShiftedAbove(fs, Max(b))
    BY <1>3 DEF Shifted
  <2> HIDE DEF b
  <2>3. Max(b) \in b
    <3>1. Keep - 1 \in Nat
      BY <1>1
    <3> QED BY <2>1, <3>1, MaxFromZero
  <2>4. Max(b) \in (-1)..(Keep - 1)
    <3>1. Max(b) \in 0..(Keep - 1)
      BY <2>1, <2>3
    <3> QED BY <1>1, <3>1
  <2> QED BY <2>2, <2>4
<1> QED BY <1>2, <1>3

\* The files with s as the oldest generation.
WithOldest(fs, s) == [fs EXCEPT ![Keep] = s]

\* An oldest generation where there was none comes before all other lines.
LEMMA OldestComesFirst ==
    ASSUME NEW S, NEW fs \in [Generations -> Seq(S)], NEW s \in Seq(S), fs[Keep] = <<>>
    PROVE  /\ WithOldest(fs, s) \in [Generations -> Seq(S)]
           /\ AllLines(WithOldest(fs, s)) = s \o AllLines(fs)
<1> DEFINE hs == WithOldest(fs, s)
<1>0. Keep \in Nat /\ Keep > 0 /\ Keep \in Generations
  BY KeepIsNat DEF Generations
<1>1. /\ hs \in [Generations -> Seq(S)] /\ hs[Keep] = s
      /\ \A i \in Generations : i # Keep => hs[i] = fs[i]
  BY <1>0 DEF WithOldest
<1> HIDE DEF hs
<1> DEFINE T == {n \in Nat : n <= Keep =>
                    LinesOfOldest(hs, n + 1) = s \o LinesOfOldest(fs, n + 1)}
<1>2. 0 \in T
  <2>1. Keep - 0 = Keep /\ s \o <<>> = s /\ <<>> \o s = s /\ <<>> \o <<>> = <<>>
    BY <1>0, ConcatEmptySeq
  <2>2. LinesOfOldest(hs, 0 + 1) = <<>> \o s
    BY <1>1, <2>1, MoreOfOldest, NoneOfOldest
  <2>3. LinesOfOldest(fs, 0 + 1) = <<>> \o <<>>
    BY <2>1, MoreOfOldest, NoneOfOldest
  <2>4. LinesOfOldest(hs, 0 + 1) = s \o LinesOfOldest(fs, 0 + 1)
    BY <2>1, <2>2, <2>3, Zenon
  <2> QED BY <2>4
<1>3. ASSUME NEW n \in Nat, n \in T PROVE n + 1 \in T
  <2> SUFFICES ASSUME n + 1 <= Keep
               PROVE  LinesOfOldest(hs, (n + 1) + 1) = s \o LinesOfOldest(fs, (n + 1) + 1)
    OBVIOUS
  <2>1. /\ n <= Keep /\ n + 1 \in Nat /\ n + 1 \in 0..(Keep + 1)
        /\ Keep - (n + 1) \in Generations /\ Keep - (n + 1) # Keep
    BY <1>0 DEF Generations
  <2>2. LinesOfOldest(hs, n + 1) = s \o LinesOfOldest(fs, n + 1)
    BY <1>3, <2>1
  <2>3. hs[Keep - (n + 1)] = fs[Keep - (n + 1)]
    BY <1>1, <2>1
  <2>4. LinesOfOldest(hs, (n + 1) + 1) = LinesOfOldest(hs, n + 1) \o hs[Keep - (n + 1)]
    BY <2>1, MoreOfOldest
  <2>5. LinesOfOldest(fs, (n + 1) + 1) = LinesOfOldest(fs, n + 1) \o fs[Keep - (n + 1)]
    BY <2>1, MoreOfOldest
  <2>6. (s \o LinesOfOldest(fs, n + 1)) \o fs[Keep - (n + 1)]
          = s \o (LinesOfOldest(fs, n + 1) \o fs[Keep - (n + 1)])
    <3> DEFINE t == LinesOfOldest(fs, n + 1)
               u == fs[Keep - (n + 1)]
    <3>1. t \in Seq(S)
      BY <2>1, OldestAreLines
    <3>2. u \in Seq(S)
      BY <2>1
    <3> HIDE DEF t, u
    <3>3. (s \o t) \o u = s \o (t \o u)
      BY <3>1, <3>2, ConcatAssociative
    <3> QED BY <3>3 DEF t, u
  <2> QED BY <2>2, <2>3, <2>4, <2>5, <2>6, Zenon
<1> HIDE DEF T
<1>4. Nat \subseteq T
  BY <1>2, <1>3, SetInduction
<1>5. LinesOfOldest(hs, Keep + 1) = s \o LinesOfOldest(fs, Keep + 1)
  <2>1. Keep \in T /\ Keep <= Keep
    BY <1>0, <1>4
  <2> QED BY <2>1 DEF T
<1> QED BY <1>1, <1>5, AllAreOldest, Zenon DEF hs

\* While the oldest generation can be neither deleted nor replaced, nothing moves
\* to its place: the one before it would have to, and stops the rotation.
LEMMA OldestIsBusy ==
    ASSUME NEW S, NEW fs \in [Generations -> Seq(S)], NEW busy \in SUBSET Generations,
           Keep \in busy, fs[Keep] # <<>>
    PROVE  Shifted(fs, busy)[Keep] = <<>>
<1>0. Keep \in Nat /\ Keep > 0 /\ Keep \in Generations /\ Keep - 1 \in Generations
  BY KeepIsNat DEF Generations
<1>1. PICK k \in (-1)..(Keep - 1) :
         /\ Shifted(fs, busy) = ShiftedAbove(fs, k)
         /\ k = IF Rotates(fs, busy) THEN -1 ELSE Max(Blocking(fs, busy))
  <2> DEFINE b == Blocking(fs, busy)
             k == IF Rotates(fs, busy) THEN -1 ELSE Max(b)
  <2>1. Shifted(fs, busy) = ShiftedAbove(fs, k)
    BY DEF Shifted
  <2>2. CASE Rotates(fs, busy)
    <3>1. k = -1 /\ -1 \in (-1)..(Keep - 1)
      BY <1>0, <2>2
    <3> QED BY <2>1, <3>1
  <2>3. CASE ~Rotates(fs, busy)
    <3>1. b \in SUBSET (0..(Keep - 1)) /\ b # {}
      BY <2>3, BlockingIs DEF Rotates
    <3>2. k = Max(b)
      BY <2>3
    <3> HIDE DEF b, k
    <3>3. Keep - 1 \in Nat
      BY <1>0
    <3>4. Max(b) \in b
      BY <3>1, <3>3, MaxFromZero
    <3>5. k \in (-1)..(Keep - 1)
      <4>1. Max(b) \in 0..(Keep - 1)
        BY <3>1, <3>4
      <4> QED BY <1>0, <3>2, <4>1
    <3> QED BY <2>1, <3>5 DEF b, k
  <2> QED BY <2>2, <2>3
<1>2. ShiftedAbove(fs, k)[Keep] = IF Keep > k + 1 THEN fs[Keep - 1] ELSE <<>>
  <2>1. ~(Keep > k + 1) => Keep = k + 1
    BY <1>0
  <2> QED BY <1>0, <2>1 DEF ShiftedAbove
<1>3. CASE fs[Keep - 1] = <<>>
  BY <1>1, <1>2, <1>3
<1>4. CASE fs[Keep - 1] # <<>>
  <2> DEFINE b == Blocking(fs, busy)
  <2>1. Keep - 1 \in b
    BY <1>4 DEF Blocking
  <2>2. b \in SUBSET (0..(Keep - 1)) /\ k = Max(b)
    BY <1>1, <2>1, BlockingIs DEF Rotates
  <2> HIDE DEF b
  <2>3. Keep - 1 \in Nat /\ b # {}
    BY <1>0, <2>1
  <2>4. \A y \in b : y <= Max(b)
    BY <2>2, <2>3, MaxFromZero
  <2>5. Keep - 1 <= k
    BY <2>1, <2>2, <2>4
  <2>6. ~(Keep > k + 1)
    BY <1>0, <2>5
  <2> QED BY <1>1, <1>2, <2>6
<1> QED BY <1>3, <1>4

\* new is what is left of old when lines have been taken off its old end.
LeftOf(S, old, new) == \E d \in Seq(S) : old = d \o new

\* What nothing is taken off is left whole.
LEMMA LeftOfItself == ASSUME NEW S, NEW s \in Seq(S) PROVE LeftOf(S, s, s)
<1>1. s = <<>> \o s /\ <<>> \in Seq(S)
  BY ConcatEmptySeq
<1> QED BY <1>1, Zenon DEF LeftOf

\* A line appended to both keeps what is left the left part.
LEMMA LeftOfMore ==
    ASSUME NEW S, NEW s \in Seq(S), NEW t \in Seq(S), NEW x \in S, LeftOf(S, s, t)
    PROVE  LeftOf(S, Append(s, x), Append(t, x))
<1>1. PICK d \in Seq(S) : s = d \o t
  BY DEF LeftOf
<1>2. d \o Append(t, x) = Append(d \o t, x)
  BY ConcatAppends
<1>3. Append(s, x) = d \o Append(t, x)
  BY <1>1, <1>2, Zenon
<1> QED BY <1>3, Zenon DEF LeftOf

\* What is left of what is left is left of the whole.
LEMMA LeftOfLeft ==
    ASSUME NEW S, NEW s \in Seq(S), NEW t \in Seq(S), NEW u \in Seq(S),
           LeftOf(S, s, t), LeftOf(S, t, u)
    PROVE  LeftOf(S, s, u)
<1>1. PICK d \in Seq(S) : s = d \o t
  BY DEF LeftOf
<1>2. PICK e \in Seq(S) : t = e \o u
  BY DEF LeftOf
<1>3. (d \o e) \o u = d \o (e \o u) /\ d \o e \in Seq(S)
  <2> HIDE <1>1, <1>2
  <2> QED BY ConcatAssociative, ConcatProperties
<1>4. s = (d \o e) \o u
  BY <1>1, <1>2, <1>3, Zenon
<1> QED BY <1>3, <1>4, Zenon DEF LeftOf

\* A rotation, done, stopped half way or kept from deleting the oldest, loses
\* lines at the old end only (rotate).
LEMMA RotatedKeeps ==
    ASSUME NEW S, NEW fs \in [Generations -> Seq(S)], NEW busy \in SUBSET Generations
    PROVE  /\ Rotated(fs, busy) \in [Generations -> Seq(S)]
           /\ LeftOf(S, AllLines(fs), AllLines(Rotated(fs, busy)))
<1> DEFINE hs == Shifted(fs, busy)
<1>1. hs \in [Generations -> Seq(S)] /\ AllLines(fs) = fs[Keep] \o AllLines(hs)
  <2>1. PICK k \in (-1)..(Keep - 1) : hs = ShiftedAbove(fs, k)
    BY RotationStops
  <2>2. /\ ShiftedAbove(fs, k) \in [Generations -> Seq(S)]
        /\ AllLines(fs) = fs[Keep] \o AllLines(ShiftedAbove(fs, k))
    BY ShiftTakesOldest
  <2> QED BY <2>1, <2>2
<1>2. fs[Keep] \in Seq(S)
  BY KeepIsNat DEF Generations
<1>3. CASE Keep \in busy /\ fs[Keep] # <<>>
  <2>1. hs[Keep] = <<>>
    BY <1>3, OldestIsBusy
  <2>2. Rotated(fs, busy) = WithOldest(hs, fs[Keep])
    BY <1>3 DEF Rotated, WithOldest
  <2> HIDE DEF hs
  <2> DEFINE s == fs[Keep]
  <2>3. s \in Seq(S)
    BY <1>2
  <2> HIDE DEF s
  <2>4. WithOldest(hs, s) \in [Generations -> Seq(S)]
    BY <1>1, <2>1, <2>3, OldestComesFirst
  <2>5. AllLines(WithOldest(hs, s)) = s \o AllLines(hs)
    BY <1>1, <2>1, <2>3, OldestComesFirst
  <2>6. AllLines(Rotated(fs, busy)) = AllLines(fs)
    BY <1>1, <2>2, <2>5, Zenon DEF s
  <2>7. AllLines(fs) \in Seq(S)
    BY AllLinesIsSeq
  <2>8. LeftOf(S, AllLines(fs), AllLines(fs))
    BY <2>7, LeftOfItself
  <2> QED BY <2>2, <2>4, <2>6, <2>8, Zenon DEF s
<1>4. CASE ~(Keep \in busy /\ fs[Keep] # <<>>)
  <2>1. Rotated(fs, busy) = hs
    BY <1>4 DEF Rotated
  <2> HIDE DEF hs
  <2> QED BY <1>1, <1>2, <2>1 DEF LeftOf
<1> QED BY <1>3, <1>4

\* One line written, with the rotation before it: the line is the last, or is
\* missing if its append was refused, and what is lost is lost at the old end
\* (logRecord).
LEMMA WrittenKeeps ==
    ASSUME NEW S, NEW fs \in [Generations -> Seq(S)], NEW line \in S,
           NEW busy \in SUBSET Generations, NEW refused
    PROVE  /\ Written(fs, line, busy, refused) \in [Generations -> Seq(S)]
           /\ LeftOf(S, Passed(AllLines(fs), line, refused),
                        AllLines(Written(fs, line, busy, refused)))
<1> DEFINE ready == IF Len(fs[0]) + 1 > MaxLines THEN Rotated(fs, busy) ELSE fs
<1>1. Written(fs, line, busy, refused) = IF line \in refused THEN ready ELSE Appended(ready, line)
  BY DEF Written, Appended
<1>2. ready \in [Generations -> Seq(S)] /\ LeftOf(S, AllLines(fs), AllLines(ready))
  <2>0. AllLines(fs) \in Seq(S)
    BY AllLinesIsSeq
  <2>1. CASE ready = fs
    <3> HIDE DEF ready
    <3> QED BY <2>0, <2>1, LeftOfItself
  <2>2. CASE ready = Rotated(fs, busy)
    <3> HIDE DEF ready
    <3> QED BY <2>2, RotatedKeeps
  <2> QED BY <2>1, <2>2
<1> HIDE DEF ready
<1>3. CASE line \in refused
  BY <1>1, <1>2, <1>3 DEF Passed
<1>4. CASE line \notin refused
  <2>1. Appended(ready, line) \in [Generations -> Seq(S)]
    BY <1>2, AppendIsLast
  <2>2. AllLines(Appended(ready, line)) = Append(AllLines(ready), line)
    BY <1>2, AppendIsLast
  <2>3. AllLines(fs) \in Seq(S)
    BY AllLinesIsSeq
  <2>4. AllLines(ready) \in Seq(S)
    BY <1>2, AllLinesIsSeq
  <2>5. LeftOf(S, Append(AllLines(fs), line), Append(AllLines(ready), line))
    BY <1>2, <2>3, <2>4, LeftOfMore
  <2>6. Passed(AllLines(fs), line, refused) = Append(AllLines(fs), line)
    BY <1>4 DEF Passed
  <2>7. Written(fs, line, busy, refused) = Appended(ready, line)
    BY <1>1, <1>4
  <2> QED BY <2>1, <2>2, <2>5, <2>6, <2>7, Zenon
<1> QED BY <1>3, <1>4

\* What is left stays the left part when both get a line or neither does.
LEMMA LeftOfPassed ==
    ASSUME NEW S, NEW s \in Seq(S), NEW t \in Seq(S), NEW x \in S, NEW out, LeftOf(S, s, t)
    PROVE  /\ Passed(s, x, out) \in Seq(S) /\ Passed(t, x, out) \in Seq(S)
           /\ LeftOf(S, Passed(s, x, out), Passed(t, x, out))
<1>1. CASE x \in out
  BY <1>1 DEF Passed
<1>2. CASE x \notin out
  <2>1. LeftOf(S, Append(s, x), Append(t, x))
    BY LeftOfMore
  <2>2. Append(s, x) \in Seq(S) /\ Append(t, x) \in Seq(S)
    BY AppendProperties
  <2> QED BY <1>2, <2>1, <2>2 DEF Passed
<1> QED BY <1>1, <1>2

\* The same of a batch: but for the lines whose append was refused it is at the
\* end of the log, and what is lost is lost at the old end.
LEMMA AllWrittenKeeps ==
    ASSUME NEW S, NEW fs \in [Generations -> Seq(S)], NEW busy \in SUBSET Generations,
           NEW refused, NEW lines \in Seq(S)
    PROVE  /\ AllWritten(fs, lines, busy, refused) \in [Generations -> Seq(S)]
           /\ LeftOf(S, AllLines(fs) \o Passing(lines, refused),
                        AllLines(AllWritten(fs, lines, busy, refused)))
<1> DEFINE Kept(ls) ==
             /\ AllWritten(fs, ls, busy, refused) \in [Generations -> Seq(S)]
             /\ LeftOf(S, AllLines(fs) \o Passing(ls, refused),
                          AllLines(AllWritten(fs, ls, busy, refused)))
           T == {n \in Nat : \A ls \in Seq(S) : Len(ls) = n => Kept(ls)}
<1>0. AllLines(fs) \in Seq(S)
  BY AllLinesIsSeq
<1>1. 0 \in T
  <2> SUFFICES ASSUME NEW ls \in Seq(S), Len(ls) = 0 PROVE Kept(ls)
    OBVIOUS
  <2>1. ls = <<>>
    BY EmptySeq
  <2>2. AllWritten(fs, ls, busy, refused) = fs /\ Passing(ls, refused) = <<>>
    BY <2>1, AllWrittenOfNone, PassingOfNone
  <2>3. AllLines(fs) \o Passing(ls, refused) = AllLines(fs)
    BY <1>0, <2>2, ConcatEmptySeq
  <2> QED BY <1>0, <2>2, <2>3, LeftOfItself
<1>2. ASSUME NEW n \in Nat, n \in T PROVE n + 1 \in T
  <2> SUFFICES ASSUME NEW ls \in Seq(S), Len(ls) = n + 1 PROVE Kept(ls)
    OBVIOUS
  <2>1. ls # <<>>
    BY EmptySeq
  <2>2. PICK s \in Seq(S), x \in S : ls = Append(s, x)
    BY <2>1, SequenceEmptyOrAppend
  <2>3. Len(s) = n
    BY <2>2, AppendProperties
  <2>4. Kept(s)
    BY <1>2, <2>3
  <2> DEFINE w == AllWritten(fs, s, busy, refused)
             v == Written(w, x, busy, refused)
             p == Passing(s, refused)
             old == AllLines(fs) \o p
  <2>5. AllWritten(fs, ls, busy, refused) = v
    BY <2>2, AllWrittenOfMore
  <2>6. w \in [Generations -> Seq(S)] /\ LeftOf(S, old, AllLines(w))
    BY <2>4
  <2>7. p \in Seq(S) /\ Passing(ls, refused) = Passed(p, x, refused)
    BY <2>2, PassingIs, PassingOfMore
  <2> HIDE DEF w, Kept, T, p
  <2>8. v \in [Generations -> Seq(S)] /\ LeftOf(S, Passed(AllLines(w), x, refused), AllLines(v))
    BY <2>6, WrittenKeeps
  <2>9. AllLines(fs) \o Passed(p, x, refused) = Passed(old, x, refused)
    <3>1. CASE x \in refused
      BY <3>1 DEF Passed
    <3>2. CASE x \notin refused
      <4>1. AllLines(fs) \o Append(p, x) = Append(old, x)
        BY <1>0, <2>7, ConcatAppends
      <4> QED BY <3>2, <4>1 DEF Passed
    <3> QED BY <3>1, <3>2
  <2> HIDE DEF v
  <2>10. /\ AllLines(w) \in Seq(S) /\ AllLines(v) \in Seq(S) /\ old \in Seq(S)
    <3>1. AllLines(w) \in Seq(S)
      BY <2>6, AllLinesIsSeq
    <3>2. AllLines(v) \in Seq(S)
      BY <2>8, AllLinesIsSeq
    <3>3. old \in Seq(S)
      BY <1>0, <2>7, ConcatProperties
    <3> QED BY <3>1, <3>2, <3>3
  <2> HIDE DEF old
  <2>11. /\ Passed(old, x, refused) \in Seq(S) /\ Passed(AllLines(w), x, refused) \in Seq(S)
         /\ LeftOf(S, Passed(old, x, refused), Passed(AllLines(w), x, refused))
    BY <2>6, <2>10, LeftOfPassed
  <2>12. LeftOf(S, Passed(old, x, refused), AllLines(v))
    BY <2>8, <2>10, <2>11, LeftOfLeft
  <2>13. AllLines(fs) \o Passing(ls, refused) = Passed(old, x, refused)
    BY <2>7, <2>9 DEF old
  <2> QED BY <2>5, <2>8, <2>12, <2>13, Zenon DEF Kept
<1> HIDE DEF Kept, T
<1>3. Nat \subseteq T
  BY <1>1, <1>2, SetInduction
<1>4. Len(lines) \in T
  BY <1>3, LenProperties
<1>5. Kept(lines)
  BY <1>4 DEF T
<1> QED BY <1>5 DEF Kept

\* What is left of a sequence is the sequence without its first so many.
LEMMA LeftIsWithout ==
    ASSUME NEW S, NEW old \in Seq(S), NEW new \in Seq(S), LeftOf(S, old, new)
    PROVE  \E n \in 0..Len(old) : new = Without(old, n)
<1>1. PICK d \in Seq(S) : old = d \o new
  BY DEF LeftOf
<1>2. /\ Len(d) \in Nat /\ Len(new) \in Nat /\ Len(old) = Len(d) + Len(new)
      /\ \A i \in 1..(Len(d) + Len(new)) : old[i] = IF i <= Len(d) THEN d[i] ELSE new[i - Len(d)]
  BY <1>1, ConcatProperties, LenProperties
<1> DEFINE n == Len(d)
           w == SubSeq(old, n + 1, Len(old))
<1>3. n \in 0..Len(old) /\ n + 1 \in Int /\ Len(old) \in Int
  BY <1>2
<1>4. \A i \in (n + 1)..Len(old) : old[i] \in S
  BY <1>2, <1>3, ElementOfSeq
<1> HIDE DEF n
<1>5. /\ w \in Seq(S)
      /\ Len(w) = IF n + 1 <= Len(old) THEN Len(old) - (n + 1) + 1 ELSE 0
      /\ \A i \in 1..(Len(old) - (n + 1) + 1) : w[i] = old[(n + 1) + i - 1]
  BY <1>3, <1>4, SubSeqProperties
<1> HIDE DEF w
<1>6. Len(w) = Len(new)
  BY <1>2, <1>3, <1>5 DEF n
<1>7. ASSUME NEW i \in 1..Len(w) PROVE w[i] = new[i]
  <2>1. i \in 1..(Len(old) - (n + 1) + 1) /\ (n + 1) + i - 1 = n + i
    BY <1>2, <1>3, <1>6 DEF n
  <2>2. n + i \in 1..(Len(d) + Len(new)) /\ ~(n + i <= Len(d)) /\ (n + i) - Len(d) = i
    BY <1>2, <1>3, <1>6 DEF n
  <2> QED BY <1>2, <1>5, <2>1, <2>2
<1>8. w = new
  BY <1>5, <1>6, <1>7, SeqEqual
<1> QED BY <1>3, <1>8 DEF w, Without
-----------------------------------------------------------------------------
(***************************************************************************)
(* The way of a record: it is in the queue, then in the buffer, on the     *)
(* wire, and at the bridge in the files, the sink and the database.        *)
(***************************************************************************)

\* x may stand before y in the log.
Before(x, y) == x < y \/ y \in resent

\* A sequence whose records may follow one another as they do.
InOrder(s) == \A i, j \in DOMAIN s : i < j => Before(s[i], s[j])

\* The queue holds records of the past in the order of logging.
QueueIsWell ==
    /\ logged \in 0..MaxRecords
    /\ queue \in Seq((1..MaxRecords) \cup {Flush})
    /\ \A m \in DOMAIN queue : queue[m] # Flush => queue[m] <= logged
    /\ \A k, m \in DOMAIN queue :
          k < m /\ queue[k] # Flush /\ queue[m] # Flush => queue[k] < queue[m]

\* The buffer holds older ones, in the same order; what a flush has sent is at
\* its front.
BufferIsWell ==
    /\ buffer \in Seq(1..MaxRecords)
    /\ trimming \in 0..Len(buffer)
    /\ trimming > 0 => queue # <<>> /\ Head(queue) = Flush
    /\ \A k \in DOMAIN buffer : buffer[k] <= logged
    /\ \A k, m \in DOMAIN buffer : k < m => buffer[k] < buffer[m]
    /\ \A k \in DOMAIN buffer, m \in DOMAIN queue : queue[m] # Flush => buffer[k] < queue[m]

\* A record that has been sent: what is still to be sent comes after it.
Sent(x) ==
    /\ x \in Records /\ x <= logged
    /\ \A k \in DOMAIN buffer : k > trimming => Before(x, buffer[k])
    /\ \A m \in DOMAIN queue : queue[m] # Flush => x < queue[m]

\* The frames on the wire are in order, within a frame and from one to the next,
\* and what they hold has been sent.
WireIsWell ==
    /\ wire \in Seq(Seq(1..MaxRecords))
    /\ \A f \in DOMAIN wire : InOrder(wire[f]) /\ \A e \in DOMAIN wire[f] : Sent(wire[f][e])
    /\ \A f, g \in DOMAIN wire : f < g =>
          \A d \in DOMAIN wire[f], e \in DOMAIN wire[g] : Before(wire[f][d], wire[g][e])

\* A record the bridge has got: what is on the wire comes after it, too.
Arrived(x) ==
    /\ Sent(x)
    /\ \A f \in DOMAIN wire : \A e \in DOMAIN wire[f] : Before(x, wire[f][e])

\* The log is in order, and all it shows has arrived.
LinesAreWell ==
    /\ files \in [Generations -> Seq(Records)]
    /\ InOrder(AllLines(files))
    /\ \A i \in DOMAIN AllLines(files) : Arrived(AllLines(files)[i])

\* The invariant of the records on their way to the files.
OrderInv == QueueIsWell /\ BufferIsWell /\ resent \subseteq Records /\ WireIsWell /\ LinesAreWell

\* Two places do not hold the same record, unless a life died in between.
Apart(x, y) == x = y => x \in resent

\* The sink and the database hold what has arrived, each record in one place.
SinkIsWell ==
    /\ remote \in Seq(1..MaxRecords) /\ posting \in Seq(1..MaxRecords)
    /\ network \subseteq Seq(1..MaxRecords)
    /\ database \in [1..MaxRecords -> 0..2]
    /\ \A i \in DOMAIN remote : Arrived(remote[i])
    /\ \A post \in network : \A i \in DOMAIN post : Arrived(post[i])
    /\ \A r \in 1..MaxRecords : database[r] > 0 => Arrived(r)

\* With this buffer of the sink and these posts under way, no record is in two
\* places, the database included.
OnePlaceIn(rem, net) ==
    /\ \A i, j \in DOMAIN rem : i # j => Apart(rem[i], rem[j])
    /\ \A i \in DOMAIN rem : \A post \in net : \A j \in DOMAIN post : Apart(rem[i], post[j])
    /\ \A i \in DOMAIN rem : database[rem[i]] > 0 => rem[i] \in resent
    /\ \A post, other \in net : post # other =>
          \A i \in DOMAIN post, j \in DOMAIN other : Apart(post[i], other[j])
    /\ \A post \in net : \A i \in DOMAIN post : database[post[i]] > 0 => post[i] \in resent

\* So it is with the sink as it is; and the database holds each record once.
OnePlace ==
    /\ OnePlaceIn(remote, network)
    /\ \A r \in 1..MaxRecords : database[r] > 1 => r \in resent

\* The invariant of the records on their way to the database.
SinkInv == SinkIsWell /\ OnePlace
-----------------------------------------------------------------------------
(***************************************************************************)
(* Steps that bring nothing to the bridge.                                 *)
(***************************************************************************)

\* Records are numbers, and none of them is a flush.
LEMMA RecordsAreInts ==
    /\ Records \subseteq Int /\ 1..MaxRecords \subseteq Records
    /\ Flush \notin 1..MaxRecords /\ Seq(1..MaxRecords) \subseteq Seq(Records)
<1>1. 1..MaxRecords \subseteq Records /\ Records \subseteq Int
  BY KeepIsNat, LimitsAreNats DEF Records
<1>2. Flush \notin 1..MaxRecords
  BY <1>1, FlushAssumption
<1>3. Seq(1..MaxRecords) \subseteq Seq(Records)
  BY <1>1, SeqMonotonic
<1> QED BY <1>1, <1>2, <1>3

\* What is still to be sent was so before the step, or is new, or may come twice.
StillAhead ==
    /\ logged' \in Int /\ logged <= logged' /\ resent \subseteq resent'
    /\ \A k \in DOMAIN buffer' : k > trimming' =>
          \/ buffer'[k] \in resent'
          \/ \E l \in DOMAIN buffer : l > trimming /\ buffer'[k] = buffer[l]
          \/ \E m \in DOMAIN queue : queue[m] # Flush /\ buffer'[k] = queue[m]
    /\ \A m \in DOMAIN queue' : queue'[m] # Flush =>
          \/ queue'[m] \in Int /\ queue'[m] > logged
          \/ \E l \in DOMAIN queue : queue[l] # Flush /\ queue'[m] = queue[l]

\* A step that lets nothing older come up behind leaves sent what was sent.
LEMMA SentStays ==
    ASSUME logged \in Int, StillAhead
    PROVE  \A x \in Records : Sent(x) => Sent(x)'
<1> SUFFICES ASSUME NEW x \in Records, Sent(x) PROVE Sent(x)'
  OBVIOUS
<1>0. x \in Int /\ x <= logged
  BY RecordsAreInts DEF Sent
<1>1. x <= logged'
  BY <1>0 DEF StillAhead
<1>2. ASSUME NEW k \in DOMAIN buffer', k > trimming'
      PROVE  x < buffer'[k] \/ buffer'[k] \in resent'
  <2>1. CASE \E l \in DOMAIN buffer : l > trimming /\ buffer'[k] = buffer[l]
    BY <2>1 DEF StillAhead, Sent, Before
  <2>2. CASE \E m \in DOMAIN queue : queue[m] # Flush /\ buffer'[k] = queue[m]
    BY <2>2 DEF Sent
  <2> QED BY <1>2, <2>1, <2>2 DEF StillAhead
<1>3. ASSUME NEW m \in DOMAIN queue', queue'[m] # Flush
      PROVE  x < queue'[m]
  <2>1. CASE \E l \in DOMAIN queue : queue[l] # Flush /\ queue'[m] = queue[l]
    BY <2>1 DEF Sent
  <2>2. CASE queue'[m] \in Int /\ queue'[m] > logged
    BY <2>2, <1>0
  <2> QED BY <1>3, <2>1, <2>2 DEF StillAhead
<1> QED BY <1>1, <1>2, <1>3 DEF Sent, Before

\* Nothing comes to the wire.
LEMMA WireStays ==
    ASSUME logged \in Int, WireIsWell, StillAhead, wire' \in {wire, <<>>}
    PROVE  WireIsWell' /\ \A x \in Records : Arrived(x) => Arrived(x)'
<1>1. \A x \in Records : Sent(x) => Sent(x)'
  BY SentStays
<1>2. resent \subseteq resent'
  BY DEF StillAhead
<1>3. CASE wire' = wire
  <2>1. WireIsWell'
    <3>1. (wire \in Seq(Seq(1..MaxRecords)))'
      BY <1>3 DEF WireIsWell
    <3>2. ASSUME NEW f \in DOMAIN wire
          PROVE  /\ \A i, j \in DOMAIN wire[f] : i < j => Before(wire[f][i], wire[f][j])'
                 /\ \A e \in DOMAIN wire[f] : Sent(wire[f][e])'
      <4>1. \A i, j \in DOMAIN wire[f] : i < j => Before(wire[f][i], wire[f][j])'
        BY <1>2, <1>3 DEF WireIsWell, InOrder, Before
      <4>2. ASSUME NEW e \in DOMAIN wire[f] PROVE Sent(wire[f][e])'
        <5>1. Sent(wire[f][e]) /\ wire[f][e] \in Records
          BY DEF WireIsWell, Sent
        <5> QED BY <1>1, <1>3, <5>1
      <4> QED BY <4>1, <4>2
    <3>3. \A f, g \in DOMAIN wire : f < g =>
             \A d \in DOMAIN wire[f], e \in DOMAIN wire[g] : Before(wire[f][d], wire[g][e])'
      BY <1>2, <1>3 DEF WireIsWell, Before
    <3> QED BY <1>3, <3>1, <3>2, <3>3 DEF WireIsWell, InOrder
  <2>2. ASSUME NEW x \in Records, Arrived(x) PROVE Arrived(x)'
    <3>1. Sent(x)'
      BY <1>1, <2>2 DEF Arrived
    <3>2. \A f \in DOMAIN wire : \A e \in DOMAIN wire[f] : Before(x, wire[f][e])'
      BY <1>2, <1>3, <2>2 DEF Arrived, Before
    <3> QED BY <1>3, <3>1, <3>2 DEF Arrived
  <2> QED BY <2>1, <2>2
<1>4. CASE wire' = <<>>
  <2>1. DOMAIN wire' = {} /\ wire' \in Seq(Seq(1..MaxRecords))
    BY <1>4, EmptySeq
  <2>2. WireIsWell'
    BY <2>1 DEF WireIsWell
  <2>3. ASSUME NEW x \in Records, Arrived(x) PROVE Arrived(x)'
    BY <1>1, <2>1, <2>3 DEF Arrived
  <2> QED BY <2>2, <2>3
<1> QED BY <1>3, <1>4

\* And the files stay as they are.
LEMMA LinesStay ==
    ASSUME LinesAreWell, files' = files, resent \subseteq resent',
           \A x \in Records : Arrived(x) => Arrived(x)'
    PROVE  LinesAreWell'
<1> DEFINE lines == AllLines(files)
<1>1. PICK ls : ls = lines
  OBVIOUS
<1>2. AllLines(files)' = ls
  BY <1>1
<1>3. InOrder(ls) /\ \A i \in DOMAIN ls : Arrived(ls[i]) /\ ls[i] \in Records
  BY <1>1 DEF LinesAreWell, Arrived, Sent
<1>4. InOrder(ls)'
  BY <1>3 DEF InOrder, Before
<1>5. \A i \in DOMAIN ls : Arrived(ls[i])'
  BY <1>3
<1>6. (files \in [Generations -> Seq(Records)])'
  BY DEF LinesAreWell
<1> HIDE DEF lines
<1>7. (\A i \in DOMAIN AllLines(files) : Arrived(AllLines(files)[i]))'
  BY <1>2, <1>5
<1>8. InOrder(AllLines(files))'
  BY <1>2, <1>4
<1> QED BY <1>6, <1>7, <1>8 DEF LinesAreWell

\* The conclusion of each step.
KeepsOrder == OrderInv' /\ resent \subseteq resent' /\ \A x \in Records : Arrived(x) => Arrived(x)'

\* A step of the extension that puts nothing on the wire and leaves its own
\* queue and buffer well keeps the order of all.
LEMMA BringsNothing ==
    ASSUME OrderInv, QueueIsWell', BufferIsWell', StillAhead, resent' \subseteq Records,
           wire' \in {wire, <<>>}, files' = files
    PROVE  KeepsOrder
<1>1. logged \in Int /\ resent \subseteq resent' /\ WireIsWell /\ LinesAreWell
  BY DEF OrderInv, QueueIsWell, StillAhead
<1>2. WireIsWell' /\ \A x \in Records : Arrived(x) => Arrived(x)'
  BY <1>1, WireStays
<1>3. LinesAreWell'
  BY <1>1, <1>2, LinesStay
<1> QED BY <1>1, <1>2, <1>3 DEF KeepsOrder, OrderInv
-----------------------------------------------------------------------------
(***************************************************************************)
(* The extension's steps.                                                  *)
(***************************************************************************)

\* The first work is taken from the queue; the others move up.
LEMMA TailOfQueue ==
    ASSUME QueueIsWell, queue # <<>>
    PROVE  /\ Tail(queue) \in Seq((1..MaxRecords) \cup {Flush})
           /\ 1 \in DOMAIN queue /\ Head(queue) = queue[1]
           /\ \A i \in DOMAIN Tail(queue) :
                 i \in Nat /\ i + 1 \in DOMAIN queue /\ Tail(queue)[i] = queue[i + 1]
<1> DEFINE S == (1..MaxRecords) \cup {Flush}
<1>1. queue \in Seq(S)
  BY DEF QueueIsWell
<1> HIDE DEF S
<1>2. /\ Tail(queue) \in Seq(S) /\ Len(Tail(queue)) = Len(queue) - 1
      /\ \A i \in 1..Len(Tail(queue)) : Tail(queue)[i] = queue[i + 1]
  BY <1>1, HeadTailProperties
<1>3. DOMAIN Tail(queue) = 1..Len(Tail(queue)) /\ DOMAIN queue = 1..Len(queue)
  BY <1>1, <1>2, LenProperties
<1>4. Len(queue) \in Nat /\ Len(queue) # 0
  BY <1>1, EmptySeq, LenProperties
<1>5. Head(queue) = queue[1]
  BY <1>1
<1> QED BY <1>2, <1>3, <1>4, <1>5 DEF S

\* A queue without its first work is still well.
LEMMA QueueShrinks ==
    ASSUME QueueIsWell, queue # <<>>, queue' = Tail(queue), logged' = logged
    PROVE  QueueIsWell'
<1>1. /\ queue' \in Seq((1..MaxRecords) \cup {Flush})
      /\ \A i \in DOMAIN queue' : i \in Nat /\ i + 1 \in DOMAIN queue /\ queue'[i] = queue[i + 1]
  BY TailOfQueue
<1>2. \A m \in DOMAIN queue' : queue'[m] # Flush => queue'[m] <= logged'
  BY <1>1 DEF QueueIsWell
<1>3. ASSUME NEW k \in DOMAIN queue', NEW m \in DOMAIN queue', k < m,
             queue'[k] # Flush, queue'[m] # Flush
      PROVE  queue'[k] < queue'[m]
  <2>1. k + 1 < m + 1
    BY <1>1, <1>3
  <2> QED BY <1>1, <1>3, <2>1 DEF QueueIsWell
<1> QED BY <1>1, <1>2, <1>3 DEF QueueIsWell

\* One work more: a flush, or the record just logged.
LEMMA MoreOfQueue ==
    ASSUME QueueIsWell, NEW x \in (1..MaxRecords) \cup {Flush}
    PROVE  /\ Append(queue, x) \in Seq((1..MaxRecords) \cup {Flush}) /\ Len(queue) \in Nat
           /\ DOMAIN queue = 1..Len(queue) /\ DOMAIN Append(queue, x) = 1..(Len(queue) + 1)
           /\ \A i \in DOMAIN queue : Append(queue, x)[i] = queue[i]
           /\ Append(queue, x)[Len(queue) + 1] = x
<1> DEFINE S == (1..MaxRecords) \cup {Flush}
<1>1. queue \in Seq(S) /\ x \in S
  BY DEF QueueIsWell
<1> HIDE DEF S
<1>2. /\ Append(queue, x) \in Seq(S) /\ Len(Append(queue, x)) = Len(queue) + 1
      /\ \A i \in 1..Len(queue) : Append(queue, x)[i] = queue[i]
      /\ Append(queue, x)[Len(queue) + 1] = x
  BY <1>1, AppendProperties
<1> QED BY <1>1, <1>2, LenProperties DEF S

\* A queue with a flush more is still well.
LEMMA QueueGrows ==
    ASSUME QueueIsWell, queue' = Append(queue, Flush), logged' = logged
    PROVE  QueueIsWell'
<1>1. /\ queue' \in Seq((1..MaxRecords) \cup {Flush})
      /\ \A i \in DOMAIN queue' : queue'[i] # Flush => i \in DOMAIN queue /\ queue'[i] = queue[i]
  <2>1. Len(queue) \in Nat /\ DOMAIN queue = 1..Len(queue) /\ DOMAIN queue' = 1..(Len(queue) + 1)
    BY MoreOfQueue
  <2>2. \A i \in DOMAIN queue' : i \in DOMAIN queue \/ i = Len(queue) + 1
    BY <2>1
  <2> QED BY <2>2, MoreOfQueue
<1>2. \A m \in DOMAIN queue' : queue'[m] # Flush => queue'[m] <= logged'
  BY <1>1 DEF QueueIsWell
<1>3. \A k, m \in DOMAIN queue' :
         k < m /\ queue'[k] # Flush /\ queue'[m] # Flush => queue'[k] < queue'[m]
  BY <1>1 DEF QueueIsWell
<1> QED BY <1>1, <1>2, <1>3 DEF QueueIsWell

\* The places of the buffer are positive, and what is there are records.
LEMMA EntriesOfBuffer ==
    ASSUME BufferIsWell
    PROVE  \A k \in DOMAIN buffer : /\ k \in Nat /\ k >= 1
                                    /\ buffer[k] \in 1..MaxRecords /\ buffer[k] \in Int
<1> SUFFICES ASSUME NEW k \in DOMAIN buffer
             PROVE  /\ k \in Nat /\ k >= 1
                    /\ buffer[k] \in 1..MaxRecords /\ buffer[k] \in Int
  OBVIOUS
<1>1. buffer \in Seq(1..MaxRecords)
  BY DEF BufferIsWell
<1>2. k \in 1..Len(buffer)
  BY <1>1, LenProperties
<1>3. buffer[k] \in 1..MaxRecords
  BY <1>1, <1>2, ElementOfSeq
<1> QED BY <1>2, <1>3

\* logRecord: the new record is the newest.
LEMMA LogRecordKeeps == ASSUME OrderInv, LogRecord PROVE KeepsOrder
<1>0. /\ QueueIsWell /\ BufferIsWell /\ resent \subseteq Records
      /\ logged' = logged + 1 /\ logged < MaxRecords /\ queue' = Append(queue, logged')
      /\ trimming' = trimming /\ buffer' = buffer /\ resent' = resent /\ wire' = wire
      /\ files' = files
  BY DEF OrderInv, LogRecord, bridgeVars, sinkVars
<1>1. logged \in Nat /\ logged' \in 1..MaxRecords /\ logged' \in Int /\ logged < logged'
  BY <1>0, LimitsAreNats DEF QueueIsWell
<1>2. logged' # Flush
  BY <1>1, RecordsAreInts
<1>3. /\ queue' \in Seq((1..MaxRecords) \cup {Flush}) /\ Len(queue) \in Nat
      /\ DOMAIN queue = 1..Len(queue) /\ DOMAIN queue' = 1..(Len(queue) + 1)
      /\ \A i \in DOMAIN queue : queue'[i] = queue[i]
      /\ queue'[Len(queue) + 1] = logged'
  BY <1>0, <1>1, MoreOfQueue
<1>4. \A m \in DOMAIN queue' :
         \/ m \in DOMAIN queue /\ queue'[m] = queue[m]
         \/ m = Len(queue) + 1 /\ queue'[m] = logged'
  BY <1>3
<1>5. \A m \in DOMAIN queue : queue[m] # Flush => queue[m] \in Int /\ queue[m] <= logged
  BY <1>0, RecordsAreInts DEF QueueIsWell
<1>6. QueueIsWell'
  <2>1. logged' \in 0..MaxRecords
    BY <1>1
  <2>2. \A m \in DOMAIN queue' : queue'[m] # Flush => queue'[m] <= logged'
    BY <1>1, <1>4, <1>5
  <2>3. ASSUME NEW k \in DOMAIN queue', NEW m \in DOMAIN queue', k < m,
               queue'[k] # Flush, queue'[m] # Flush
        PROVE  queue'[k] < queue'[m]
    <3>1. k \in DOMAIN queue /\ queue'[k] = queue[k]
      BY <1>3, <1>4, <2>3
    <3>2. CASE m \in DOMAIN queue /\ queue'[m] = queue[m]
      BY <1>0, <2>3, <3>1, <3>2 DEF QueueIsWell
    <3>3. CASE m = Len(queue) + 1 /\ queue'[m] = logged'
      BY <1>1, <1>5, <2>3, <3>1, <3>3
    <3> QED BY <1>4, <3>2, <3>3
  <2> QED BY <1>3, <2>1, <2>2, <2>3 DEF QueueIsWell
<1>7. BufferIsWell'
  <2>1. \A k \in DOMAIN buffer : buffer[k] \in Int /\ buffer[k] <= logged
    BY <1>0, EntriesOfBuffer DEF BufferIsWell
  <2>2. \A k \in DOMAIN buffer : buffer[k] <= logged'
    BY <1>1, <2>1
  <2>3. \A k \in DOMAIN buffer, m \in DOMAIN queue' : queue'[m] # Flush => buffer[k] < queue'[m]
    <3> SUFFICES ASSUME NEW k \in DOMAIN buffer, NEW m \in DOMAIN queue', queue'[m] # Flush
                 PROVE  buffer[k] < queue'[m]
      OBVIOUS
    <3>1. CASE m \in DOMAIN queue /\ queue'[m] = queue[m]
      BY <1>0, <3>1 DEF BufferIsWell
    <3>2. CASE queue'[m] = logged'
      BY <1>1, <2>1, <3>2
    <3> QED BY <1>4, <3>1, <3>2
  <2>4. trimming > 0 => queue' # <<>> /\ Head(queue') = Flush
    <3> SUFFICES ASSUME trimming > 0 PROVE queue' # <<>> /\ Head(queue') = Flush
      OBVIOUS
    <3>1. queue # <<>> /\ Head(queue) = Flush
      BY <1>0 DEF BufferIsWell
    <3>2. 1 \in DOMAIN queue /\ queue[1] = Flush
      BY <1>0, <3>1, TailOfQueue
    <3>3. queue'[1] = Flush /\ 1 \in DOMAIN queue'
      BY <1>3, <3>2
    <3> QED BY <1>3, <3>3
  <2> QED BY <1>0, <2>2, <2>3, <2>4 DEF BufferIsWell
<1>8. StillAhead
  BY <1>0, <1>1, <1>4 DEF StillAhead
<1> QED BY <1>0, <1>6, <1>7, <1>8, BringsNothing

\* A flush joins the queue.
LEMMA FlushJoins ==
    ASSUME OrderInv, queue' = Append(queue, Flush), files' = files, wire' \in {wire, <<>>},
           UNCHANGED <<logged, trimming, buffer, resent>>
    PROVE  KeepsOrder
<1>0. QueueIsWell /\ BufferIsWell /\ resent \subseteq Records
  BY DEF OrderInv
<1>1. QueueIsWell'
  BY <1>0, QueueGrows
<1>2. \A i \in DOMAIN queue' : queue'[i] # Flush => i \in DOMAIN queue /\ queue'[i] = queue[i]
  <2>1. Len(queue) \in Nat /\ DOMAIN queue = 1..Len(queue) /\ DOMAIN queue' = 1..(Len(queue) + 1)
    BY <1>0, MoreOfQueue
  <2>2. \A i \in DOMAIN queue' : i \in DOMAIN queue \/ i = Len(queue) + 1
    BY <2>1
  <2> QED BY <1>0, <2>2, MoreOfQueue
<1>3. BufferIsWell'
  <2>1. \A k \in DOMAIN buffer, m \in DOMAIN queue' : queue'[m] # Flush => buffer[k] < queue'[m]
    BY <1>0, <1>2 DEF BufferIsWell
  <2>2. trimming > 0 => queue' # <<>> /\ Head(queue') = Flush
    <3> SUFFICES ASSUME trimming > 0 PROVE queue' # <<>> /\ Head(queue') = Flush
      OBVIOUS
    <3>1. queue # <<>> /\ Head(queue) = Flush
      BY <1>0 DEF BufferIsWell
    <3>2. 1 \in DOMAIN queue /\ queue[1] = Flush
      BY <1>0, <3>1, TailOfQueue
    <3>3. queue' \in Seq((1..MaxRecords) \cup {Flush}) /\ DOMAIN queue' = 1..(Len(queue) + 1)
      BY <1>0, MoreOfQueue
    <3>4. queue'[1] = Flush
      BY <1>0, <3>2, MoreOfQueue
    <3>5. Len(queue) \in Nat
      BY <1>0, MoreOfQueue
    <3> QED BY <3>3, <3>4, <3>5
  <2> QED BY <1>0, <2>1, <2>2 DEF BufferIsWell
<1>4. StillAhead
  BY <1>0, <1>2 DEF StillAhead, QueueIsWell
<1> QED BY <1>0, <1>1, <1>3, <1>4, BringsNothing

\* Nothing of the extension changes but the relay.
LEMMA ExtensionRests ==
    ASSUME OrderInv, UNCHANGED <<logged, queue, trimming, buffer, resent>>,
           files' = files, wire' \in {wire, <<>>}
    PROVE  KeepsOrder
<1>0. QueueIsWell /\ BufferIsWell /\ resent \subseteq Records
  BY DEF OrderInv
<1>1. QueueIsWell' /\ BufferIsWell'
  BY <1>0 DEF QueueIsWell, BufferIsWell
<1>2. StillAhead
  BY <1>0 DEF StillAhead, QueueIsWell
<1> QED BY <1>0, <1>1, <1>2, BringsNothing

\* An append to chrome.storage, with the overflow that drops the oldest: what
\* leaves the queue is newer than the buffer and what has been sent.
LEMMA AppendsKeeps == ASSUME OrderInv, Appends PROVE KeepsOrder
<1>0. /\ QueueIsWell /\ BufferIsWell /\ resent \subseteq Records
      /\ trimming = 0 /\ queue # <<>> /\ Head(queue) # Flush
      /\ buffer' \in {Newest(Append(buffer, Head(queue)), MaxBuffer), buffer}
      /\ queue' = Tail(queue) /\ logged' = logged /\ trimming' = trimming
      /\ resent' = resent /\ wire' = wire /\ files' = files
  BY DEF OrderInv, Appends, bridgeVars, sinkVars
<1>1. QueueIsWell'
  BY <1>0, QueueShrinks
<1>2. /\ 1 \in DOMAIN queue /\ Head(queue) = queue[1]
      /\ \A i \in DOMAIN queue' : i \in Nat /\ i + 1 \in DOMAIN queue /\ queue'[i] = queue[i + 1]
  BY <1>0, TailOfQueue
<1> DEFINE x == Head(queue)
           more == Append(buffer, x)
<1>3. x \in 1..MaxRecords /\ x # Flush /\ x <= logged /\ x = queue[1]
  BY <1>0, <1>2 DEF QueueIsWell
<1>4. \A i \in DOMAIN queue' : queue'[i] # Flush => x < queue'[i]
  <2>1. ASSUME NEW i \in DOMAIN queue', queue'[i] # Flush PROVE x < queue'[i]
    <3>1. i + 1 \in DOMAIN queue /\ 1 < i + 1 /\ queue'[i] = queue[i + 1]
      <4>1. i \in Nat /\ i + 1 \in DOMAIN queue /\ queue'[i] = queue[i + 1]
        BY <1>2
      <4>2. i + 1 \in 1..Len(queue)
        BY <1>0, <4>1, LenProperties DEF QueueIsWell
      <4>3. DOMAIN queue' = 1..Len(queue')
        BY <1>1, LenProperties DEF QueueIsWell
      <4>4. i >= 1
        BY <4>3
      <4> QED BY <4>1, <4>4
    <3> QED BY <1>0, <1>2, <1>3, <2>1, <3>1 DEF QueueIsWell
  <2> QED BY <2>1
<1> HIDE DEF x
<1>5. /\ more \in Seq(1..MaxRecords) /\ Len(buffer) \in Nat
      /\ DOMAIN buffer = 1..Len(buffer) /\ DOMAIN more = 1..(Len(buffer) + 1)
      /\ \A i \in DOMAIN buffer : more[i] = buffer[i]
      /\ more[Len(buffer) + 1] = x
  <2>1. buffer \in Seq(1..MaxRecords)
    BY <1>0 DEF BufferIsWell
  <2>2. /\ more \in Seq(1..MaxRecords) /\ Len(more) = Len(buffer) + 1
        /\ \A i \in 1..Len(buffer) : more[i] = buffer[i]
        /\ more[Len(buffer) + 1] = x
    BY <1>3, <2>1, AppendProperties
  <2> QED BY <2>1, <2>2, LenProperties
<1>6. \A k \in DOMAIN more :
         \/ k \in DOMAIN buffer /\ more[k] = buffer[k]
         \/ k = Len(buffer) + 1 /\ more[k] = x
  BY <1>5
<1>7. \A k \in DOMAIN buffer : buffer[k] \in Int /\ buffer[k] < x /\ buffer[k] <= logged
  BY <1>0, <1>2, <1>3, EntriesOfBuffer DEF BufferIsWell
<1>8. \A k, l \in DOMAIN more : k < l => more[k] < more[l]
  <2> SUFFICES ASSUME NEW k \in DOMAIN more, NEW l \in DOMAIN more, k < l
               PROVE  more[k] < more[l]
    OBVIOUS
  <2>1. k \in DOMAIN buffer /\ more[k] = buffer[k]
    BY <1>5, <1>6
  <2>2. CASE l \in DOMAIN buffer /\ more[l] = buffer[l]
    BY <1>0, <2>1, <2>2 DEF BufferIsWell
  <2>3. CASE more[l] = x
    BY <1>7, <2>1, <2>3
  <2> QED BY <1>6, <2>2, <2>3
<1>9. \A k \in DOMAIN more : more[k] <= logged
  BY <1>3, <1>6, <1>7
<1>10. \A k \in DOMAIN more, m \in DOMAIN queue' : queue'[m] # Flush => more[k] < queue'[m]
  <2> SUFFICES ASSUME NEW k \in DOMAIN more, NEW m \in DOMAIN queue', queue'[m] # Flush
               PROVE  more[k] < queue'[m]
    OBVIOUS
  <2>1. CASE k \in DOMAIN buffer /\ more[k] = buffer[k]
    BY <1>0, <1>2, <2>1 DEF BufferIsWell
  <2>2. CASE more[k] = x
    BY <1>4, <2>2
  <2> QED BY <1>6, <2>1, <2>2
<1>11. PICK m \in Nat : Newest(more, MaxBuffer) = Without(more, m)
  BY <1>5, LimitsAreNats, NewestIs
<1>12. /\ Without(more, m) \in Seq(1..MaxRecords)
       /\ \A i \in DOMAIN Without(more, m) :
             i + m \in DOMAIN more /\ Without(more, m)[i] = more[i + m]
  BY <1>5, WithoutIs
<1>13. buffer' \in Seq(1..MaxRecords) /\ \E n \in Nat : \A i \in DOMAIN buffer' :
          i + n \in DOMAIN more /\ buffer'[i] = more[i + n]
  <2>1. CASE buffer' = Newest(more, MaxBuffer)
    BY <1>11, <1>12, <2>1
  <2>2. CASE buffer' = buffer
    <3>1. \A i \in DOMAIN buffer : i + 0 \in DOMAIN more /\ buffer[i] = more[i + 0]
      BY <1>5
    <3>2. buffer \in Seq(1..MaxRecords)
      BY <1>0 DEF BufferIsWell
    <3> QED BY <2>2, <3>1, <3>2
  <2> QED BY <1>0, <2>1, <2>2 DEF x
<1> HIDE DEF more
<1>14. PICK n \in Nat : \A i \in DOMAIN buffer' : i + n \in DOMAIN more /\ buffer'[i] = more[i + n]
  BY <1>13
<1>15. BufferIsWell'
  <2>1. \A k \in DOMAIN buffer' : buffer'[k] <= logged'
    BY <1>0, <1>9, <1>14
  <2>2. \A k, l \in DOMAIN buffer' : k < l => buffer'[k] < buffer'[l]
    <3> SUFFICES ASSUME NEW k \in DOMAIN buffer', NEW l \in DOMAIN buffer', k < l
                 PROVE  buffer'[k] < buffer'[l]
      OBVIOUS
    <3>1. k \in Nat /\ l \in Nat
      BY <1>13, LenProperties
    <3>2. k + n < l + n
      BY <3>1
    <3> QED BY <1>8, <1>14, <3>2
  <2>3. \A k \in DOMAIN buffer', i \in DOMAIN queue' : queue'[i] # Flush => buffer'[k] < queue'[i]
    BY <1>10, <1>14
  <2>4. trimming' = 0 /\ 0 \in 0..Len(buffer')
    <3>1. Len(buffer') \in Nat
      BY <1>13, LenProperties
    <3> QED BY <1>0, <3>1
  <2> QED BY <1>13, <2>1, <2>2, <2>3, <2>4 DEF BufferIsWell
<1>16. StillAhead
  <2>1. ASSUME NEW k \in DOMAIN buffer'
        PROVE  \/ \E l \in DOMAIN buffer : l > trimming /\ buffer'[k] = buffer[l]
               \/ \E i \in DOMAIN queue : queue[i] # Flush /\ buffer'[k] = queue[i]
    <3>1. k + n \in DOMAIN more /\ buffer'[k] = more[k + n]
      BY <1>14
    <3>2. CASE k + n \in DOMAIN buffer /\ more[k + n] = buffer[k + n]
      <4>1. k + n > trimming
        BY <1>0, <1>5, <3>2
      <4> QED BY <3>1, <3>2, <4>1
    <3>3. CASE more[k + n] = x
      BY <1>2, <1>3, <3>1, <3>3
    <3> QED BY <1>6, <3>1, <3>2, <3>3
  <2>2. logged' \in Int /\ logged <= logged' /\ resent \subseteq resent'
    BY <1>0 DEF QueueIsWell
  <2>3. \A i \in DOMAIN queue' : queue'[i] # Flush =>
           \E l \in DOMAIN queue : queue[l] # Flush /\ queue'[i] = queue[l]
    BY <1>2
  <2> QED BY <2>1, <2>2, <2>3 DEF StillAhead
<1> QED BY <1>0, <1>1, <1>15, <1>16, BringsNothing

\* What was sent stays in the buffer and may be sent again: it is marked.
LEMMA SentAgain ==
    ASSUME OrderInv, QueueIsWell', trimming' = 0,
           resent' = resent \cup Range(First(buffer, trimming)),
           UNCHANGED <<logged, buffer, wire, files>>,
           \A k \in DOMAIN buffer, m \in DOMAIN queue' :
              queue'[m] # Flush => buffer[k] < queue'[m],
           \A i \in DOMAIN queue' : queue'[i] # Flush =>
              \E l \in DOMAIN queue : queue[l] # Flush /\ queue'[i] = queue[l]
    PROVE  KeepsOrder
<1>0. /\ QueueIsWell /\ BufferIsWell /\ resent \subseteq Records
      /\ logged' = logged /\ buffer' = buffer /\ wire' = wire /\ files' = files
  BY DEF OrderInv
<1>1. trimming \in Nat /\ buffer \in Seq(1..MaxRecords) /\ Len(buffer) \in Nat
  <2>1. Len(buffer) \in Nat /\ trimming \in 0..Len(buffer)
    BY <1>0, LenProperties DEF BufferIsWell
  <2> QED BY <1>0, <2>1 DEF BufferIsWell
<1>3. BufferIsWell'
  <2>1. 0 \in 0..Len(buffer) /\ ~(0 > 0)
    BY <1>1
  <2> QED BY <1>0, <2>1 DEF BufferIsWell
<1>4. /\ First(buffer, trimming) \in Seq(1..MaxRecords)
      /\ \A k \in DOMAIN buffer : k <= trimming =>
            k \in DOMAIN First(buffer, trimming) /\ First(buffer, trimming)[k] = buffer[k]
  <2>1. /\ First(buffer, trimming) \in Seq(1..MaxRecords)
        /\ \A i \in DOMAIN First(buffer, trimming) :
              i \in DOMAIN buffer /\ i <= trimming /\ First(buffer, trimming)[i] = buffer[i]
        /\ \A i \in DOMAIN buffer : i <= trimming => i \in DOMAIN First(buffer, trimming)
    BY <1>1, FirstIs
  <2> QED BY <2>1
<1>5. resent' \subseteq Records
  <2>1. Range(First(buffer, trimming)) \subseteq 1..MaxRecords
    <3> DEFINE fst == First(buffer, trimming)
    <3>1. fst \in Seq(1..MaxRecords)
      BY <1>4
    <3> HIDE DEF fst
    <3>2. \A i \in DOMAIN fst : fst[i] \in 1..MaxRecords
      BY <3>1, ElementOfSeq, LenProperties
    <3>3. Range(fst) \subseteq 1..MaxRecords
      BY <3>2 DEF Range
    <3> QED BY <3>3 DEF fst
  <2> QED BY <1>0, <2>1, RecordsAreInts
<1>6. StillAhead
  <2>1. ASSUME NEW k \in DOMAIN buffer'
        PROVE  \/ buffer'[k] \in resent'
               \/ \E l \in DOMAIN buffer : l > trimming /\ buffer'[k] = buffer[l]
    <3>1. k \in Nat
      BY <1>0, <1>1, LenProperties
    <3>2. CASE k <= trimming
      <4>1. buffer[k] \in Range(First(buffer, trimming))
        BY <1>0, <1>4, <3>2 DEF Range
      <4> QED BY <1>0, <4>1
    <3>3. CASE k > trimming
      BY <1>0, <3>3
    <3> QED BY <1>1, <3>1, <3>2, <3>3
  <2>2. logged' \in Int /\ logged <= logged' /\ resent \subseteq resent'
    BY <1>0 DEF QueueIsWell
  <2> QED BY <2>1, <2>2 DEF StillAhead
<1> QED BY <1>0, <1>3, <1>5, <1>6, BringsNothing

\* The trim after a flush takes off the front exactly what was sent, so nothing
\* that was sent is sent again.
LEMMA RemovedKeeps ==
    ASSUME OrderInv, trimming > 0, buffer' = Without(buffer, trimming), trimming' = 0,
           queue' = Tail(queue), UNCHANGED <<logged, resent, wire, files>>
    PROVE  KeepsOrder
<1>0. /\ QueueIsWell /\ BufferIsWell /\ resent \subseteq Records
      /\ trimming > 0 /\ buffer' = Without(buffer, trimming) /\ trimming' = 0
      /\ queue' = Tail(queue) /\ logged' = logged
      /\ resent' = resent /\ wire' = wire /\ files' = files
  BY DEF OrderInv
<1>1. queue # <<>> /\ trimming \in Nat /\ buffer \in Seq(1..MaxRecords)
  <2>1. Len(buffer) \in Nat /\ trimming \in 0..Len(buffer)
    BY <1>0, LenProperties DEF BufferIsWell
  <2> QED BY <1>0, <2>1 DEF BufferIsWell
<1>2. QueueIsWell'
  BY <1>0, <1>1, QueueShrinks
<1>3. \A i \in DOMAIN queue' : i \in Nat /\ i + 1 \in DOMAIN queue /\ queue'[i] = queue[i + 1]
  BY <1>0, <1>1, TailOfQueue
<1>4. /\ buffer' \in Seq(1..MaxRecords)
      /\ \A i \in DOMAIN buffer' :
            i + trimming \in DOMAIN buffer /\ buffer'[i] = buffer[i + trimming]
  BY <1>0, <1>1, WithoutIs
<1>5. DOMAIN buffer' = 1..Len(buffer') /\ Len(buffer') \in Nat
  BY <1>4, LenProperties
<1>6. BufferIsWell'
  <2>1. \A k \in DOMAIN buffer' : buffer'[k] <= logged'
    BY <1>0, <1>4 DEF BufferIsWell
  <2>2. \A k, l \in DOMAIN buffer' : k < l => buffer'[k] < buffer'[l]
    <3> SUFFICES ASSUME NEW k \in DOMAIN buffer', NEW l \in DOMAIN buffer', k < l
                 PROVE  buffer'[k] < buffer'[l]
      OBVIOUS
    <3>1. k + trimming < l + trimming
      BY <1>1, <1>5
    <3> QED BY <1>0, <1>4, <3>1 DEF BufferIsWell
  <2>3. \A k \in DOMAIN buffer', m \in DOMAIN queue' : queue'[m] # Flush => buffer'[k] < queue'[m]
    BY <1>0, <1>3, <1>4 DEF BufferIsWell
  <2>4. trimming' \in 0..Len(buffer') /\ ~(trimming' > 0)
    BY <1>0, <1>5
  <2> QED BY <1>4, <2>1, <2>2, <2>3, <2>4 DEF BufferIsWell
<1>7. StillAhead
  <2>1. ASSUME NEW k \in DOMAIN buffer'
        PROVE  \E l \in DOMAIN buffer : l > trimming /\ buffer'[k] = buffer[l]
    <3>1. k + trimming > trimming
      BY <1>1, <1>5
    <3> QED BY <1>4, <3>1
  <2>2. logged' \in Int /\ logged <= logged' /\ resent \subseteq resent'
    BY <1>0 DEF QueueIsWell
  <2>3. \A i \in DOMAIN queue' : queue'[i] # Flush =>
           \E l \in DOMAIN queue : queue[l] # Flush /\ queue'[i] = queue[l]
    BY <1>3
  <2> QED BY <2>1, <2>2, <2>3 DEF StillAhead
<1> QED BY <1>0, <1>2, <1>6, <1>7, BringsNothing

\* What the storage would not remove may be sent again.
LEMMA RefusedKeeps ==
    ASSUME OrderInv, trimming > 0, queue' = Tail(queue),
           trimming' = 0, resent' = resent \cup Range(First(buffer, trimming)),
           UNCHANGED <<logged, buffer, wire, files>>
    PROVE  KeepsOrder
<1>0. /\ QueueIsWell /\ BufferIsWell /\ queue # <<>>
      /\ UNCHANGED <<logged, buffer, wire, files>>
  BY DEF OrderInv, BufferIsWell
<1>1. QueueIsWell'
  BY <1>0, QueueShrinks
<1>2. \A i \in DOMAIN queue' : i \in Nat /\ i + 1 \in DOMAIN queue /\ queue'[i] = queue[i + 1]
  BY <1>0, TailOfQueue
<1>3. \A k \in DOMAIN buffer, m \in DOMAIN queue' : queue'[m] # Flush => buffer[k] < queue'[m]
  BY <1>0, <1>2 DEF BufferIsWell
<1>4. \A i \in DOMAIN queue' : queue'[i] # Flush =>
           \E l \in DOMAIN queue : queue[l] # Flush /\ queue'[i] = queue[l]
  BY <1>2
<1> QED BY <1>0, <1>1, <1>3, <1>4, SentAgain

\* The trim, done or refused.
LEMMA TrimmedKeeps == ASSUME OrderInv, Trimmed PROVE KeepsOrder
<1>0. /\ trimming > 0 /\ trimming' = 0 /\ queue' = Tail(queue)
      /\ UNCHANGED <<logged, wire, files>>
      /\ \/ buffer' = Without(buffer, trimming) /\ resent' = resent
         \/ resent' = resent \cup Range(First(buffer, trimming)) /\ buffer' = buffer
  BY DEF Trimmed, Trims, bridgeVars
<1> QED BY <1>0, RemovedKeeps, RefusedKeeps

\* The life that dies leaves the buffer; what it had sent may be sent again.
LEMMA EvictedKeeps == ASSUME OrderInv, Evicted PROVE KeepsOrder
<1>0. /\ QueueIsWell /\ queue' = <<>> /\ trimming' = 0
      /\ resent' = resent \cup Range(First(buffer, trimming))
      /\ UNCHANGED <<logged, buffer, wire, files>>
  BY DEF OrderInv, Evicted, bridgeVars
<1>1. DOMAIN queue' = {} /\ queue' \in Seq((1..MaxRecords) \cup {Flush})
  BY <1>0, EmptySeq
<1>2. QueueIsWell'
  BY <1>0, <1>1 DEF QueueIsWell
<1> QED BY <1>0, <1>1, <1>2, SentAgain

\* The frames of a flush come after all that is on the wire, in the order of the
\* buffer.
LEMMA SnapshotSent ==
    ASSUME OrderInv, trimming = 0, queue # <<>>, Head(queue) = Flush,
           trimming' = Len(buffer), wire' = wire \o Chunks(buffer), files' = files,
           UNCHANGED <<logged, queue, buffer, resent>>
    PROVE  KeepsOrder
<1> DEFINE c == Chunks(buffer)
           w == Len(wire)
<1>0. /\ QueueIsWell /\ BufferIsWell /\ resent \subseteq Records /\ WireIsWell /\ LinesAreWell
      /\ buffer \in Seq(1..MaxRecords) /\ wire \in Seq(Seq(1..MaxRecords))
  BY DEF OrderInv, BufferIsWell, WireIsWell
<1>1. /\ c \in Seq(Seq(1..MaxRecords))
      /\ \A f \in DOMAIN c : \A a \in DOMAIN c[f] :
            f \in Nat \ {0} /\ a \in 1..MaxChunk /\ \E p : ChunkOf(buffer, f, a, p)
  BY <1>0, ChunksAre
<1>2. /\ wire' \in Seq(Seq(1..MaxRecords)) /\ w \in Nat
      /\ \A f \in DOMAIN wire' : \/ f \in DOMAIN wire /\ f <= w /\ wire'[f] = wire[f]
                                 \/ f - w \in DOMAIN c /\ f > w /\ wire'[f] = c[f - w]
  <2> HIDE DEF c
  <2>1. /\ wire \o c \in Seq(Seq(1..MaxRecords)) /\ Len(wire \o c) = w + Len(c)
        /\ \A f \in 1..(w + Len(c)) : (wire \o c)[f] = IF f <= w THEN wire[f] ELSE c[f - w]
    BY <1>0, <1>1, ConcatProperties
  <2>2. DOMAIN (wire \o c) = 1..(w + Len(c)) /\ DOMAIN wire = 1..w /\ DOMAIN c = 1..Len(c)
    BY <1>0, <1>1, <2>1, LenProperties
  <2>3. w \in Nat /\ Len(c) \in Nat
    BY <1>0, <1>1, LenProperties
  <2>4. ASSUME NEW f \in 1..(w + Len(c))
        PROVE  \/ f \in 1..w /\ f <= w
               \/ f - w \in 1..Len(c) /\ f > w /\ ~(f <= w)
    BY <2>3
  <2> HIDE DEF w
  <2>5. wire' = wire \o c
    BY DEF c
  <2> QED BY <2>1, <2>2, <2>3, <2>4, <2>5
<1>3. QueueIsWell'
  BY <1>0 DEF QueueIsWell
<1>4. BufferIsWell'
  <2>1. Len(buffer) \in 0..Len(buffer)
    BY <1>0, LenProperties
  <2> QED BY <1>0, <2>1 DEF BufferIsWell
<1>5. StillAhead
  <2>1. \A k \in DOMAIN buffer : ~(k > Len(buffer))
    <3> TAKE k \in DOMAIN buffer
    <3>1. k \in 1..Len(buffer) /\ Len(buffer) \in Nat
      BY <1>0, LenProperties
    <3> QED BY <3>1
  <2> QED BY <1>0, <2>1 DEF StillAhead, QueueIsWell
<1>6. \A x \in Records : Sent(x) => Sent(x)'
  BY <1>0, <1>5, SentStays DEF QueueIsWell
<1>7. \A x, p : Sent(x) /\ p \in DOMAIN buffer => Before(x, buffer[p])'
  <2> SUFFICES ASSUME NEW x, NEW p \in DOMAIN buffer, Sent(x) PROVE Before(x, buffer[p])'
    OBVIOUS
  <2>1. p > trimming
    BY <1>0, EntriesOfBuffer
  <2> QED BY <2>1 DEF Sent, Before
<1>8. \A p \in DOMAIN buffer : Sent(buffer[p])' /\ buffer[p] \in 1..MaxRecords
  <2> SUFFICES ASSUME NEW p \in DOMAIN buffer PROVE Sent(buffer[p])' /\ buffer[p] \in 1..MaxRecords
    OBVIOUS
  <2>1. buffer[p] \in 1..MaxRecords /\ buffer[p] \in Records
    BY <1>0, EntriesOfBuffer, RecordsAreInts
  <2>2. \A k \in DOMAIN buffer : ~(k > Len(buffer))
    <3> TAKE k \in DOMAIN buffer
    <3>1. k \in 1..Len(buffer) /\ Len(buffer) \in Nat
      BY <1>0, LenProperties
    <3> QED BY <3>1
  <2>3. buffer[p] <= logged /\ \A m \in DOMAIN queue : queue[m] # Flush => buffer[p] < queue[m]
    BY <1>0 DEF BufferIsWell
  <2> QED BY <2>1, <2>2, <2>3 DEF Sent
<1> HIDE DEF c, w
<1>9. \A f \in DOMAIN c : \A a \in DOMAIN c[f] : \E p \in DOMAIN buffer :
         c[f][a] = buffer[p] /\ p = (f - 1) * MaxChunk + a
  BY <1>1 DEF ChunkOf, c
<1>10. \A p, q \in DOMAIN buffer : p < q => Before(buffer[p], buffer[q])'
  BY <1>0 DEF BufferIsWell, Before
<1>11. ASSUME NEW f \in DOMAIN wire'
       PROVE  /\ \A i, j \in DOMAIN wire'[f] : i < j => Before(wire[f][i], wire[f][j])'
              /\ \A e \in DOMAIN wire'[f] : Sent(wire[f][e])'
  <2>1. CASE f \in DOMAIN wire /\ wire'[f] = wire[f]
    <3>1. \A i, j \in DOMAIN wire[f] : i < j => Before(wire[f][i], wire[f][j])'
      BY <1>0, <2>1 DEF WireIsWell, InOrder, Before
    <3>2. ASSUME NEW e \in DOMAIN wire[f] PROVE Sent(wire[f][e])'
      <4>1. Sent(wire[f][e]) /\ wire[f][e] \in Records
        BY <1>0, <2>1 DEF WireIsWell, Sent
      <4> QED BY <1>6, <2>1, <4>1
    <3> QED BY <2>1, <3>1, <3>2
  <2>2. CASE f - w \in DOMAIN c /\ wire'[f] = c[f - w]
    <3>1. ASSUME NEW e \in DOMAIN wire'[f] PROVE Sent(wire[f][e])'
      BY <1>8, <1>9, <2>2
    <3>2. ASSUME NEW i \in DOMAIN wire'[f], NEW j \in DOMAIN wire'[f], i < j
          PROVE  Before(wire[f][i], wire[f][j])'
      <4>1. PICK p \in DOMAIN buffer : wire'[f][i] = buffer[p] /\ p = (f - w - 1) * MaxChunk + i
        BY <1>9, <2>2
      <4>2. PICK q \in DOMAIN buffer : wire'[f][j] = buffer[q] /\ q = (f - w - 1) * MaxChunk + j
        BY <1>9, <2>2
      <4>3. p < q
        <5>1. p \in Nat /\ q \in Nat
          BY <1>0, EntriesOfBuffer
        <5>2. i \in 1..MaxChunk /\ j \in 1..MaxChunk /\ f - w \in Nat \ {0}
          BY <1>1, <2>2, <3>2 DEF c
        <5> QED BY <3>2, <4>1, <4>2, <5>1, <5>2, LimitsAreNats
      <4> QED BY <1>10, <4>1, <4>2, <4>3
    <3> QED BY <3>1, <3>2
  <2> QED BY <1>2, <2>1, <2>2
<1>12. ASSUME NEW f \in DOMAIN wire', NEW g \in DOMAIN wire', f < g,
              NEW d \in DOMAIN wire'[f], NEW e \in DOMAIN wire'[g]
       PROVE  Before(wire[f][d], wire[g][e])'
  <2>0. f \in Nat /\ g \in Nat /\ w \in Nat
    BY <1>2, LenProperties
  <2>1. CASE /\ f \in DOMAIN wire /\ wire'[f] = wire[f]
             /\ g \in DOMAIN wire /\ wire'[g] = wire[g]
    BY <1>0, <1>12, <2>1 DEF WireIsWell, Before
  <2>2. CASE /\ f \in DOMAIN wire /\ wire'[f] = wire[f]
             /\ g - w \in DOMAIN c /\ wire'[g] = c[g - w]
    <3>1. Sent(wire[f][d])
      BY <1>0, <2>2 DEF WireIsWell
    <3>2. PICK q \in DOMAIN buffer : wire'[g][e] = buffer[q]
      BY <1>9, <2>2
    <3> QED BY <1>7, <2>2, <3>1, <3>2
  <2>3. CASE /\ f > w /\ f - w \in DOMAIN c /\ wire'[f] = c[f - w]
             /\ g > w /\ g - w \in DOMAIN c /\ wire'[g] = c[g - w]
    <3>1. PICK p \in DOMAIN buffer : wire'[f][d] = buffer[p] /\ p = (f - w - 1) * MaxChunk + d
      BY <1>9, <2>3
    <3>2. PICK q \in DOMAIN buffer : wire'[g][e] = buffer[q] /\ q = (g - w - 1) * MaxChunk + e
      BY <1>9, <2>3
    <3>3. p < q
      <4>1. d \in 1..MaxChunk /\ e \in 1..MaxChunk /\ f - w \in Nat \ {0} /\ g - w \in Nat
        BY <1>1, <2>3 DEF c
      <4>2. f - w < g - w
        BY <1>12, <2>0
      <4> QED BY <3>1, <3>2, <4>1, <4>2, ChunksKeepOrder
    <3> QED BY <1>10, <3>1, <3>2, <3>3
  <2>4. ~(f > w /\ g <= w)
    BY <1>12, <2>0
  <2> QED BY <1>2, <2>1, <2>2, <2>3, <2>4
<1>13. WireIsWell'
  BY <1>2, <1>11, <1>12 DEF WireIsWell, InOrder
<1>14. ASSUME NEW x \in Records, Arrived(x) PROVE Arrived(x)'
  <2>1. Sent(x) /\ Sent(x)'
    BY <1>6, <1>14 DEF Arrived
  <2>2. ASSUME NEW f \in DOMAIN wire', NEW e \in DOMAIN wire'[f]
        PROVE  Before(x, wire[f][e])'
    <3>1. CASE f \in DOMAIN wire /\ wire'[f] = wire[f]
      BY <1>14, <3>1 DEF Arrived, Before
    <3>2. CASE f - w \in DOMAIN c /\ wire'[f] = c[f - w]
      <4>1. PICK q \in DOMAIN buffer : wire'[f][e] = buffer[q]
        BY <1>9, <3>2
      <4> QED BY <1>7, <2>1, <4>1
    <3> QED BY <1>2, <3>1, <3>2
  <2> QED BY <2>1, <2>2 DEF Arrived
<1>15. LinesAreWell'
  BY <1>0, <1>14, LinesStay
<1> QED BY <1>0, <1>3, <1>4, <1>13, <1>14, <1>15 DEF KeepsOrder, OrderInv

\* A flush: the snapshot is sent, or nothing is.
LEMMA SendsKeeps == ASSUME OrderInv, Sends PROVE KeepsOrder
<1>0. /\ QueueIsWell /\ BufferIsWell /\ resent \subseteq Records
      /\ trimming = 0 /\ queue # <<>> /\ Head(queue) = Flush
      /\ logged' = logged /\ buffer' = buffer /\ resent' = resent /\ files' = files
  BY DEF OrderInv, Sends, bridgeVars, sinkVars
<1>1. CASE trimming' = Len(buffer) /\ wire' = wire \o Chunks(buffer) /\ queue' = queue
  BY <1>0, <1>1, SnapshotSent
<1>2. CASE queue' = Tail(queue) /\ UNCHANGED <<trimming, wire>>
  <2>1. QueueIsWell'
    BY <1>0, <1>2, QueueShrinks
  <2>2. \A i \in DOMAIN queue' : i \in Nat /\ i + 1 \in DOMAIN queue /\ queue'[i] = queue[i + 1]
    BY <1>0, <1>2, TailOfQueue
  <2>3. BufferIsWell'
    <3>1. ~(trimming' > 0)
      BY <1>0, <1>2
    <3>2. \A k \in DOMAIN buffer', m \in DOMAIN queue' : queue'[m] # Flush => buffer'[k] < queue'[m]
      BY <1>0, <2>2 DEF BufferIsWell
    <3> QED BY <1>0, <1>2, <3>1, <3>2 DEF BufferIsWell
  <2>4. StillAhead
    BY <1>0, <1>2, <2>2 DEF StillAhead, QueueIsWell
  <2> QED BY <1>0, <1>2, <2>1, <2>3, <2>4, BringsNothing
<1> QED BY <1>1, <1>2 DEF Sends
-----------------------------------------------------------------------------
(***************************************************************************)
(* A batch comes to the bridge.                                            *)
(***************************************************************************)

\* A batch whose records come after all that has arrived, in their order.
Comes(s) ==
    /\ s \in Seq(1..MaxRecords)
    /\ InOrder(s)
    /\ \A i \in DOMAIN s : Sent(s[i]) /\ \A x \in Records : Arrived(x) => Before(x, s[i])

\* The first frame is taken from the wire; the others move up.
LEMMA FirstFrame ==
    ASSUME WireIsWell, wire # <<>>
    PROVE  /\ Head(wire) = wire[1] /\ 1 \in DOMAIN wire
           /\ Head(wire) \in Seq(1..MaxRecords)
           /\ Tail(wire) \in Seq(Seq(1..MaxRecords))
           /\ \A f \in DOMAIN Tail(wire) :
                 f \in Nat /\ f >= 1 /\ f + 1 \in DOMAIN wire /\ Tail(wire)[f] = wire[f + 1]
<1> DEFINE S == Seq(1..MaxRecords)
<1>1. wire \in Seq(S)
  BY DEF WireIsWell
<1> HIDE DEF S
<1>2. /\ Head(wire) \in S /\ Tail(wire) \in Seq(S) /\ Len(Tail(wire)) = Len(wire) - 1
      /\ \A i \in 1..Len(Tail(wire)) : Tail(wire)[i] = wire[i + 1]
  BY <1>1, HeadTailProperties
<1>3. DOMAIN Tail(wire) = 1..Len(Tail(wire)) /\ DOMAIN wire = 1..Len(wire)
  BY <1>1, <1>2, LenProperties
<1>4. Len(wire) \in Nat /\ Len(wire) # 0
  BY <1>1, EmptySeq, LenProperties
<1>5. Head(wire) = wire[1]
  BY <1>1
<1> QED BY <1>2, <1>3, <1>4, <1>5 DEF S

\* What log_batch takes from the first frame comes after all that has arrived.
LEMMA BatchComes ==
    ASSUME WireIsWell, wire # <<>>
    PROVE  Comes(Valid(Head(wire)))
<1> DEFINE head == Head(wire)
           v == Valid(head)
<1>1. head = wire[1] /\ 1 \in DOMAIN wire /\ head \in Seq(1..MaxRecords)
  BY FirstFrame
<1>2. InOrder(head) /\ \A e \in DOMAIN head : Sent(head[e])
  BY <1>1 DEF WireIsWell
<1>3. \A x \in Records : Arrived(x) => \A e \in DOMAIN head : Before(x, head[e])
  BY <1>1 DEF Arrived
<1> HIDE DEF head
<1>4. v \in Seq(1..MaxRecords) /\ PassingIsPart(head, Malformed)
  BY <1>1, PassingIs DEF Valid
<1>5. InOrder(v)
  <2> SUFFICES ASSUME NEW i \in DOMAIN v, NEW j \in DOMAIN v, i < j
               PROVE  Before(v[i], v[j])
    BY DEF InOrder
  <2>1. PICK p \in DOMAIN head, q \in DOMAIN head : p < q /\ v[i] = head[p] /\ v[j] = head[q]
    BY <1>4, Zenon DEF PassingIsPart, Valid
  <2> QED BY <1>2, <2>1 DEF InOrder
<1>6. ASSUME NEW i \in DOMAIN v
      PROVE  Sent(v[i]) /\ \A x \in Records : Arrived(x) => Before(x, v[i])
  <2>1. PICK p \in DOMAIN head : v[i] = head[p]
    BY <1>4 DEF PassingIsPart, Valid
  <2> QED BY <1>2, <1>3, <2>1
<1> HIDE DEF v
<1>7. Comes(v)
  BY <1>4, <1>5, <1>6 DEF Comes
<1> QED BY <1>7 DEF v, head

\* So does what is written of it.
LEMMA PartComes ==
    ASSUME NEW valid, Comes(valid), NEW refused
    PROVE  /\ Comes(Passing(valid, refused))
           /\ \A i \in DOMAIN Passing(valid, refused) :
                 \E j \in DOMAIN valid : Passing(valid, refused)[i] = valid[j]
<1> DEFINE v == Passing(valid, refused)
<1>1. /\ valid \in Seq(1..MaxRecords) /\ InOrder(valid)
      /\ \A i \in DOMAIN valid :
            Sent(valid[i]) /\ \A x \in Records : Arrived(x) => Before(x, valid[i])
  BY DEF Comes
<1>2. v \in Seq(1..MaxRecords) /\ PassingIsPart(valid, refused)
  BY <1>1, PassingIs
<1>3. InOrder(v)
  <2> SUFFICES ASSUME NEW i \in DOMAIN v, NEW j \in DOMAIN v, i < j
               PROVE  Before(v[i], v[j])
    BY DEF InOrder
  <2>1. PICK p \in DOMAIN valid, q \in DOMAIN valid : p < q /\ v[i] = valid[p] /\ v[j] = valid[q]
    BY <1>2, Zenon DEF PassingIsPart
  <2> QED BY <1>1, <2>1 DEF InOrder
<1>4. ASSUME NEW i \in DOMAIN v PROVE \E j \in DOMAIN valid : v[i] = valid[j]
  BY <1>2 DEF PassingIsPart
<1> HIDE DEF v
<1>5. Comes(v)
  BY <1>1, <1>2, <1>3, <1>4 DEF Comes
<1> QED BY <1>4, <1>5 DEF v

\* What is left when the oldest lines have been taken off is in order, too, and
\* of the same lines.
LEMMA LeftIsInOrder ==
    ASSUME NEW old \in Seq(Records), NEW new \in Seq(Records), LeftOf(Records, old, new),
           InOrder(old)
    PROVE  InOrder(new) /\ \A i \in DOMAIN new : \E j \in DOMAIN old : new[i] = old[j]
<1>1. PICK n \in 0..Len(old) : new = Without(old, n)
  BY LeftIsWithout
<1>2. n \in Nat
  BY <1>1, LenProperties
<1>3. \A i \in DOMAIN new : i + n \in DOMAIN old /\ new[i] = old[i + n]
  BY <1>1, <1>2, WithoutIs
<1>4. ASSUME NEW i \in DOMAIN new, NEW j \in DOMAIN new, i < j
      PROVE  Before(new[i], new[j])
  <2>1. i \in Nat /\ j \in Nat
    BY LenProperties
  <2>2. i + n < j + n
    BY <1>2, <1>4, <2>1
  <2> QED BY <1>3, <2>2 DEF InOrder
<1> QED BY <1>3, <1>4 DEF InOrder

\* Two sequences in order, the second after the first, are one in order.
LEMMA JoinIsInOrder ==
    ASSUME NEW s \in Seq(Records), NEW t \in Seq(Records), InOrder(s), InOrder(t),
           \A i \in DOMAIN s, j \in DOMAIN t : Before(s[i], t[j])
    PROVE  /\ s \o t \in Seq(Records) /\ InOrder(s \o t)
           /\ \A i \in DOMAIN (s \o t) : \/ \E j \in DOMAIN s : (s \o t)[i] = s[j]
                                         \/ \E j \in DOMAIN t : (s \o t)[i] = t[j]
<1> DEFINE n == Len(s)
           u == s \o t
<1>1. /\ u \in Seq(Records) /\ Len(u) = n + Len(t)
      /\ \A i \in 1..(n + Len(t)) : u[i] = IF i <= n THEN s[i] ELSE t[i - n]
  BY ConcatProperties
<1>2. n \in Nat /\ Len(t) \in Nat /\ DOMAIN s = 1..n /\ DOMAIN t = 1..Len(t)
  BY LenProperties
<1> HIDE DEF n, u
<1>3. DOMAIN u = 1..(n + Len(t))
  BY <1>1, LenProperties
<1>4. ASSUME NEW i \in DOMAIN u
      PROVE  \/ i <= n /\ i \in DOMAIN s /\ u[i] = s[i]
             \/ i > n /\ i - n \in DOMAIN t /\ u[i] = t[i - n]
  BY <1>1, <1>2, <1>3
<1>5. ASSUME NEW i \in DOMAIN u, NEW j \in DOMAIN u, i < j
      PROVE  Before(u[i], u[j])
  <2>0. i \in Nat /\ j \in Nat
    BY <1>2, <1>3
  <2>1. CASE i \in DOMAIN s /\ u[i] = s[i] /\ j \in DOMAIN s /\ u[j] = s[j]
    BY <1>5, <2>1 DEF InOrder
  <2>2. CASE i \in DOMAIN s /\ u[i] = s[i] /\ j - n \in DOMAIN t /\ u[j] = t[j - n]
    BY <2>2
  <2>3. CASE i - n \in DOMAIN t /\ u[i] = t[i - n] /\ j - n \in DOMAIN t /\ u[j] = t[j - n]
    <3>1. i - n < j - n
      BY <1>2, <1>5, <2>0
    <3> QED BY <2>3, <3>1 DEF InOrder
  <2>4. ~(i > n /\ j <= n)
    BY <1>2, <1>5, <2>0
  <2> QED BY <1>4, <2>1, <2>2, <2>3, <2>4
<1>6. InOrder(u)
  BY <1>5 DEF InOrder
<1> QED BY <1>1, <1>4, <1>6 DEF u

\* What log_batch writes is in order with what is there.
LEMMA BatchWritten ==
    ASSUME LinesAreWell, NEW valid, Comes(valid), NEW busy \in SUBSET Generations,
           NEW refused, files' = AllWritten(files, valid, busy, refused)
    PROVE  /\ files' \in [Generations -> Seq(Records)]
           /\ AllLines(files) \o Passing(valid, refused) \in Seq(Records)
           /\ LeftOf(Records, AllLines(files) \o Passing(valid, refused), AllLines(files)')
           /\ InOrder(AllLines(files)') /\ AllLines(files)' \in Seq(Records)
           /\ \A i \in DOMAIN AllLines(files)' :
                 \/ Arrived(AllLines(files)'[i])
                 \/ \E j \in DOMAIN valid : AllLines(files)'[i] = valid[j]
<1>0. PICK got : got = Passing(valid, refused)
  OBVIOUS
<1>14. Comes(got) /\ \A i \in DOMAIN got : \E j \in DOMAIN valid : got[i] = valid[j]
  BY <1>0, PartComes
<1>1. /\ files \in [Generations -> Seq(Records)]
      /\ valid \in Seq(Records) /\ got \in Seq(Records)
  BY <1>14, RecordsAreInts DEF LinesAreWell, Comes
<1>2. /\ files' \in [Generations -> Seq(Records)]
      /\ LeftOf(Records, AllLines(files) \o got,
                AllLines(AllWritten(files, valid, busy, refused)))
  <2>1. AllWritten(files, valid, busy, refused) \in [Generations -> Seq(Records)]
    BY <1>1, AllWrittenKeeps
  <2>2. LeftOf(Records, AllLines(files) \o got,
               AllLines(AllWritten(files, valid, busy, refused)))
    BY <1>0, <1>1, AllWrittenKeeps
  <2> QED BY <2>1, <2>2
<1>3. AllLines(files)' = AllLines(AllWritten(files, valid, busy, refused))
  <2>1. PICK fs : fs = AllWritten(files, valid, busy, refused)
    OBVIOUS
  <2>2. files' = fs
    BY <2>1
  <2> QED BY <2>1, <2>2
<1> DEFINE old == AllLines(files)
<1>4. PICK new : new = AllLines(files)'
  OBVIOUS
<1>5. new \in Seq(Records)
  <2>1. /\ new = AllLines(AllWritten(files, valid, busy, refused))
        /\ AllWritten(files, valid, busy, refused) \in [Generations -> Seq(Records)]
    BY <1>2, <1>3, <1>4
  <2> QED BY <2>1, AllLinesIsSeq
<1>6. old \in Seq(Records)
  BY <1>1, AllLinesIsSeq
<1>7. InOrder(old) /\ \A i \in DOMAIN old : Arrived(old[i]) /\ old[i] \in Records
  BY DEF LinesAreWell, Arrived, Sent
<1> HIDE DEF old
<1>8. \A i \in DOMAIN old, j \in DOMAIN got : Before(old[i], got[j])
  BY <1>7, <1>14 DEF Comes
<1>9. InOrder(got)
  BY <1>14 DEF Comes
<1>10. /\ old \o got \in Seq(Records) /\ InOrder(old \o got)
       /\ \A i \in DOMAIN (old \o got) :
             \/ \E j \in DOMAIN old : (old \o got)[i] = old[j]
             \/ \E j \in DOMAIN got : (old \o got)[i] = got[j]
  <2>1. InOrder(old) /\ old \in Seq(Records) /\ got \in Seq(Records)
    BY <1>1, <1>6, <1>7
  <2> QED BY <1>8, <1>9, <2>1, JoinIsInOrder
<1>11. LeftOf(Records, old \o got, new)
  BY <1>2, <1>3, <1>4 DEF old
<1>12. /\ InOrder(new)
       /\ \A i \in DOMAIN new : \E j \in DOMAIN (old \o got) : new[i] = (old \o got)[j]
  BY <1>5, <1>10, <1>11, LeftIsInOrder
<1>13. ASSUME NEW i \in DOMAIN new
       PROVE  Arrived(new[i]) \/ \E j \in DOMAIN got : new[i] = got[j]
  <2>1. PICK k \in DOMAIN (old \o got) : new[i] = (old \o got)[k]
    BY <1>12
  <2> QED BY <1>7, <1>10, <2>1
<1> QED BY <1>0, <1>2, <1>4, <1>5, <1>10, <1>11, <1>12, <1>13, <1>14 DEF old

\* The frame is off the wire, and what was on it has arrived.
LEMMA FrameTaken ==
    ASSUME OrderInv, wire # <<>>, wire' = Tail(wire), NEW valid, valid = Valid(Head(wire)),
           UNCHANGED <<logged, queue, trimming, buffer, resent>>
    PROVE  /\ QueueIsWell' /\ BufferIsWell' /\ WireIsWell'
           /\ \A x \in Records : Arrived(x) => Arrived(x)'
           /\ \A i \in DOMAIN valid : Arrived(valid[i])'
<1>0. QueueIsWell /\ BufferIsWell /\ WireIsWell
  BY DEF OrderInv
<1>1. QueueIsWell' /\ BufferIsWell'
  BY <1>0 DEF QueueIsWell, BufferIsWell
<1>2. \A x \in Records : Sent(x) => Sent(x)'
  BY DEF Sent, Before
<1>3. /\ wire' \in Seq(Seq(1..MaxRecords)) /\ 1 \in DOMAIN wire
      /\ \A f \in DOMAIN wire' :
            f \in Nat /\ f >= 1 /\ f + 1 \in DOMAIN wire /\ wire'[f] = wire[f + 1]
  BY <1>0, FirstFrame
<1>4. ASSUME NEW f \in DOMAIN wire'
      PROVE  /\ \A i, j \in DOMAIN wire'[f] : i < j => Before(wire[f][i], wire[f][j])'
             /\ \A e \in DOMAIN wire'[f] : Sent(wire[f][e])'
  <2>1. f + 1 \in DOMAIN wire /\ wire'[f] = wire[f + 1]
    BY <1>3
  <2>2. \A i, j \in DOMAIN wire'[f] : i < j => Before(wire[f][i], wire[f][j])'
    BY <1>0, <2>1 DEF WireIsWell, InOrder, Before
  <2>3. ASSUME NEW e \in DOMAIN wire'[f] PROVE Sent(wire[f][e])'
    <3>1. Sent(wire[f + 1][e]) /\ wire[f + 1][e] \in Records
      BY <1>0, <2>1 DEF WireIsWell, Sent
    <3> QED BY <1>2, <2>1, <3>1
  <2> QED BY <2>2, <2>3
<1>5. ASSUME NEW f \in DOMAIN wire', NEW g \in DOMAIN wire', f < g,
             NEW d \in DOMAIN wire'[f], NEW e \in DOMAIN wire'[g]
      PROVE  Before(wire[f][d], wire[g][e])'
  <2>1. f + 1 < g + 1
    BY <1>3, <1>5
  <2> QED BY <1>0, <1>3, <2>1 DEF WireIsWell, Before
<1>6. WireIsWell'
  BY <1>3, <1>4, <1>5 DEF WireIsWell, InOrder
<1>7. ASSUME NEW x \in Records, Arrived(x) PROVE Arrived(x)'
  <2>1. Sent(x)'
    BY <1>2, <1>7 DEF Arrived
  <2>2. \A f \in DOMAIN wire' : \A e \in DOMAIN wire'[f] : Before(x, wire[f][e])'
    BY <1>3, <1>7 DEF Arrived, Before
  <2> QED BY <2>1, <2>2 DEF Arrived
<1> DEFINE first == Head(wire)
<1>8. PICK head : head = first
  OBVIOUS
<1>9. head = wire[1] /\ head \in Seq(1..MaxRecords)
  BY <1>0, <1>8, FirstFrame
<1>10. ASSUME NEW p \in DOMAIN head PROVE Arrived(head[p])'
  <2>1. Sent(head[p]) /\ head[p] \in Records
    BY <1>0, <1>3, <1>9 DEF WireIsWell, Sent
  <2>2. Sent(head[p])'
    BY <1>2, <2>1
  <2>3. ASSUME NEW f \in DOMAIN wire', NEW e \in DOMAIN wire'[f] PROVE Before(head[p], wire[f][e])'
    <3>1. f + 1 \in DOMAIN wire /\ wire'[f] = wire[f + 1] /\ 1 < f + 1
      BY <1>3
    <3>2. Before(head[p], wire[f + 1][e])
      BY <1>0, <1>3, <1>9, <3>1 DEF WireIsWell
    <3> QED BY <3>1, <3>2 DEF Before
  <2> QED BY <2>2, <2>3 DEF Arrived
<1>11. ASSUME NEW i \in DOMAIN valid PROVE Arrived(valid[i])'
  <2>1. valid = Valid(head) /\ PassingIsPart(head, Malformed)
    BY <1>8, <1>9, PassingIs DEF Valid
  <2>2. PICK p \in DOMAIN head : valid[i] = head[p]
    BY <2>1 DEF PassingIsPart, Valid
  <2> QED BY <1>10, <2>2
<1> QED BY <1>1, <1>6, <1>7, <1>11
-----------------------------------------------------------------------------
(***************************************************************************)
(* The sink.                                                               *)
(***************************************************************************)

\* The posts once the sink is this (SinkBecomes).
Posts(sink) == IF sink.posting = posting THEN network ELSE network \cup {sink.posting}

\* Every record of the sink and the posts is one of ok.
HoldsOnly(rem, net, ok) ==
    /\ \A i \in DOMAIN rem : rem[i] \in ok
    /\ \A post \in net : \A i \in DOMAIN post : post[i] \in ok

\* The sink is well, and all it holds is of ok.
SinkIs(sink, rem, post, ok) ==
    /\ sink = [remote |-> rem, posting |-> post]
    /\ rem \in Seq(1..MaxRecords) /\ post \in Seq(1..MaxRecords)
    /\ post = posting \/ (posting = <<>> /\ post # <<>>)
    /\ OnePlaceIn(rem, Posts(sink)) /\ HoldsOnly(rem, Posts(sink), ok)

\* Apart is symmetric.
LEMMA ApartIsSymmetric == ASSUME NEW x, NEW y, Apart(x, y) PROVE Apart(y, x)
BY DEF Apart

\* A part of the sink's buffer, with the same posts.
LEMMA PartOfSink ==
    ASSUME NEW rem, NEW net, NEW ok, OnePlaceIn(rem, net), HoldsOnly(rem, net, ok),
           NEW part \in Seq(1..MaxRecords), NEW n \in Nat,
           \A i \in DOMAIN part : i + n \in DOMAIN rem /\ part[i] = rem[i + n]
    PROVE  OnePlaceIn(part, net) /\ HoldsOnly(part, net, ok)
<1>1. \A i, j \in DOMAIN part : i # j => i + n # j + n
  <2>1. \A i \in DOMAIN part : i \in Nat
    BY LenProperties
  <2> QED BY <2>1
<1>2. \A i, j \in DOMAIN part : i # j => Apart(part[i], part[j])
  BY <1>1 DEF OnePlaceIn
<1>3. \A i \in DOMAIN part : \A post \in net : \A j \in DOMAIN post : Apart(part[i], post[j])
  BY DEF OnePlaceIn
<1>4. \A i \in DOMAIN part : database[part[i]] > 0 => part[i] \in resent
  BY DEF OnePlaceIn
<1>5. OnePlaceIn(part, net)
  BY <1>2, <1>3, <1>4 DEF OnePlaceIn
<1>6. HoldsOnly(part, net, ok)
  BY DEF HoldsOnly
<1> QED BY <1>5, <1>6

\* The first of the buffer become a post, and leave the buffer.
LEMMA PostTaken ==
    ASSUME NEW rem \in Seq(1..MaxRecords), NEW net, NEW ok,
           OnePlaceIn(rem, net), HoldsOnly(rem, net, ok)
    PROVE  /\ OnePlaceIn(Without(rem, MaxBatch), net \cup {First(rem, MaxBatch)})
           /\ HoldsOnly(Without(rem, MaxBatch), net \cup {First(rem, MaxBatch)}, ok)
<1> DEFINE rest == Without(rem, MaxBatch)
           new == First(rem, MaxBatch)
<1>0. MaxBatch \in Nat
  BY LimitsAreNats
<1>1. /\ rest \in Seq(1..MaxRecords)
      /\ \A i \in DOMAIN rest : i + MaxBatch \in DOMAIN rem /\ rest[i] = rem[i + MaxBatch]
  BY <1>0, WithoutIs
<1>2. /\ new \in Seq(1..MaxRecords)
      /\ \A i \in DOMAIN new : i \in DOMAIN rem /\ i <= MaxBatch /\ new[i] = rem[i]
  <2>1. /\ new \in Seq(1..MaxRecords)
        /\ \A i \in DOMAIN new : i \in DOMAIN rem /\ i <= MaxBatch /\ new[i] = rem[i]
        /\ \A i \in DOMAIN rem : i <= MaxBatch => i \in DOMAIN new
    BY <1>0, FirstIs
  <2> QED BY <2>1
<1>3. (\A i \in DOMAIN rest : i \in Nat /\ i >= 1) /\ \A i \in DOMAIN new : i \in Nat
  BY <1>1, <1>2, LenProperties
<1> HIDE DEF rest, new
<1>4. OnePlaceIn(rest, net) /\ HoldsOnly(rest, net, ok)
  BY <1>0, <1>1, PartOfSink
<1>5. \A i \in DOMAIN rest, j \in DOMAIN new : Apart(rest[i], new[j])
  <2> SUFFICES ASSUME NEW i \in DOMAIN rest, NEW j \in DOMAIN new PROVE Apart(rest[i], new[j])
    OBVIOUS
  <2>1. i + MaxBatch # j
    BY <1>0, <1>2, <1>3
  <2> QED BY <1>1, <1>2, <2>1 DEF OnePlaceIn
<1>6. \A post \in net : \A i \in DOMAIN new, j \in DOMAIN post :
         Apart(new[i], post[j]) /\ Apart(post[j], new[i])
  BY <1>2, ApartIsSymmetric DEF OnePlaceIn
<1>7. \A i \in DOMAIN new : (database[new[i]] > 0 => new[i] \in resent) /\ new[i] \in ok
  BY <1>2 DEF OnePlaceIn, HoldsOnly
<1>8. OnePlaceIn(rest, net \cup {new})
  <2>1. \A i \in DOMAIN rest : \A post \in net \cup {new} : \A j \in DOMAIN post :
           Apart(rest[i], post[j])
    BY <1>4, <1>5 DEF OnePlaceIn
  <2>2. \A post, other \in net \cup {new} : post # other =>
           \A i \in DOMAIN post, j \in DOMAIN other : Apart(post[i], other[j])
    <3> SUFFICES ASSUME NEW post \in net \cup {new}, NEW other \in net \cup {new}, post # other,
                        NEW i \in DOMAIN post, NEW j \in DOMAIN other
                 PROVE  Apart(post[i], other[j])
      OBVIOUS
    <3>1. CASE post \in net /\ other \in net
      BY <1>4, <3>1 DEF OnePlaceIn
    <3>2. CASE post = new /\ other \in net
      BY <1>6, <3>2
    <3>3. CASE post \in net /\ other = new
      BY <1>6, <3>3
    <3> QED BY <3>1, <3>2, <3>3
  <2>3. \A post \in net \cup {new} : \A i \in DOMAIN post :
           database[post[i]] > 0 => post[i] \in resent
    BY <1>4, <1>7 DEF OnePlaceIn
  <2> QED BY <1>4, <2>1, <2>2, <2>3 DEF OnePlaceIn
<1>9. HoldsOnly(rest, net \cup {new}, ok)
  BY <1>4, <1>7 DEF HoldsOnly
<1> QED BY <1>8, <1>9 DEF rest, new

\* flush: what it takes from the buffer it posts.
LEMMA FlushedIs ==
    ASSUME NEW rem, NEW post, NEW ok, rem # <<>>,
           SinkIs([remote |-> rem, posting |-> post], rem, post, ok)
    PROVE  \E rest, new : SinkIs(Flushed([remote |-> rem, posting |-> post]), rest, new, ok)
<1> DEFINE sink == [remote |-> rem, posting |-> post]
<1>0. /\ rem \in Seq(1..MaxRecords) /\ post \in Seq(1..MaxRecords)
      /\ post = posting \/ (posting = <<>> /\ post # <<>>)
      /\ OnePlaceIn(rem, Posts(sink)) /\ HoldsOnly(rem, Posts(sink), ok)
  BY DEF SinkIs
<1>1. CASE post # <<>>
  <2>1. Flushed(sink) = sink
    BY <1>1 DEF Flushed
  <2> QED BY <2>1
<1>2. CASE post = <<>>
  <2> DEFINE rest == Without(rem, MaxBatch)
             new == First(rem, MaxBatch)
  <2>1. Flushed(sink) = [remote |-> rest, posting |-> new]
    BY <1>2 DEF Flushed
  <2>2. post = posting /\ Posts(sink) = network
    BY <1>0, <1>2 DEF Posts
  <2>3. MaxBatch \in Nat /\ MaxBatch > 0
    BY LimitsAreNats
  <2>4. rest \in Seq(1..MaxRecords)
    BY <1>0, <2>3, WithoutIs
  <2>5. /\ new \in Seq(1..MaxRecords)
        /\ \A i \in DOMAIN new : i \in DOMAIN rem /\ i <= MaxBatch /\ new[i] = rem[i]
        /\ \A i \in DOMAIN rem : i <= MaxBatch => i \in DOMAIN new
    BY <1>0, <2>3, FirstIs
  <2>6. OnePlaceIn(rest, network \cup {new}) /\ HoldsOnly(rest, network \cup {new}, ok)
    BY <1>0, <2>2, PostTaken
  <2>7. new # <<>>
    <3>1. Len(rem) \in Nat /\ Len(rem) # 0 /\ DOMAIN rem = 1..Len(rem)
      BY <1>0, EmptySeq, LenProperties
    <3>2. 1 \in DOMAIN new
      BY <2>3, <2>5, <3>1
    <3> QED BY <3>2
  <2> HIDE DEF rest, new
  <2>8. Posts([remote |-> rest, posting |-> new]) = network \cup {new}
    BY <1>2, <2>2, <2>7 DEF Posts
  <2>9. SinkIs(Flushed(sink), rest, new, ok)
    BY <1>2, <2>1, <2>2, <2>4, <2>5, <2>6, <2>7, <2>8 DEF SinkIs
  <2> QED BY <2>9
<1> QED BY <1>1, <1>2

\* A record that is nowhere yet.
Fresh(x, ok) ==
    /\ x \in 1..MaxRecords
    /\ \A y \in ok : Apart(x, y)
    /\ database[x] > 0 => x \in resent

\* enqueue, with the overflow and the flush of a full batch: a record that is
\* nowhere yet is in one place afterwards.
LEMMA EnqueuedIs ==
    ASSUME NEW sink, NEW rem, NEW post, NEW ok, SinkIs(sink, rem, post, ok),
           NEW x, Fresh(x, ok)
    PROVE  \E rest, new : SinkIs(Enqueued(sink, x), rest, new, ok \cup {x})
<1> DEFINE more == Append(rem, x)
           teed == [sink EXCEPT !.remote = Newest(Append(@, x), MaxRemote)]
           net == Posts(sink)
<1>0. /\ sink = [remote |-> rem, posting |-> post]
      /\ rem \in Seq(1..MaxRecords) /\ post \in Seq(1..MaxRecords)
      /\ post = posting \/ (posting = <<>> /\ post # <<>>)
      /\ OnePlaceIn(rem, net) /\ HoldsOnly(rem, net, ok)
  BY DEF SinkIs
<1>1. /\ more \in Seq(1..MaxRecords) /\ Len(rem) \in Nat
      /\ DOMAIN rem = 1..Len(rem) /\ DOMAIN more = 1..(Len(rem) + 1)
      /\ \A i \in DOMAIN rem : more[i] = rem[i]
      /\ more[Len(rem) + 1] = x
  <2>1. x \in 1..MaxRecords
    BY DEF Fresh
  <2>2. /\ more \in Seq(1..MaxRecords) /\ Len(more) = Len(rem) + 1
        /\ \A i \in 1..Len(rem) : more[i] = rem[i]
        /\ more[Len(rem) + 1] = x
    BY <1>0, <2>1, AppendProperties
  <2> QED BY <1>0, <2>2, LenProperties
<1>2. \A i \in DOMAIN more : \/ i \in DOMAIN rem /\ more[i] = rem[i]
                             \/ i = Len(rem) + 1 /\ more[i] = x
  BY <1>1
<1> HIDE DEF more, net
<1>3. OnePlaceIn(more, net) /\ HoldsOnly(more, net, ok \cup {x})
  <2>1. \A i, j \in DOMAIN more : i # j => Apart(more[i], more[j])
    <3> SUFFICES ASSUME NEW i \in DOMAIN more, NEW j \in DOMAIN more, i # j
                 PROVE  Apart(more[i], more[j])
      OBVIOUS
    <3>1. CASE i \in DOMAIN rem /\ more[i] = rem[i] /\ j \in DOMAIN rem /\ more[j] = rem[j]
      BY <1>0, <3>1 DEF OnePlaceIn
    <3>2. CASE i \in DOMAIN rem /\ more[i] = rem[i] /\ more[j] = x
      BY <1>0, <3>2, ApartIsSymmetric DEF HoldsOnly, Fresh
    <3>3. CASE more[i] = x /\ j \in DOMAIN rem /\ more[j] = rem[j]
      BY <1>0, <3>3 DEF HoldsOnly, Fresh
    <3> QED BY <1>2, <3>1, <3>2, <3>3
  <2>2. \A i \in DOMAIN more : \A p \in net : \A j \in DOMAIN p : Apart(more[i], p[j])
    <3> SUFFICES ASSUME NEW i \in DOMAIN more, NEW p \in net, NEW j \in DOMAIN p
                 PROVE  Apart(more[i], p[j])
      OBVIOUS
    <3>1. CASE i \in DOMAIN rem /\ more[i] = rem[i]
      BY <1>0, <3>1 DEF OnePlaceIn
    <3>2. CASE more[i] = x
      BY <1>0, <3>2 DEF HoldsOnly, Fresh
    <3> QED BY <1>2, <3>1, <3>2
  <2>3. \A i \in DOMAIN more : database[more[i]] > 0 => more[i] \in resent
    BY <1>0, <1>2 DEF OnePlaceIn, Fresh
  <2>4. OnePlaceIn(more, net)
    BY <1>0, <2>1, <2>2, <2>3 DEF OnePlaceIn
  <2>5. HoldsOnly(more, net, ok \cup {x})
    BY <1>0, <1>2 DEF HoldsOnly
  <2> QED BY <2>4, <2>5
<1>4. PICK m \in Nat : Newest(more, MaxRemote) = Without(more, m)
  BY <1>1, LimitsAreNats, NewestIs
<1> DEFINE part == Newest(more, MaxRemote)
<1>5. /\ part \in Seq(1..MaxRecords)
      /\ \A i \in DOMAIN part : i + m \in DOMAIN more /\ part[i] = more[i + m]
  <2>1. /\ Without(more, m) \in Seq(1..MaxRecords)
        /\ \A i \in DOMAIN Without(more, m) :
              i + m \in DOMAIN more /\ Without(more, m)[i] = more[i + m]
    BY <1>1, WithoutIs
  <2> QED BY <1>4, <2>1
<1>6. teed = [remote |-> part, posting |-> post]
  BY <1>0 DEF more
<1> HIDE DEF part
<1>7. OnePlaceIn(part, net) /\ HoldsOnly(part, net, ok \cup {x})
  BY <1>3, <1>5, PartOfSink
<1>8. Posts(teed) = net
  BY <1>0, <1>6 DEF Posts, net
<1>9. SinkIs(teed, part, post, ok \cup {x})
  BY <1>0, <1>5, <1>6, <1>7, <1>8 DEF SinkIs
<1>10. Enqueued(sink, x) = IF Len(part) >= MaxBatch THEN Flushed(teed) ELSE teed
  BY <1>6 DEF Enqueued
<1> HIDE DEF teed
<1>11. CASE ~(Len(part) >= MaxBatch)
  BY <1>9, <1>10, <1>11
<1>12. CASE Len(part) >= MaxBatch
  <2>1. part # <<>>
    <3>1. MaxBatch \in Nat /\ MaxBatch > 0
      BY LimitsAreNats
    <3>2. Len(part) # 0
      BY <1>5, <1>12, <3>1, LenProperties
    <3> QED BY <3>2, EmptySeq
  <2>2. \E rest, new : SinkIs(Flushed([remote |-> part, posting |-> post]), rest, new, ok \cup {x})
    BY <1>6, <1>9, <2>1, FlushedIs
  <2> QED BY <1>6, <1>10, <1>12, <2>2
<1> QED BY <1>11, <1>12

\* A batch is teed record by record, and each is in one place afterwards.
LEMMA EnqueuedAllIs ==
    ASSUME NEW sink, NEW rem, NEW post, NEW ok, SinkIs(sink, rem, post, ok),
           NEW batch \in Seq(1..MaxRecords),
           \A i \in DOMAIN batch : Fresh(batch[i], ok),
           \A i, j \in DOMAIN batch : i < j => Apart(batch[j], batch[i])
    PROVE  \E rest, new : SinkIs(EnqueuedAll(sink, batch), rest, new, ok \cup Range(batch))
<1> DEFINE Ok(s) == /\ \A i \in DOMAIN s : Fresh(s[i], ok)
                    /\ \A i, j \in DOMAIN s : i < j => Apart(s[j], s[i])
           Is(s) == \E rest, new : SinkIs(EnqueuedAll(sink, s), rest, new, ok \cup Range(s))
           T == {n \in Nat : \A s \in Seq(1..MaxRecords) : Len(s) = n /\ Ok(s) => Is(s)}
<1> HIDE DEF Ok, Is
<1>1. 0 \in T
  <2> SUFFICES ASSUME NEW s \in Seq(1..MaxRecords), Len(s) = 0 PROVE Is(s)
    OBVIOUS
  <2>1. s = <<>>
    BY EmptySeq
  <2>2. EnqueuedAll(sink, s) = sink
    BY <2>1, EnqueuedAllOfNone
  <2>3. Range(s) = {}
    BY <2>1 DEF Range
  <2>4. ok \cup Range(s) = ok
    BY <2>3
  <2>5. SinkIs(EnqueuedAll(sink, s), rem, post, ok \cup Range(s))
    BY <2>2, <2>4
  <2> QED BY <2>5 DEF Is
<1>2. ASSUME NEW n \in Nat, n \in T PROVE n + 1 \in T
  <2> SUFFICES ASSUME NEW ss \in Seq(1..MaxRecords), Len(ss) = n + 1, Ok(ss) PROVE Is(ss)
    OBVIOUS
  <2>1. ss # <<>>
    BY EmptySeq
  <2>2. PICK s \in Seq(1..MaxRecords), x \in 1..MaxRecords : ss = Append(s, x)
    BY <2>1, SequenceEmptyOrAppend
  <2>3. /\ Len(s) = n /\ DOMAIN s = 1..n /\ DOMAIN ss = 1..(n + 1)
        /\ \A i \in 1..n : ss[i] = s[i]
        /\ ss[n + 1] = x
    BY <2>2, AppendProperties, LenProperties
  <2>4. DOMAIN s \subseteq DOMAIN ss /\ n + 1 \in DOMAIN ss
    BY <2>3
  <2>5. Ok(s)
    BY <2>3, <2>4 DEF Ok
  <2>6. Is(s)
    BY <1>2, <2>3, <2>5
  <2>7. PICK rest, new : SinkIs(EnqueuedAll(sink, s), rest, new, ok \cup Range(s))
    BY <2>6 DEF Is
  <2>8. Fresh(x, ok \cup Range(s))
    <3>1. Fresh(x, ok)
      BY <2>3, <2>4 DEF Ok
    <3>2. \A i \in DOMAIN s : Apart(x, s[i])
      <4> TAKE i \in DOMAIN s
      <4>1. i < n + 1 /\ ss[i] = s[i] /\ i \in DOMAIN ss
        BY <2>3
      <4> QED BY <2>3, <2>4, <4>1 DEF Ok
    <3> QED BY <3>1, <3>2 DEF Fresh, Range
  <2>9. EnqueuedAll(sink, ss) = Enqueued(EnqueuedAll(sink, s), x)
    BY <2>2, EnqueuedAllOfMore
  <2>10. Range(ss) = Range(s) \cup {x}
    <3>1. \A i \in DOMAIN ss : i \in DOMAIN s \/ i = n + 1
      BY <2>3
    <3> QED BY <2>3, <2>4, <3>1 DEF Range
  <2> HIDE DEF T
  <2>11. \E r, p : SinkIs(Enqueued(EnqueuedAll(sink, s), x), r, p, (ok \cup Range(s)) \cup {x})
    BY <2>7, <2>8, EnqueuedIs
  <2>12. (ok \cup Range(s)) \cup {x} = ok \cup Range(ss)
    BY <2>10
  <2> QED BY <2>9, <2>11, <2>12 DEF Is
<1> HIDE DEF T
<1>3. Nat \subseteq T
  BY <1>1, <1>2, SetInduction
<1>4. Len(batch) \in T
  BY <1>3, LenProperties
<1>5. Ok(batch)
  BY DEF Ok
<1>6. Is(batch)
  BY <1>4, <1>5 DEF T
<1> QED BY <1>6 DEF Is
-----------------------------------------------------------------------------
(***************************************************************************)
(* The bridge's steps.                                                     *)
(***************************************************************************)

\* The records the bridge has got.
HasArrived == {x \in Records : Arrived(x)}

\* The sink holds what has arrived.
LEMMA SinkIsSink ==
    ASSUME SinkInv
    PROVE  SinkIs([remote |-> remote, posting |-> posting], remote, posting, HasArrived)
<1> DEFINE sink == [remote |-> remote, posting |-> posting]
<1>1. /\ remote \in Seq(1..MaxRecords) /\ posting \in Seq(1..MaxRecords)
      /\ \A i \in DOMAIN remote : Arrived(remote[i])
      /\ \A post \in network : \A i \in DOMAIN post : Arrived(post[i])
      /\ OnePlaceIn(remote, network)
  BY DEF SinkInv, SinkIsWell, OnePlace
<1>2. Posts(sink) = network
  BY DEF Posts
<1>3. \A x : Arrived(x) => x \in HasArrived
  BY DEF HasArrived, Arrived, Sent
<1>4. HoldsOnly(remote, network, HasArrived)
  BY <1>1, <1>3 DEF HoldsOnly
<1> QED BY <1>1, <1>2, <1>4 DEF SinkIs

\* The sink rests while the others step.
LEMMA SinkRests ==
    ASSUME SinkInv, UNCHANGED sinkVars, resent \subseteq resent',
           \A x \in Records : Arrived(x) => Arrived(x)'
    PROVE  SinkInv'
<1>1. SinkIsWell /\ OnePlace /\ remote' = remote /\ posting' = posting
      /\ network' = network /\ database' = database
  BY DEF SinkInv, sinkVars
<1>2. \A x : Arrived(x) => Arrived(x)'
  BY DEF Arrived, Sent
<1>3. SinkIsWell'
  <2>1. \A i \in DOMAIN remote : Arrived(remote[i])'
    BY <1>1, <1>2 DEF SinkIsWell
  <2>2. \A post \in network : \A i \in DOMAIN post : Arrived(post[i])'
    BY <1>1, <1>2 DEF SinkIsWell
  <2>3. \A r \in 1..MaxRecords : database[r] > 0 => Arrived(r)'
    BY <1>1, <1>2 DEF SinkIsWell
  <2>4. (/\ remote \in Seq(1..MaxRecords) /\ posting \in Seq(1..MaxRecords)
         /\ network \subseteq Seq(1..MaxRecords)
         /\ database \in [1..MaxRecords -> 0..2])'
    BY <1>1 DEF SinkIsWell
  <2> QED BY <1>1, <2>1, <2>2, <2>3, <2>4 DEF SinkIsWell
<1>4. OnePlace'
  BY <1>1 DEF OnePlace, OnePlaceIn, Apart
<1> QED BY <1>3, <1>4 DEF SinkInv

\* The sink is what it has become, of records that have arrived.
LEMMA SinkMoves ==
    ASSUME SinkInv, NEW sink, NEW rem, NEW post, NEW ok, SinkIs(sink, rem, post, ok),
           SinkBecomes(sink), database' = database, resent' = resent,
           \A x \in ok : Arrived(x)', \A x \in Records : Arrived(x) => Arrived(x)'
    PROVE  SinkInv'
<1>1. /\ sink = [remote |-> rem, posting |-> post]
      /\ rem \in Seq(1..MaxRecords) /\ post \in Seq(1..MaxRecords)
      /\ OnePlaceIn(rem, Posts(sink)) /\ HoldsOnly(rem, Posts(sink), ok)
  BY DEF SinkIs
<1>2. remote' = rem /\ posting' = post /\ network' = Posts(sink)
  BY <1>1 DEF SinkBecomes, Posts
<1>3. SinkIsWell /\ OnePlace
  BY DEF SinkInv
<1>4. PICK net : net = Posts(sink)
  OBVIOUS
<1>5. net \subseteq Seq(1..MaxRecords)
  BY <1>1, <1>3, <1>4 DEF Posts, SinkIsWell
<1>6. \A i \in DOMAIN rem : Arrived(rem[i])'
  BY <1>1 DEF HoldsOnly
<1>7. \A p \in net : \A i \in DOMAIN p : Arrived(p[i])'
  BY <1>1, <1>4 DEF HoldsOnly
<1>8. \A r \in 1..MaxRecords : database[r] > 0 => Arrived(r)'
  BY <1>3, RecordsAreInts DEF SinkIsWell
<1>9. SinkIsWell'
  <2>1. (\A i \in DOMAIN remote : Arrived(remote[i]))'
    BY <1>2, <1>6
  <2>2. (\A p \in network : \A i \in DOMAIN p : Arrived(p[i]))'
    BY <1>2, <1>4, <1>7
  <2>3. (/\ remote \in Seq(1..MaxRecords) /\ posting \in Seq(1..MaxRecords)
         /\ network \subseteq Seq(1..MaxRecords)
         /\ database \in [1..MaxRecords -> 0..2])'
    BY <1>1, <1>2, <1>3, <1>4, <1>5 DEF SinkIsWell
  <2>4. (\A r \in 1..MaxRecords : database[r] > 0 => Arrived(r))'
    BY <1>8
  <2> QED BY <2>1, <2>2, <2>3, <2>4 DEF SinkIsWell
<1>10. OnePlace'
  <2>1. OnePlaceIn(rem, net)
    BY <1>1, <1>4
  <2>2. OnePlaceIn(remote, network)'
    BY <1>2, <1>4, <2>1 DEF OnePlaceIn, Apart
  <2> QED BY <1>3, <2>2 DEF OnePlace
<1> QED BY <1>9, <1>10 DEF SinkInv

\* The sink's timer: what it takes from the buffer it posts.
LEMMA FlushTimerKeeps ==
    ASSUME OrderInv, SinkInv, FlushTimer
    PROVE  OrderInv' /\ SinkInv'
<1>0. /\ UNCHANGED <<logged, queue, trimming, buffer, resent>> /\ wire' = wire /\ files' = files
      /\ database' = database /\ remote # <<>>
      /\ SinkBecomes(Flushed([remote |-> remote, posting |-> posting]))
  BY DEF FlushTimer, extensionVars
<1>1. KeepsOrder
  BY <1>0, ExtensionRests
<1>2. \A x \in HasArrived : Arrived(x)'
  BY <1>1 DEF KeepsOrder, HasArrived
<1>3. SinkIs([remote |-> remote, posting |-> posting], remote, posting, HasArrived)
  BY SinkIsSink
<1>4. \E rest, new :
         SinkIs(Flushed([remote |-> remote, posting |-> posting]), rest, new, HasArrived)
  BY <1>0, <1>3, FlushedIs
<1>5. PICK sink : sink = Flushed([remote |-> remote, posting |-> posting])
  OBVIOUS
<1>6. PICK rest, new : SinkIs(sink, rest, new, HasArrived)
  BY <1>4, <1>5
<1>7. PICK ok : ok = HasArrived
  OBVIOUS
<1>8. SinkInv'
  BY <1>0, <1>1, <1>2, <1>5, <1>6, <1>7, SinkMoves DEF KeepsOrder
<1> QED BY <1>1, <1>8 DEF KeepsOrder

\* log_batch: the records of the frame are nowhere at the bridge yet, so both
\* the files and the sink may take them.
LEMMA ReceivesBatchKeeps ==
    ASSUME OrderInv, SinkInv, ReceivesBatch
    PROVE  OrderInv' /\ SinkInv'
<1>0. /\ UNCHANGED <<logged, queue, trimming, buffer, resent>>
      /\ wire # <<>> /\ wire' = Tail(wire) /\ database' = database
      /\ WireIsWell /\ LinesAreWell /\ resent \subseteq Records
  BY DEF ReceivesBatch, extensionVars, OrderInv
<1>1. PICK valid : valid = Valid(Head(wire))
  OBVIOUS
<1>2. /\ \E busy \in {{}} \cup {{i} : i \in Generations}, refused \in SUBSET Range(valid) :
            files' = AllWritten(files, valid, busy, refused)
      /\ SinkBecomes(EnqueuedAll([remote |-> remote, posting |-> posting], valid))
  BY <1>1 DEF ReceivesBatch, EnqueuedAll
<1>3. Comes(valid)
  BY <1>0, <1>1, BatchComes
<1>4. /\ QueueIsWell' /\ BufferIsWell' /\ WireIsWell'
      /\ \A x \in Records : Arrived(x) => Arrived(x)'
      /\ \A i \in DOMAIN valid : Arrived(valid[i])'
  BY <1>0, <1>1, FrameTaken
<1>5. PICK busy \in SUBSET Generations, refused \in SUBSET Range(valid) :
         files' = AllWritten(files, valid, busy, refused)
  BY <1>2
<1>6. /\ files' \in [Generations -> Seq(Records)]
      /\ InOrder(AllLines(files)')
      /\ \A i \in DOMAIN AllLines(files)' :
            \/ Arrived(AllLines(files)'[i])
            \/ \E j \in DOMAIN valid : AllLines(files)'[i] = valid[j]
  BY <1>0, <1>3, <1>5, BatchWritten
<1>7. LinesAreWell'
  <2>1. PICK new : new = AllLines(files)'
    OBVIOUS
  <2>2. InOrder(new)'
    BY <1>0, <1>6, <2>1 DEF InOrder, Before
  <2>3. \A i \in DOMAIN new : Arrived(new[i])'
    <3> SUFFICES ASSUME NEW i \in DOMAIN new PROVE Arrived(new[i])'
      OBVIOUS
    <3>1. CASE Arrived(new[i])
      <4>1. new[i] \in Records
        BY <3>1 DEF Arrived, Sent
      <4> QED BY <1>4, <3>1, <4>1
    <3>2. CASE \E j \in DOMAIN valid : new[i] = valid[j]
      BY <1>4, <3>2
    <3> QED BY <1>6, <2>1, <3>1, <3>2
  <2>4. /\ InOrder(AllLines(files))'
        /\ (\A i \in DOMAIN AllLines(files) : Arrived(AllLines(files)[i]))'
    BY <2>1, <2>2, <2>3
  <2> QED BY <1>6, <2>4 DEF LinesAreWell
<1>8. OrderInv'
  BY <1>0, <1>4, <1>7 DEF OrderInv
<1>9. PICK sink0 : sink0 = [remote |-> remote, posting |-> posting]
  OBVIOUS
<1>10. SinkIs(sink0, remote, posting, HasArrived)
  BY <1>9, SinkIsSink
<1>11. valid \in Seq(1..MaxRecords)
  BY <1>3 DEF Comes
<1>12. \A i \in DOMAIN valid : Fresh(valid[i], HasArrived)
  <2> SUFFICES ASSUME NEW i \in DOMAIN valid PROVE Fresh(valid[i], HasArrived)
    OBVIOUS
  <2>1. valid[i] \in 1..MaxRecords /\ valid[i] \in Int
    <3>1. i \in 1..Len(valid)
      BY <1>11, LenProperties
    <3>2. valid[i] \in 1..MaxRecords
      BY <1>11, <3>1, ElementOfSeq
    <3> QED BY <3>2
  <2>2. ASSUME NEW x \in Records, Arrived(x) PROVE Apart(valid[i], x)
    <3>1. Before(x, valid[i])
      BY <1>3, <2>2 DEF Comes
    <3>2. x \in Int
      BY RecordsAreInts
    <3> QED BY <2>1, <3>1, <3>2 DEF Apart, Before
  <2>3. database[valid[i]] > 0 => valid[i] \in resent
    <3> SUFFICES ASSUME database[valid[i]] > 0 PROVE valid[i] \in resent
      OBVIOUS
    <3>1. Arrived(valid[i]) /\ valid[i] \in Records
      BY <2>1, RecordsAreInts DEF SinkInv, SinkIsWell
    <3>2. Before(valid[i], valid[i])
      BY <1>3, <3>1 DEF Comes
    <3> QED BY <2>1, <3>2 DEF Before
  <2> QED BY <2>1, <2>2, <2>3 DEF Fresh, HasArrived
<1>13. \A i, j \in DOMAIN valid : i < j => Apart(valid[j], valid[i])
  <2> SUFFICES ASSUME NEW i \in DOMAIN valid, NEW j \in DOMAIN valid, i < j
               PROVE  Apart(valid[j], valid[i])
    OBVIOUS
  <2>1. Before(valid[i], valid[j])
    BY <1>3 DEF Comes, InOrder
  <2>2. valid[i] \in Int
    <3>1. i \in 1..Len(valid)
      BY <1>11, LenProperties
    <3>2. valid[i] \in 1..MaxRecords
      BY <1>11, <3>1, ElementOfSeq
    <3> QED BY <3>2
  <2> QED BY <2>1, <2>2 DEF Before, Apart
<1>14. \E rest, new : SinkIs(EnqueuedAll(sink0, valid), rest, new, HasArrived \cup Range(valid))
  BY <1>10, <1>11, <1>12, <1>13, EnqueuedAllIs
<1>15. PICK sink : sink = EnqueuedAll(sink0, valid)
  OBVIOUS
<1>16. PICK ok : ok = HasArrived \cup Range(valid)
  OBVIOUS
<1>17. PICK rest, new : SinkIs(sink, rest, new, ok)
  BY <1>14, <1>15, <1>16
<1>18. \A x \in ok : Arrived(x)'
  BY <1>4, <1>16 DEF HasArrived, Range
<1>19. SinkBecomes(sink)
  BY <1>2, <1>9, <1>15
<1>20. SinkInv'
  BY <1>0, <1>4, <1>17, <1>18, <1>19, SinkMoves
<1> QED BY <1>8, <1>20

\* The wait for a POST ends and the batch is given up: it is with the service or
\* lost, and never back in the buffer.
LEMMA PostEndsKeeps ==
    ASSUME OrderInv, SinkInv, PostEnds
    PROVE  OrderInv' /\ SinkInv'
<1>0. /\ UNCHANGED <<logged, queue, trimming, buffer, resent>> /\ wire' = wire /\ files' = files
      /\ network' = network /\ database' = database
      /\ remote' = <<>> \o remote /\ posting' = <<>>
  BY DEF PostEnds, extensionVars, NotRetried
<1>1. KeepsOrder
  BY <1>0, ExtensionRests
<1>2. SinkIsWell /\ OnePlace
  BY DEF SinkInv
<1>3. remote' = remote
  BY <1>0, <1>2, ConcatEmptySeq DEF SinkIsWell
<1>4. \A x : Arrived(x) => Arrived(x)'
  BY <1>1 DEF KeepsOrder, Arrived, Sent
<1>5. SinkIsWell'
  <2>1. \A i \in DOMAIN remote : Arrived(remote[i])'
    BY <1>2, <1>3, <1>4 DEF SinkIsWell
  <2>2. \A post \in network : \A i \in DOMAIN post : Arrived(post[i])'
    BY <1>2, <1>4 DEF SinkIsWell
  <2>3. \A r \in 1..MaxRecords : database[r] > 0 => Arrived(r)'
    BY <1>2, <1>4 DEF SinkIsWell
  <2>4. (/\ remote \in Seq(1..MaxRecords) /\ posting \in Seq(1..MaxRecords)
         /\ network \subseteq Seq(1..MaxRecords)
         /\ database \in [1..MaxRecords -> 0..2])'
    BY <1>0, <1>2, <1>3, EmptySeq DEF SinkIsWell
  <2> QED BY <1>0, <1>3, <2>1, <2>2, <2>3, <2>4 DEF SinkIsWell
<1>6. OnePlace'
  BY <1>0, <1>2, <1>3 DEF OnePlace, OnePlaceIn, Apart
<1> QED BY <1>1, <1>5, <1>6 DEF KeepsOrder, SinkInv

\* A restart of the bridge loses the buffer; the posts under way stay.
LEMMA BridgeRestartsKeeps ==
    ASSUME OrderInv, SinkInv, BridgeRestarts
    PROVE  OrderInv' /\ SinkInv'
<1>0. /\ UNCHANGED <<logged, queue, trimming, buffer, resent>> /\ wire' = <<>> /\ files' = files
      /\ network' = network /\ database' = database
      /\ remote' = <<>> /\ posting' = <<>>
  BY DEF BridgeRestarts
<1>1. KeepsOrder
  BY <1>0, ExtensionRests
<1>2. SinkIsWell /\ OnePlace
  BY DEF SinkInv
<1>3. DOMAIN remote' = {} /\ remote' \in Seq(1..MaxRecords) /\ posting' \in Seq(1..MaxRecords)
  BY <1>0, EmptySeq
<1>4. \A x : Arrived(x) => Arrived(x)'
  BY <1>1 DEF KeepsOrder, Arrived, Sent
<1>5. SinkIsWell'
  <2>1. \A post \in network : \A i \in DOMAIN post : Arrived(post[i])'
    BY <1>2, <1>4 DEF SinkIsWell
  <2>2. \A r \in 1..MaxRecords : database[r] > 0 => Arrived(r)'
    BY <1>2, <1>4 DEF SinkIsWell
  <2> QED BY <1>0, <1>2, <1>3, <2>1, <2>2 DEF SinkIsWell
<1>6. OnePlace'
  BY <1>0, <1>2, <1>3 DEF OnePlace, OnePlaceIn, Apart
<1> QED BY <1>1, <1>5, <1>6 DEF KeepsOrder, SinkInv

\* A post leaves the network as it is inserted, so that no other inserts the
\* same record again.
LEMMA InsertsKeeps ==
    ASSUME OrderInv, SinkInv, NEW post \in network, Inserts(post)
    PROVE  OrderInv' /\ SinkInv'
<1>0. /\ UNCHANGED <<logged, queue, trimming, buffer, resent>> /\ wire' = wire /\ files' = files
      /\ network' = network \ {post} /\ remote' = remote /\ posting' = posting
      /\ database' \in {database, [r \in 1..MaxRecords |->
           IF r \in Range(post) THEN Min({database[r] + 1, 2}) ELSE database[r]]}
  BY DEF Inserts, extensionVars
<1>1. KeepsOrder
  BY <1>0, ExtensionRests
<1>2. SinkIsWell /\ OnePlace
  BY DEF SinkInv
<1>3. \A x : Arrived(x) => Arrived(x)'
  BY <1>1 DEF KeepsOrder, Arrived, Sent
<1>4. \A r \in 1..MaxRecords : database[r] \in 0..2
  BY <1>2 DEF SinkIsWell
<1>5. /\ database' \in [1..MaxRecords -> 0..2]
      /\ \A r \in 1..MaxRecords :
            /\ database'[r] > 0 => database[r] > 0 \/ r \in Range(post)
            /\ database'[r] > 1 => database[r] > 1 \/ (r \in Range(post) /\ database[r] > 0)
  <2>1. CASE database' = database
    BY <1>2, <2>1 DEF SinkIsWell
  <2>2. CASE database' = [r \in 1..MaxRecords |->
           IF r \in Range(post) THEN Min({database[r] + 1, 2}) ELSE database[r]]
    <3>1. ASSUME NEW r \in 1..MaxRecords
          PROVE  Min({database[r] + 1, 2}) = IF database[r] + 1 <= 2 THEN database[r] + 1 ELSE 2
      <4>1. database[r] + 1 \in Int /\ 2 \in Int
        BY <1>4
      <4> QED BY <4>1, MinOfTwo
    <3>2. ASSUME NEW r \in 1..MaxRecords
          PROVE  /\ database'[r] \in 0..2
                 /\ database'[r] > 0 => database[r] > 0 \/ r \in Range(post)
                 /\ database'[r] > 1 => database[r] > 1 \/ (r \in Range(post) /\ database[r] > 0)
      <4>1. database[r] \in 0..2
        BY <1>4
      <4>2. CASE r \in Range(post)
        <5>1. database'[r] = IF database[r] + 1 <= 2 THEN database[r] + 1 ELSE 2
          BY <2>2, <3>1, <4>2
        <5> QED BY <4>1, <4>2, <5>1
      <4>3. CASE r \notin Range(post)
        <5>1. database'[r] = database[r]
          BY <2>2, <4>3
        <5> QED BY <4>1, <5>1
      <4> QED BY <4>2, <4>3
    <3>3. database' = [r \in 1..MaxRecords |-> database'[r]]
      BY <2>2
    <3> QED BY <3>2, <3>3
  <2> QED BY <1>0, <2>1, <2>2
<1>6. \A r \in Range(post) : \E j \in DOMAIN post : r = post[j]
  BY DEF Range
<1>7. /\ post \in Seq(1..MaxRecords) /\ remote \in Seq(1..MaxRecords)
      /\ network \subseteq Seq(1..MaxRecords)
  BY <1>2 DEF SinkIsWell
<1>8. ASSUME NEW s \in Seq(1..MaxRecords), NEW i \in DOMAIN s
      PROVE  s[i] \in 1..MaxRecords
  <2>1. i \in 1..Len(s)
    BY LenProperties
  <2> QED BY <2>1, ElementOfSeq
<1>9. SinkIsWell'
  <2>1. \A i \in DOMAIN remote : Arrived(remote[i])'
    BY <1>0, <1>2, <1>3 DEF SinkIsWell
  <2>2. \A p \in network' : \A i \in DOMAIN p : Arrived(p[i])'
    BY <1>0, <1>2, <1>3 DEF SinkIsWell
  <2>3. ASSUME NEW r \in 1..MaxRecords, database'[r] > 0 PROVE Arrived(r)'
    <3>1. CASE database[r] > 0
      BY <1>2, <1>3, <3>1 DEF SinkIsWell
    <3>2. CASE r \in Range(post)
      <4>1. PICK j \in DOMAIN post : r = post[j]
        BY <1>6, <3>2
      <4>2. Arrived(r)
        BY <1>2, <4>1 DEF SinkIsWell
      <4> QED BY <1>3, <4>2
    <3> QED BY <1>5, <2>3, <3>1, <3>2
  <2>4. (/\ remote \in Seq(1..MaxRecords) /\ posting \in Seq(1..MaxRecords)
         /\ network \subseteq Seq(1..MaxRecords)
         /\ database \in [1..MaxRecords -> 0..2])'
    BY <1>0, <1>2, <1>5 DEF SinkIsWell
  <2>5. (\A i \in DOMAIN remote : Arrived(remote[i]))'
    BY <1>0, <2>1
  <2> QED BY <2>2, <2>3, <2>4, <2>5 DEF SinkIsWell
<1>10. OnePlaceIn(remote, network)'
  <2>1. ASSUME NEW i \in DOMAIN remote, database'[remote[i]] > 0
        PROVE  remote[i] \in resent
    <3>1. remote[i] \in 1..MaxRecords
      BY <1>7, <1>8
    <3>2. CASE database[remote[i]] > 0
      BY <1>2, <3>2 DEF OnePlace, OnePlaceIn
    <3>3. CASE remote[i] \in Range(post)
      <4>1. PICK j \in DOMAIN post : remote[i] = post[j]
        BY <1>6, <3>3
      <4> QED BY <1>2, <4>1 DEF OnePlace, OnePlaceIn, Apart
    <3> QED BY <1>5, <2>1, <3>1, <3>2, <3>3
  <2>2. ASSUME NEW p \in network', NEW i \in DOMAIN p, database'[p[i]] > 0
        PROVE  p[i] \in resent
    <3>0. p \in network /\ p # post
      BY <1>0
    <3>1. p[i] \in 1..MaxRecords
      BY <1>7, <1>8, <3>0
    <3>2. CASE database[p[i]] > 0
      BY <1>2, <3>0, <3>2 DEF OnePlace, OnePlaceIn
    <3>3. CASE p[i] \in Range(post)
      <4>1. PICK j \in DOMAIN post : p[i] = post[j]
        BY <1>6, <3>3
      <4> QED BY <1>2, <3>0, <4>1 DEF OnePlace, OnePlaceIn, Apart
    <3> QED BY <1>5, <2>2, <3>1, <3>2, <3>3
  <2>3. /\ \A i, j \in DOMAIN remote : i # j => Apart(remote[i], remote[j])'
        /\ \A i \in DOMAIN remote : \A p \in network' : \A j \in DOMAIN p : Apart(remote[i], p[j])'
        /\ \A p, other \in network' : p # other =>
              \A i \in DOMAIN p, j \in DOMAIN other : Apart(p[i], other[j])'
    BY <1>0, <1>2 DEF OnePlace, OnePlaceIn, Apart
  <2> QED BY <1>0, <2>1, <2>2, <2>3 DEF OnePlaceIn
<1>11. ASSUME NEW r \in 1..MaxRecords, database'[r] > 1 PROVE r \in resent
  <2>1. CASE database[r] > 1
    BY <1>2, <2>1 DEF OnePlace
  <2>2. CASE r \in Range(post) /\ database[r] > 0
    <3>1. PICK j \in DOMAIN post : r = post[j]
      BY <1>6, <2>2
    <3> QED BY <1>2, <2>2, <3>1 DEF OnePlace, OnePlaceIn
  <2> QED BY <1>5, <1>11, <2>1, <2>2
<1>12. OnePlace'
  BY <1>0, <1>10, <1>11 DEF OnePlace
<1> QED BY <1>1, <1>9, <1>12 DEF KeepsOrder, SinkInv
-----------------------------------------------------------------------------
(***************************************************************************)
(* The specification.                                                      *)
(***************************************************************************)

\* The lines of earlier runs, from the oldest.
EarlierLines(n) == [i \in 1..n |-> i - 1 - Keep]

\* One line more of earlier runs is the next newer.
LEMMA EarlierOfMore ==
    ASSUME NEW n \in Nat
    PROVE  /\ EarlierLines(n) \in Seq(Int) /\ Len(EarlierLines(n)) = n
           /\ EarlierLines(n + 1) = EarlierLines(n) \o <<n - Keep>>
<1>0. Keep \in Nat /\ n + 1 \in Nat
  BY KeepIsNat
<1>1. \A m \in Nat : EarlierLines(m) \in Seq(Int) /\ Len(EarlierLines(m)) = m
  <2> TAKE m \in Nat
  <2>1. \A i \in 1..m : i - 1 - Keep \in Int
    BY <1>0
  <2> QED BY <2>1, IsASeq DEF EarlierLines
<1>2. n - Keep \in Int /\ n - Keep = (n + 1) - 1 - Keep
  BY <1>0
<1>3. /\ Append(EarlierLines(n), n - Keep) \in Seq(Int)
      /\ Len(Append(EarlierLines(n), n - Keep)) = n + 1
      /\ \A i \in 1..n : Append(EarlierLines(n), n - Keep)[i] = EarlierLines(n)[i]
      /\ Append(EarlierLines(n), n - Keep)[n + 1] = n - Keep
  <2> DEFINE s == EarlierLines(n)
             x == n - Keep
  <2>1. s \in Seq(Int) /\ Len(s) = n /\ x \in Int
    BY <1>1, <1>2
  <2> HIDE DEF s, x
  <2>2. /\ Append(s, x) \in Seq(Int) /\ Len(Append(s, x)) = Len(s) + 1
        /\ \A i \in 1..Len(s) : Append(s, x)[i] = s[i]
        /\ Append(s, x)[Len(s) + 1] = x
    BY <2>1, AppendProperties
  <2>3. /\ Append(s, x) \in Seq(Int) /\ Len(Append(s, x)) = n + 1
        /\ \A i \in 1..n : Append(s, x)[i] = s[i]
        /\ Append(s, x)[n + 1] = x
    BY <2>1, <2>2
  <2> QED BY <2>3 DEF s, x
<1>4. ASSUME NEW i \in 1..(n + 1)
      PROVE  EarlierLines(n + 1)[i] = Append(EarlierLines(n), n - Keep)[i]
  BY <1>2, <1>3 DEF EarlierLines
<1>5. EarlierLines(n + 1) \in Seq(Int) /\ Len(EarlierLines(n + 1)) = n + 1
  BY <1>0, <1>1
<1>6. EarlierLines(n + 1) = Append(EarlierLines(n), n - Keep)
  BY <1>3, <1>4, <1>5, SeqEqual
<1>7. Append(EarlierLines(n), n - Keep) = EarlierLines(n) \o <<n - Keep>>
  BY <1>1, <1>2, AppendIsConcat
<1> QED BY <1>1, <1>6, <1>7

\* The log is in order at the start, whatever earlier runs have left.
LEMMA InitLines ==
    ASSUME Init
    PROVE  LinesAreWell
<1>0. /\ logged = 0 /\ queue = <<>> /\ trimming = 0 /\ buffer = <<>> /\ wire = <<>>
      /\ Keep \in Nat /\ Keep > 0 /\ MaxRecords \in Nat
  BY KeepIsNat, LimitsAreNats DEF Init
<1>1. PICK n \in {-1, Keep} :
         files = [i \in Generations |-> IF i <= n THEN <<0 - i>> ELSE <<>>]
  BY DEF Init
<1>2. files \in [Generations -> Seq(Records)]
  <2>1. \A i \in Generations : 0 - i \in Records
    BY <1>0 DEF Generations, Records
  <2>2. \A i \in Generations : <<0 - i>> \in Seq(Records) /\ <<>> \in Seq(Records)
    BY <2>1
  <2> QED BY <1>1, <2>2
<1>3. \A x \in Records : x <= 0 => Arrived(x)
  <2>1. DOMAIN <<>> = {}
    OBVIOUS
  <2> QED BY <1>0, <2>1 DEF Arrived, Sent
<1>4. CASE n = -1
  <2>1. \A i \in Generations : files[i] = <<>>
    BY <1>1, <1>4 DEF Generations
  <2> DEFINE T == {m \in Nat : m <= Keep + 1 => LinesOfOldest(files, m) = <<>>}
  <2>2. 0 \in T
    BY NoneOfOldest
  <2>3. ASSUME NEW m \in Nat, m \in T PROVE m + 1 \in T
    <3> SUFFICES ASSUME m + 1 <= Keep + 1 PROVE LinesOfOldest(files, m + 1) = <<>>
      OBVIOUS
    <3>1. Keep - m \in Generations /\ m <= Keep + 1
      BY <1>0 DEF Generations
    <3>2. LinesOfOldest(files, m + 1) = <<>> \o <<>>
      BY <2>1, <2>3, <3>1, MoreOfOldest
    <3> QED BY <3>2
  <2> HIDE DEF T
  <2>4. Nat \subseteq T
    BY <2>2, <2>3, SetInduction
  <2>5. AllLines(files) = <<>>
    BY <2>4, KeepIsNat, AllAreOldest DEF T
  <2>6. DOMAIN AllLines(files) = {}
    BY <2>5
  <2> QED BY <1>2, <2>6 DEF LinesAreWell, InOrder
<1>5. CASE n = Keep
  <2>1. \A i \in Generations : files[i] = <<0 - i>>
    BY <1>0, <1>1, <1>5 DEF Generations
  <2> DEFINE T == {m \in Nat : m <= Keep + 1 => LinesOfOldest(files, m) = EarlierLines(m)}
  <2>2. 0 \in T
    <3>1. EarlierLines(0) = <<>>
      BY DEF EarlierLines
    <3> QED BY <3>1, NoneOfOldest
  <2>3. ASSUME NEW m \in Nat, m \in T PROVE m + 1 \in T
    <3> SUFFICES ASSUME m + 1 <= Keep + 1
                 PROVE  LinesOfOldest(files, m + 1) = EarlierLines(m + 1)
      OBVIOUS
    <3>1. Keep - m \in Generations /\ m <= Keep + 1 /\ 0 - (Keep - m) = m - Keep
      BY <1>0 DEF Generations
    <3>2. LinesOfOldest(files, m) = EarlierLines(m) /\ files[Keep - m] = <<m - Keep>>
      BY <2>1, <2>3, <3>1
    <3>3. LinesOfOldest(files, m + 1) = LinesOfOldest(files, m) \o files[Keep - m]
      BY MoreOfOldest
    <3>4. EarlierLines(m + 1) = EarlierLines(m) \o <<m - Keep>>
      BY EarlierOfMore
    <3> QED BY <3>2, <3>3, <3>4, Zenon
  <2> HIDE DEF T
  <2>4. Nat \subseteq T
    BY <2>2, <2>3, SetInduction
  <2>5. AllLines(files) = EarlierLines(Keep + 1)
    BY <2>4, KeepIsNat, AllAreOldest DEF T
  <2>6. \A i \in 1..(Keep + 1) :
           /\ EarlierLines(Keep + 1)[i] = i - 1 - Keep
           /\ i - 1 - Keep \in Records /\ i - 1 - Keep <= 0
    BY <1>0 DEF EarlierLines, Records
  <2>7. DOMAIN EarlierLines(Keep + 1) = 1..(Keep + 1)
    BY DEF EarlierLines
  <2>8. InOrder(EarlierLines(Keep + 1))
    BY <1>0, <2>6, <2>7 DEF InOrder, Before
  <2>9. \A i \in DOMAIN EarlierLines(Keep + 1) : Arrived(EarlierLines(Keep + 1)[i])
    BY <1>3, <2>6, <2>7
  <2> QED BY <1>2, <2>5, <2>8, <2>9 DEF LinesAreWell
<1> QED BY <1>1, <1>4, <1>5

\* The invariants hold when the extension and the bridge start.
LEMMA InitLog ==
    ASSUME Init
    PROVE  OrderInv /\ SinkInv
<1>0. /\ logged = 0 /\ queue = <<>> /\ trimming = 0 /\ buffer = <<>> /\ wire = <<>>
      /\ remote = <<>> /\ posting = <<>> /\ network = {}
      /\ database = [r \in 1..MaxRecords |-> 0] /\ resent = {}
      /\ MaxRecords \in Nat
  BY LimitsAreNats DEF Init
<1>1. DOMAIN <<>> = {} /\ (\A S : <<>> \in Seq(S)) /\ Len(<<>>) = 0
  OBVIOUS
<1>2. QueueIsWell
  BY <1>0, <1>1 DEF QueueIsWell
<1>3. BufferIsWell
  BY <1>0, <1>1 DEF BufferIsWell
<1>4. WireIsWell
  BY <1>0, <1>1 DEF WireIsWell
<1>5. LinesAreWell
  BY InitLines
<1>6. SinkIsWell
  BY <1>0, <1>1 DEF SinkIsWell
<1>7. OnePlace
  BY <1>0, <1>1 DEF OnePlace, OnePlaceIn
<1> QED BY <1>0, <1>2, <1>3, <1>4, <1>5, <1>6, <1>7 DEF OrderInv, SinkInv

\* Steps of the extension leave the bridge alone.
LEMMA ExtensionStepKeeps ==
    ASSUME OrderInv, SinkInv, KeepsOrder, UNCHANGED sinkVars
    PROVE  OrderInv' /\ SinkInv'
BY SinkRests DEF KeepsOrder

\* Each step keeps them.
LEMMA NextKeepsLog ==
    ASSUME OrderInv, SinkInv, [Next]_vars
    PROVE  OrderInv' /\ SinkInv'
<1>1. CASE LogRecord
  BY <1>1, LogRecordKeeps, ExtensionStepKeeps DEF LogRecord, bridgeVars
<1>2. CASE Appends
  BY <1>2, AppendsKeeps, ExtensionStepKeeps DEF Appends, bridgeVars
<1>3. CASE FlushDue
  <2>1. KeepsOrder
    BY <1>3, FlushJoins DEF FlushDue, bridgeVars
  <2> QED BY <1>3, <2>1, ExtensionStepKeeps DEF FlushDue, bridgeVars
<1>4. CASE Sends
  BY <1>4, SendsKeeps, ExtensionStepKeeps DEF Sends, bridgeVars
<1>5. CASE Trimmed
  BY <1>5, TrimmedKeeps, ExtensionStepKeeps DEF Trimmed, bridgeVars
<1>6. CASE ServerInfo
  <2>1. KeepsOrder
    BY <1>6, FlushJoins DEF ServerInfo, bridgeVars
  <2> QED BY <1>6, <2>1, ExtensionStepKeeps DEF ServerInfo, bridgeVars
<1>7. CASE RelayBreaks
  <2>1. KeepsOrder
    BY <1>7, ExtensionRests DEF RelayBreaks, bridgeVars
  <2> QED BY <1>7, <2>1, ExtensionStepKeeps DEF RelayBreaks, bridgeVars
<1>8. CASE Evicted
  BY <1>8, EvictedKeeps, ExtensionStepKeeps DEF Evicted, bridgeVars
<1>9. CASE ReceivesBatch
  BY <1>9, ReceivesBatchKeeps
<1>10. CASE FlushTimer
  BY <1>10, FlushTimerKeeps
<1>11. CASE PostEnds
  BY <1>11, PostEndsKeeps
<1>12. CASE BridgeRestarts
  BY <1>12, BridgeRestartsKeeps
<1>13. CASE \E post \in network : Inserts(post)
  BY <1>13, InsertsKeeps
<1>14. CASE UNCHANGED vars
  <2>1. KeepsOrder
    BY <1>14, ExtensionRests DEF vars
  <2> QED BY <1>14, <2>1, ExtensionStepKeeps DEF vars, sinkVars
<1> QED BY <1>1, <1>2, <1>3, <1>4, <1>5, <1>6, <1>7, <1>8, <1>9, <1>10, <1>11, <1>12,
           <1>13, <1>14 DEF Next, ExtensionStep

\* The records are in order all the way from the write queue to the files, and
\* each is in one place from the sink to the database.
THEOREM LogInvariance == Spec => [](OrderInv /\ SinkInv)
<1>1. Init => OrderInv /\ SinkInv
  BY InitLog
<1>2. OrderInv /\ SinkInv /\ [Next]_vars => (OrderInv /\ SinkInv)'
  BY NextKeepsLog
<1> QED BY <1>1, <1>2, PTL DEF Spec

\* The log shows the records in the order they were logged and none twice but
\* those a life had sent and could not remove (it died, or the storage refused):
\* for any number of records, any limits of buffers, frames and batches, any number
\* of generations kept, and any evictions, breaks, restarts and failing rotations.
THEOREM LogStaysInOrder == Spec => []LogIsInOrder
<1>1. OrderInv => LogIsInOrder
  BY DEF OrderInv, LinesAreWell, InOrder, Before, LogIsInOrder
<1> QED BY <1>1, LogInvariance, PTL

\* A row is inserted no more often than its line was sent to the bridge, however
\* the POST ends and however late the service gets it (remote-sink.ts flush).
THEOREM RowsAreSentOnce == Spec => []NoRowTwice
<1>1. SinkInv => NoRowTwice
  BY DEF SinkInv, OnePlace, NoRowTwice
<1> QED BY <1>1, LogInvariance, PTL

\* Only log_batch changes the files, and what it loses of them it loses at the
\* old end.
LEMMA StepAgesOut ==
    ASSUME OrderInv, [Next]_vars, files' # files
    PROVE  \E refused \in SUBSET Range(Valid(Head(wire))) :
              LET lines == AllLines(files) \o Passing(Valid(Head(wire)), refused)
              IN  \E n \in 0..Len(lines) : AllLines(files)' = Without(lines, n)
<1>1. ReceivesBatch
  BY DEF Next, ExtensionStep, vars, LogRecord, Appends, FlushDue, Sends, Trimmed, ServerInfo,
         RelayBreaks, Evicted, FlushTimer, PostEnds, BridgeRestarts, Inserts, bridgeVars
<1>2. wire # <<>> /\ WireIsWell /\ LinesAreWell
  BY <1>1 DEF ReceivesBatch, OrderInv
<1>3. PICK valid : valid = Valid(Head(wire))
  OBVIOUS
<1>4. PICK busy \in SUBSET Generations, refused \in SUBSET Range(valid) :
         files' = AllWritten(files, valid, busy, refused)
  BY <1>1, <1>3 DEF ReceivesBatch
<1>5. Comes(valid)
  BY <1>2, <1>3, BatchComes
<1>6. /\ AllLines(files) \o Passing(valid, refused) \in Seq(Records)
      /\ LeftOf(Records, AllLines(files) \o Passing(valid, refused), AllLines(files)')
      /\ AllLines(files)' \in Seq(Records)
  BY <1>2, <1>4, <1>5, BatchWritten
<1> DEFINE lines == AllLines(files) \o Passing(valid, refused)
<1>7. \E n \in 0..Len(lines) : AllLines(files)' = Without(lines, n)
  BY <1>6, LeftIsWithout
<1> QED BY <1>3, <1>7

\* A line once in the files leaves them at the old end only, for any number of
\* generations, whatever rotations stop half way or cannot delete the oldest and
\* whatever appends are refused (shared/logger.ts rotate, logRecord).
THEOREM LinesOnlyAgeOut == Spec => LinesAgeOut
<1>1. OrderInv /\ [Next]_vars =>
        [files' # files =>
          \E refused \in SUBSET Range(Valid(Head(wire))) :
             LET lines == AllLines(files) \o Passing(Valid(Head(wire)), refused)
             IN  \E n \in 0..Len(lines) : AllLines(files)' = Without(lines, n)]_vars
  BY StepAgesOut
<1> QED BY <1>1, LogInvariance, PTL DEF Spec, LinesAgeOut
=============================================================================
