---------------------------- MODULE DataInduction ----------------------------
(***************************************************************************)
(* Induction over the natural numbers in the form this project uses it: on *)
(* a set, which the provers can instantiate, in place of a predicate.      *)
(* What it gives of the folds the models are built from: FoldLeft is a     *)
(* function on the sets of indices, each without its greatest in turn.     *)
(***************************************************************************)
EXTENDS Integers, FiniteSetsExt, WellFoundedInduction, TLAPS

\* Every set of naturals that has a member has a least one.
LEMMA LeastNat ==
    ASSUME NEW S, S \subseteq Nat, S # {}
    PROVE  \E x \in S : \A y \in S : x <= y
<1> DEFINE R == {ss \in Nat \X Nat : ss[1] < ss[2]}
<1>1. IsWellFoundedOn(R, Nat)
  BY NatLessThanWellFounded DEF OpToRel
<1>2. \A x, y \in Nat : y < x => <<y, x>> \in R
  OBVIOUS
<1> HIDE DEF R
<1>3. PICK x \in S : \A y \in S : ~ (<<y, x>> \in R)
  BY <1>1, WFMin
<1>4. ASSUME NEW y \in S
      PROVE  x <= y
  <2>1. x \in Nat /\ y \in Nat
    OBVIOUS
  <2>2. ~(y < x)
    BY <2>1, <1>2, <1>3
  <2> QED BY <2>1, <2>2
<1> QED BY <1>4

\* A set that has 0 and with every natural its successor has all of them.
LEMMA SetInduction ==
    ASSUME NEW S, 0 \in S, \A n \in Nat : n \in S => n + 1 \in S
    PROVE  Nat \subseteq S
<1> DEFINE Out == {n \in Nat : n \notin S}
<1>1. SUFFICES ASSUME Out # {} PROVE FALSE
  OBVIOUS
<1>2. PICK x \in Out : \A y \in Out : x <= y
  BY <1>1, LeastNat
<1>3. x \in Nat /\ x # 0
  BY <1>2
<1>4. x - 1 \in Nat /\ x - 1 \notin Out
  BY <1>2, <1>3
<1>5. x \in S
  BY <1>3, <1>4
<1> QED BY <1>2, <1>5

-----------------------------------------------------------------------------
\* Max of a set of numbers up to n.
LEMMA MaxUpTo ==
    ASSUME NEW n \in Nat, NEW s \in SUBSET (1..n), s # {}
    PROVE  Max(s) \in s /\ \A y \in s : y <= Max(s)
<1> DEFINE S == {k \in Nat : \A t \in SUBSET (1..k) : t # {} => \E x \in t : \A y \in t : x >= y}
<1>1. 0 \in S
  <2>1. \A t \in SUBSET (1..0) : t = {}
    OBVIOUS
  <2> QED BY <2>1
<1>2. ASSUME NEW k \in Nat, k \in S PROVE k + 1 \in S
  <2> SUFFICES ASSUME NEW t \in SUBSET (1..(k + 1)), t # {}
               PROVE  \E x \in t : \A y \in t : x >= y
    OBVIOUS
  <2>1. CASE k + 1 \in t
    BY <2>1
  <2>2. CASE k + 1 \notin t
    <3>1. t \in SUBSET (1..k)
      BY <2>2
    <3> QED BY <1>2, <3>1
  <2> QED BY <2>1, <2>2
<1> HIDE DEF S
<1>3. Nat \subseteq S
  BY <1>1, <1>2, SetInduction
<1>4. \E x \in s : \A y \in s : x >= y
  BY <1>3 DEF S
<1>5. Max(s) \in s /\ \A y \in s : Max(s) >= y
  BY <1>4, Zenon DEF Max
<1>6. \A y \in s : y \in Int
  OBVIOUS
<1> QED BY <1>5, <1>6

\* The sets of numbers up to k + 1: empty, or with k + 1 the greatest, or of
\* numbers up to k.
LEMMA SetsUpTo ==
    ASSUME NEW k \in Nat, NEW s \in SUBSET (1..(k + 1))
    PROVE  \/ s = {} /\ s \in SUBSET (1..k)
           \/ s # {} /\ k + 1 \in s /\ Max(s) = k + 1 /\ s \ {k + 1} \in SUBSET (1..k)
           \/ /\ s # {} /\ k + 1 \notin s /\ s \in SUBSET (1..k)
              /\ Max(s) \in 1..k /\ s \ {Max(s)} \in SUBSET (1..k)
<1>1. CASE s # {} /\ k + 1 \in s
  <2>1. Max(s) \in s /\ \A y \in s : y <= Max(s)
    <3>1. k + 1 \in Nat
      OBVIOUS
    <3> QED BY <1>1, <3>1, MaxUpTo
  <2>2. Max(s) = k + 1
    <3>1. Max(s) \in 1..(k + 1) /\ k + 1 <= Max(s)
      BY <1>1, <2>1
    <3> QED BY <3>1
  <2> QED BY <1>1, <2>2
<1>2. CASE s # {} /\ k + 1 \notin s
  <2>1. s \in SUBSET (1..k)
    BY <1>2
  <2>2. Max(s) \in s
    BY <1>2, <2>1, MaxUpTo
  <2> QED BY <1>2, <2>1, <2>2
<1> QED BY <1>1, <1>2

\* All of them.
LEMMA WholePrefix ==
    ASSUME NEW n \in Nat
    PROVE  /\ 1..(n + 1) \in SUBSET (1..(n + 1)) /\ 1..(n + 1) # {}
           /\ Max(1..(n + 1)) = n + 1 /\ (1..(n + 1)) \ {n + 1} = 1..n
<1> DEFINE s == 1..(n + 1)
<1>1. n + 1 \in s /\ s \in SUBSET (1..(n + 1))
  OBVIOUS
<1>2. s \ {n + 1} = 1..n
  OBVIOUS
<1> HIDE DEF s
<1>3. s # {} /\ Max(s) = n + 1
  BY <1>1, SetsUpTo
<1> QED BY <1>1, <1>2, <1>3 DEF s

\* Two folds that agree on a set when they agree on it without its greatest
\* member agree.
SameSteps(n, it, jt) ==
    /\ it[{}] = jt[{}]
    /\ \A s \in SUBSET (1..n) :
          s # {} /\ it[s \ {Max(s)}] = jt[s \ {Max(s)}] => it[s] = jt[s]
LEMMA FoldsAgree ==
    ASSUME NEW n \in Nat, NEW it, NEW jt, SameSteps(n, it, jt)
    PROVE  \A s \in SUBSET (1..n) : it[s] = jt[s]
<1> DEFINE S == {k \in Nat : k <= n => \A s \in SUBSET (1..k) : it[s] = jt[s]}
<1>1. 0 \in S
  <2>1. \A s \in SUBSET (1..0) : s = {}
    OBVIOUS
  <2> QED BY <2>1 DEF SameSteps
<1>2. ASSUME NEW k \in Nat, k \in S PROVE k + 1 \in S
  <2> SUFFICES ASSUME k + 1 <= n, NEW s \in SUBSET (1..(k + 1)) PROVE it[s] = jt[s]
    OBVIOUS
  <2>1. s \in SUBSET (1..n) /\ \A t \in SUBSET (1..k) : it[t] = jt[t]
    BY <1>2
  <2> HIDE DEF S
  <2>2. \/ s = {}
        \/ s # {} /\ Max(s) = k + 1 /\ s \ {k + 1} \in SUBSET (1..k)
        \/ s \in SUBSET (1..k)
    BY SetsUpTo
  <2>3. CASE s = {}
    BY <2>3 DEF SameSteps
  <2>4. CASE s # {} /\ Max(s) = k + 1 /\ s \ {k + 1} \in SUBSET (1..k)
    <3>1. it[s \ {Max(s)}] = jt[s \ {Max(s)}]
      BY <2>1, <2>4
    <3> QED BY <2>1, <2>4, <3>1, Zenon DEF SameSteps
  <2>5. CASE s \in SUBSET (1..k)
    BY <2>1, <2>5
  <2> QED BY <2>2, <2>3, <2>4, <2>5
<1> HIDE DEF S
<1>3. Nat \subseteq S
  BY <1>1, <1>2, SetInduction
<1> QED BY <1>3 DEF S
=============================================================================
