------------------------------- MODULE PageRefs -------------------------------
(***************************************************************************)
(* The refs by which a caller names the elements of a page                 *)
(* (packages/extension/src/background/tool-dispatcher.ts): a snapshot      *)
(* strips every data-ai-ref of the page and numbers the elements it finds, *)
(* and the worker remembers the role and name behind each number.  The     *)
(* page goes on changing.                                                  *)
(***************************************************************************)
EXTENDS Naturals, Sequences, FiniteSets

CONSTANTS
    Elements,   \* the role and name of each node, in document order
    NoLabel

Nodes == DOMAIN Elements
Refs == 1..Len(Elements)
NoRef == 0
Labels == {Elements[n] : n \in Nodes}

VARIABLES
    dom,        \* nodes of the page
    attr,       \* the data-ai-ref of each
    cache,      \* refFingerprintCache of the tab
    minted      \* what the last snapshot said of each ref
pageVars == <<dom, attr, cache, minted>>

PageTypeOK ==
    /\ dom \subseteq Nodes /\ attr \in [Nodes -> Refs \cup {NoRef}]
    /\ {cache, minted} \subseteq UNION {[1..k -> Labels] : k \in 0..Len(Elements)}

PageInit ==
    /\ dom = Nodes /\ attr = [n \in Nodes |-> NoRef]
    /\ cache = <<>> /\ minted = <<>>

\* parseRefFingerprints of the injector's lines.
Place(n) == Cardinality({m \in dom : m <= n})
Fingerprints == [k \in 1..Cardinality(dom) |-> Elements[CHOOSE n \in dom : Place(n) = k]]

\* SNAPSHOT_REF_INJECTOR, and the cache set from what it returns.
Injects ==
    /\ attr' = [n \in Nodes |-> IF n \in dom THEN Place(n) ELSE NoRef]
    /\ cache' = Fingerprints /\ minted' = Fingerprints
    /\ UNCHANGED dom

Named(r) == {n \in dom : attr[n] = r}
LabelIn(prints, r) == IF r \in DOMAIN prints THEN prints[r] ELSE NoLabel

\* The refs of the fresh snapshot for the wanted role and name.
\* (mutant: the old number is tried again)
SameNumber(r, label) == {r} \cap 1..Cardinality(dom)
Matches(r, label) == {k \in DOMAIN Fingerprints : Fingerprints[k] = label}

\* classifyLocatorFailure: nothing carries the ref any more.
Stale(r) == Named(r) = {}

\* The page re-renders or navigates: nodes come, go, and are made anew, which
\* loses their attribute; a copy, or a node reused for another, keeps one.
PageChanges ==
    /\ dom' \in SUBSET Nodes
    /\ \E kept \in SUBSET (dom \cap dom'), copies \in SUBSET (dom' \ dom), m \in Nodes :
         attr' = [n \in Nodes |-> IF n \in kept THEN attr[n]
                                 ELSE IF n \in copies THEN attr[m] ELSE NoRef]
    /\ <<dom', attr'>> # <<dom, attr>>
    /\ UNCHANGED <<cache, minted>>
\* The worker was stopped, or a snapshot's numbering failed: nothing is cached,
\* the page stays.
CacheLost == cache' = <<>> /\ UNCHANGED <<dom, attr, minted>>
=============================================================================
