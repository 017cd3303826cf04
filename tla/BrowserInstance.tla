--------------------------- MODULE BrowserInstance ---------------------------
(***************************************************************************)
(* The profile's id (packages/extension/src/shared/                        *)
(* browser-instance-id.ts): read from the storage and made on the first    *)
(* call, cached in each context (the service worker, the side panel).      *)
(***************************************************************************)
EXTENDS Naturals, FiniteSets

CONSTANTS
    Worker, Panel,    \* the contexts
    Ids,              \* uuids
    NoId

Places == {Worker, Panel}
\* The relay's hello, list_tabs, the chat binding its tab.
Askers == {"relay", "list_tabs", "chat"}
PlaceOf(who) == IF who = "chat" THEN Panel ELSE Worker
VARIABLES
    stored,     \* browserInstanceUuid in chrome.storage.local
    cached,     \* cachedId of each context
    asking      \* calls between two awaits, and the uuid each is storing
idVars == <<stored, cached, asking>>

IdInit ==
    /\ stored = NoId /\ cached = [c \in Places |-> NoId]
    /\ asking = {}

\* The call that is waiting for the storage.
AsksId(who) ==
    /\ cached[PlaceOf(who)] = NoId
    /\ \A a \in asking : a.who # who
    /\ asking' = asking \cup {[who |-> who, uuid |-> NoId]}
    /\ UNCHANGED <<stored, cached>>
Gives(a, id) ==
    /\ asking' = asking \ {a}
    /\ cached' = [cached EXCEPT ![PlaceOf(a.who)] = id]

\* An id is made of chance: nobody has it.
Fresh == Ids \ ({stored} \cup {cached[c] : c \in Places} \cup {a.uuid : a \in asking})
ReadsId(a) ==
    /\ a \in asking /\ a.uuid = NoId
    /\ IF stored # NoId
       THEN Gives(a, stored) /\ UNCHANGED stored
       ELSE \E id \in Fresh :
              /\ asking' = (asking \ {a}) \cup {[a EXCEPT !.uuid = id]}
              /\ UNCHANGED <<stored, cached>>
StoresId(a) ==
    /\ a \in asking /\ a.uuid # NoId
    /\ stored' = a.uuid
    /\ Gives(a, a.uuid)

\* The worker restarts, the panel is closed and opened; a write under way may
\* still arrive.
ContextRestarts(c) ==
    LET lost == {a \in asking : PlaceOf(a.who) = c} IN
    /\ cached[c] # NoId \/ lost # {}
    /\ cached' = [cached EXCEPT ![c] = NoId]
    /\ asking' = asking \ lost
    /\ stored' \in {stored} \cup {a.uuid : a \in {b \in lost : b.uuid # NoId}}
=============================================================================
