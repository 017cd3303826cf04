------------------------------ MODULE ToolCalls ------------------------------
(***************************************************************************)
(* What the bridge promises its MCP clients.  A call is received, it may   *)
(* be forwarded to browsers, and it is answered at most once, with nothing *)
(* but what browsers answered to this very call; a browser it was          *)
(* forwarded to either contributed or is named as failed; and the reply is *)
(* an error exactly when nobody contributed.  A client that left gets      *)
(* nothing.                                                                *)
(***************************************************************************)
CONSTANTS Calls, Clients, ClientOf, Browsers, None

Parts == Calls \X Browsers

\* contents: the forwarded calls whose answers the reply contains.
Replies ==
    [contents : SUBSET Parts, failed : SUBSET Browsers, isError : BOOLEAN]

VARIABLES
    clients,    \* the clients still connected
    state,      \* of each call
    forwarded,  \* <<call, browser>>: the call was sent to the browser
    reply

vars == <<clients, state, forwarded, reply>>

Init ==
    /\ clients = Clients
    /\ state = [c \in Calls |-> "idle"]
    /\ forwarded = {}
    /\ reply = [c \in Calls |-> None]

\* What a reply to c may say.
Faithful(c, r) ==
    /\ \A p \in r.contents : p \in forwarded /\ p[1] = c /\ p[2] \notin r.failed
    /\ \A p \in forwarded : p[1] = c => p \in r.contents \/ p[2] \in r.failed
    /\ r.isError <=> r.contents = {}

Receive(c) ==
    /\ state[c] = "idle" /\ ClientOf[c] \in clients
    /\ state' = [state EXCEPT ![c] = "open"]
    /\ \E B \in SUBSET Browsers : forwarded' = forwarded \cup ({c} \X B)
    /\ UNCHANGED <<clients, reply>>

Forward ==
    /\ \E P \in SUBSET Parts :
         /\ \A p \in P : state[p[1]] = "open"
         /\ forwarded' = forwarded \cup P
    /\ UNCHANGED <<clients, state, reply>>

\* One event may end several calls (a browser is superseded); a call without a
\* browser is received and refused at once.
Answer ==
    /\ \E C \in SUBSET {c \in Calls : state[c] \in {"idle", "open"}} :
         /\ \A c \in C : state[c] = "idle" => ClientOf[c] \in clients
         /\ state' = [c \in Calls |->
                        IF c \notin C THEN state[c]
                        ELSE IF ClientOf[c] \in clients THEN "replied" ELSE "unheard"]
         /\ \A c \in Calls :
              IF c \in C /\ ClientOf[c] \in clients
              THEN reply'[c] \in Replies /\ Faithful(c, reply'[c])
              ELSE reply'[c] = reply[c]
    /\ UNCHANGED <<clients, forwarded>>

Leave(m) ==
    /\ m \in clients
    /\ clients' = clients \ {m}
    /\ UNCHANGED <<state, forwarded, reply>>

Next ==
    \/ \E c \in Calls : Receive(c)
    \/ Forward \/ Answer
    \/ \E m \in Clients : Leave(m)

Spec == Init /\ [][Next]_vars
=============================================================================
