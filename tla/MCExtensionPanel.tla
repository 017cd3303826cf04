--------------------------- MODULE MCExtensionPanel ---------------------------
(***************************************************************************)
(* Instances of ExtensionPanel for TLC.  A scene spends its budget on the  *)
(* parts that interact: the chat with the tools it calls, callers of one   *)
(* page, the id, the status.                                               *)
(***************************************************************************)
EXTENDS ExtensionPanel

CONSTANTS r1, r2, u1, u2, u3, b1
MCElements == <<"next", "save", "next">>

Scene(gives) ==
    [what \in Spent |-> IF what \in DOMAIN gives THEN gives[what] ELSE 0]
Chatting == Scene([turns |-> 2, buttons |-> 1, faults |-> 1])
Stopping == Scene([turns |-> 1, buttons |-> 2, faults |-> 1])
Calling == Scene([turns |-> 1, buttons |-> 1, faults |-> 1, asks |-> 1])
Ending == Scene([turns |-> 1, stops |-> 1, faults |-> 1, asks |-> 1])
Acting == Scene([asks |-> 2, changes |-> 2])
Naming == Scene([ids |-> 4, reloads |-> 2])
Watching == Scene([polls |-> 1, moves |-> 2])
Noting == Scene([polls |-> 1, moves |-> 1, notes |-> 1])
Storming == Scene([polls |-> 2, shifts |-> 1, faults |-> 1])
Changing == Scene([polls |-> 1, shifts |-> 2, reloads |-> 1])
MCScenes ==
    {Chatting, Stopping, Calling, Ending, Acting, Naming,
     Watching, Noting, Storming, Changing}
MCStorms == {Storming}
=============================================================================
