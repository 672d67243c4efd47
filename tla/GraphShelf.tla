----------------------------- MODULE GraphShelf -----------------------------
(***************************************************************************)
(* What the writers of the durable graph promise to its readers: at every  *)
(* moment there is one graph to be had, or none.  A graph never replaces   *)
(* another in one step: the old one is withdrawn first.                    *)
(***************************************************************************)
CONSTANTS Graphs, Nothing

VARIABLE served     \* the graph a reader gets now

Init == served = Nothing

Withdraw == served # Nothing /\ served' = Nothing

Publish == served = Nothing /\ \E g \in Graphs : served' = g

Next == Withdraw \/ Publish

Spec == Init /\ [][Next]_served

-----------------------------------------------------------------------------
ServedTypeOK == served \in Graphs \cup {Nothing}
=============================================================================
