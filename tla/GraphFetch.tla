----------------------------- MODULE GraphFetch -----------------------------
(***************************************************************************)
(* What a page that loads the whole graph is promised: while the shelf     *)
(* changes, it is handed one whole graph that was on the shelf since it    *)
(* asked, or it is told that it gets none.                                 *)
(***************************************************************************)
CONSTANTS Graphs, Nothing

VARIABLES
  served,   \* the graph on the shelf
  seen,     \* the graphs that were on it since the page asked
  outcome   \* pending, refused, or the graph handed over

Pending == [is |-> "pending", graph |-> Nothing]
Refused == [is |-> "refused", graph |-> Nothing]
Handed(g) == [is |-> "handed", graph |-> g]

Shelf == INSTANCE GraphShelf

Init ==
  /\ served \in Graphs \cup {Nothing}
  /\ seen = {served} \ {Nothing}
  /\ outcome = Pending

ShelfMoves ==
  /\ Shelf!Next
  /\ seen' = seen \cup ({served'} \ {Nothing})
  /\ UNCHANGED outcome

HandOver ==
  /\ outcome = Pending
  /\ \E g \in seen : outcome' = Handed(g)
  /\ UNCHANGED <<served, seen>>

Refuse ==
  /\ outcome = Pending
  /\ outcome' = Refused
  /\ UNCHANGED <<served, seen>>

Next == ShelfMoves \/ HandOver \/ Refuse

Spec == Init /\ [][Next]_<<served, seen, outcome>>
=============================================================================
