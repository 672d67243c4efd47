---------------------------- MODULE ActivityFeed ----------------------------
(***************************************************************************)
(* What the live activity spine promises a browser, with no server, no     *)
(* buffer and no connection in sight: a durable log that only grows at its *)
(* end, and for every client a feed that hands over the log's rows in      *)
(* order, each once, leaving out only a prefix of the rows a client has    *)
(* not seen yet (the replay window of activity_store.read_recent).         *)
(***************************************************************************)
EXTENDS Naturals, Sequences

CONSTANTS Clients, MaxIds

VARIABLES
    committed,  \* ids of the rows in the durable log
    got,        \* [Clients -> sequence of the ids handed to the client]
    skipped     \* [Clients -> ids left out of a replay window]

feedVars == <<committed, got, skipped>>

Ids == 1..MaxIds

Delivered(c) == {got[c][k] : k \in 1..Len(got[c])}

\* What client c is still owed.
Pending(c) == committed \ (Delivered(c) \cup skipped[c])

FeedInit ==
    /\ committed = {}
    /\ got = [c \in Clients |-> <<>>]
    /\ skipped = [c \in Clients |-> {}]

\* The log grows at its end only.
AppendRow(i) ==
    /\ \A j \in committed : j < i
    /\ committed' = committed \cup {i}
    /\ UNCHANGED <<got, skipped>>

\* The next row in log order.
Hand(c, i) ==
    /\ i \in Pending(c)
    /\ \A j \in Pending(c) : i <= j
    /\ got' = [got EXCEPT ![c] = Append(@, i)]
    /\ UNCHANGED <<committed, skipped>>

\* A replay gives up the oldest rows of a backlog, never a newer one.
GiveUp(c, S) ==
    /\ \A i \in S, j \in Pending(c) \ S : i < j
    /\ skipped' = [skipped EXCEPT ![c] = @ \cup S]
    /\ UNCHANGED <<committed, got>>

FeedNext ==
    \/ \E i \in Ids : AppendRow(i)
    \/ \E c \in Clients :
          \/ \E i \in Ids : Hand(c, i)
          \/ \E S \in SUBSET Pending(c) : GiveUp(c, S)

FeedSpec == FeedInit /\ [][FeedNext]_feedVars
=============================================================================
