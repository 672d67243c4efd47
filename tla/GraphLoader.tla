---------------------------- MODULE GraphLoader -----------------------------
(***************************************************************************)
(* How a page gets the whole graph: serve_graph_full_stream writes the     *)
(* frames of the snapshot it has read to a connection that is ended by its *)
(* close; graph_stream_loader.js reads it into a bounded queue that a pump *)
(* empties; the brain page (brain/js/data.js) and the galaxy page          *)
(* (unified-viz.html) retry, fall back to the single document, and give    *)
(* up.  Meanwhile builds replace the snapshot.  A graph is the set of its  *)
(* nodes; its edges travel in frames of the same kind.                     *)
(***************************************************************************)
EXTENDS Naturals, Sequences, FiniteSets, SequencesExt

CONSTANTS
  Graphs,       \* the graphs that builds publish
  Partial,      \* the nodes the phases of an unfinished build offer
  High, Low,    \* HIGH_WATER and LOW_WATER
  Window,       \* frames the sockets hold
  MaxChanges,   \* bound: changes of the snapshot
  MaxFaults     \* bound: lost connections and failed requests

ASSUME WatersDiffer == Low \in Nat /\ High \in Nat /\ Low < High /\ Window \in Nat \ {0}
ASSUME LoaderBounds == MaxChanges \in Nat /\ MaxFaults \in Nat
ASSUME GraphsAreGraphs == \A g \in Graphs : IsFiniteSet(g) /\ g # {}

Nothing == {}
Node == UNION Graphs

VARIABLES
  page,      \* which page this is: "brain" or "galaxy"
  served,    \* the snapshot in the store
  changes,
  ready,     \* full_ready of /api/graph/progress
  conn,      \* the connection: frames to be written, in flight, its state
  reader,    \* the loader: a read pending, idle, or the body has ended
  queue,     \* frames read and not yet applied
  counts,    \* counts.node_total, counts.nodes, sawDone
  got,       \* what this attempt has been applied
  canvas,    \* the galaxy: every node ever appended
  at,        \* where the page stands
  tries,     \* streams and documents asked for in this load
  loads,     \* the galaxy: calls of _loadFullGraph
  faults,
  seen       \* history: the snapshots since the page asked

shelf == <<served, changes, ready, seen>>
loader == <<reader, queue, counts, got>>
vars == <<page, shelf, conn, loader, canvas, at, tries, loads, faults>>

-----------------------------------------------------------------------------
Header(g) == [kind |-> "header", n |-> Cardinality(g)]
NodeFrame(x) == [kind |-> "node", n |-> x]
DoneFrame == [kind |-> "done", n |-> 0]

\* The stored frames, and the terminator serve_graph_full_stream adds.
FramesOf(g) ==
  <<Header(g)>> \o SetToSeq({NodeFrame(x) : x \in g}) \o <<DoneFrame>>

NoConn == [left |-> <<>>, pipe |-> <<>>, state |-> "none"]
NoCounts == [total |-> 0, nodes |-> 0, done |-> FALSE]

Init ==
  /\ page \in {"brain", "galaxy"}
  /\ served \in Graphs \cup {Nothing}
  /\ changes = 0
  /\ ready = FALSE
  /\ conn = NoConn
  /\ reader = "off"
  /\ queue = <<>>
  /\ counts = NoCounts
  /\ got = {}
  /\ canvas = {}
  /\ at = "ask"
  /\ tries = [stream |-> 1, document |-> 0]
  /\ loads = 1
  /\ faults = 0
  /\ seen = {served} \ {Nothing}

-----------------------------------------------------------------------------
(* The store and the build.                                                *)

Shelf == INSTANCE GraphShelf

ShelfMoves ==
  /\ changes < MaxChanges
  /\ changes' = changes + 1
  /\ Shelf!Next
  /\ seen' = seen \cup ({served'} \ {Nothing})
  /\ UNCHANGED <<page, ready, conn, loader, canvas, at, tries, loads, faults>>

\* A build ends, whether or not it could write its snapshot.
BuildEnds ==
  /\ ~ready
  /\ ready' = TRUE
  /\ UNCHANGED <<page, served, changes, seen, conn, loader, canvas, at, tries,
                 loads, faults>>

-----------------------------------------------------------------------------
(* The server's thread.                                                    *)

Write ==
  /\ conn.state = "open"
  /\ conn.left # <<>>
  /\ Len(conn.pipe) < Window
  /\ conn' = [conn EXCEPT !.left = Tail(@), !.pipe = Append(@, Head(conn.left))]
  /\ UNCHANGED <<page, shelf, loader, canvas, at, tries, loads, faults>>

\* Connection: close.
Close ==
  /\ conn.state = "open"
  /\ conn.left = <<>>
  /\ conn' = [conn EXCEPT !.state = "closed"]
  /\ UNCHANGED <<page, shelf, loader, canvas, at, tries, loads, faults>>

\* The server goes away: the body ends early, or the read fails.
Cut ==
  /\ conn.state = "open"
  /\ faults < MaxFaults
  /\ faults' = faults + 1
  /\ \E n \in 0..Len(conn.pipe), s \in {"closed", "reset"} :
       conn' = [left |-> <<>>, pipe |-> SubSeq(conn.pipe, 1, n), state |-> s]
  /\ UNCHANGED <<page, shelf, loader, canvas, at, tries, loads>>

-----------------------------------------------------------------------------
(* The loader.                                                             *)

\* readMore, with len frames queued.
ReadMore(len) == IF len >= High THEN "idle" ELSE "reading"

\* A chunk arrives: one or more frames.
Read ==
  /\ at = "stream" /\ reader = "reading" /\ conn.pipe # <<>>
  /\ \E n \in 1..Len(conn.pipe) :
       LET frames == SubSeq(conn.pipe, 1, n)
           totals == {frames[i].n : i \in {j \in 1..n : frames[j].kind = "header"}}
       IN  /\ queue' = queue \o frames
           /\ counts' \in IF totals = {} THEN {counts}
                         ELSE {[counts EXCEPT !.total = t] : t \in totals}
           /\ conn' = [conn EXCEPT !.pipe = SubSeq(@, n + 1, Len(@))]
           /\ reader' = ReadMore(Len(queue'))
  /\ UNCHANGED <<page, shelf, got, canvas, at, tries, loads, faults>>

\* The body has ended.
ReadEnd ==
  /\ at = "stream" /\ reader = "reading"
  /\ conn.pipe = <<>> /\ conn.state = "closed"
  /\ reader' = "done"
  /\ UNCHANGED <<page, shelf, conn, queue, counts, got, canvas, at, tries, loads,
                 faults>>

NodeFramesIn(frames) == {i \in DOMAIN frames : frames[i].kind = "node"}
NodesIn(frames) == {frames[i].n : i \in NodeFramesIn(frames)}
CountIn(frames) == Cardinality(NodeFramesIn(frames))
DoneIn(frames) == \E i \in DOMAIN frames : frames[i].kind = "done"

\* How many frames one animation frame applies.
Batch == IF queue = <<>> THEN {0} ELSE 1..Len(queue)

\* Seeded fault: lastData is seeded anew for each batch.
ApplySeeded(frames) ==
  /\ got' = got \cup NodesIn(frames)
  /\ canvas' = IF page = "galaxy" THEN NodesIn(frames) ELSE canvas
  /\ counts' = [counts EXCEPT !.nodes = @ + CountIn(frames),
                              !.done = @ \/ DoneIn(frames)]

\* The brain collects what the loader hands over, the galaxy appends it.
Apply(frames) ==
  /\ got' = got \cup NodesIn(frames)
  /\ canvas' = IF page = "galaxy" THEN canvas \cup NodesIn(frames) ELSE canvas
  /\ counts' = [counts EXCEPT !.nodes = @ + CountIn(frames),
                              !.done = @ \/ DoneIn(frames)]

\* Seeded fault: nobody wakes a reader that waits.
PumpOnly ==
  /\ at = "stream" /\ (queue # <<>> \/ reader = "idle")
  /\ \E n \in Batch :
       /\ Apply(SubSeq(queue, 1, n))
       /\ queue' = SubSeq(queue, n + 1, Len(queue))
       /\ reader' = reader
  /\ UNCHANGED <<page, shelf, conn, at, tries, loads, faults>>

\* One animation frame: as many frames as fit in the budget are applied, and
\* a reader that waits is woken at the low water mark.
Pump ==
  /\ at = "stream" /\ (queue # <<>> \/ reader = "idle")
  /\ \E n \in Batch :
       /\ Apply(SubSeq(queue, 1, n))
       /\ queue' = SubSeq(queue, n + 1, Len(queue))
       /\ reader' = IF reader = "idle" /\ Len(queue') <= Low
                    THEN ReadMore(Len(queue')) ELSE reader
  /\ UNCHANGED <<page, shelf, conn, at, tries, loads, faults>>

-----------------------------------------------------------------------------
(* The pages.                                                              *)

Reset ==
  /\ conn' = NoConn
  /\ reader' = "off"
  /\ queue' = <<>>
  /\ counts' = NoCounts
  /\ got' = {}

\* The end of _loadFullGraph that did not load: after its first call the
\* galaxy polls, after the one made on full_ready it does no more.
GiveUp ==
  /\ at' = IF page = "brain" THEN "failed" ELSE IF loads = 1 THEN "poll" ELSE "stopped"
  /\ UNCHANGED <<tries, loads>>

\* The stream is no way to the graph: the document is, twice at most.
TryDocument(n) == at' = "document" /\ tries' = [tries EXCEPT !.document = n]

\* fetch('/api/graph/full/stream'), answered 200.
Open ==
  /\ at = "ask"
  /\ served # Nothing
  /\ conn' = [left |-> FramesOf(served), pipe |-> <<>>, state |-> "open"]
  /\ reader' = "reading"
  /\ at' = "stream"
  /\ UNCHANGED <<page, shelf, queue, counts, got, canvas, tries, loads, faults>>

\* Answered 202, there is no snapshot, or with an error; or not answered.
NotOpened ==
  /\ at = "ask"
  /\ \/ served = Nothing /\ TryDocument(1) /\ UNCHANGED faults
     \/ /\ faults < MaxFaults
        /\ faults' = faults + 1
        /\ \E n \in {1, 2} : TryDocument(n)
  /\ UNCHANGED <<page, shelf, conn, loader, canvas, loads>>

\* A read fails: the promise is rejected, and the handler of that is the last.
Broken ==
  /\ at = "stream" /\ reader = "reading"
  /\ conn.pipe = <<>> /\ conn.state = "reset"
  /\ Reset
  /\ TryDocument(2)
  /\ UNCHANGED <<page, shelf, canvas, loads, faults>>

Settled == at = "stream" /\ reader = "done" /\ queue = <<>>

\* The completeness gate.
Complete == counts.done /\ counts.nodes = counts.total

Loaded ==
  /\ Settled
  /\ Complete
  /\ at' = "loaded"
  /\ UNCHANGED <<page, shelf, conn, loader, canvas, tries, loads, faults>>

\* Seeded fault: the second stream adds to what the first one brought.
TruncatedKeeps ==
  /\ Settled
  /\ ~Complete
  /\ conn' = NoConn /\ reader' = "off" /\ queue' = <<>> /\ counts' = NoCounts
  /\ \/ /\ tries.stream = 1
        /\ at' = "ask"
        /\ tries' = [tries EXCEPT !.stream = 2]
     \/ tries.stream = 2 /\ TryDocument(1)
  /\ UNCHANGED <<page, shelf, canvas, loads, got, faults>>

\* Seeded fault: it is asked for again and again.
TruncatedAgain ==
  /\ Settled
  /\ ~Complete
  /\ Reset
  /\ at' = "ask"
  /\ tries' = [tries EXCEPT !.stream = @ + 1]
  /\ UNCHANGED <<page, shelf, canvas, loads, faults>>

\* A truncated stream is asked for once more.
Truncated ==
  /\ Settled
  /\ ~Complete
  /\ Reset
  /\ \/ /\ tries.stream = 1
        /\ at' = "ask"
        /\ tries' = [tries EXCEPT !.stream = 2]
     \/ tries.stream = 2 /\ TryDocument(1)
  /\ UNCHANGED <<page, shelf, canvas, loads, faults>>

\* fetch('/api/graph/full'): the document parses, or there is none.
Document ==
  /\ at = "document"
  /\ served # Nothing
  /\ got' = served
  /\ canvas' = IF page = "galaxy" THEN canvas \cup served ELSE canvas
  /\ at' = "loaded"
  /\ UNCHANGED <<page, shelf, conn, reader, queue, counts, tries, loads, faults>>

\* 202: the galaxy's load ends without a graph; the brain throws.
NoDocument ==
  /\ at = "document"
  /\ served = Nothing
  /\ IF page = "brain" /\ tries.document = 1
       THEN TryDocument(2) /\ UNCHANGED loads
       ELSE GiveUp
  /\ UNCHANGED <<page, shelf, conn, loader, canvas, faults>>

\* The request fails or is answered with an error.  The galaxy asks again
\* when it failed, not when the answer was an error.
DocumentFails ==
  /\ at = "document"
  /\ faults < MaxFaults
  /\ faults' = faults + 1
  /\ \/ tries.document = 1 /\ TryDocument(2) /\ UNCHANGED loads
     \/ (page = "galaxy" \/ tries.document = 2) /\ GiveUp
  /\ UNCHANGED <<page, shelf, conn, loader, canvas>>

\* _pollProgress: the phases that are ready are appended; on full_ready the
\* whole graph is asked for once more, and the polling ends.
Poll ==
  /\ at = "poll"
  /\ canvas' = canvas \cup Partial
  /\ IF ready
       THEN /\ at' = "ask"
            /\ loads' = 2
            /\ tries' = [stream |-> 1, document |-> 0]
       ELSE UNCHANGED <<at, loads, tries>>
  /\ UNCHANGED <<page, shelf, conn, loader, faults>>

-----------------------------------------------------------------------------
Server == Write \/ Close
Browser ==
  Read \/ ReadEnd \/ Pump \/ Open \/ NotOpened \/ Broken \/ Loaded \/ Truncated
    \/ Document \/ NoDocument \/ DocumentFails \/ Poll

Next == ShelfMoves \/ BuildEnds \/ Cut \/ Server \/ Browser

Spec == Init /\ [][Next]_vars

\* The server's thread runs, responses come, promises settle and animation
\* frames are drawn.  Nothing is assumed of the builds and the failures.
FairSpec ==
  /\ Spec
  /\ WF_vars(Server)
  /\ WF_vars(Read \/ ReadEnd \/ Broken)
  /\ WF_vars(Pump \/ Loaded \/ Truncated)
  /\ WF_vars(Open \/ NotOpened \/ Document \/ NoDocument \/ Poll)

-----------------------------------------------------------------------------
FrameType == [kind : {"header", "done"}, n : Nat] \cup [kind : {"node"}, n : Node]

TypeOK ==
  /\ page \in {"brain", "galaxy"}
  /\ served \in Graphs \cup {Nothing}
  /\ changes \in 0..MaxChanges
  /\ ready \in BOOLEAN
  /\ conn \in [left : Seq(FrameType), pipe : Seq(FrameType),
               state : {"none", "open", "closed", "reset"}]
  /\ reader \in {"off", "reading", "idle", "done"}
  /\ queue \in Seq(FrameType)
  /\ counts \in [total : Nat, nodes : Nat, done : BOOLEAN]
  /\ got \subseteq Node
  /\ canvas \subseteq Node \cup Partial
  /\ at \in {"ask", "stream", "document", "poll", "loaded", "failed", "stopped"}
  /\ tries \in [stream : 1..2, document : 0..2]
  /\ loads \in 1..2
  /\ faults \in 0..MaxFaults
  /\ seen \subseteq Graphs

Ended == at \in {"loaded", "failed", "stopped"}

\* A graph that counts as loaded is all on the canvas, although connections
\* are cut and snapshots are replaced between two streams.
CanvasHoldsTheGraph ==
  (page = "galaxy" /\ at = "loaded") => \E g \in seen : g \subseteq canvas

\* The brain page is handed one whole graph, or none (GraphFetch).
Outcome ==
  [is |-> CASE page = "brain" /\ at = "loaded" -> "handed"
            [] page = "brain" /\ at = "failed" -> "refused"
            [] OTHER -> "pending",
   graph |-> IF page = "brain" /\ at = "loaded" THEN got ELSE Nothing]

Fetch == INSTANCE GraphFetch WITH Graphs <- Graphs, Nothing <- Nothing,
                                  served <- served, seen <- seen, outcome <- Outcome
FetchSafety == Fetch!Spec

\* A load of the brain page ends; so does that of the galaxy once a build has
\* ended.  No reader and no pump waits for the other for ever.
EveryLoadEnds == (page = "brain" \/ ready) ~> Ended

\* What the documents say and the code does not keep.  No run checks the
\* definitions below; README, section 4, tells how each of them fails.

\* "latch only on real, complete data" (unified-viz.html:673): what the galaxy
\* shows as the full graph, before any phase was added, is one graph.
GalaxyIsOneGraph ==
  (page = "galaxy" /\ at = "loaded" /\ loads = 1) => canvas \in seen
=============================================================================
