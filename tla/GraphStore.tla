----------------------------- MODULE GraphStore -----------------------------
(***************************************************************************)
(* The three tables a finished build leaves in PostgreSQL: the layout, its *)
(* level-of-detail pyramid and the snapshot of the graph.  They are written *)
(* by the build child (_persist_full_layout) and by HTTP threads that ask  *)
(* for a new layout (/api/recompute_layout).  The pools are opened in      *)
(* autocommit mode (memory_read.py:185-195), so that every statement is a  *)
(* transaction of its own and the commit() calls do nothing: each step     *)
(* below is one statement.  executemany runs as one pipeline, which is one *)
(* implicit transaction.                                                   *)
(*                                                                         *)
(* A graph is the set of its nodes, and is its own topology fingerprint.   *)
(* Positions are told apart by the run that computed them: layout ignores  *)
(* its seed (layout_engine.py:47-83), so two runs over one graph differ.   *)
(***************************************************************************)
EXTENDS Naturals, FiniteSets

CONSTANTS
  MaxNode,    \* node ids are 1..MaxNode; 1 is a domain, part of every graph
  Graphs,     \* the graphs a cache may hold
  Workers,    \* the build child and the HTTP threads that recompute
  Builders,   \* the workers that are a build child
  ChunkSize,  \* chunk_size of iter_positions_chunked
  MaxRuns,    \* bound: runs of run_recompute
  MaxFaults   \* bound: kills and failed statements

ASSUME GraphsHoldTheDomain ==
  /\ MaxNode \in Nat
  /\ Graphs \subseteq SUBSET (1..MaxNode)
  /\ \A g \in Graphs : 1 \in g
ASSUME OneBuildAtATime ==
  /\ Builders \subseteq Workers
  /\ \A a, b \in Builders : a = b
ASSUME BoundsAreNaturals ==
  /\ ChunkSize \in Nat \ {0}
  /\ MaxRuns \in Nat
  /\ MaxFaults \in Nat

VARIABLES
  rows,     \* workflow_graph_layout
  lod,      \* workflow_graph_layout_lod: per fingerprint, the rows binned
  snaps,    \* workflow_graph_snapshot_scoped, the rows of this scope
  work,     \* where each worker stands
  runs,     \* runs begun so far
  faults,
  last,     \* history: the run that ended last, if none has begun since
  overlap,  \* history: two workers have been at work at once
  built     \* history: a build has written its snapshot

vars == <<rows, lod, snaps, work, runs, faults, last, overlap, built>>

Row == [node : 1..MaxNode, fp : Graphs, run : 1..MaxRuns]
Nothing == {}          \* no graph is empty: each holds the domain
NoRun == [graph |-> Nothing, worker |-> Nothing, ok |-> FALSE]

Steps == {"idle", "check", "clear", "insert", "lod", "page", "lodClear",
          "lodInsert", "prune", "snapClear", "snapInsert"}
LodSteps == {"lod", "page", "lodClear", "lodInsert", "prune"}

Idle == [at |-> "idle", graph |-> Nothing, run |-> 0, ok |-> FALSE,
         after |-> 0, got |-> {}]

\* What write_layout inserts for graph g in run n.
RowsOf(g, n) == {[node |-> x, fp |-> g, run |-> n] : x \in g}

\* The primary key of a layout row is its node.
NodesOf(R) == {r.node : r \in R}

-----------------------------------------------------------------------------
Init ==
  /\ rows = {}
  /\ lod = [g \in Graphs |-> {}]
  /\ snaps = {}
  /\ work = [k \in Workers |-> Idle]
  /\ runs = 0
  /\ faults = 0
  /\ last = NoRun
  /\ overlap = FALSE
  /\ built = FALSE

At(k, step) == work[k].at = step

Go(k, step) == work' = [work EXCEPT ![k].at = step]

End(k) ==
  /\ work' = [work EXCEPT ![k] = Idle]
  /\ last' = [graph |-> work[k].graph, worker |-> {k}, ok |-> work[k].ok]

\* The end of run_recompute: a build child goes on to its snapshot.
AfterLayout(k) ==
  IF k \in Builders THEN Go(k, "snapClear") /\ UNCHANGED last ELSE End(k)

Begin(k, g) ==
  /\ At(k, "idle")
  /\ runs < MaxRuns
  /\ runs' = runs + 1
  /\ work' = [work EXCEPT ![k] = [at |-> "check", graph |-> g, run |-> runs + 1,
                                    ok |-> TRUE, after |-> 0, got |-> {}]]
  /\ last' = NoRun
  /\ overlap' = (overlap \/ \E j \in Workers \ {k} : ~At(j, "idle"))
  /\ UNCHANGED <<rows, lod, snaps, faults, built>>

\* Seeded fault: a fresh layout is taken to mean a fresh pyramid.
CheckLayoutOnly(k) ==
  /\ At(k, "check")
  /\ IF \E r \in rows : r.fp = work[k].graph
       THEN AfterLayout(k)
       ELSE Go(k, "clear") /\ UNCHANGED last
  /\ UNCHANGED <<rows, lod, snaps, runs, faults, overlap, built>>

\* read_layout_version and skip-if-fresh.
Check(k) ==
  /\ At(k, "check")
  /\ Go(k, IF \E r \in rows : r.fp = work[k].graph THEN "lod" ELSE "clear")
  /\ UNCHANGED <<rows, lod, snaps, runs, faults, last, overlap, built>>

\* write_layout, its DELETE ...
ClearRows(k) ==
  /\ At(k, "clear")
  /\ rows' = {}
  /\ Go(k, "insert")
  /\ UNCHANGED <<lod, snaps, runs, faults, last, overlap, built>>

\* Seeded fault: ON CONFLICT DO NOTHING.
InsertRowsMissing(k) ==
  LET mine == RowsOf(work[k].graph, work[k].run)
  IN  /\ At(k, "insert")
      /\ rows' = rows \cup {r \in mine : r.node \notin NodesOf(rows)}
      /\ Go(k, "lod")
      /\ UNCHANGED <<lod, snaps, runs, faults, last, overlap, built>>

\* ... and its executemany, which fails as a whole when another worker has
\* inserted one of the nodes meanwhile; the exception then ends the run.
InsertRows(k) ==
  LET mine == RowsOf(work[k].graph, work[k].run)
  IN  /\ At(k, "insert")
      /\ NodesOf(rows) \cap NodesOf(mine) = {}
      /\ rows' = rows \cup mine
      /\ Go(k, "lod")
      /\ UNCHANGED <<lod, snaps, runs, faults, last, overlap, built>>

InsertCollides(k) ==
  /\ At(k, "insert")
  /\ NodesOf(rows) \cap work[k].graph # {}
  /\ work' = [work EXCEPT ![k] = Idle]
  /\ UNCHANGED <<rows, lod, snaps, runs, faults, last, overlap, built>>

\* build_lod: skip a pyramid that is there.
LookForPyramid(k) ==
  /\ At(k, "lod")
  /\ Go(k, IF lod[work[k].graph] # {} THEN "prune" ELSE "page")
  /\ UNCHANGED <<rows, lod, snaps, runs, faults, last, overlap, built>>

After(n) == {r \in rows : r.node > n}

\* WHERE node_id > last ORDER BY node_id LIMIT chunk_size
Page(n) ==
  {r \in After(n) : Cardinality({q \in After(n) : q.node < r.node}) < ChunkSize}

LastOf(P, n) == n \in NodesOf(P) /\ \A r \in P : r.node <= n

\* Seeded fault: the first page is taken for the last.
ReadPageOnce(k) ==
  LET page == Page(work[k].after)
  IN  /\ At(k, "page")
      /\ work' = [work EXCEPT ![k].got = @ \cup page, ![k].at = "lodClear"]
      /\ UNCHANGED <<rows, lod, snaps, runs, faults, last, overlap, built>>

\* One page of iter_positions_chunked; a short page is the last.
ReadPage(k) ==
  LET page == Page(work[k].after)
      short == Cardinality(page) < ChunkSize
  IN  /\ At(k, "page")
      /\ \/ /\ page = {}
            /\ Go(k, "lodClear")
         \/ \E n \in 1..MaxNode :
              /\ LastOf(page, n)
              /\ work' = [work EXCEPT ![k].got = @ \cup page,
                                      ![k].after = n,
                                      ![k].at = IF short THEN "lodClear" ELSE @]
      /\ UNCHANGED <<rows, lod, snaps, runs, faults, last, overlap, built>>

ClearPyramid(k) ==
  /\ At(k, "lodClear")
  /\ lod' = [lod EXCEPT ![work[k].graph] = {}]
  /\ Go(k, "lodInsert")
  /\ UNCHANGED <<rows, snaps, runs, faults, last, overlap, built>>

\* All pyramids share the cell of level 0, so that a second one under one
\* fingerprint collides; _build_lod_safe swallows that.
InsertPyramid(k) ==
  LET g == work[k].graph
  IN  /\ At(k, "lodInsert")
      /\ \/ /\ lod[g] = {} \/ work[k].got = {}
            /\ lod' = [lod EXCEPT ![g] = @ \cup work[k].got]
            /\ Go(k, "prune")
            /\ UNCHANGED last
         \/ /\ lod[g] # {} /\ work[k].got # {}
            /\ AfterLayout(k)
            /\ UNCHANGED lod
      /\ UNCHANGED <<rows, snaps, runs, faults, overlap, built>>

\* prune_other_fingerprints
Prune(k) ==
  /\ At(k, "prune")
  /\ lod' = [g \in Graphs |-> IF g = work[k].graph THEN lod[g] ELSE {}]
  /\ AfterLayout(k)
  /\ UNCHANGED <<rows, snaps, runs, faults, overlap, built>>

\* Seeded fault: the row that is there is replaced in place.
ReplaceSnapshot(k) ==
  /\ At(k, "snapClear")
  /\ snaps' = {work[k].graph}
  /\ built' = TRUE
  /\ End(k)
  /\ UNCHANGED <<rows, lod, runs, faults, overlap>>

\* write_snapshot, its DELETE ...
ClearSnapshot(k) ==
  /\ At(k, "snapClear")
  /\ snaps' = {}
  /\ Go(k, "snapInsert")
  /\ UNCHANGED <<rows, lod, runs, faults, last, overlap, built>>

\* Seeded fault: the row is keyed by what the layout table holds.
InsertSnapshotOfTable(k) ==
  /\ At(k, "snapInsert")
  /\ snaps' = snaps \cup {NodesOf(rows)}
  /\ built' = TRUE
  /\ End(k)
  /\ UNCHANGED <<rows, lod, runs, faults, overlap>>

\* ... and its INSERT, which cannot collide: no other build writes this scope.
InsertSnapshot(k) ==
  /\ At(k, "snapInsert")
  /\ work[k].graph \notin snaps
  /\ snaps' = snaps \cup {work[k].graph}
  /\ built' = TRUE
  /\ End(k)
  /\ UNCHANGED <<rows, lod, runs, faults, overlap>>

-----------------------------------------------------------------------------
\* A child is killed (kill_current_build) or a server goes away.
Die(k) ==
  /\ faults < MaxFaults
  /\ ~At(k, "idle")
  /\ faults' = faults + 1
  /\ work' = [work EXCEPT ![k] = Idle]
  /\ UNCHANGED <<rows, lod, snaps, runs, last, overlap, built>>

\* A statement raises.  run_recompute takes an unreadable version for an
\* absent layout; write_layout ends the run; _build_lod_safe and
\* _persist_snapshot swallow what is raised below them.
StatementFails(k) ==
  /\ faults < MaxFaults
  /\ faults' = faults + 1
  /\ \/ /\ At(k, "check")
        /\ Go(k, "clear")
     \/ /\ work[k].at \in {"clear", "insert", "snapClear", "snapInsert"}
        /\ work' = [work EXCEPT ![k] = Idle]
     \/ /\ work[k].at \in LodSteps
        /\ work' = [work EXCEPT ![k] =
                      IF k \in Builders
                        THEN [@ EXCEPT !.at = "snapClear", !.ok = FALSE]
                        ELSE Idle]
  /\ UNCHANGED <<rows, lod, snaps, runs, last, overlap, built>>

Step(k) ==
  \/ Check(k)
  \/ ClearRows(k)
  \/ InsertRows(k)
  \/ InsertCollides(k)
  \/ LookForPyramid(k)
  \/ ReadPage(k)
  \/ ClearPyramid(k)
  \/ InsertPyramid(k)
  \/ Prune(k)
  \/ ClearSnapshot(k)
  \/ InsertSnapshot(k)

Next ==
  \E k \in Workers :
    \/ \E g \in Graphs : Begin(k, g)
    \/ Step(k)
    \/ Die(k)
    \/ StatementFails(k)

Spec == Init /\ [][Next]_vars

-----------------------------------------------------------------------------
WorkTypeOK ==
  work \in [Workers -> [at : Steps, graph : Graphs \cup {Nothing},
                        run : 0..MaxRuns, ok : BOOLEAN,
                        after : 0..MaxNode, got : SUBSET Row]]

TypeOK ==
  /\ rows \subseteq Row
  /\ lod \in [Graphs -> SUBSET Row]
  /\ snaps \subseteq Graphs
  /\ WorkTypeOK
  /\ runs \in 0..MaxRuns
  /\ faults \in 0..MaxFaults
  /\ last \in [graph : Graphs \cup {Nothing}, worker : SUBSET Workers, ok : BOOLEAN]
  /\ overlap \in BOOLEAN
  /\ built \in BOOLEAN

Quiet == \A k \in Workers : At(k, "idle")

\* However many workers write, and wherever they are killed, the layout table
\* is empty or holds one whole layout of one graph, computed by one run: the
\* primary key turns the second of two racing inserts away.
LayoutIsOneRun ==
  rows # {} => \E g \in Graphs, n \in 1..MaxRuns : rows = RowsOf(g, n)

\* A reader of the snapshot finds at most one row for its scope.
OneSnapshot == \A g, h \in snaps : g = h

\* As long as no two workers overlap, a pyramid that is stored was binned from
\* all the rows of one layout of its fingerprint, although the rows are read
\* page by page and any step may fail or be killed.
PyramidIsWhole ==
  ~overlap =>
    \A g \in Graphs : lod[g] # {} => \E n \in 1..MaxRuns : lod[g] = RowsOf(g, n)

\* Whatever earlier runs left behind, killed or failed at any statement, a run
\* that nothing disturbs leaves the layout of its graph, a pyramid of that
\* fingerprint and of no other, and, in a build child, the snapshot.
UndisturbedRunIsStored ==
  (last.ok /\ Quiet /\ ~overlap) =>
    /\ \A r \in rows : r.fp = last.graph
    /\ \A g \in Graphs : lod[g] # {} <=> g = last.graph
    /\ last.worker \subseteq Builders => snaps = {last.graph}

\* The snapshot row is what GraphShelf promises its readers.
Shelf == INSTANCE GraphShelf WITH Graphs <- Graphs, Nothing <- Nothing,
                                  served <- UNION snaps
ShelfSafety == Shelf!Spec

\* What the documents say and the code does not keep.  No run checks the
\* definitions below; README, section 4, tells how each of them fails.

\* "Once a build has completed once, the snapshot is always available"
\* (http_standalone_endpoints.py:103-104), here only asked for when nobody is
\* writing.
SnapshotStays == (built /\ Quiet) => snaps # {}

\* What build_lod promises: "the pyramid for the just-persisted layout"; here
\* only asked for after a run that nothing disturbed and that overlapped none.
PyramidMatchesLayout ==
  (last.ok /\ Quiet /\ ~overlap) => lod[last.graph] = rows
=============================================================================
