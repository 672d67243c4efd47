------------------------- MODULE GraphStore_proofs --------------------------
(***************************************************************************)
(* What holds of the stores for any graphs, any number of workers, any     *)
(* page size and any number of kills and failed statements.                *)
(***************************************************************************)
EXTENDS GraphStore, FiniteSetTheorems, TLAPS

\* A worker that is not idle has a graph and the number of its run.
ActiveHasRun ==
  \A k \in Workers : ~At(k, "idle") => work[k].graph \in Graphs /\ work[k].run \in 1..MaxRuns

\* Only a build child writes snapshots, and between its two statements there
\* is no row: no other worker could have inserted one.
GapIsEmpty ==
  \A k \in Workers :
    /\ work[k].at \in {"snapClear", "snapInsert"} => k \in Builders
    /\ At(k, "snapInsert") => snaps = {}

StoreInv == TypeOK /\ ActiveHasRun /\ LayoutIsOneRun /\ GapIsEmpty /\ OneSnapshot

-----------------------------------------------------------------------------
(* The updates of the workers' records.                                    *)

Mine == [at : Steps, graph : Graphs \cup {Nothing}, run : 0..MaxRuns,
         ok : BOOLEAN, after : 0..MaxNode, got : SUBSET Row]

LEMMA IdleIsWork == MaxRuns \in Nat /\ MaxNode \in Nat => Idle \in Mine
BY DEF Idle, Mine, Steps, Row

\* Moving a worker on keeps its record a record of its type.
LEMMA GoType ==
  ASSUME WorkTypeOK, NEW k \in Workers, NEW s \in Steps, Go(k, s)
  PROVE  /\ WorkTypeOK'
         /\ work'[k].at = s
         /\ work'[k].graph = work[k].graph
         /\ work'[k].run = work[k].run
         /\ \A j \in Workers \ {k} : work'[j] = work[j]
BY DEF WorkTypeOK, Go

LEMMA RestType ==
  ASSUME WorkTypeOK, NEW k \in Workers, work' = [work EXCEPT ![k] = Idle]
  PROVE  /\ WorkTypeOK'
         /\ work'[k].at = "idle"
         /\ \A j \in Workers \ {k} : work'[j] = work[j]
<1>1. Idle \in Mine
  BY IdleIsWork, GraphsHoldTheDomain, BoundsAreNaturals
<1>2. work \in [Workers -> Mine] /\ work' \in [Workers -> Mine]
  BY <1>1 DEF WorkTypeOK, Mine
<1>3. work'[k] = Idle /\ \A j \in Workers \ {k} : work'[j] = work[j]
  BY <1>2
<1>4. Idle.at = "idle"
  BY DEF Idle
<1>5. QED
  BY <1>2, <1>3, <1>4 DEF WorkTypeOK, Mine

Ended == [graph : Graphs \cup {Nothing}, worker : SUBSET Workers, ok : BOOLEAN]

\* What a move of one worker does to the parts that speak of workers.
Moved(k) ==
  /\ WorkTypeOK'
  /\ ActiveHasRun'
  /\ \A j \in Workers \ {k} : work'[j] = work[j]

LEMMA GoMoves ==
  ASSUME WorkTypeOK, ActiveHasRun, NEW k \in Workers, NEW s \in Steps,
         Go(k, s), ~At(k, "idle")
  PROVE  Moved(k) /\ work'[k].at = s
<1>1. /\ WorkTypeOK'
      /\ work'[k].at = s
      /\ work'[k].graph = work[k].graph
      /\ work'[k].run = work[k].run
      /\ \A j \in Workers \ {k} : work'[j] = work[j]
  BY GoType
<1>2. ActiveHasRun'
  BY <1>1 DEF ActiveHasRun, At
<1>3. QED
  BY <1>1, <1>2 DEF Moved

LEMMA RestMoves ==
  ASSUME WorkTypeOK, ActiveHasRun, NEW k \in Workers, work' = [work EXCEPT ![k] = Idle]
  PROVE  Moved(k) /\ work'[k].at = "idle"
<1>1. /\ WorkTypeOK'
      /\ work'[k].at = "idle"
      /\ \A j \in Workers \ {k} : work'[j] = work[j]
  BY RestType
<1>2. ActiveHasRun'
  BY <1>1 DEF ActiveHasRun, At
<1>3. QED
  BY <1>1, <1>2 DEF Moved

LEMMA EndMoves ==
  ASSUME WorkTypeOK, ActiveHasRun, NEW k \in Workers, End(k)
  PROVE  Moved(k) /\ work'[k].at = "idle" /\ last' \in Ended
<1>1. Moved(k) /\ work'[k].at = "idle"
  BY RestMoves DEF End
<1>2. last' \in Ended
  BY DEF End, Ended, WorkTypeOK
<1>3. QED
  BY <1>1, <1>2

LEMMA AfterLayoutMoves ==
  ASSUME WorkTypeOK, ActiveHasRun, last \in Ended, NEW k \in Workers,
         AfterLayout(k), ~At(k, "idle")
  PROVE  /\ Moved(k)
         /\ work'[k].at \in {"idle", "snapClear"}
         /\ work'[k].at = "snapClear" => k \in Builders
         /\ last' \in Ended
<1>1. CASE k \in Builders
  <2>1. Go(k, "snapClear") /\ last' = last
    BY <1>1 DEF AfterLayout
  <2>2. Moved(k) /\ work'[k].at = "snapClear"
    BY <2>1, GoMoves, "snapClear" \in Steps DEF Steps
  <2>3. QED
    BY <1>1, <2>1, <2>2
<1>2. CASE k \notin Builders
  <2>1. End(k)
    BY <1>2 DEF AfterLayout
  <2>2. QED
    BY <2>1, EndMoves
<1>3. QED
  BY <1>1, <1>2

\* GapIsEmpty survives a move to a step outside the snapshot.
LEMMA GapSurvives ==
  ASSUME GapIsEmpty, NEW k \in Workers, Moved(k), snaps' = snaps,
         work'[k].at # "snapInsert", work'[k].at = "snapClear" => k \in Builders
  PROVE  GapIsEmpty'
<1> SUFFICES ASSUME NEW j \in Workers
             PROVE  /\ work'[j].at \in {"snapClear", "snapInsert"} => j \in Builders
                    /\ work'[j].at = "snapInsert" => snaps' = {}
  BY DEF GapIsEmpty, At
<1>1. CASE j = k
  BY <1>1
<1>2. CASE j # k
  BY <1>2 DEF GapIsEmpty, At, Moved
<1>3. QED
  BY <1>1, <1>2

-----------------------------------------------------------------------------
(* Every step preserves the invariant.                                     *)

LEMMA InitInv == Init => StoreInv
<1> SUFFICES ASSUME Init PROVE StoreInv
  OBVIOUS
<1>1. work \in [Workers -> Mine] /\ \A k \in Workers : work[k].at = "idle"
  BY IdleIsWork, GraphsHoldTheDomain, BoundsAreNaturals DEF Init, Idle
<1>2. last \in Ended
  BY DEF Init, NoRun, Nothing, Ended
<1>3. TypeOK
  <2>1. WorkTypeOK
    BY <1>1 DEF WorkTypeOK, Mine
  <2>2. lod \in [Graphs -> SUBSET Row]
    BY DEF Init
  <2>3. rows = {} /\ snaps = {} /\ runs \in 0..MaxRuns /\ faults \in 0..MaxFaults
    BY BoundsAreNaturals DEF Init
  <2>4. overlap \in BOOLEAN /\ built \in BOOLEAN
    BY DEF Init
  <2>5. QED
    BY <1>2, <2>1, <2>2, <2>3, <2>4 DEF TypeOK, Ended
<1>4. ActiveHasRun /\ GapIsEmpty
  BY <1>1 DEF ActiveHasRun, GapIsEmpty, At
<1>5. LayoutIsOneRun /\ OneSnapshot
  BY DEF Init, LayoutIsOneRun, OneSnapshot
<1>6. QED
  BY <1>3, <1>4, <1>5 DEF StoreInv

LEMMA BeginInv ==
  ASSUME StoreInv, NEW k \in Workers, NEW g \in Graphs, Begin(k, g)
  PROVE  StoreInv'
<1> DEFINE new == [at |-> "check", graph |-> g, run |-> runs + 1, ok |-> TRUE,
                   after |-> 0, got |-> {}]
<1>1. runs + 1 \in 1..MaxRuns
  BY BoundsAreNaturals DEF StoreInv, TypeOK, Begin
<1>2. new \in Mine /\ new.at = "check" /\ new.graph = g /\ new.run = runs + 1
  <2>2. 0 \in 0..MaxNode /\ {} \in SUBSET Row /\ "check" \in Steps
    BY GraphsHoldTheDomain DEF Steps
  <2>3. runs + 1 \in 0..MaxRuns
    BY <1>1, BoundsAreNaturals
  <2>4. QED
    BY <2>2, <2>3 DEF Mine
<1>3. work \in [Workers -> Mine] /\ work' = [work EXCEPT ![k] = new]
  BY DEF StoreInv, TypeOK, WorkTypeOK, Mine, Begin
<1> HIDE DEF new
<1>4. /\ work' \in [Workers -> Mine]
      /\ work'[k] = new
      /\ \A j \in Workers \ {k} : work'[j] = work[j]
  BY <1>2, <1>3
<1>5. WorkTypeOK'
  BY <1>4 DEF WorkTypeOK, Mine
<1>6. ActiveHasRun'
  BY <1>1, <1>2, <1>4 DEF StoreInv, ActiveHasRun, At
<1>7. TypeOK'
  BY <1>1, <1>5 DEF StoreInv, TypeOK, Begin, NoRun, Nothing
<1>8. GapIsEmpty'
  BY <1>2, <1>4, <1>5, <1>6, GapSurvives DEF StoreInv, Moved, Begin
<1>9. LayoutIsOneRun' /\ OneSnapshot'
  BY DEF StoreInv, Begin, LayoutIsOneRun, OneSnapshot
<1>10. QED
  BY <1>5, <1>6, <1>7, <1>8, <1>9 DEF StoreInv

\* A step that touches neither the layout nor the snapshot.
LEMMA QuietMove ==
  ASSUME StoreInv, NEW k \in Workers, Moved(k),
         rows' = rows, snaps' = snaps, lod' \in [Graphs -> SUBSET Row],
         last' \in Ended, UNCHANGED <<runs, overlap, built>>,
         faults' \in 0..MaxFaults,
         work'[k].at # "snapInsert", work'[k].at = "snapClear" => k \in Builders
  PROVE  StoreInv'
<1>1. TypeOK'
  BY DEF StoreInv, TypeOK, Moved, Ended
<1>2. GapIsEmpty'
  BY GapSurvives DEF StoreInv
<1>3. LayoutIsOneRun' /\ OneSnapshot'
  BY DEF StoreInv, LayoutIsOneRun, OneSnapshot
<1>4. QED
  BY <1>1, <1>2, <1>3 DEF StoreInv, Moved

\* What a step may assume of the worker that takes it.
LEMMA Working ==
  ASSUME StoreInv, NEW k \in Workers, ~At(k, "idle")
  PROVE  /\ WorkTypeOK /\ ActiveHasRun /\ last \in Ended
         /\ work[k].graph \in Graphs /\ work[k].run \in 1..MaxRuns
         /\ work[k].graph # {}
BY GraphsHoldTheDomain DEF StoreInv, TypeOK, ActiveHasRun, Ended

LEMMA CheckInv ==
  ASSUME StoreInv, NEW k \in Workers, Check(k) PROVE StoreInv'
<1>1. ~At(k, "idle")
  BY DEF Check, At
<1>2. \E s \in {"lod", "clear"} : Go(k, s)
  BY DEF Check
<1>3. Moved(k) /\ work'[k].at \in {"lod", "clear"}
  BY <1>1, <1>2, GoMoves, Working DEF Steps
<1>4. QED
  BY <1>1, <1>3, QuietMove, Working DEF Check, StoreInv, TypeOK

LEMMA ClearRowsInv ==
  ASSUME StoreInv, NEW k \in Workers, ClearRows(k) PROVE StoreInv'
<1>1. ~At(k, "idle")
  BY DEF ClearRows, At
<1>2. Moved(k) /\ work'[k].at = "insert"
  BY <1>1, GoMoves, Working DEF ClearRows, Steps
<1>3. TypeOK'
  BY <1>2 DEF StoreInv, TypeOK, ClearRows, Moved
<1>4. GapIsEmpty'
  BY <1>2, GapSurvives DEF StoreInv, ClearRows
<1>5. LayoutIsOneRun' /\ OneSnapshot'
  BY DEF StoreInv, ClearRows, LayoutIsOneRun, OneSnapshot
<1>6. QED
  BY <1>2, <1>3, <1>4, <1>5 DEF StoreInv, Moved

\* The insert finds the table empty: any row there would be of a graph, hence
\* of the domain too, and the domain is a node of the graph inserted.
LEMMA InsertRowsInv ==
  ASSUME StoreInv, NEW k \in Workers, InsertRows(k) PROVE StoreInv'
<1> DEFINE g == work[k].graph
           n == work[k].run
<1>1. ~At(k, "idle")
  BY DEF InsertRows, At
<1>2. Moved(k) /\ work'[k].at = "lod"
  BY <1>1, GoMoves, Working DEF InsertRows, Steps
<1>3. g \in Graphs /\ n \in 1..MaxRuns /\ 1 \in g
  BY <1>1, Working, GraphsHoldTheDomain
<1>4. [node |-> 1, fp |-> g, run |-> n] \in RowsOf(g, n)
  BY <1>3 DEF RowsOf
<1>5. 1 \in NodesOf(RowsOf(g, n))
  BY <1>4 DEF NodesOf
<1>6. rows = {}
  <2> SUFFICES ASSUME rows # {} PROVE FALSE
    OBVIOUS
  <2>1. PICK h \in Graphs, m \in 1..MaxRuns : rows = RowsOf(h, m)
    BY DEF StoreInv, LayoutIsOneRun
  <2>2. [node |-> 1, fp |-> h, run |-> m] \in rows
    BY <2>1, GraphsHoldTheDomain DEF RowsOf
  <2>3. 1 \in NodesOf(rows)
    BY <2>2 DEF NodesOf
  <2>4. QED
    BY <1>5, <2>3 DEF InsertRows
<1>7. rows' = RowsOf(g, n)
  BY <1>6 DEF InsertRows
<1>8. RowsOf(g, n) \subseteq Row
  <2>1. g \subseteq 1..MaxNode
    BY <1>3, GraphsHoldTheDomain
  <2> HIDE DEF g, n
  <2>2. QED
    BY <1>3, <2>1 DEF RowsOf, Row
<1>9. TypeOK'
  BY <1>2, <1>7, <1>8 DEF StoreInv, TypeOK, InsertRows, Moved
<1>10. LayoutIsOneRun'
  BY <1>3, <1>7 DEF LayoutIsOneRun
<1>11. GapIsEmpty' /\ OneSnapshot'
  BY <1>2, GapSurvives DEF StoreInv, InsertRows, OneSnapshot
<1>12. QED
  BY <1>2, <1>9, <1>10, <1>11 DEF StoreInv, Moved

LEMMA InsertCollidesInv ==
  ASSUME StoreInv, NEW k \in Workers, InsertCollides(k) PROVE StoreInv'
<1>1. ~At(k, "idle")
  BY DEF InsertCollides, At
<1>2. Moved(k) /\ work'[k].at = "idle"
  BY <1>1, RestMoves, Working DEF InsertCollides
<1>3. QED
  BY <1>1, <1>2, QuietMove, Working DEF InsertCollides, StoreInv, TypeOK

LEMMA LookForPyramidInv ==
  ASSUME StoreInv, NEW k \in Workers, LookForPyramid(k) PROVE StoreInv'
<1>1. ~At(k, "idle")
  BY DEF LookForPyramid, At
<1>2. \E s \in {"prune", "page"} : Go(k, s)
  BY DEF LookForPyramid
<1>3. Moved(k) /\ work'[k].at \in {"prune", "page"}
  BY <1>1, <1>2, GoMoves, Working DEF Steps
<1>4. QED
  BY <1>1, <1>3, QuietMove, Working DEF LookForPyramid, StoreInv, TypeOK

LEMMA ReadPageInv ==
  ASSUME StoreInv, NEW k \in Workers, ReadPage(k) PROVE StoreInv'
<1> DEFINE page == Page(work[k].after)
<1>1. ~At(k, "idle")
  BY DEF ReadPage, At
<1>2. page \subseteq Row
  BY DEF Page, After, StoreInv, TypeOK
<1>3. Moved(k) /\ work'[k].at \in {"page", "lodClear"}
  <2>1. CASE Go(k, "lodClear")
    BY <1>1, <2>1, GoMoves, Working DEF Steps
  <2>2. CASE \E n \in 1..MaxNode, s \in {"page", "lodClear"} :
               work' = [work EXCEPT ![k].got = @ \cup page,
                                    ![k].after = n, ![k].at = s]
    <3>1. PICK n \in 1..MaxNode, s \in {"page", "lodClear"} :
               work' = [work EXCEPT ![k].got = @ \cup page,
                                    ![k].after = n, ![k].at = s]
      BY <2>2
    <3>2. WorkTypeOK
      BY <1>1, Working
    <3> HIDE DEF page
    <3>3. /\ WorkTypeOK'
          /\ work'[k].at = s
          /\ work'[k].graph = work[k].graph
          /\ work'[k].run = work[k].run
          /\ \A j \in Workers \ {k} : work'[j] = work[j]
      <4>1. work[k].got \cup page \in SUBSET Row /\ n \in 0..MaxNode /\ s \in Steps
        BY <1>2, <3>2 DEF WorkTypeOK, Steps
      <4>2. QED
        BY <3>1, <3>2, <4>1 DEF WorkTypeOK
    <3>4. ActiveHasRun'
      BY <1>1, <3>3, Working DEF ActiveHasRun, At
    <3>5. QED
      BY <3>3, <3>4 DEF Moved
  <2>3. QED
    <3>1. work[k].at = "page"
      BY DEF ReadPage, At
    <3>2. CASE \E n \in 1..MaxNode :
                 work' = [work EXCEPT ![k].got = @ \cup page, ![k].after = n,
                    ![k].at = IF Cardinality(page) < ChunkSize THEN "lodClear" ELSE @]
      <4>1. CASE Cardinality(page) < ChunkSize
        BY <3>2, <4>1, <2>2
      <4>2. CASE ~(Cardinality(page) < ChunkSize)
        <5>1. \E n \in 1..MaxNode : work' = [work EXCEPT ![k].got = @ \cup page,
                                         ![k].after = n, ![k].at = "page"]
          BY <3>1, <3>2, <4>2
        <5>2. QED
          BY <5>1, <2>2
      <4>3. QED
        BY <4>1, <4>2
    <3>3. QED
      BY <2>1, <3>2 DEF ReadPage
<1>4. QED
  BY <1>1, <1>3, QuietMove, Working DEF ReadPage, StoreInv, TypeOK

LEMMA ClearPyramidInv ==
  ASSUME StoreInv, NEW k \in Workers, ClearPyramid(k) PROVE StoreInv'
<1>1. ~At(k, "idle")
  BY DEF ClearPyramid, At
<1>2. Moved(k) /\ work'[k].at = "lodInsert"
  BY <1>1, GoMoves, Working DEF ClearPyramid, Steps
<1>3. lod' \in [Graphs -> SUBSET Row]
  BY DEF ClearPyramid, StoreInv, TypeOK
<1>4. QED
  BY <1>1, <1>2, <1>3, QuietMove, Working DEF ClearPyramid, StoreInv, TypeOK

LEMMA InsertPyramidInv ==
  ASSUME StoreInv, NEW k \in Workers, InsertPyramid(k) PROVE StoreInv'
<1> DEFINE g == work[k].graph
<1>1. ~At(k, "idle")
  BY DEF InsertPyramid, At
<1>2. CASE /\ lod' = [lod EXCEPT ![g] = @ \cup work[k].got]
           /\ Go(k, "prune") /\ last' = last
  <2>1. Moved(k) /\ work'[k].at = "prune"
    BY <1>1, <1>2, GoMoves, Working DEF Steps
  <2>2. work[k].got \subseteq Row
    BY <1>1, Working DEF WorkTypeOK
  <2>3. lod' \in [Graphs -> SUBSET Row]
    BY <1>2, <2>2 DEF StoreInv, TypeOK
  <2>4. QED
    BY <1>1, <1>2, <2>1, <2>3, QuietMove, Working DEF InsertPyramid, StoreInv, TypeOK
<1>3. CASE AfterLayout(k) /\ lod' = lod
  <2>1. /\ Moved(k)
        /\ work'[k].at \in {"idle", "snapClear"}
        /\ work'[k].at = "snapClear" => k \in Builders
        /\ last' \in Ended
    BY <1>1, <1>3, AfterLayoutMoves, Working
  <2>2. QED
    BY <1>3, <2>1, QuietMove DEF InsertPyramid, StoreInv, TypeOK
<1>4. QED
  BY <1>2, <1>3 DEF InsertPyramid

LEMMA PruneInv ==
  ASSUME StoreInv, NEW k \in Workers, Prune(k) PROVE StoreInv'
<1>1. ~At(k, "idle")
  BY DEF Prune, At
<1>2. /\ Moved(k)
      /\ work'[k].at \in {"idle", "snapClear"}
      /\ work'[k].at = "snapClear" => k \in Builders
      /\ last' \in Ended
  BY <1>1, AfterLayoutMoves, Working DEF Prune
<1>3. lod' \in [Graphs -> SUBSET Row]
  BY DEF Prune, StoreInv, TypeOK
<1>4. QED
  BY <1>2, <1>3, QuietMove DEF Prune, StoreInv, TypeOK

LEMMA ClearSnapshotInv ==
  ASSUME StoreInv, NEW k \in Workers, ClearSnapshot(k) PROVE StoreInv'
<1>1. ~At(k, "idle") /\ k \in Builders
  BY DEF ClearSnapshot, At, StoreInv, GapIsEmpty
<1>2. Moved(k) /\ work'[k].at = "snapInsert"
  BY <1>1, GoMoves, Working DEF ClearSnapshot, Steps
<1>3. TypeOK'
  BY <1>2 DEF StoreInv, TypeOK, ClearSnapshot, Moved
<1>4. GapIsEmpty'
  BY <1>1, <1>2 DEF StoreInv, GapIsEmpty, At, Moved, ClearSnapshot
<1>5. LayoutIsOneRun' /\ OneSnapshot'
  BY DEF StoreInv, ClearSnapshot, LayoutIsOneRun, OneSnapshot
<1>6. QED
  BY <1>2, <1>3, <1>4, <1>5 DEF StoreInv, Moved

LEMMA InsertSnapshotInv ==
  ASSUME StoreInv, NEW k \in Workers, InsertSnapshot(k) PROVE StoreInv'
<1>1. ~At(k, "idle") /\ k \in Builders /\ snaps = {}
  BY DEF InsertSnapshot, At, StoreInv, GapIsEmpty
<1>2. Moved(k) /\ work'[k].at = "idle" /\ last' \in Ended
  BY <1>1, EndMoves, Working DEF InsertSnapshot
<1>3. work[k].graph \in Graphs /\ snaps' = {work[k].graph}
  BY <1>1, Working DEF InsertSnapshot
<1>4. TypeOK'
  BY <1>2, <1>3 DEF StoreInv, TypeOK, InsertSnapshot, Moved, Ended
<1>5. GapIsEmpty'
  BY <1>1, <1>2, OneBuildAtATime DEF StoreInv, GapIsEmpty, At, Moved
<1>6. LayoutIsOneRun' /\ OneSnapshot'
  BY <1>3 DEF StoreInv, InsertSnapshot, LayoutIsOneRun, OneSnapshot
<1>7. QED
  BY <1>2, <1>4, <1>5, <1>6 DEF StoreInv, Moved

LEMMA DieInv ==
  ASSUME StoreInv, NEW k \in Workers, Die(k) PROVE StoreInv'
<1>1. ~At(k, "idle")
  BY DEF Die
<1>2. Moved(k) /\ work'[k].at = "idle"
  BY <1>1, RestMoves, Working DEF Die
<1>3. faults' \in 0..MaxFaults
  BY BoundsAreNaturals DEF Die, StoreInv, TypeOK
<1>4. QED
  BY <1>1, <1>2, <1>3, QuietMove, Working DEF Die, StoreInv, TypeOK

LEMMA StatementFailsInv ==
  ASSUME StoreInv, NEW k \in Workers, StatementFails(k) PROVE StoreInv'
<1>1. ~At(k, "idle")
  BY DEF StatementFails, At, LodSteps
<1>2. WorkTypeOK /\ ActiveHasRun
  BY <1>1, Working
<1>3. /\ Moved(k)
      /\ work'[k].at # "snapInsert"
      /\ work'[k].at = "snapClear" => k \in Builders
  <2>1. CASE Go(k, "clear")
    BY <1>1, <2>1, GoMoves, Working DEF Steps
  <2>2. CASE work' = [work EXCEPT ![k] = Idle]
    BY <1>2, <2>2, RestMoves
  <2>3. CASE k \in Builders /\ work' = [work EXCEPT ![k] =
                                         [@ EXCEPT !.at = "snapClear", !.ok = FALSE]]
    <3>1. /\ WorkTypeOK'
          /\ work'[k].at = "snapClear"
          /\ work'[k].graph = work[k].graph
          /\ work'[k].run = work[k].run
          /\ \A j \in Workers \ {k} : work'[j] = work[j]
      BY <1>2, <2>3 DEF WorkTypeOK, Steps
    <3>2. ActiveHasRun'
      BY <1>1, <3>1, Working DEF ActiveHasRun, At
    <3>3. QED
      BY <2>3, <3>1, <3>2 DEF Moved
  <2>4. QED
    BY <2>1, <2>2, <2>3 DEF StatementFails
<1>4. faults' \in 0..MaxFaults
  BY BoundsAreNaturals DEF StatementFails, StoreInv, TypeOK
<1>5. QED
  BY <1>1, <1>3, <1>4, QuietMove, Working DEF StatementFails, StoreInv, TypeOK

LEMMA StutterInv == ASSUME StoreInv, UNCHANGED vars PROVE StoreInv'
<1>1. TypeOK' /\ ActiveHasRun' /\ GapIsEmpty'
  BY DEF StoreInv, vars, TypeOK, WorkTypeOK, ActiveHasRun, GapIsEmpty, At
<1>2. LayoutIsOneRun' /\ OneSnapshot'
  BY DEF StoreInv, vars, LayoutIsOneRun, OneSnapshot
<1>3. QED
  BY <1>1, <1>2 DEF StoreInv

LEMMA NextInv == StoreInv /\ [Next]_vars => StoreInv'
<1> SUFFICES ASSUME StoreInv, [Next]_vars PROVE StoreInv'
  OBVIOUS
<1>1. CASE UNCHANGED vars
  BY <1>1, StutterInv
<1>2. ASSUME NEW k \in Workers, NEW g \in Graphs, Begin(k, g) PROVE StoreInv'
  BY <1>2, BeginInv
<1>3. ASSUME NEW k \in Workers, Step(k) PROVE StoreInv'
  BY <1>3, CheckInv, ClearRowsInv, InsertRowsInv, InsertCollidesInv,
     LookForPyramidInv, ReadPageInv, ClearPyramidInv, InsertPyramidInv,
     PruneInv, ClearSnapshotInv, InsertSnapshotInv DEF Step
<1>4. ASSUME NEW k \in Workers, Die(k) PROVE StoreInv'
  BY <1>4, DieInv
<1>5. ASSUME NEW k \in Workers, StatementFails(k) PROVE StoreInv'
  BY <1>5, StatementFailsInv
<1>6. QED
  BY <1>1, <1>2, <1>3, <1>4, <1>5 DEF Next

\* The inductive invariant holds in every state.
THEOREM StoreInvariant == Spec => []StoreInv
BY InitInv, NextInv, PTL DEF Spec

-----------------------------------------------------------------------------
(* What follows from it.                                                   *)

\* Every table and every worker's record keeps its type.
THEOREM StoreTypeCorrect == Spec => []TypeOK
BY StoreInvariant, PTL DEF StoreInv

\* However many workers write the layout at once, the table is empty or one
\* whole layout (layout_pg_store.write_layout).
THEOREM LayoutsNeverMix == Spec => []LayoutIsOneRun
BY StoreInvariant, PTL DEF StoreInv

\* A scope never has two snapshots (snapshot_pg_store.write_snapshot).
THEOREM SnapshotIsSingle == Spec => []OneSnapshot
BY StoreInvariant, PTL DEF StoreInv

\* A step that leaves the snapshot alone is a stutter of the shelf.
LEMMA ShelfStutters == ASSUME snaps' = snaps PROVE UNION snaps' = UNION snaps
OBVIOUS

LEMMA ShelfStep == StoreInv /\ [Next]_vars => [Shelf!Next]_(UNION snaps)
<1> SUFFICES ASSUME StoreInv, [Next]_vars PROVE [Shelf!Next]_(UNION snaps)
  OBVIOUS
<1>1. ASSUME NEW k \in Workers, ClearSnapshot(k) PROVE [Shelf!Next]_(UNION snaps)
  <2>1. snaps' = {}
    BY <1>1 DEF ClearSnapshot
  <2>2. CASE UNION snaps = {}
    BY <2>1, <2>2
  <2>3. CASE UNION snaps # {}
    BY <2>1, <2>3 DEF Shelf!Next, Shelf!Withdraw, Nothing
  <2>4. QED
    BY <2>2, <2>3
<1>2. ASSUME NEW k \in Workers, InsertSnapshot(k) PROVE [Shelf!Next]_(UNION snaps)
  <2>1. ~At(k, "idle") /\ snaps = {}
    BY <1>2 DEF InsertSnapshot, At, StoreInv, GapIsEmpty
  <2>2. work[k].graph \in Graphs /\ snaps' = {work[k].graph}
    BY <1>2, <2>1, Working DEF InsertSnapshot
  <2>3. UNION snaps = Nothing /\ UNION snaps' \in Graphs
    BY <2>1, <2>2 DEF Nothing
  <2>4. QED
    BY <2>3 DEF Shelf!Next, Shelf!Publish
<1>3. CASE snaps' = snaps
  BY <1>3, ShelfStutters
<1>4. QED
  BY <1>1, <1>2, <1>3 DEF Next, Step, vars, Begin, Check, ClearRows, InsertRows,
     InsertCollides, LookForPyramid, ReadPage, ClearPyramid, InsertPyramid, Prune,
     Die, StatementFails

\* The snapshot row implements GraphShelf: its readers get one graph or none,
\* and a new graph only after the old one has been withdrawn.
THEOREM SnapshotImplementsShelf == Spec => ShelfSafety
<1>1. Init => Shelf!Init
  BY DEF Init, Shelf!Init, Nothing
<1>2. QED
  BY <1>1, ShelfStep, StoreInvariant, PTL DEF Spec, ShelfSafety, Shelf!Spec

-----------------------------------------------------------------------------
(* Pages.                                                                  *)

Below(A, r) == {q \in A : q.node < r.node}

\* A set of rows has one with the least node: of the finite sets Below(A, r)
\* one is minimal.
LEMMA LeastRow ==
  ASSUME NEW A, IsFiniteSet(A), \A r \in A : r.node \in Nat,
         NEW D \in SUBSET A, D # {}
  PROVE  \E r \in D : \A q \in D : r.node <= q.node
<1> DEFINE T == {Below(A, r) : r \in D}
           R == StrictSubsetOrdering(A)
<1>1. IsWellFoundedOn(R, FiniteSubsetsOf(A))
  BY FS_StrictSubsetOrderingWellFounded
<1>2. T \subseteq FiniteSubsetsOf(A) /\ T # {}
  <2>1. FiniteSubsetsOf(A) = SUBSET A
    BY FS_FiniteSubsetsOfFinite
  <2>2. \A r \in D : Below(A, r) \in SUBSET A
    BY DEF Below
  <2>3. QED
    BY <2>1, <2>2
<1>3. PICK x \in T : \A y \in T : <<y, x>> \notin R
  <2> HIDE DEF T, R
  <2>1. QED
    BY <1>1, <1>2, WFMin
<1>4. PICK r \in D : x = Below(A, r)
  OBVIOUS
<1>5. ASSUME NEW q \in D, q.node < r.node
      PROVE  FALSE
  <2>1. Below(A, q) \subseteq Below(A, r)
    BY <1>5 DEF Below
  <2>2. q \in Below(A, r) /\ q \notin Below(A, q)
    BY <1>5 DEF Below
  <2>3. Below(A, q) \subseteq A /\ Below(A, r) \subseteq A
    BY DEF Below
  <2>4. <<Below(A, q), x>> \in R
    BY <1>4, <2>1, <2>2, <2>3 DEF StrictSubsetOrdering
  <2>5. QED
    BY <1>3, <2>4
<1>6. QED
  BY <1>5

\* A page that is not full is the last: had a row been left out, the least of
\* those left out would have all the rows below it, a page of them, on the page.
LEMMA ShortPageIsLast ==
  ASSUME IsFiniteSet(rows), \A r \in rows : r.node \in Nat, NEW n \in Nat,
         Cardinality(Page(n)) < ChunkSize
  PROVE  Page(n) = After(n)
<1> DEFINE A == After(n)
           P == Page(n)
           D == A \ P
<1>1. A \subseteq rows /\ P \subseteq A
  BY DEF After, Page
<1>2. IsFiniteSet(A) /\ IsFiniteSet(P)
  BY <1>1, FS_Subset
<1> SUFFICES ASSUME D # {} PROVE FALSE
  BY <1>1
<1>3. PICK r \in D : \A q \in D : r.node <= q.node
  <2>1. D \in SUBSET A /\ \A q \in A : q.node \in Nat
    BY <1>1
  <2> HIDE DEF A, D
  <2>2. QED
    BY <1>2, <2>1, LeastRow
<1>4. Below(A, r) \subseteq P
  BY <1>1, <1>3 DEF Below
<1>5. ~(Cardinality(Below(A, r)) < ChunkSize)
  BY <1>3 DEF Below, Page
<1>6. /\ Cardinality(Below(A, r)) <= Cardinality(P)
      /\ IsFiniteSet(Below(A, r))
  BY <1>2, <1>4, FS_Subset
<1>7. Cardinality(Below(A, r)) \in Nat /\ Cardinality(P) \in Nat
  BY <1>2, <1>6, FS_CardinalityType
<1> HIDE DEF P
<1>8. Cardinality(P) < ChunkSize
  BY DEF P
<1>9. QED
  BY <1>5, <1>6, <1>7, <1>8, BoundsAreNaturals

\* A page holds all the rows from where it begins to its last node.
LEMMA PageHasNoGap ==
  ASSUME IsFiniteSet(rows), \A r \in rows : r.node \in Nat, NEW n \in Nat, NEW m \in Nat,
         LastOf(Page(n), m)
  PROVE  Page(n) = {r \in After(n) : r.node <= m}
<1> DEFINE A == After(n)
<1>1. A \subseteq rows /\ IsFiniteSet(A)
  BY FS_Subset DEF After
<1>2. PICK p \in Page(n) : p.node = m
  BY DEF LastOf, NodesOf
<1>3. p \in A /\ Cardinality(Below(A, p)) < ChunkSize
  BY DEF Page, Below
<1>4. ASSUME NEW r \in A, r.node <= m
      PROVE  r \in Page(n)
  <2>1. Below(A, r) \subseteq Below(A, p)
    BY <1>1, <1>2, <1>3, <1>4 DEF Below
  <2>2. IsFiniteSet(Below(A, p)) /\ IsFiniteSet(Below(A, r))
    BY <1>1, FS_Subset DEF Below
  <2>3. Cardinality(Below(A, r)) <= Cardinality(Below(A, p))
    BY <2>1, <2>2, FS_Subset
  <2>4. Cardinality(Below(A, p)) \in Nat /\ Cardinality(Below(A, r)) \in Nat
    BY <2>2, FS_CardinalityType
  <2>5. Cardinality(Below(A, r)) < ChunkSize
    BY <1>3, <2>3, <2>4, BoundsAreNaturals
  <2>6. QED
    BY <2>5 DEF Page, Below
<1>5. QED
  BY <1>4 DEF Page, LastOf

\* The rows of a run are as many as its nodes.
LEMMA RowsAreFinite ==
  ASSUME NEW g \in Graphs, NEW n
  PROVE  /\ IsFiniteSet(RowsOf(g, n))
         /\ \A r \in RowsOf(g, n) : r.node \in 1..MaxNode /\ r.fp = g
         /\ RowsOf(g, n) # {}
<1>1. g \subseteq 1..MaxNode /\ 1 \in g
  BY GraphsHoldTheDomain
<1>2. IsFiniteSet(g)
  <2>1. IsFiniteSet(1..MaxNode)
    BY FS_Interval, GraphsHoldTheDomain
  <2>2. QED
    BY <1>1, <2>1, FS_Subset
<1> DEFINE f == [x \in g |-> [node |-> x, fp |-> g, run |-> n]]
<1>3. f \in Surjection(g, RowsOf(g, n))
  BY DEF Surjection, RowsOf
<1>4. IsFiniteSet(RowsOf(g, n))
  <2> HIDE DEF f
  <2>1. QED
    BY <1>2, <1>3, FS_Surjection
<1>5. \A r \in RowsOf(g, n) : r.node \in g /\ r.fp = g
  BY DEF RowsOf
<1>6. [node |-> 1, fp |-> g, run |-> n] \in RowsOf(g, n)
  BY <1>1 DEF RowsOf
<1>7. QED
  BY <1>1, <1>4, <1>5, <1>6

-----------------------------------------------------------------------------
(* While no two workers overlap.                                           *)

Alone == \A j, k \in Workers : ~At(j, "idle") /\ ~At(k, "idle") => j = k

LaidOut(g) == \E n \in 1..MaxRuns : rows = RowsOf(g, n)

OnlyPyramid(g) == \A h \in Graphs : lod[h] # {} <=> h = g

\* Where worker k is tells what it has found and what the tables hold: its
\* rows from the insert on, the rows up to the last page, its own pyramid.
Stage(k) ==
  /\ work[k].at \in {"check", "clear", "insert", "lod"} =>
        work[k].got = {} /\ work[k].after = 0
  /\ work[k].at = "insert" => rows = {}
  /\ work[k].at \in LodSteps => LaidOut(work[k].graph)
  /\ work[k].at = "page" => work[k].got = {r \in rows : r.node <= work[k].after}
  /\ work[k].at \in {"lodClear", "lodInsert"} => work[k].got = rows
  /\ work[k].at = "lodInsert" => lod[work[k].graph] = {}
  /\ work[k].at = "prune" => lod[work[k].graph] # {}
  /\ work[k].at \in {"snapClear", "snapInsert"} /\ work[k].ok =>
        LaidOut(work[k].graph) /\ OnlyPyramid(work[k].graph)

Solo ==
  /\ ~overlap => /\ Alone
                 /\ \A k \in Workers : ~At(k, "idle") => Stage(k) /\ ~last.ok
  /\ PyramidIsWhole
  /\ UndisturbedRunIsStored

LEMMA SoloInit == Init => Solo
<1> SUFFICES ASSUME Init PROVE Solo
  OBVIOUS
<1>1. \A k \in Workers : At(k, "idle")
  BY DEF Init, Idle, At
<1>2. ~last.ok /\ \A g \in Graphs : lod[g] = {}
  BY DEF Init, NoRun
<1>3. QED
  BY <1>1, <1>2 DEF Solo, Alone, PyramidIsWhole, UndisturbedRunIsStored

\* What the tables hold for a graph that is not touched.
PyramidKept(g) == lod'[g] = lod[g] \/ lod'[g] = {} \/ \E n \in 1..MaxRuns : lod'[g] = RowsOf(g, n)

\* The only worker moves on, or is gone.
LEMMA SoloMoves ==
  ASSUME StoreInv, Solo, ~overlap, NEW k \in Workers, ~At(k, "idle"), Moved(k),
         overlap' = overlap, last' = last,
         work'[k].at # "idle" => Stage(k)',
         \A g \in Graphs : PyramidKept(g)
  PROVE  Solo'
<1>1. \A j \in Workers : j # k => At(j, "idle") /\ At(j, "idle")'
  BY DEF Solo, Alone, Moved, At
<1>2. ~last.ok
  BY DEF Solo
<1>3. Alone'
  BY <1>1 DEF Alone
<1>4. \A j \in Workers : ~At(j, "idle")' => Stage(j)' /\ ~last'.ok
  BY <1>1, <1>2 DEF At
<1>5. PyramidIsWhole'
  BY DEF Solo, PyramidIsWhole, PyramidKept
<1>6. UndisturbedRunIsStored'
  BY <1>2 DEF UndisturbedRunIsStored
<1>7. QED
  BY <1>3, <1>4, <1>5, <1>6 DEF Solo

\* The only worker ends its run.
LEMMA SoloEnds ==
  ASSUME StoreInv, Solo, ~overlap, NEW k \in Workers, ~At(k, "idle"), End(k),
         overlap' = overlap, NEW g \in Graphs, work[k].graph = g,
         work[k].ok => /\ LaidOut(g)' /\ OnlyPyramid(g)'
                       /\ k \in Builders => snaps' = {g},
         \A h \in Graphs : PyramidKept(h)
  PROVE  Solo'
<1>0. WorkTypeOK /\ ActiveHasRun
  BY Working
<1>1. Moved(k) /\ work'[k].at = "idle"
  BY <1>0, EndMoves
<1>2. \A j \in Workers : At(j, "idle")'
  BY <1>1 DEF Solo, Alone, Moved, At
<1>3. Alone'
  BY <1>2 DEF Alone
<1>4. PyramidIsWhole'
  BY DEF Solo, PyramidIsWhole, PyramidKept
<1>5. UndisturbedRunIsStored'
  <2>1. last'.graph = g /\ last'.worker = {k} /\ last'.ok = work[k].ok
    BY DEF End
  <2>2. SUFFICES ASSUME work[k].ok
                 PROVE  /\ \A r \in rows' : r.fp = g
                        /\ \A h \in Graphs : lod'[h] # {} <=> h = g
                        /\ {k} \subseteq Builders => snaps' = {g}
    BY <2>1 DEF UndisturbedRunIsStored
  <2>3. \E n \in 1..MaxRuns : rows' = RowsOf(g, n)
    BY <2>2 DEF LaidOut
  <2>4. \A r \in rows' : r.fp = g
    BY <2>3, RowsAreFinite
  <2>5. QED
    BY <2>2, <2>4 DEF OnlyPyramid
<1>6. QED
  BY <1>2, <1>3, <1>4, <1>5 DEF Solo

LEMMA GoKeeps ==
  ASSUME StoreInv, NEW k \in Workers, NEW s \in Steps, Go(k, s), ~At(k, "idle")
  PROVE  /\ Moved(k) /\ work'[k].at = s
         /\ work'[k].graph = work[k].graph /\ work'[k].ok = work[k].ok
         /\ work'[k].got = work[k].got /\ work'[k].after = work[k].after
<1>1. WorkTypeOK /\ ActiveHasRun
  BY Working
<1>2. Moved(k) /\ work'[k].at = s
  BY <1>1, GoMoves
<1>3. QED
  BY <1>1, <1>2 DEF Go, WorkTypeOK

\* run_recompute ends, or a child goes on to the snapshot.
LEMMA SoloAfterLayout ==
  ASSUME StoreInv, Solo, ~overlap, NEW k \in Workers, ~At(k, "idle"), AfterLayout(k),
         UNCHANGED <<overlap, rows, snaps>>, NEW g \in Graphs, work[k].graph = g,
         LaidOut(g), OnlyPyramid(g)',
         \A h \in Graphs : PyramidKept(h)
  PROVE  Solo'
<1>1. LaidOut(g)'
  BY DEF LaidOut
<1>2. CASE k \in Builders
  <2>1. Go(k, "snapClear") /\ last' = last
    BY <1>2 DEF AfterLayout
  <2>2. Moved(k) /\ work'[k].at = "snapClear" /\ work'[k].graph = work[k].graph
    BY <2>1, GoKeeps DEF Steps
  <2>3. Stage(k)'
    BY <1>1, <2>2 DEF Stage, LodSteps
  <2>4. QED
    BY <2>1, <2>2, <2>3, SoloMoves
<1>3. CASE k \notin Builders
  <2>1. End(k)
    BY <1>3 DEF AfterLayout
  <2>2. QED
    BY <1>1, <1>3, <2>1, SoloEnds
<1>4. QED
  BY <1>2, <1>3

\* What a step may assume of the only worker.
LEMMA SoloWorking ==
  ASSUME StoreInv, Solo, ~overlap, NEW k \in Workers, ~At(k, "idle")
  PROVE  /\ Stage(k) /\ work[k].graph \in Graphs /\ work[k].run \in 1..MaxRuns
         /\ WorkTypeOK /\ ActiveHasRun
         /\ \A g \in Graphs : LaidOut(g) =>
               /\ IsFiniteSet(rows) /\ rows # {}
               /\ \A r \in rows : r.node \in 1..MaxNode /\ r.fp = g
<1>1. Stage(k)
  BY DEF Solo
<1>2. \A g \in Graphs : LaidOut(g) =>
         /\ IsFiniteSet(rows) /\ rows # {}
         /\ \A r \in rows : r.node \in 1..MaxNode /\ r.fp = g
  BY RowsAreFinite DEF LaidOut
<1>3. QED
  BY <1>1, <1>2, Working

LEMMA BeginSolo ==
  ASSUME StoreInv, Solo, NEW k \in Workers, NEW g \in Graphs, Begin(k, g)
  PROVE  Solo'
<1>1. CASE ~overlap'
  <2>1. ~overlap /\ \A j \in Workers : At(j, "idle")
    BY <1>1 DEF Begin
  <2>2. PICK new : /\ new = [at |-> "check", graph |-> g, run |-> runs + 1, ok |-> TRUE,
                             after |-> 0, got |-> {}]
                   /\ work' = [work EXCEPT ![k] = new]
    BY DEF Begin
  <2>3. /\ work'[k] = new /\ new.at = "check" /\ new.got = {} /\ new.after = 0
        /\ \A j \in Workers : j # k => work'[j] = work[j]
    BY <2>2 DEF StoreInv, TypeOK, WorkTypeOK
  <2>4. Alone'
    BY <2>1, <2>3 DEF Alone, At
  <2>5. Stage(k)'
    BY <2>3 DEF Stage, LodSteps
  <2>6. ~last'.ok
    BY DEF Begin, NoRun
  <2>7. \A j \in Workers : ~At(j, "idle")' => Stage(j)' /\ ~last'.ok
    BY <2>1, <2>3, <2>5, <2>6 DEF At
  <2>8. PyramidIsWhole'
    BY <2>1 DEF Begin, Solo, PyramidIsWhole
  <2>9. UndisturbedRunIsStored'
    BY <2>6 DEF UndisturbedRunIsStored
  <2>10. QED
    BY <2>4, <2>7, <2>8, <2>9 DEF Solo
<1>2. CASE overlap'
  BY <1>2 DEF Solo, PyramidIsWhole, UndisturbedRunIsStored
<1>3. QED
  BY <1>1, <1>2

LEMMA CheckSolo ==
  ASSUME StoreInv, Solo, ~overlap, NEW k \in Workers, Check(k) PROVE Solo'
<1>1. ~At(k, "idle") /\ work[k].at = "check"
  BY DEF Check, At
<1>2. PICK s \in {"lod", "clear"} :
         /\ Go(k, s)
         /\ s = "lod" => \E r \in rows : r.fp = work[k].graph
  BY DEF Check
<1>3. /\ Moved(k) /\ work'[k].at = s
      /\ work'[k].graph = work[k].graph
      /\ work'[k].got = work[k].got /\ work'[k].after = work[k].after
  BY <1>1, <1>2, GoKeeps DEF Steps
<1>4. PICK g \in Graphs : g = work[k].graph
  BY <1>1, SoloWorking
<1>5. s = "lod" => LaidOut(g)
  <2> SUFFICES ASSUME s = "lod" PROVE LaidOut(g)
    OBVIOUS
  <2>1. PICK r \in rows : r.fp = g
    BY <1>2, <1>4
  <2>2. PICK h \in Graphs, n \in 1..MaxRuns : rows = RowsOf(h, n)
    BY <2>1 DEF StoreInv, LayoutIsOneRun
  <2>3. h = g
    BY <2>1, <2>2, RowsAreFinite
  <2>4. QED
    BY <2>2, <2>3 DEF LaidOut
<1>6. LaidOut(g)' <=> LaidOut(g)
  BY DEF Check, LaidOut
<1>7. Stage(k)'
  <2>1. Stage(k)
    BY <1>1, SoloWorking
  <2>2. QED
    BY <1>1, <1>3, <1>4, <1>5, <1>6, <2>1 DEF Stage, LodSteps
<1>8. QED
  BY <1>1, <1>3, <1>7, SoloMoves DEF Check, PyramidKept

LEMMA ClearRowsSolo ==
  ASSUME StoreInv, Solo, ~overlap, NEW k \in Workers, ClearRows(k) PROVE Solo'
<1>1. ~At(k, "idle") /\ work[k].at = "clear"
  BY DEF ClearRows, At
<1>2. /\ Moved(k) /\ work'[k].at = "insert"
      /\ work'[k].got = work[k].got /\ work'[k].after = work[k].after
  BY <1>1, GoKeeps DEF ClearRows, Steps
<1>3. Stage(k)'
  <2>1. Stage(k)
    BY <1>1, SoloWorking
  <2>2. QED
    BY <1>1, <1>2, <2>1 DEF Stage, LodSteps, ClearRows
<1>4. QED
  BY <1>1, <1>2, <1>3, SoloMoves DEF ClearRows, PyramidKept

LEMMA InsertRowsSolo ==
  ASSUME StoreInv, Solo, ~overlap, NEW k \in Workers, InsertRows(k) PROVE Solo'
<1>1. ~At(k, "idle") /\ work[k].at = "insert"
  BY DEF InsertRows, At
<1>2. /\ Moved(k) /\ work'[k].at = "lod"
      /\ work'[k].graph = work[k].graph
      /\ work'[k].got = work[k].got /\ work'[k].after = work[k].after
  BY <1>1, GoKeeps DEF InsertRows, Steps
<1>3. Stage(k)
  BY <1>1, SoloWorking
<1>4. PICK g \in Graphs, n \in 1..MaxRuns : g = work[k].graph /\ n = work[k].run
  BY <1>1, SoloWorking
<1>5. rows' = RowsOf(g, n)
  BY <1>1, <1>3, <1>4 DEF Stage, InsertRows
<1>6. LaidOut(g)'
  BY <1>5 DEF LaidOut
<1>7. Stage(k)'
  BY <1>1, <1>2, <1>3, <1>4, <1>6 DEF Stage, LodSteps
<1>8. QED
  BY <1>1, <1>2, <1>7, SoloMoves DEF InsertRows, PyramidKept

LEMMA InsertCollidesSolo ==
  ASSUME StoreInv, Solo, ~overlap, NEW k \in Workers, InsertCollides(k) PROVE Solo'
<1>1. ~At(k, "idle")
  BY DEF InsertCollides, At
<1>2. Moved(k) /\ work'[k].at = "idle"
  BY <1>1, RestMoves, SoloWorking DEF InsertCollides
<1>3. QED
  BY <1>1, <1>2, SoloMoves DEF InsertCollides, PyramidKept

LEMMA LookForPyramidSolo ==
  ASSUME StoreInv, Solo, ~overlap, NEW k \in Workers, LookForPyramid(k) PROVE Solo'
<1>1. ~At(k, "idle") /\ work[k].at = "lod"
  BY DEF LookForPyramid, At
<1>2. PICK s \in {"prune", "page"} :
         Go(k, s) /\ (s = "prune" => lod[work[k].graph] # {})
  BY DEF LookForPyramid
<1>3. /\ Moved(k) /\ work'[k].at = s
      /\ work'[k].graph = work[k].graph
      /\ work'[k].got = work[k].got /\ work'[k].after = work[k].after
  BY <1>1, <1>2, GoKeeps DEF Steps
<1>4. PICK g \in Graphs : g = work[k].graph
  BY <1>1, SoloWorking
<1>5. Stage(k)
  BY <1>1, SoloWorking
<1>6. LaidOut(g) /\ work[k].got = {} /\ work[k].after = 0
  BY <1>1, <1>4, <1>5 DEF Stage, LodSteps
<1>7. {} = {r \in rows : r.node <= 0}
  BY <1>1, <1>6, SoloWorking
<1>8. LaidOut(g)' /\ rows' = rows /\ lod' = lod
  BY <1>6 DEF LookForPyramid, LaidOut
<1>9. Stage(k)'
  BY <1>2, <1>3, <1>4, <1>6, <1>7, <1>8 DEF Stage, LodSteps
<1>10. QED
  BY <1>1, <1>3, <1>9, SoloMoves DEF LookForPyramid, PyramidKept

LEMMA ReadPageSolo ==
  ASSUME StoreInv, Solo, ~overlap, NEW k \in Workers, ReadPage(k) PROVE Solo'
<1>1. ~At(k, "idle") /\ work[k].at = "page"
  BY DEF ReadPage, At
<1>2. WorkTypeOK /\ ActiveHasRun /\ Stage(k)
  BY <1>1, SoloWorking
<1>3. PICK g \in Graphs : g = work[k].graph
  BY <1>1, SoloWorking
<1>4. PICK a \in 0..MaxNode : a = work[k].after
  BY <1>2 DEF WorkTypeOK
<1>5. LaidOut(g) /\ work[k].got = {r \in rows : r.node <= a}
  BY <1>1, <1>2, <1>3, <1>4 DEF Stage, LodSteps
<1>6. IsFiniteSet(rows) /\ \A r \in rows : r.node \in 1..MaxNode
  BY <1>1, <1>5, SoloWorking
<1>7. a \in Nat /\ \A r \in rows : r.node \in Nat
  BY <1>4, <1>6, GraphsHoldTheDomain
<1>8. LaidOut(g)' /\ rows' = rows /\ lod' = lod /\ overlap' = overlap /\ last' = last
  BY <1>5 DEF ReadPage, LaidOut
\* A short page completes the rows.
<1>9. Cardinality(Page(a)) < ChunkSize => work[k].got \cup Page(a) = rows
  <2> SUFFICES ASSUME Cardinality(Page(a)) < ChunkSize PROVE work[k].got \cup Page(a) = rows
    OBVIOUS
  <2>1. Page(a) = After(a)
    BY <1>6, <1>7, ShortPageIsLast
  <2>2. QED
    BY <1>5, <1>7, <2>1 DEF After
<1>10. CASE Page(a) = {} /\ Go(k, "lodClear")
  <2>1. /\ Moved(k) /\ work'[k].at = "lodClear"
        /\ work'[k].graph = work[k].graph /\ work'[k].got = work[k].got
    BY <1>1, <1>10, GoKeeps DEF Steps
  <2>2. work[k].got = rows
    <3>1. Cardinality(Page(a)) < ChunkSize
      BY <1>10, FS_EmptySet, BoundsAreNaturals
    <3>2. QED
      BY <1>9, <1>10, <3>1
  <2>3. Stage(k)'
    BY <1>3, <1>8, <2>1, <2>2 DEF Stage, LodSteps
  <2>4. QED
    BY <1>1, <1>8, <2>1, <2>3, SoloMoves DEF PyramidKept
<1>11. ASSUME NEW n \in 1..MaxNode, LastOf(Page(a), n), NEW s \in {"page", "lodClear"},
              s = "lodClear" => Cardinality(Page(a)) < ChunkSize,
              work' = [work EXCEPT ![k].got = @ \cup Page(a), ![k].after = n, ![k].at = s]
       PROVE  Solo'
  <2>1. PICK got : got = work[k].got \cup Page(a)
    OBVIOUS
  <2>2. got \in SUBSET Row /\ n \in 0..MaxNode /\ s \in Steps
    BY <1>2, <2>1 DEF WorkTypeOK, Steps, Page, After, StoreInv, TypeOK
  <2>3. /\ WorkTypeOK'
        /\ work'[k].at = s /\ work'[k].got = got /\ work'[k].after = n
        /\ work'[k].graph = work[k].graph /\ work'[k].run = work[k].run
        /\ \A j \in Workers \ {k} : work'[j] = work[j]
    <3>1. work' = [work EXCEPT ![k] = [@ EXCEPT !.got = got, !.after = n, !.at = s]]
      BY <1>2, <1>11, <2>1 DEF WorkTypeOK
    <3>2. QED
      BY <1>2, <2>2, <3>1 DEF WorkTypeOK
  <2>4. Moved(k)
    BY <1>1, <1>2, <2>3 DEF Moved, ActiveHasRun, At
  <2>5. got = {r \in rows : r.node <= n}
    <3>1. Page(a) = {r \in After(a) : r.node <= n}
      BY <1>6, <1>7, <1>11, PageHasNoGap
    <3>2. a < n
      BY <1>7, <1>11 DEF LastOf, NodesOf, Page, After
    <3>3. QED
      BY <1>5, <1>7, <2>1, <3>1, <3>2 DEF After
  <2>6. Stage(k)'
    BY <1>3, <1>8, <1>9, <1>11, <2>1, <2>3, <2>5 DEF Stage, LodSteps
  <2>7. QED
    BY <1>1, <1>8, <2>4, <2>6, SoloMoves DEF PyramidKept
<1>12. QED
  <2>1. CASE \E n \in 1..MaxNode :
               /\ LastOf(Page(a), n)
               /\ work' = [work EXCEPT ![k].got = @ \cup Page(a), ![k].after = n,
                      ![k].at = IF Cardinality(Page(a)) < ChunkSize THEN "lodClear" ELSE @]
    <3>1. PICK n \in 1..MaxNode :
               /\ LastOf(Page(a), n)
               /\ work' = [work EXCEPT ![k].got = @ \cup Page(a), ![k].after = n,
                      ![k].at = IF Cardinality(Page(a)) < ChunkSize THEN "lodClear" ELSE @]
      BY <2>1
    <3>2. CASE Cardinality(Page(a)) < ChunkSize
      <4>1. work' = [work EXCEPT ![k].got = @ \cup Page(a), ![k].after = n, ![k].at = "lodClear"]
        BY <3>1, <3>2
      <4>2. QED
        BY <1>11, <3>1, <3>2, <4>1
    <3>3. CASE ~(Cardinality(Page(a)) < ChunkSize)
      <4>1. work' = [work EXCEPT ![k].got = @ \cup Page(a), ![k].after = n, ![k].at = "page"]
        BY <1>1, <3>1, <3>3
      <4>2. QED
        BY <1>11, <3>1, <4>1
    <3>4. QED
      BY <3>2, <3>3
  <2>2. QED
    BY <1>4, <1>10, <2>1 DEF ReadPage

LEMMA ClearPyramidSolo ==
  ASSUME StoreInv, Solo, ~overlap, NEW k \in Workers, ClearPyramid(k) PROVE Solo'
<1>1. ~At(k, "idle") /\ work[k].at = "lodClear"
  BY DEF ClearPyramid, At
<1>2. /\ Moved(k) /\ work'[k].at = "lodInsert"
      /\ work'[k].graph = work[k].graph /\ work'[k].got = work[k].got
  BY <1>1, GoKeeps DEF ClearPyramid, Steps
<1>3. PICK g \in Graphs : g = work[k].graph
  BY <1>1, SoloWorking
<1>4. LaidOut(g) /\ work[k].got = rows
  BY <1>1, <1>3, SoloWorking DEF Stage, LodSteps
<1>5. /\ LaidOut(g)' /\ rows' = rows
      /\ \A h \in Graphs : lod'[h] = IF h = g THEN {} ELSE lod[h]
  BY <1>3, <1>4 DEF ClearPyramid, LaidOut, StoreInv, TypeOK
<1>6. Stage(k)'
  BY <1>2, <1>3, <1>4, <1>5 DEF Stage, LodSteps
<1>7. \A h \in Graphs : PyramidKept(h)
  BY <1>5 DEF PyramidKept
<1>8. QED
  BY <1>1, <1>2, <1>6, <1>7, SoloMoves DEF ClearPyramid

LEMMA InsertPyramidSolo ==
  ASSUME StoreInv, Solo, ~overlap, NEW k \in Workers, InsertPyramid(k) PROVE Solo'
<1>1. ~At(k, "idle") /\ work[k].at = "lodInsert"
  BY DEF InsertPyramid, At
<1>2. PICK g \in Graphs : g = work[k].graph
  BY <1>1, SoloWorking
<1>3. LaidOut(g) /\ work[k].got = rows /\ lod[g] = {} /\ rows # {}
  BY <1>1, <1>2, SoloWorking DEF Stage, LodSteps
<1>4. /\ Go(k, "prune") /\ last' = last /\ rows' = rows /\ overlap' = overlap
      /\ lod' = [lod EXCEPT ![g] = @ \cup rows]
  BY <1>2, <1>3 DEF InsertPyramid
<1>5. /\ Moved(k) /\ work'[k].at = "prune" /\ work'[k].graph = g
  BY <1>1, <1>2, <1>4, GoKeeps DEF Steps
<1>6. \A h \in Graphs : lod'[h] = IF h = g THEN rows ELSE lod[h]
  BY <1>3, <1>4 DEF StoreInv, TypeOK
<1>7. LaidOut(g)'
  BY <1>3, <1>4 DEF LaidOut
<1>8. Stage(k)'
  BY <1>3, <1>5, <1>6, <1>7 DEF Stage, LodSteps
<1>9. \A h \in Graphs : PyramidKept(h)
  BY <1>3, <1>6 DEF PyramidKept, LaidOut
<1>10. QED
  BY <1>1, <1>4, <1>5, <1>8, <1>9, SoloMoves

LEMMA PruneSolo ==
  ASSUME StoreInv, Solo, ~overlap, NEW k \in Workers, Prune(k) PROVE Solo'
<1>1. ~At(k, "idle") /\ work[k].at = "prune"
  BY DEF Prune, At
<1>2. PICK g \in Graphs : g = work[k].graph
  BY <1>1, SoloWorking
<1>3. LaidOut(g) /\ lod[g] # {}
  BY <1>1, <1>2, SoloWorking DEF Stage, LodSteps
<1>4. \A h \in Graphs : lod'[h] = IF h = g THEN lod[h] ELSE {}
  BY <1>2 DEF Prune
<1>5. OnlyPyramid(g)'
  BY <1>3, <1>4 DEF OnlyPyramid
<1>6. \A h \in Graphs : PyramidKept(h)
  BY <1>4 DEF PyramidKept
<1>7. QED
  BY <1>1, <1>2, <1>3, <1>5, <1>6, SoloAfterLayout DEF Prune

LEMMA ClearSnapshotSolo ==
  ASSUME StoreInv, Solo, ~overlap, NEW k \in Workers, ClearSnapshot(k) PROVE Solo'
<1>1. ~At(k, "idle") /\ work[k].at = "snapClear"
  BY DEF ClearSnapshot, At
<1>2. /\ Moved(k) /\ work'[k].at = "snapInsert"
      /\ work'[k].graph = work[k].graph /\ work'[k].ok = work[k].ok
  BY <1>1, GoKeeps DEF ClearSnapshot, Steps
<1>3. PICK g \in Graphs : g = work[k].graph
  BY <1>1, SoloWorking
<1>4. work[k].ok => LaidOut(g) /\ OnlyPyramid(g)
  BY <1>1, <1>3, SoloWorking DEF Stage
<1>5. (LaidOut(g)' <=> LaidOut(g)) /\ (OnlyPyramid(g)' <=> OnlyPyramid(g))
  BY DEF ClearSnapshot, LaidOut, OnlyPyramid
<1>6. Stage(k)'
  BY <1>2, <1>3, <1>4, <1>5 DEF Stage, LodSteps
<1>7. QED
  BY <1>1, <1>2, <1>6, SoloMoves DEF ClearSnapshot, PyramidKept

LEMMA InsertSnapshotSolo ==
  ASSUME StoreInv, Solo, ~overlap, NEW k \in Workers, InsertSnapshot(k) PROVE Solo'
<1>1. ~At(k, "idle") /\ work[k].at = "snapInsert" /\ snaps = {}
  BY DEF InsertSnapshot, At, StoreInv, GapIsEmpty
<1>2. PICK g \in Graphs : g = work[k].graph
  BY <1>1, SoloWorking
<1>3. work[k].ok => LaidOut(g) /\ OnlyPyramid(g)
  BY <1>1, <1>2, SoloWorking DEF Stage
<1>4. (LaidOut(g)' <=> LaidOut(g)) /\ (OnlyPyramid(g)' <=> OnlyPyramid(g))
  BY DEF InsertSnapshot, LaidOut, OnlyPyramid
<1>5. snaps' = {g}
  BY <1>1, <1>2 DEF InsertSnapshot
<1>6. QED
  BY <1>1, <1>2, <1>3, <1>4, <1>5, SoloEnds DEF InsertSnapshot, PyramidKept

LEMMA DieSolo ==
  ASSUME StoreInv, Solo, ~overlap, NEW k \in Workers, Die(k) PROVE Solo'
<1>1. ~At(k, "idle")
  BY DEF Die
<1>2. Moved(k) /\ work'[k].at = "idle"
  BY <1>1, RestMoves, SoloWorking DEF Die
<1>3. QED
  BY <1>1, <1>2, SoloMoves DEF Die, PyramidKept

LEMMA StatementFailsSolo ==
  ASSUME StoreInv, Solo, ~overlap, NEW k \in Workers, StatementFails(k) PROVE Solo'
<1>1. ~At(k, "idle") /\ overlap' = overlap /\ last' = last /\ rows' = rows /\ lod' = lod
  BY DEF StatementFails, At, LodSteps
<1>2. WorkTypeOK /\ ActiveHasRun /\ Stage(k)
  BY <1>1, SoloWorking
<1>3. Moved(k) /\ (work'[k].at # "idle" => Stage(k)')
  <2>1. CASE work[k].at = "check" /\ Go(k, "clear")
    <3>1. /\ Moved(k) /\ work'[k].at = "clear"
          /\ work'[k].got = work[k].got /\ work'[k].after = work[k].after
      BY <1>1, <2>1, GoKeeps DEF Steps
    <3>2. QED
      BY <1>2, <2>1, <3>1 DEF Stage, LodSteps
  <2>2. CASE work' = [work EXCEPT ![k] = Idle]
    BY <1>2, <2>2, RestMoves
  <2>3. CASE k \in Builders /\ work' = [work EXCEPT ![k] =
                                         [@ EXCEPT !.at = "snapClear", !.ok = FALSE]]
    <3>1. /\ WorkTypeOK'
          /\ work'[k].at = "snapClear" /\ work'[k].ok = FALSE
          /\ work'[k].graph = work[k].graph
          /\ work'[k].run = work[k].run
          /\ \A j \in Workers \ {k} : work'[j] = work[j]
      BY <1>2, <2>3 DEF WorkTypeOK, Steps
    <3>2. Moved(k)
      BY <1>1, <1>2, <3>1 DEF ActiveHasRun, At, Moved
    <3>3. Stage(k)'
      BY <3>1 DEF Stage, LodSteps
    <3>4. QED
      BY <3>2, <3>3
  <2>4. QED
    BY <2>1, <2>2, <2>3 DEF StatementFails, At
<1>4. QED
  BY <1>1, <1>3, SoloMoves DEF PyramidKept

LEMMA SoloStep == StoreInv /\ Solo /\ [Next]_vars => Solo'
<1> SUFFICES ASSUME StoreInv, Solo, [Next]_vars PROVE Solo'
  OBVIOUS
<1>1. CASE UNCHANGED vars
  BY <1>1 DEF vars, Solo, Alone, Stage, LaidOut, OnlyPyramid, At, PyramidIsWhole,
              UndisturbedRunIsStored, Quiet
<1>2. ASSUME NEW k \in Workers, NEW g \in Graphs, Begin(k, g) PROVE Solo'
  BY <1>2, BeginSolo
\* Once two workers have overlapped there is nothing to show.
<1>3. CASE overlap'
  BY <1>3 DEF Solo, PyramidIsWhole, UndisturbedRunIsStored
<1>4. ASSUME ~overlap', NEW k \in Workers, Step(k) \/ Die(k) \/ StatementFails(k) PROVE Solo'
  <2>1. ~overlap
    BY <1>4 DEF Step, Check, ClearRows, InsertRows, InsertCollides, LookForPyramid, ReadPage,
                ClearPyramid, InsertPyramid, Prune, ClearSnapshot, InsertSnapshot,
                Die, StatementFails
  <2>2. QED
    BY <1>4, <2>1, CheckSolo, ClearRowsSolo, InsertRowsSolo, InsertCollidesSolo,
       LookForPyramidSolo, ReadPageSolo, ClearPyramidSolo, InsertPyramidSolo, PruneSolo,
       ClearSnapshotSolo, InsertSnapshotSolo, DieSolo, StatementFailsSolo DEF Step
<1>5. QED
  BY <1>1, <1>2, <1>3, <1>4 DEF Next

\* While no two workers overlap, a stored pyramid was binned from all the rows
\* of one layout, for any graphs and any page size, whoever is killed where.
THEOREM PyramidsAreWhole == Spec => []PyramidIsWhole
<1>1. Init => StoreInv /\ Solo
  BY InitInv, SoloInit
<1>2. StoreInv /\ Solo /\ [Next]_vars => StoreInv' /\ Solo'
  BY NextInv, SoloStep
<1>3. Solo => PyramidIsWhole
  BY DEF Solo
<1>4. QED
  BY <1>1, <1>2, <1>3, PTL DEF Spec

\* A run that nothing disturbs leaves its layout, its pyramid and no other,
\* and in a build child its snapshot, whatever earlier runs have left behind.
THEOREM UndisturbedRunsAreStored == Spec => []UndisturbedRunIsStored
<1>1. Init => StoreInv /\ Solo
  BY InitInv, SoloInit
<1>2. StoreInv /\ Solo /\ [Next]_vars => StoreInv' /\ Solo'
  BY NextInv, SoloStep
<1>3. Solo => UndisturbedRunIsStored
  BY DEF Solo
<1>4. QED
  BY <1>1, <1>2, <1>3, PTL DEF Spec
=============================================================================
