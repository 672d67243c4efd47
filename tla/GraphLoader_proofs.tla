------------------------ MODULE GraphLoader_proofs -------------------------
(***************************************************************************)
(* For any graphs, water marks, windows, changes of the snapshot and lost  *)
(* connections: what a page counts as loaded is one whole graph that was   *)
(* on the shelf since it asked.  The frames of that graph are, at every    *)
(* moment, cut into four pieces that follow one another: what is applied,  *)
(* what is queued, what the sockets hold, and what is still to be written. *)
(***************************************************************************)
EXTENDS GraphLoader, FiniteSetTheorems, SequenceTheorems, TLAPS

\* Sequence s is the frames of F after place a, up to place b.
Slice(s, F, a, b) == Len(s) = b - a /\ \A i \in 1..Len(s) : s[i] = F[a + i]

NodesUpTo(F, a) == {F[i].n : i \in {j \in 1..a : F[j].kind = "node"}}

\* Places a, b and c cut the frames F into the four pieces.
Cuts(F, a, b, c) ==
  /\ a <= b /\ b <= c
  /\ got = NodesUpTo(F, a)
  /\ Slice(queue, F, a, b)
  /\ Slice(conn.pipe, F, b, c)
  /\ conn.left = <<>> \/ Slice(conn.left, F, c, Len(F))
  /\ counts.done => a = Len(F)

Delivering(F) == \E a, b, c \in 0..Len(F) : Cuts(F, a, b, c)

\* A stream delivers a graph that was on the shelf since the page asked.
InStream == at = "stream" => \E g \in seen : Delivering(FramesOf(g))

\* Between two attempts nothing is kept of the first.
Offline ==
  at \notin {"stream", "loaded"} =>
    conn = NoConn /\ reader = "off" /\ queue = <<>> /\ counts = NoCounts /\ got = {}

Delivered == at = "loaded" => got \in seen
Shown == page = "galaxy" => got \subseteq canvas
Shelved == served # Nothing => served \in seen

LoaderInv == TypeOK /\ InStream /\ Offline /\ Delivered /\ Shown /\ Shelved

-----------------------------------------------------------------------------
(* Frames.                                                                 *)

\* SetToSeq of a finite set lists each of its members once.
LEMMA Listing ==
  ASSUME NEW S, IsFiniteSet(S)
  PROVE  /\ SetToSeq(S) \in [1..Cardinality(S) -> S]
         /\ \A x \in S : \E i \in 1..Cardinality(S) : SetToSeq(S)[i] = x
<1> DEFINE D == 1..Cardinality(S)
<1>1. Cardinality(S) \in Nat /\ ExistsBijection(D, S)
  BY FS_CardinalityType
<1>2. PICK h \in Bijection(D, S) : TRUE
  BY <1>1 DEF ExistsBijection
<1>3. h \in [D -> S] /\ IsInjective(h)
  BY <1>2 DEF Bijection, Injection
<1>4. SetToSeq(S) \in [D -> S] /\ IsInjective(SetToSeq(S))
  BY <1>3 DEF SetToSeq
<1>5. SetToSeq(S) \in Injection(D, S)
  BY <1>4 DEF Injection
<1>6. Cardinality(D) = Cardinality(S)
  BY <1>1, FS_Bijection, FS_Interval
<1>7. SetToSeq(S) \in Surjection(D, S)
  BY <1>5, <1>6, FS_Injection
<1>8. \A x \in S : \E i \in D : SetToSeq(S)[i] = x
  BY <1>7 DEF Surjection
<1>9. QED
  BY <1>4, <1>8

\* The frames of a graph: its nodes, and the terminator at the end only.
LEMMA Frames ==
  ASSUME NEW g \in Graphs
  PROVE  /\ FramesOf(g) \in Seq(FrameType) /\ Len(FramesOf(g)) \in Nat
         /\ NodesUpTo(FramesOf(g), Len(FramesOf(g))) = g
         /\ \A i \in 1..Len(FramesOf(g)) :
              FramesOf(g)[i].kind = "done" => i = Len(FramesOf(g))
<1> DEFINE S == {NodeFrame(x) : x \in g}
           N == Cardinality(S)
           F == FramesOf(g)
<1>1. IsFiniteSet(g) /\ g \subseteq Node
  BY GraphsAreGraphs DEF Node
<1>2. IsFiniteSet(S)
  <2> DEFINE h == [x \in g |-> NodeFrame(x)]
  <2>1. h \in Surjection(g, S)
    BY DEF Surjection
  <2>2. QED
    BY <1>1, <2>1, FS_Surjection
<1>3. N \in Nat /\ Cardinality(g) \in Nat
  BY <1>1, <1>2, FS_CardinalityType
<1>4. /\ SetToSeq(S) \in [1..N -> S]
      /\ \A x \in S : \E i \in 1..N : SetToSeq(S)[i] = x
  BY <1>2, Listing
<1>5. S \subseteq FrameType /\ \A f \in S : f.kind = "node" /\ f.n \in g
  BY <1>1 DEF NodeFrame, FrameType
<1> DEFINE M == SetToSeq(S)
<1> HIDE DEF M, S, N, F
<1>6. M \in Seq(FrameType) /\ Len(M) = N /\ \A i \in 1..N : M[i] \in S
  <2>1. M \in Seq(S) /\ Len(M) = N
    BY <1>3, <1>4 DEF M
  <2>2. QED
    BY <1>4, <1>5, <2>1, SeqMonotonic DEF M
<1>7. Header(g) \in FrameType /\ DoneFrame \in FrameType /\ Header(g).kind = "header"
      /\ DoneFrame.kind = "done"
  BY <1>3 DEF Header, DoneFrame, FrameType
<1>8. F = <<Header(g)>> \o M \o <<DoneFrame>>
  BY DEF FramesOf, F, M, S
<1>9. /\ F \in Seq(FrameType) /\ Len(F) = N + 2
      /\ F[1] = Header(g) /\ F[N + 2] = DoneFrame
      /\ \A i \in 1..N : F[i + 1] = M[i]
  BY <1>3, <1>6, <1>7, <1>8
<1>10. \A i \in 2..(N + 1) : F[i] = M[i - 1] /\ M[i - 1] \in S
  BY <1>3, <1>6, <1>9
<1>11. \A i \in 1..(N + 2) : /\ F[i].kind = "done" => i = N + 2
                             /\ F[i].kind = "node" => F[i].n \in g
  BY <1>3, <1>5, <1>7, <1>9, <1>10
<1>12. \A x \in g : \E i \in 1..(N + 2) : F[i].kind = "node" /\ F[i].n = x
  <2> SUFFICES ASSUME NEW x \in g
               PROVE  \E i \in 1..(N + 2) : F[i].kind = "node" /\ F[i].n = x
    OBVIOUS
  <2>1. NodeFrame(x) \in S
    BY DEF S
  <2>2. PICK i \in 1..N : M[i] = NodeFrame(x)
    BY <1>4, <2>1 DEF M
  <2>3. F[i + 1].kind = "node" /\ F[i + 1].n = x /\ i + 1 \in 1..(N + 2)
    BY <1>3, <1>9, <2>2 DEF NodeFrame
  <2>4. QED
    BY <2>3
<1>13. NodesUpTo(F, N + 2) = g
  BY <1>11, <1>12 DEF NodesUpTo
<1>14. QED
  BY <1>3, <1>9, <1>11, <1>13 DEF F

-----------------------------------------------------------------------------
(* Slices.                                                                 *)

LEMMA SliceSplit ==
  ASSUME NEW T, NEW s \in Seq(T), NEW F, NEW a \in Nat, NEW b \in Nat,
         Slice(s, F, a, b), NEW n \in 0..Len(s)
  PROVE  /\ Slice(SubSeq(s, 1, n), F, a, a + n)
         /\ Slice(SubSeq(s, n + 1, Len(s)), F, a + n, b)
         /\ SubSeq(s, 1, n) \in Seq(T) /\ SubSeq(s, n + 1, Len(s)) \in Seq(T)
         /\ a + n \in Nat /\ a + n <= b
<1>1. Len(s) = b - a /\ Len(s) \in Nat /\ \A i \in 1..Len(s) : s[i] = F[a + i] /\ s[i] \in T
  BY DEF Slice
<1>2. /\ SubSeq(s, 1, n) \in Seq(T) /\ Len(SubSeq(s, 1, n)) = n
      /\ \A i \in 1..n : SubSeq(s, 1, n)[i] = s[i]
  BY <1>1, SubSeqProperties
<1>3. /\ SubSeq(s, n + 1, Len(s)) \in Seq(T) /\ Len(SubSeq(s, n + 1, Len(s))) = Len(s) - n
      /\ \A i \in 1..(Len(s) - n) : SubSeq(s, n + 1, Len(s))[i] = s[n + i]
  BY <1>1, SubSeqProperties
<1>4. Slice(SubSeq(s, 1, n), F, a, a + n)
  BY <1>1, <1>2 DEF Slice
<1>5. \A i \in 1..(Len(s) - n) : s[n + i] = F[(a + n) + i]
  BY <1>1
<1>6. Slice(SubSeq(s, n + 1, Len(s)), F, a + n, b)
  BY <1>1, <1>3, <1>5 DEF Slice
<1>7. QED
  BY <1>1, <1>2, <1>3, <1>4, <1>6

LEMMA SliceJoin ==
  ASSUME NEW T, NEW s \in Seq(T), NEW t \in Seq(T), NEW F,
         NEW a \in Nat, NEW b \in Nat, NEW c \in Nat,
         Slice(s, F, a, b), Slice(t, F, b, c)
  PROVE  Slice(s \o t, F, a, c)
<1>1. /\ Len(s) = b - a /\ \A i \in 1..Len(s) : s[i] = F[a + i]
      /\ Len(t) = c - b /\ \A i \in 1..Len(t) : t[i] = F[b + i]
      /\ Len(s) \in Nat /\ Len(t) \in Nat
  BY DEF Slice
<1>2. Len(s \o t) = c - a
  <2>1. Len(s \o t) = Len(s) + Len(t)
    BY ConcatProperties
  <2>2. QED
    BY <1>1, <2>1
<1>3. ASSUME NEW i \in 1..Len(s \o t) PROVE (s \o t)[i] = F[a + i]
  <2>1. CASE i <= Len(s)
    BY <1>1, <1>2, <2>1
  <2>2. CASE i > Len(s)
    <3>1. (s \o t)[i] = t[i - Len(s)] /\ i - Len(s) \in 1..Len(t)
      BY <1>1, <1>2, <2>2
    <3>2. t[i - Len(s)] = F[b + (i - Len(s))] /\ b + (i - Len(s)) = a + i
      BY <1>1, <3>1
    <3>3. QED
      BY <3>1, <3>2
  <2>3. QED
    BY <1>1, <2>1, <2>2
<1>4. QED
  BY <1>2, <1>3 DEF Slice

LEMMA SliceMove ==
  ASSUME NEW T, NEW s \in Seq(T), NEW t \in Seq(T), t # <<>>, NEW F,
         NEW b \in Nat, NEW c \in Nat, NEW d \in Nat,
         Slice(s, F, b, c), Slice(t, F, c, d)
  PROVE  /\ c + 1 <= d
         /\ Slice(Append(s, Head(t)), F, b, c + 1)
         /\ Slice(Tail(t), F, c + 1, d)
<1>1. /\ Len(s) = c - b /\ \A i \in 1..Len(s) : s[i] = F[b + i]
      /\ Len(t) = d - c /\ \A i \in 1..Len(t) : t[i] = F[c + i]
      /\ Len(s) \in Nat /\ Len(t) \in Nat \ {0}
  BY EmptySeq DEF Slice
<1>2. Head(t) = F[c + 1]
  BY <1>1
<1>3. Slice(Append(s, Head(t)), F, b, c + 1)
  <2> DEFINE u == Append(s, Head(t))
  <2>1. /\ Len(u) = Len(s) + 1 /\ u[Len(s) + 1] = Head(t)
        /\ \A i \in 1..Len(s) : u[i] = s[i]
    BY <1>1, AppendProperties
  <2> HIDE DEF u
  <2>2. Len(u) = (c + 1) - b
    BY <1>1, <2>1
  <2>3. ASSUME NEW i \in 1..Len(u) PROVE u[i] = F[b + i]
    <3>1. CASE i = Len(s) + 1
      BY <1>1, <1>2, <2>1, <3>1
    <3>2. CASE i \in 1..Len(s)
      BY <1>1, <2>1, <3>2
    <3>3. QED
      BY <1>1, <2>1, <3>1, <3>2
  <2>4. QED
    BY <2>2, <2>3 DEF Slice, u
<1>4. Slice(Tail(t), F, c + 1, d)
  <2>1. Len(Tail(t)) = Len(t) - 1 /\ \A i \in 1..(Len(t) - 1) : Tail(t)[i] = t[i + 1]
    BY HeadTailProperties
  <2>2. \A i \in 1..(Len(t) - 1) : t[i + 1] = F[(c + 1) + i]
    BY <1>1
  <2>3. QED
    BY <1>1, <2>1, <2>2 DEF Slice
<1>5. QED
  BY <1>1, <1>3, <1>4

\* What a slice brings.
LEMMA SliceNodes ==
  ASSUME NEW T, NEW s \in Seq(T), NEW F, NEW a \in Nat, NEW b \in Nat,
         Slice(s, F, a, b)
  PROVE  /\ NodesUpTo(F, b) = NodesUpTo(F, a) \cup NodesIn(s)
         /\ DoneIn(s) => \E i \in 1..b : F[i].kind = "done" /\ a < i
<1>1. /\ Len(s) = b - a /\ \A i \in 1..Len(s) : s[i] = F[a + i]
      /\ DOMAIN s = 1..Len(s) /\ Len(s) \in Nat
  BY LenProperties DEF Slice
<1>2. \A i \in 1..b : i \in 1..a \/ (i - a \in 1..Len(s) /\ F[i] = s[i - a])
  <2> SUFFICES ASSUME NEW i \in 1..b, i \notin 1..a
               PROVE  i - a \in 1..Len(s) /\ F[i] = s[i - a]
    OBVIOUS
  <2>1. i - a \in 1..Len(s) /\ a + (i - a) = i
    BY <1>1
  <2>2. QED
    BY <1>1, <2>1
<1>3. \A i \in 1..Len(s) : a + i \in 1..b /\ s[i] = F[a + i]
  BY <1>1
<1>4. 1..a \subseteq 1..b
  BY <1>1
<1>5. NodesUpTo(F, b) = NodesUpTo(F, a) \cup NodesIn(s)
  <2>1. NodesIn(s) = {s[i].n : i \in {j \in 1..Len(s) : s[j].kind = "node"}}
    BY <1>1 DEF NodesIn, NodeFramesIn
  <2>2. ASSUME NEW i \in 1..b, F[i].kind = "node"
        PROVE  F[i].n \in NodesUpTo(F, a) \/ F[i].n \in NodesIn(s)
    <3>1. CASE i \in 1..a
      BY <2>2, <3>1 DEF NodesUpTo
    <3>2. CASE i - a \in 1..Len(s) /\ F[i] = s[i - a]
      BY <2>1, <2>2, <3>2
    <3>3. QED
      BY <1>2, <3>1, <3>2
  <2>3. ASSUME NEW i \in 1..Len(s), s[i].kind = "node"
        PROVE  s[i].n \in NodesUpTo(F, b)
    <3>1. a + i \in 1..b /\ F[a + i].kind = "node" /\ F[a + i].n = s[i].n
      BY <1>3, <2>3
    <3>2. QED
      BY <3>1 DEF NodesUpTo
  <2>4. NodesUpTo(F, a) \subseteq NodesUpTo(F, b)
    BY <1>4 DEF NodesUpTo
  <2>5. NodesUpTo(F, b) \subseteq NodesUpTo(F, a) \cup NodesIn(s)
    BY <2>2 DEF NodesUpTo
  <2>6. NodesIn(s) \subseteq NodesUpTo(F, b)
    BY <2>1, <2>3
  <2>7. QED
    BY <2>4, <2>5, <2>6
<1>6. ASSUME DoneIn(s) PROVE \E i \in 1..b : F[i].kind = "done" /\ a < i
  <2>1. PICK i \in 1..Len(s) : s[i].kind = "done"
    BY <1>1, <1>6 DEF DoneIn
  <2>2. a + i \in 1..b /\ F[a + i].kind = "done" /\ a < a + i
    BY <1>1, <1>3, <2>1
  <2>3. QED
    BY <2>2
<1>7. QED
  BY <1>5, <1>6

\* A sequence of frames holds nodes of graphs.
LEMMA NodesAreNodes ==
  ASSUME NEW s \in Seq(FrameType)
  PROVE  NodesIn(s) \subseteq Node /\ CountIn(s) \in Nat
<1>1. DOMAIN s = 1..Len(s) /\ Len(s) \in Nat /\ \A i \in 1..Len(s) : s[i] \in FrameType
  BY LenProperties, ElementOfSeq
<1>2. NodesIn(s) \subseteq Node
  BY <1>1 DEF NodesIn, NodeFramesIn, FrameType
<1>3. IsFiniteSet(1..Len(s)) /\ NodeFramesIn(s) \in SUBSET (1..Len(s))
  BY <1>1, FS_Interval DEF NodeFramesIn
<1>4. CountIn(s) \in Nat
  BY <1>3, FS_Subset, FS_CardinalityType DEF CountIn
<1>5. QED
  BY <1>2, <1>4

-----------------------------------------------------------------------------
(* Types.                                                                  *)

ConnType ==
  [left : Seq(FrameType), pipe : Seq(FrameType), state : {"none", "open", "closed", "reset"}]
CountsType == [total : Nat, nodes : Nat, done : BOOLEAN]

LEMMA Empties ==
  /\ <<>> \in Seq(FrameType)
  /\ NoConn \in ConnType /\ NoCounts \in CountsType
<1>1. <<>> \in Seq(FrameType)
  BY EmptySeq
<1>2. QED
  BY <1>1 DEF NoConn, NoCounts, ConnType, CountsType

LEMMA TypeInitial == Init => TypeOK
<1> SUFFICES ASSUME Init PROVE TypeOK
  OBVIOUS
<1>1. conn \in ConnType /\ counts \in CountsType /\ queue \in Seq(FrameType)
  BY Empties DEF Init
<1>2. served \in Graphs \cup {Nothing} /\ seen \subseteq Graphs
  BY DEF Init
<1>3. tries \in [stream : 1..2, document : 0..2] /\ loads \in 1..2
  BY DEF Init
<1>4. changes \in 0..MaxChanges /\ faults \in 0..MaxFaults
  BY LoaderBounds DEF Init
<1>5. got \subseteq Node /\ canvas \subseteq Node \cup Partial
  BY DEF Init
<1>6. QED
  BY <1>1, <1>2, <1>3, <1>4, <1>5 DEF Init, TypeOK, ConnType, CountsType

\* Neither the shelf nor the build moves the page.
LEMMA ShelfTypes == ASSUME TypeOK, ShelfMoves \/ BuildEnds PROVE TypeOK'
<1>1. CASE ShelfMoves
  <2>1. served' \in Graphs \cup {Nothing} /\ seen' \subseteq Graphs
    BY <1>1 DEF ShelfMoves, Shelf!Next, Shelf!Withdraw, Shelf!Publish, TypeOK
  <2>2. changes' \in 0..MaxChanges
    BY <1>1, LoaderBounds DEF ShelfMoves, TypeOK
  <2>3. QED
    BY <1>1, <2>1, <2>2 DEF ShelfMoves, loader, TypeOK
<1>2. CASE BuildEnds
  BY <1>2 DEF BuildEnds, loader, TypeOK
<1>3. QED
  BY <1>1, <1>2

\* The connection alone moves.
LEMMA ConnTypes ==
  ASSUME TypeOK, Write \/ Close \/ Cut
  PROVE  /\ conn' \in ConnType /\ faults' \in 0..MaxFaults
         /\ UNCHANGED <<page, shelf, loader, canvas, at, tries, loads>>
<1>0. conn \in ConnType
  BY DEF TypeOK, ConnType
<1>1. CASE Write
  <2>1. conn.left \in Seq(FrameType) /\ conn.left # <<>> /\ conn.pipe \in Seq(FrameType)
    BY <1>0, <1>1 DEF Write, ConnType
  <2>2. Tail(conn.left) \in Seq(FrameType) /\ Append(conn.pipe, Head(conn.left)) \in Seq(FrameType)
    BY <2>1, HeadTailProperties, AppendProperties
  <2>3. QED
    BY <1>0, <1>1, <2>2 DEF Write, ConnType, TypeOK
<1>2. CASE Close
  BY <1>0, <1>2 DEF Close, ConnType, TypeOK
<1>3. CASE Cut
  <2>1. PICK n \in 0..Len(conn.pipe), s \in {"closed", "reset"} :
          conn' = [left |-> <<>>, pipe |-> SubSeq(conn.pipe, 1, n), state |-> s]
    BY <1>3 DEF Cut
  <2>2. \A i \in 1..n : conn.pipe[i] \in FrameType
    BY <1>0, ElementOfSeq DEF ConnType
  <2>3. n \in Int
    BY <1>0, LenProperties DEF ConnType
  <2>4. SubSeq(conn.pipe, 1, n) \in Seq(FrameType)
    BY <2>2, <2>3, SubSeqProperties
  <2>5. conn' \in ConnType
    BY <2>1, <2>4, Empties DEF ConnType
  <2>6. QED
    BY <1>3, <2>5, LoaderBounds DEF Cut, TypeOK
<1>4. QED
  BY <1>1, <1>2, <1>3

LEMMA ReadTypes == ASSUME TypeOK, Read \/ ReadEnd PROVE TypeOK'
<1>0. conn \in ConnType /\ counts \in CountsType /\ queue \in Seq(FrameType)
  BY DEF TypeOK, ConnType, CountsType
<1>1. CASE Read
  <2>1. PICK n \in 1..Len(conn.pipe) :
          LET frames == SubSeq(conn.pipe, 1, n)
              totals == {frames[i].n : i \in {j \in 1..n : frames[j].kind = "header"}}
          IN  /\ queue' = queue \o frames
              /\ counts' \in IF totals = {} THEN {counts}
                             ELSE {[counts EXCEPT !.total = t] : t \in totals}
              /\ conn' = [conn EXCEPT !.pipe = SubSeq(@, n + 1, Len(@))]
              /\ reader' = ReadMore(Len(queue'))
    BY <1>1 DEF Read
  <2> DEFINE frames == SubSeq(conn.pipe, 1, n)
             rest == SubSeq(conn.pipe, n + 1, Len(conn.pipe))
  <2>2. conn.pipe \in Seq(FrameType) /\ Len(conn.pipe) \in Nat
    BY <1>0, LenProperties DEF ConnType
  <2>3. \A i \in 1..Len(conn.pipe) : conn.pipe[i] \in FrameType
    BY <2>2, ElementOfSeq
  <2>4. /\ frames \in Seq(FrameType) /\ rest \in Seq(FrameType)
        /\ \A i \in 1..n : frames[i] = conn.pipe[i]
    BY <2>2, <2>3, SubSeqProperties
  <2>5. \A i \in 1..n : frames[i].kind = "header" => frames[i].n \in Nat
    BY <2>2, <2>3, <2>4 DEF FrameType
  <2> HIDE DEF frames, rest
  <2>6. /\ queue' = queue \o frames
        /\ counts' = counts \/ \E i \in 1..n : /\ frames[i].kind = "header"
                                               /\ counts' = [counts EXCEPT !.total = frames[i].n]
        /\ conn' = [conn EXCEPT !.pipe = rest]
        /\ reader' \in {"idle", "reading"}
    BY <2>1 DEF frames, rest, ReadMore
  <2>7. queue' \in Seq(FrameType)
    BY <1>0, <2>4, <2>6, ConcatProperties
  <2>8. counts' \in CountsType
    BY <1>0, <2>5, <2>6 DEF CountsType
  <2>9. conn' \in ConnType
    BY <1>0, <2>4, <2>6 DEF ConnType
  <2>10. UNCHANGED <<page, shelf, got, canvas, at, tries, loads, faults>>
    BY <1>1 DEF Read
  <2>11. QED
    BY <2>6, <2>7, <2>8, <2>9, <2>10 DEF TypeOK, shelf, ConnType, CountsType
<1>2. CASE ReadEnd
  BY <1>2 DEF ReadEnd, shelf, TypeOK
<1>3. QED
  BY <1>1, <1>2

\* What is queued is cut in two: the batch and the rest.
LEMMA PumpTypes == ASSUME TypeOK, Pump PROVE TypeOK'
<1>0. counts \in CountsType /\ queue \in Seq(FrameType) /\ Len(queue) \in Nat
  BY LenProperties DEF TypeOK, CountsType
<1>1. PICK n \in Batch :
        /\ Apply(SubSeq(queue, 1, n))
        /\ queue' = SubSeq(queue, n + 1, Len(queue))
        /\ reader' = IF reader = "idle" /\ Len(queue') <= Low
                     THEN ReadMore(Len(queue')) ELSE reader
  BY DEF Pump
<1> DEFINE frames == SubSeq(queue, 1, n)
<1>2. n \in 0..Len(queue)
  BY <1>0, <1>1 DEF Batch
<1>3. \A i \in 1..Len(queue) : queue[i] \in FrameType
  BY <1>0, ElementOfSeq
<1>4. frames \in Seq(FrameType) /\ queue' \in Seq(FrameType)
  BY <1>0, <1>1, <1>2, <1>3, SubSeqProperties
<1> HIDE DEF frames
<1>5. NodesIn(frames) \subseteq Node /\ CountIn(frames) \in Nat /\ DoneIn(frames) \in BOOLEAN
  BY <1>4, NodesAreNodes DEF DoneIn
<1>6. /\ got' = got \cup NodesIn(frames)
      /\ canvas' = IF page = "galaxy" THEN canvas \cup NodesIn(frames) ELSE canvas
      /\ counts' = [counts EXCEPT !.nodes = @ + CountIn(frames), !.done = @ \/ DoneIn(frames)]
  BY <1>1 DEF Apply, frames
<1>7. counts' \in CountsType
  <2> DEFINE m == counts.nodes + CountIn(frames)
             d == counts.done \/ DoneIn(frames)
  <2>1. m \in Nat /\ d \in BOOLEAN
    BY <1>0, <1>5 DEF CountsType
  <2>2. counts' = [counts EXCEPT !.nodes = m, !.done = d]
    BY <1>6
  <2> HIDE DEF m, d
  <2>3. QED
    BY <1>0, <2>1, <2>2 DEF CountsType
<1>8. got' \subseteq Node /\ canvas' \subseteq Node \cup Partial
  BY <1>5, <1>6 DEF TypeOK
<1>9. reader' \in {"off", "reading", "idle", "done"}
  BY <1>1 DEF TypeOK, ReadMore
<1>10. UNCHANGED <<page, shelf, conn, at, tries, loads, faults>>
  BY DEF Pump
<1>11. QED
  BY <1>4, <1>7, <1>8, <1>9, <1>10 DEF TypeOK, shelf, CountsType

\* The page moves on, and forgets what it was sent or keeps it.
LEMMA PageTypes ==
  ASSUME TypeOK,
         \/ Open \/ NotOpened \/ Broken \/ Loaded \/ Truncated
         \/ Document \/ NoDocument \/ DocumentFails \/ Poll
  PROVE  TypeOK'
<1>1. CASE Open
  <2>1. served \in Graphs
    BY <1>1 DEF Open, TypeOK
  <2>2. FramesOf(served) \in Seq(FrameType)
    BY <2>1, Frames
  <2>3. QED
    BY <1>1, <2>2, Empties DEF Open, TypeOK, shelf
<1>2. CASE NotOpened
  BY <1>2, LoaderBounds DEF NotOpened, TryDocument, TypeOK, shelf, loader
<1>3. CASE Broken \/ Truncated
  <2>1. /\ conn' \in ConnType /\ counts' \in CountsType /\ queue' \in Seq(FrameType)
        /\ reader' = "off" /\ got' = {}
    BY <1>3, Empties DEF Broken, Truncated, Reset
  <2>2. /\ tries' \in [stream : 1..2, document : 0..2]
        /\ at' \in {"ask", "document"}
        /\ UNCHANGED <<page, shelf, canvas, loads, faults>>
    BY <1>3 DEF Broken, Truncated, TryDocument, TypeOK
  <2>3. QED
    BY <2>1, <2>2 DEF TypeOK, shelf, ConnType, CountsType
<1>4. CASE Loaded
  BY <1>4 DEF Loaded, TypeOK, shelf, loader
<1>5. CASE Document
  <2>1. served \subseteq Node
    BY <1>5 DEF Document, TypeOK, Node
  <2>2. QED
    BY <1>5, <2>1 DEF Document, TypeOK, shelf
<1>6. CASE NoDocument
  BY <1>6 DEF NoDocument, TryDocument, GiveUp, TypeOK, shelf, loader
<1>7. CASE DocumentFails
  BY <1>7, LoaderBounds DEF DocumentFails, TryDocument, GiveUp, TypeOK, shelf, loader
<1>8. CASE Poll
  BY <1>8 DEF Poll, TypeOK, shelf, loader
<1>9. QED
  BY <1>1, <1>2, <1>3, <1>4, <1>5, <1>6, <1>7, <1>8

LEMMA TypeStep == TypeOK /\ [Next]_vars => TypeOK'
<1> SUFFICES ASSUME TypeOK, [Next]_vars PROVE TypeOK'
  OBVIOUS
<1>1. CASE Write \/ Close \/ Cut
  BY <1>1, ConnTypes DEF TypeOK, shelf, loader, ConnType
<1>2. CASE UNCHANGED vars
  BY <1>2 DEF vars, shelf, loader, TypeOK
<1>3. QED
  BY <1>1, <1>2, ShelfTypes, ReadTypes, PumpTypes, PageTypes DEF Next, Server, Browser

-----------------------------------------------------------------------------
(* The stream.                                                             *)

\* The server's thread, the network and the reader move the places on.
LEMMA ConnDelivers ==
  ASSUME TypeOK, NEW F \in Seq(FrameType), Delivering(F),
         Write \/ Close \/ Cut
  PROVE  Delivering(F)'
<1>0. /\ Len(F) \in Nat
      /\ conn.left \in Seq(FrameType) /\ conn.pipe \in Seq(FrameType) /\ conn \in ConnType
  BY LenProperties DEF TypeOK, ConnType
<1>1. UNCHANGED <<queue, got, counts>>
  BY DEF Write, Close, Cut, loader
<1>2. PICK a \in 0..Len(F), b \in 0..Len(F), c \in 0..Len(F) : Cuts(F, a, b, c)
  BY DEF Delivering
<1>3. /\ a <= b /\ b <= c /\ a \in Nat /\ b \in Nat /\ c \in Nat
      /\ Slice(conn.pipe, F, b, c)
      /\ conn.left = <<>> \/ Slice(conn.left, F, c, Len(F))
  BY <1>0, <1>2 DEF Cuts
<1>4. ASSUME NEW d \in 0..Len(F), b <= d, Slice(conn'.pipe, F, b, d),
             conn'.left = <<>> \/ Slice(conn'.left, F, d, Len(F))
      PROVE  Delivering(F)'
  <2>1. Cuts(F, a, b, d)'
    BY <1>1, <1>2, <1>4 DEF Cuts, Slice
  <2>2. QED
    BY <2>1 DEF Delivering
<1>5. CASE Write
  <2>1. conn.left # <<>> /\ conn'.left = Tail(conn.left)
        /\ conn'.pipe = Append(conn.pipe, Head(conn.left))
    BY <1>0, <1>5 DEF Write, ConnType
  <2>2. /\ c + 1 <= Len(F) /\ Slice(conn'.pipe, F, b, c + 1)
        /\ Slice(conn'.left, F, c + 1, Len(F))
    BY <1>0, <1>3, <2>1, SliceMove
  <2>3. c + 1 \in 0..Len(F) /\ b <= c + 1
    BY <1>0, <1>3, <2>2
  <2>4. QED
    BY <1>4, <2>2, <2>3
<1>6. CASE Close
  <2>1. conn'.left = conn.left /\ conn'.pipe = conn.pipe
    BY <1>0, <1>6 DEF Close, ConnType
  <2>2. QED
    BY <1>3, <1>4, <2>1
<1>7. CASE Cut
  <2>1. PICK n \in 0..Len(conn.pipe) :
          conn'.left = <<>> /\ conn'.pipe = SubSeq(conn.pipe, 1, n)
    BY <1>7 DEF Cut
  <2>2. Slice(conn'.pipe, F, b, b + n) /\ b + n <= c /\ b + n \in Nat
    <3> DEFINE p == conn.pipe
    <3>1. p \in Seq(FrameType) /\ Slice(p, F, b, c) /\ n \in 0..Len(p)
      BY <1>0, <1>3
    <3> HIDE DEF p
    <3>2. Slice(SubSeq(p, 1, n), F, b, b + n) /\ b + n <= c /\ b + n \in Nat
      BY <1>3, <3>1, SliceSplit
    <3>3. QED
      BY <2>1, <3>2 DEF p
  <2>3. b + n \in 0..Len(F) /\ b <= b + n
    BY <1>0, <1>3, <2>2, LenProperties
  <2>4. QED
    BY <1>4, <2>1, <2>2, <2>3
<1>8. QED
  BY <1>5, <1>6, <1>7

\* A chunk goes from the sockets to the queue.
LEMMA ReadDelivers ==
  ASSUME TypeOK, NEW F \in Seq(FrameType), Delivering(F), Read
  PROVE  Delivering(F)'
<1>0. /\ Len(F) \in Nat /\ conn \in ConnType /\ queue \in Seq(FrameType)
      /\ conn.pipe \in Seq(FrameType) /\ Len(conn.pipe) \in Nat
  BY LenProperties DEF TypeOK, ConnType
<1>1. PICK n \in 1..Len(conn.pipe) :
        /\ queue' = queue \o SubSeq(conn.pipe, 1, n)
        /\ conn' = [conn EXCEPT !.pipe = SubSeq(@, n + 1, Len(@))]
  BY DEF Read
<1>2. /\ conn'.pipe = SubSeq(conn.pipe, n + 1, Len(conn.pipe)) /\ conn'.left = conn.left
      /\ got' = got
  BY <1>0, <1>1 DEF Read, ConnType
<1>3. counts'.done = counts.done
  <2>1. counts' = counts \/ \E t : counts' = [counts EXCEPT !.total = t]
    BY DEF Read
  <2>2. counts \in CountsType
    BY DEF TypeOK, CountsType
  <2>3. QED
    BY <2>1, <2>2 DEF CountsType
<1>4. PICK a \in 0..Len(F), b \in 0..Len(F), c \in 0..Len(F) : Cuts(F, a, b, c)
  BY DEF Delivering
<1>5. /\ a <= b /\ b <= c /\ a \in Nat /\ b \in Nat /\ c \in Nat
      /\ Slice(queue, F, a, b) /\ Slice(conn.pipe, F, b, c) /\ n \in 0..Len(conn.pipe)
  BY <1>0, <1>4 DEF Cuts
<1>6. /\ Slice(SubSeq(conn.pipe, 1, n), F, b, b + n)
      /\ Slice(conn'.pipe, F, b + n, c)
      /\ SubSeq(conn.pipe, 1, n) \in Seq(FrameType)
      /\ b + n \in Nat /\ b + n <= c
  <2> DEFINE p == conn.pipe
  <2>1. p \in Seq(FrameType) /\ Slice(p, F, b, c) /\ n \in 0..Len(p)
    BY <1>0, <1>5
  <2> HIDE DEF p
  <2>2. /\ Slice(SubSeq(p, 1, n), F, b, b + n) /\ Slice(SubSeq(p, n + 1, Len(p)), F, b + n, c)
        /\ SubSeq(p, 1, n) \in Seq(FrameType) /\ b + n \in Nat /\ b + n <= c
    BY <1>5, <2>1, SliceSplit
  <2>3. QED
    BY <1>2, <2>2 DEF p
<1>7. Slice(queue', F, a, b + n)
  BY <1>0, <1>1, <1>5, <1>6, SliceJoin
<1>8. a <= b + n /\ b + n \in 0..Len(F)
  BY <1>0, <1>5, <1>6
<1>9. Cuts(F, a, b + n, c)'
  BY <1>2, <1>3, <1>4, <1>6, <1>7, <1>8 DEF Cuts, Slice
<1>10. QED
  BY <1>8, <1>9 DEF Delivering

\* A batch goes from the queue to the page; the terminator is the last of it.
LEMMA PumpDelivers ==
  ASSUME TypeOK, NEW F \in Seq(FrameType), Delivering(F), Pump,
         \A i \in 1..Len(F) : F[i].kind = "done" => i = Len(F)
  PROVE  Delivering(F)'
<1>0. Len(F) \in Nat /\ queue \in Seq(FrameType) /\ Len(queue) \in Nat /\ counts \in CountsType
  BY LenProperties DEF TypeOK, CountsType
<1>1. PICK n \in Batch :
        Apply(SubSeq(queue, 1, n)) /\ queue' = SubSeq(queue, n + 1, Len(queue))
  BY DEF Pump
<1> DEFINE frames == SubSeq(queue, 1, n)
<1>2. /\ got' = got \cup NodesIn(frames) /\ UNCHANGED conn
      /\ counts'.done => counts.done \/ DoneIn(frames)
  BY <1>0, <1>1 DEF Apply, Pump, CountsType
<1>3. PICK a \in 0..Len(F), b \in 0..Len(F), c \in 0..Len(F) : Cuts(F, a, b, c)
  BY DEF Delivering
<1>4. /\ a <= b /\ b <= c /\ a \in Nat /\ b \in Nat /\ c \in Nat
      /\ got = NodesUpTo(F, a) /\ Slice(queue, F, a, b) /\ n \in 0..Len(queue)
      /\ counts.done => a = Len(F)
  BY <1>0, <1>1, <1>3 DEF Cuts, Batch
<1>5. /\ Slice(frames, F, a, a + n) /\ Slice(queue', F, a + n, b)
      /\ frames \in Seq(FrameType) /\ a + n \in Nat /\ a + n <= b
  BY <1>0, <1>1, <1>4, SliceSplit
<1> HIDE DEF frames
<1>6. /\ NodesUpTo(F, a + n) = got'
      /\ DoneIn(frames) => \E i \in 1..(a + n) : F[i].kind = "done" /\ a < i
  BY <1>2, <1>4, <1>5, SliceNodes
<1>7. a + n \in 0..Len(F)
  BY <1>0, <1>4, <1>5
<1>8. counts'.done => a + n = Len(F)
  <2>1. CASE counts.done
    BY <1>0, <1>4, <1>7, <2>1
  <2>2. CASE DoneIn(frames)
    <3>1. PICK i \in 1..(a + n) : F[i].kind = "done"
      BY <1>6, <2>2
    <3>2. i \in 1..Len(F)
      BY <1>0, <1>7, <3>1
    <3>3. QED
      BY <1>0, <1>7, <3>1, <3>2
  <2>3. QED
    BY <1>2, <2>1, <2>2
<1>9. Cuts(F, a + n, b, c)'
  BY <1>2, <1>3, <1>5, <1>6, <1>8 DEF Cuts, Slice
<1>10. QED
  BY <1>7, <1>9 DEF Delivering

\* All frames are still to be written.
LEMMA OpenDelivers ==
  ASSUME Offline, Open, NEW F, Len(F) \in Nat, F = FramesOf(served)
  PROVE  Delivering(F)'
<1>1. /\ conn'.left = F /\ conn'.pipe = <<>> /\ queue' = <<>> /\ got' = {}
      /\ counts'.done = FALSE
  BY DEF Open, Offline, NoCounts
<1>2. Slice(conn'.left, F, 0, Len(F)) /\ Slice(<<>>, F, 0, 0) /\ NodesUpTo(F, 0) = {}
  BY <1>1 DEF Slice, NodesUpTo
<1>3. Cuts(F, 0, 0, 0)'
  BY <1>1, <1>2 DEF Cuts, Slice
<1>4. QED
  BY <1>3 DEF Delivering

-----------------------------------------------------------------------------
(* The page.                                                               *)

LEMMA LoaderInitial == Init => LoaderInv
<1> SUFFICES ASSUME Init PROVE LoaderInv
  OBVIOUS
<1>1. TypeOK
  BY TypeInitial
<1>2. InStream /\ Delivered /\ Shown /\ Shelved
  BY DEF Init, InStream, Delivered, Shown, Shelved
<1>3. Offline
  BY DEF Init, Offline
<1>4. QED
  BY <1>1, <1>2, <1>3 DEF LoaderInv

\* What was seen stays seen, and what is served has been.
LEMMA SeenGrows == ASSUME LoaderInv, [Next]_vars PROVE seen \subseteq seen' /\ Shelved'
<1>1. CASE ShelfMoves
  BY <1>1 DEF ShelfMoves, Shelved
<1>2. CASE UNCHANGED <<served, seen>>
  BY <1>2 DEF LoaderInv, Shelved
<1>3. ShelfMoves \/ UNCHANGED <<served, seen>>
  BY DEF Next, Server, Browser, BuildEnds, Cut, Write, Close, Read, ReadEnd, Pump, Open,
         NotOpened, Broken, Loaded, Truncated, Document, NoDocument, DocumentFails, Poll,
         vars, shelf
<1>4. QED
  BY <1>1, <1>2, <1>3

\* A step that leaves the load alone.
LEMMA LoadStays ==
  ASSUME LoaderInv, seen \subseteq seen', UNCHANGED <<page, conn, loader, canvas, at>>
  PROVE  InStream' /\ Offline' /\ Delivered' /\ Shown'
<1>1. InStream'
  <2> SUFFICES ASSUME at' = "stream" PROVE \E g \in seen' : Delivering(FramesOf(g))'
    BY DEF InStream
  <2>1. PICK g \in seen : Delivering(FramesOf(g))
    BY DEF LoaderInv, InStream
  <2>2. Delivering(FramesOf(g))'
    BY <2>1 DEF Delivering, Cuts, Slice, loader
  <2>3. QED
    BY <2>2
<1>2. Offline'
  BY DEF LoaderInv, Offline, loader
<1>3. Delivered' /\ Shown'
  BY DEF LoaderInv, Delivered, Shown, loader
<1>4. QED
  BY <1>1, <1>2, <1>3

\* A step of the stream that is under way.
LEMMA StreamGoesOn ==
  ASSUME LoaderInv, at = "stream", UNCHANGED <<page, at, seen>>,
         \A g \in seen : Delivering(FramesOf(g)) => Delivering(FramesOf(g))',
         page = "galaxy" => got' \subseteq canvas'
  PROVE  InStream' /\ Offline' /\ Delivered' /\ Shown'
<1>1. PICK g \in seen : Delivering(FramesOf(g))
  BY DEF LoaderInv, InStream
<1>2. QED
  BY <1>1 DEF InStream, Offline, Delivered, Shown

LEMMA ConnStep ==
  ASSUME LoaderInv, Write \/ Close \/ Cut
  PROVE  InStream' /\ Offline' /\ Delivered' /\ Shown'
<1>1. TypeOK /\ UNCHANGED <<page, served, changes, ready, seen, loader, canvas, at>>
  BY ConnTypes DEF LoaderInv, shelf
<1>2. CASE at = "stream"
  <2>1. ASSUME NEW g \in seen, Delivering(FramesOf(g)) PROVE Delivering(FramesOf(g))'
    <3>1. FramesOf(g) \in Seq(FrameType)
      BY <1>1, Frames DEF TypeOK
    <3>2. QED
      BY <1>1, <2>1, <3>1, ConnDelivers
  <2>2. page = "galaxy" => got' \subseteq canvas'
    BY <1>1 DEF LoaderInv, Shown, loader
  <2>3. QED
    BY <1>1, <1>2, <2>1, <2>2, StreamGoesOn
<1>3. CASE at = "loaded"
  BY <1>1, <1>3 DEF LoaderInv, InStream, Offline, Delivered, Shown, loader
<1>4. CASE at \notin {"stream", "loaded"}
  BY <1>4 DEF LoaderInv, Offline, NoConn, Write, Close, Cut
<1>5. QED
  BY <1>2, <1>3, <1>4

LEMMA StreamStep ==
  ASSUME LoaderInv, Read \/ ReadEnd \/ Pump
  PROVE  InStream' /\ Offline' /\ Delivered' /\ Shown'
<1>1. TypeOK /\ at = "stream" /\ UNCHANGED <<page, at, seen>>
  BY DEF LoaderInv, Read, ReadEnd, Pump, shelf
<1>2. ASSUME NEW g \in seen, Delivering(FramesOf(g)) PROVE Delivering(FramesOf(g))'
  <2>1. /\ FramesOf(g) \in Seq(FrameType)
        /\ \A i \in 1..Len(FramesOf(g)) :
             FramesOf(g)[i].kind = "done" => i = Len(FramesOf(g))
    BY <1>1, Frames DEF TypeOK
  <2>2. CASE Read
    BY <1>1, <1>2, <2>1, <2>2, ReadDelivers
  <2>3. CASE ReadEnd
    BY <1>2, <2>3 DEF ReadEnd, Delivering, Cuts, Slice
  <2>4. CASE Pump
    BY <1>1, <1>2, <2>1, <2>4, PumpDelivers
  <2>5. QED
    BY <2>2, <2>3, <2>4
<1>3. page = "galaxy" => got' \subseteq canvas'
  <2>1. page = "galaxy" => got \subseteq canvas
    BY DEF LoaderInv, Shown
  <2>2. CASE Read \/ ReadEnd
    BY <2>1, <2>2 DEF Read, ReadEnd
  <2>3. CASE Pump
    <3>1. PICK n \in Batch : Apply(SubSeq(queue, 1, n))
      BY <2>3 DEF Pump
    <3>2. QED
      BY <2>1, <3>1 DEF Apply
  <2>4. QED
    BY <2>2, <2>3
<1>4. QED
  BY <1>1, <1>2, <1>3, StreamGoesOn

\* A stream that passes the completeness gate has brought the whole graph.
LEMMA CompleteIsWhole == ASSUME LoaderInv, Settled, Complete PROVE got \in seen
<1>1. PICK g \in seen : Delivering(FramesOf(g))
  BY DEF LoaderInv, InStream, Settled
<1>2. g \in Graphs
  BY DEF LoaderInv, TypeOK
<1>3. got = NodesUpTo(FramesOf(g), Len(FramesOf(g)))
  BY <1>1 DEF Delivering, Cuts, Complete
<1>4. QED
  BY <1>2, <1>3, Frames

LEMMA PageStep ==
  ASSUME LoaderInv,
         \/ Open \/ NotOpened \/ Broken \/ Loaded \/ Truncated
         \/ Document \/ NoDocument \/ DocumentFails \/ Poll
  PROVE  InStream' /\ Offline' /\ Delivered' /\ Shown'
<1>1. CASE Open
  <2>1. /\ at' = "stream" /\ served \in seen /\ served \in Graphs
        /\ UNCHANGED <<page, seen, got, canvas>>
    BY <1>1 DEF Open, LoaderInv, Shelved, TypeOK, shelf
  <2>2. PICK g \in Graphs : g = served
    BY <2>1
  <2>3. Len(FramesOf(g)) \in Nat /\ FramesOf(g) = FramesOf(served)
    BY <2>2, Frames
  <2>4. Delivering(FramesOf(g))'
    BY <1>1, <2>3, OpenDelivers DEF LoaderInv
  <2>5. InStream'
    BY <2>1, <2>2, <2>4 DEF InStream
  <2>6. QED
    BY <2>1, <2>5 DEF LoaderInv, Offline, Delivered, Shown
<1>2. CASE Broken \/ Truncated
  <2>1. /\ at' \in {"ask", "document"} /\ UNCHANGED <<page, canvas>>
        /\ conn' = NoConn /\ reader' = "off" /\ queue' = <<>> /\ counts' = NoCounts
        /\ got' = {}
    BY <1>2 DEF Broken, Truncated, Reset, TryDocument
  <2>2. QED
    BY <2>1 DEF InStream, Offline, Delivered, Shown
<1>3. CASE Loaded
  <2>1. at' = "loaded" /\ got \in seen /\ UNCHANGED <<page, seen, got, canvas>>
    BY <1>3, CompleteIsWhole DEF Loaded, shelf, loader
  <2>2. QED
    BY <2>1 DEF LoaderInv, InStream, Offline, Delivered, Shown
<1>4. CASE Document
  <2>1. /\ at' = "loaded" /\ got' = served /\ served \in seen /\ UNCHANGED <<page, seen>>
        /\ page = "galaxy" => served \subseteq canvas'
    BY <1>4 DEF Document, LoaderInv, Shelved, shelf
  <2>2. QED
    BY <2>1 DEF InStream, Offline, Delivered, Shown
<1>5. CASE NotOpened \/ NoDocument \/ DocumentFails \/ Poll
  <2>1. /\ at \in {"ask", "document", "poll"}
        /\ at' \in {"ask", "document", "poll", "failed", "stopped"}
        /\ UNCHANGED <<page, conn, loader>> /\ canvas \subseteq canvas'
    BY <1>5 DEF NotOpened, NoDocument, DocumentFails, Poll, TryDocument, GiveUp
  <2>2. QED
    BY <2>1 DEF LoaderInv, InStream, Offline, Delivered, Shown, loader
<1>6. QED
  BY <1>1, <1>2, <1>3, <1>4, <1>5

LEMMA LoaderStep == LoaderInv /\ [Next]_vars => LoaderInv'
<1> SUFFICES ASSUME LoaderInv, [Next]_vars PROVE LoaderInv'
  OBVIOUS
<1>1. TypeOK' /\ seen \subseteq seen' /\ Shelved'
  BY TypeStep, SeenGrows DEF LoaderInv
<1>2. InStream' /\ Offline' /\ Delivered' /\ Shown'
  <2>1. CASE ShelfMoves \/ BuildEnds \/ UNCHANGED vars
    BY <1>1, <2>1, LoadStays DEF ShelfMoves, BuildEnds, vars
  <2>2. QED
    BY <2>1, ConnStep, StreamStep, PageStep DEF Next, Server, Browser
<1>3. QED
  BY <1>1, <1>2 DEF LoaderInv

\* The inductive invariant of a load: the frames of one graph, in four pieces.
THEOREM LoaderInvariant == Spec => []LoaderInv
BY LoaderInitial, LoaderStep, PTL DEF Spec

\* Every variable keeps its type; in particular no stream is asked for a third
\* time (_streamWithRetry).
THEOREM LoaderTypeCorrect == Spec => []TypeOK
<1>1. LoaderInv => TypeOK
  BY DEF LoaderInv
<1>2. QED
  BY <1>1, LoaderInvariant, PTL

\* Whatever the galaxy counts as loaded is all on its canvas: one graph that
\* was on the shelf since it asked, through cut connections, second streams
\* and replaced snapshots (pump, _streamWithRetry, serve_graph_full_stream).
THEOREM LoadedGraphIsOnCanvas == Spec => []CanvasHoldsTheGraph
<1>1. LoaderInv => CanvasHoldsTheGraph
  BY DEF LoaderInv, Delivered, Shown, CanvasHoldsTheGraph
<1>2. QED
  BY <1>1, LoaderInvariant, PTL

-----------------------------------------------------------------------------
(* The refinement of GraphFetch.                                           *)

\* What the load has come to.
OutcomeFits ==
  /\ page = "brain" /\ at = "loaded" => Outcome = Fetch!Handed(got)
  /\ page = "brain" /\ at = "failed" => Outcome = Fetch!Refused
  /\ page # "brain" \/ at \notin {"loaded", "failed"} => Outcome = Fetch!Pending

LEMMA OutcomeIs == OutcomeFits /\ OutcomeFits'
BY DEF OutcomeFits, Outcome, Fetch!Handed, Fetch!Refused, Fetch!Pending

LEMMA FetchInitial == Init => Fetch!Init
<1> SUFFICES ASSUME Init PROVE Fetch!Init
  OBVIOUS
<1>1. Outcome = Fetch!Pending
  BY OutcomeIs DEF Init, OutcomeFits
<1>2. QED
  BY <1>1 DEF Init, Fetch!Init

\* Every step of the load is a step of the promise, or none.
LEMMA FetchStep ==
  LoaderInv /\ [Next]_vars => [Fetch!Next]_<<served, seen, Outcome>>
<1> SUFFICES ASSUME LoaderInv, [Next]_vars PROVE [Fetch!Next]_<<served, seen, Outcome>>
  OBVIOUS
<1>1. TypeOK /\ TypeOK' /\ LoaderInv'
  BY TypeStep, LoaderStep DEF LoaderInv
<1>2. UNCHANGED page
  BY DEF Next, Server, Browser, ShelfMoves, BuildEnds, Cut, Write, Close, Read, ReadEnd, Pump,
         Open, NotOpened, Broken, Loaded, Truncated, Document, NoDocument, DocumentFails, Poll,
         vars
<1>3. CASE ShelfMoves
  <2>1. UNCHANGED Outcome
    BY <1>3 DEF ShelfMoves, Outcome, loader
  <2>2. Fetch!Shelf!Next
    BY <1>3 DEF ShelfMoves, Shelf!Next, Shelf!Withdraw, Shelf!Publish, Fetch!Shelf!Next,
                Fetch!Shelf!Withdraw, Fetch!Shelf!Publish
  <2>3. QED
    BY <1>3, <2>1, <2>2 DEF ShelfMoves, Fetch!ShelfMoves, Fetch!Next
<1>4. CASE ~ShelfMoves
  <2>1. UNCHANGED <<served, seen>>
    BY <1>4 DEF Next, Server, Browser, BuildEnds, Cut, Write, Close, Read, ReadEnd, Pump,
       Open, NotOpened, Broken, Loaded, Truncated, Document, NoDocument, DocumentFails, Poll,
       vars, shelf
  <2>2. CASE page = "galaxy"
    <3>1. UNCHANGED Outcome
      BY <1>2, <2>2, OutcomeIs DEF OutcomeFits, Fetch!Pending
    <3>2. QED
      BY <2>1, <3>1
  <2>3. CASE page = "brain" /\ at \in {"loaded", "failed"}
    <3>1. UNCHANGED <<at, got>>
      BY <1>4, <2>3 DEF Next, Server, Browser, BuildEnds, Cut, Write, Close, Read, ReadEnd,
         Pump, Open, NotOpened, Broken, Loaded, Truncated, Settled, Document, NoDocument,
         DocumentFails, Poll, vars, loader
    <3>2. UNCHANGED Outcome
      BY <1>2, <2>3, <3>1 DEF Outcome
    <3>3. QED
      BY <2>1, <3>2
  <2>4. CASE page = "brain" /\ at \notin {"loaded", "failed"}
    <3>1. Outcome = Fetch!Pending
      BY <2>4, OutcomeIs DEF OutcomeFits
    <3>2. CASE at' = "loaded"
      <4>1. Outcome' = Fetch!Handed(got')
        BY <1>2, <2>4, <3>2, OutcomeIs DEF OutcomeFits, Fetch!Handed
      <4>2. got' \in seen
        BY <1>1, <2>1, <3>2 DEF LoaderInv, Delivered
      <4>3. QED
        BY <2>1, <3>1, <4>1, <4>2 DEF Fetch!Next, Fetch!HandOver
    <3>3. CASE at' = "failed"
      <4>1. Outcome' = Fetch!Refused
        BY <1>2, <2>4, <3>3, OutcomeIs DEF OutcomeFits, Fetch!Refused
      <4>2. QED
        BY <2>1, <3>1, <4>1 DEF Fetch!Next, Fetch!Refuse
    <3>4. CASE at' \notin {"loaded", "failed"}
      <4>1. Outcome' = Fetch!Pending
        BY <1>2, <2>4, <3>4, OutcomeIs DEF OutcomeFits, Fetch!Pending
      <4>2. QED
        BY <2>1, <3>1, <4>1 DEF Fetch!Pending
    <3>5. QED
      BY <3>2, <3>3, <3>4
  <2>5. QED
    BY <1>1, <2>2, <2>3, <2>4 DEF TypeOK
<1>5. QED
  BY <1>3, <1>4

\* The brain page is handed one whole graph that was on the shelf since it
\* asked, once, or it is refused: a load implements GraphFetch, step by step
\* (BRAIN.fetchGraph, serve_graph_full_stream, write_snapshot).
THEOREM LoadIsOneFetch == Spec => FetchSafety
<1>1. Init => Fetch!Init
  BY FetchInitial
<1>2. LoaderInv /\ [Next]_vars => [Fetch!Next]_<<served, seen, Outcome>>
  BY FetchStep
<1>3. QED
  BY <1>1, <1>2, LoaderInvariant, PTL DEF Spec, FetchSafety, Fetch!Spec
=============================================================================
