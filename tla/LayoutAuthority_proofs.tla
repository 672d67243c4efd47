---------------------- MODULE LayoutAuthority_proofs -----------------------
(***************************************************************************)
(* What holds of the layout authority for any graph, any order in which it *)
(* is sent, and any bounds of the buffers.                                 *)
(***************************************************************************)
EXTENDS LayoutAuthority, SequenceTheorems, FiniteSetTheorems, TLAPS

TaskSet == [do : {"emit", "symbol", "edges"}, node : Node]

-----------------------------------------------------------------------------
(* Helpers.                                                                *)

LEMMA WithDomain ==
    ASSUME NEW f, NEW key, NEW value
    PROVE  DOMAIN With(f, key, value) = DOMAIN f \cup {key}
BY DEF With

\* Removing one element leaves a sequence that is one shorter.
LEMMA RemoveAtType ==
    ASSUME NEW S, NEW q \in Seq(S), NEW i \in DOMAIN q
    PROVE  /\ RemoveAt(q, i) \in Seq(S)
           /\ Len(RemoveAt(q, i)) = Len(q) - 1
<1>1. i \in 1..Len(q) /\ Len(q) \in Nat
  OBVIOUS
<1> DEFINE front == SubSeq(q, 1, i - 1)
           back == SubSeq(q, i + 1, Len(q))
<1>2. /\ front \in Seq(S)
      /\ Len(front) = i - 1
  BY <1>1, SubSeqProperties
<1>3. /\ back \in Seq(S)
      /\ Len(back) = Len(q) - i
  BY <1>1, SubSeqProperties
<1>4. RemoveAt(q, i) = front \o back
  BY DEF RemoveAt
<1> HIDE DEF front, back
<1>5. /\ front \o back \in Seq(S)
      /\ Len(front \o back) = Len(front) + Len(back)
  BY <1>2, <1>3, ConcatProperties
<1>6. QED
  BY <1>1, <1>2, <1>3, <1>4, <1>5

\* What a call has still to do is a sequence of tasks.
LEMMA TasksType ==
    ASSUME NEW q \in Seq(Node), NEW do \in {"emit", "symbol", "edges"}
    PROVE  Tasks(do, q) \in Seq(TaskSet)
<1>1. /\ DOMAIN q = 1..Len(q) /\ Len(q) \in Nat
      /\ \A i \in 1..Len(q) : q[i] \in Node
  OBVIOUS
<1>2. Tasks(do, q) \in [1..Len(q) -> TaskSet]
  BY <1>1 DEF Tasks, Task, TaskSet
<1>3. QED
  BY <1>1, <1>2

-----------------------------------------------------------------------------
(* Types.                                                                  *)

TypeInv == TypeOK /\ IsFiniteSet(DOMAIN anchors)

LEMMA InitType == Init => TypeInv
<1> SUFFICES ASSUME Init PROVE TypeInv
  OBVIOUS
<1>1. DOMAIN anchors = {} /\ DOMAIN slots = {} /\ DOMAIN shown = {}
  BY DEF Init
<1>2. IsFiniteSet(DOMAIN anchors)
  BY <1>1, FS_EmptySet
<1>3. /\ reserved \in Nat
      /\ counts \in [Node -> [Kinds -> Nat]]
      /\ petals \in [Node -> Nat]
      /\ waiting \in [Node -> Seq(Node)]
      /\ \A f \in Node : Len(waiting[f]) <= SymbolsCap
      /\ pending \in Seq(Edge) /\ Len(pending) <= EdgesCap
      /\ sent \in [Node -> 0..2]
      /\ requests \in 0..MaxRequests
  BY LayoutAssumption DEF Init
<1>5. work \in Seq([do : {"emit", "symbol", "edges"}, node : Node])
  BY DEF Init
<1>6. TypeOK
  BY <1>1, <1>3, <1>5 DEF Init, TypeOK, Placed
<1>7. QED
  BY <1>2, <1>6 DEF TypeInv

\* Placing a node keeps the types of what it writes.
LEMMA PlaceType ==
    ASSUME TypeInv, NEW n \in Node, Place(n)
    PROVE  /\ DOMAIN anchors' \subseteq Node
           /\ IsFiniteSet(DOMAIN anchors')
           /\ reserved' \in Nat
           /\ counts' \in [Node -> [Kinds -> Nat]]
           /\ petals' \in [Node -> Nat]
           /\ Placed' = Placed \cup {n}
           /\ hubs' \subseteq Node
<1>0. /\ DOMAIN anchors \subseteq Node /\ IsFiniteSet(DOMAIN anchors)
      /\ reserved \in Nat /\ hubs \subseteq Node
      /\ counts \in [Node -> [Kinds -> Nat]]
      /\ petals \in [Node -> Nat]
  BY DEF TypeInv, TypeOK
<1>1. DomainOf[n] \in Node /\ KindOf[n] \in Kinds
  BY LayoutAssumption
<1>2. NextReserved \in Nat
  BY <1>0, FS_CardinalityType, LayoutAssumption DEF NextIndex, NextReserved
<1>3. /\ DOMAIN anchors' \subseteq DOMAIN anchors \cup {DomainOf[n]}
      /\ reserved' \in Nat
  <2>1. Register(DomainOf[n])
    BY DEF Place
  <2>2. CASE DomainOf[n] \in DOMAIN anchors
    BY <1>0, <2>1, <2>2 DEF Register
  <2>3. CASE DomainOf[n] \notin DOMAIN anchors
    <3>1. /\ anchors' = With(anchors, DomainOf[n], [index |-> NextIndex, total |-> NextReserved])
          /\ reserved' = NextReserved
      BY <2>1, <2>3 DEF Register
    <3>2. DOMAIN anchors' = DOMAIN anchors \cup {DomainOf[n]}
      BY <3>1, WithDomain
    <3>3. QED
      BY <1>2, <3>1, <3>2
  <2>4. QED
    BY <2>2, <2>3
<1>4. /\ DOMAIN anchors' \subseteq Node
      /\ IsFiniteSet(DOMAIN anchors')
  <2>1. IsFiniteSet(DOMAIN anchors \cup {DomainOf[n]})
    BY <1>0, FS_AddElement
  <2>2. QED
    BY <1>0, <1>1, <1>3, <2>1, FS_Subset
<1>5. counts' \in [Node -> [Kinds -> Nat]]
  BY <1>0, <1>1 DEF Place
<1>6. petals' \in [Node -> Nat]
  BY <1>0, LayoutAssumption DEF Place
<1>7. Placed' = Placed \cup {n}
  BY WithDomain DEF Place, Placed
<1>8. hubs' \subseteq Node
  BY <1>0 DEF Place
<1>9. QED
  BY <1>3, <1>4, <1>5, <1>6, <1>7, <1>8

\* A node is sent twice at most.
LEMMA SentType ==
    ASSUME TypeOK, NEW n \in Node, MaySend(n), sent' = [sent EXCEPT ![n] = @ + 1]
    PROVE  sent' \in [Node -> 0..2]
<1>1. sent \in [Node -> 0..2] /\ sent[n] \in 0..2
  BY DEF TypeOK
<1>2. sent[n] < 2
  <2>1. CASE n \in Resent
    BY <2>1 DEF MaySend
  <2>2. CASE n \notin Resent
    BY <1>1, <2>2 DEF MaySend
  <2>3. QED
    BY <2>1, <2>2
<1>3. sent[n] + 1 \in 0..2
  BY <1>1, <1>2
<1>4. QED
  BY <1>1, <1>3

\* A call begins: nodes, edges, requests and the end of the build.
LEMMA ProducerType == TypeInv /\ Producer => TypeInv'
<1> SUFFICES ASSUME TypeInv, Producer PROVE TypeInv'
  OBVIOUS
<1>0. TypeOK /\ IsFiniteSet(DOMAIN anchors)
  BY DEF TypeInv
<1>1. ASSUME NEW n \in Node, AddNode(n) PROVE TypeInv'
  <2>1. Place(n)
    BY <1>1 DEF AddNode
  <2>2. << Task("emit", n), Task("edges", n) >> \in Seq(TaskSet)
    BY DEF Task, TaskSet
  <2>3. work' \in Seq(TaskSet)
    BY <1>1, <2>2 DEF AddNode
  <2>4. sent' \in [Node -> 0..2]
    BY <1>0, <1>1, SentType DEF AddNode
  <2>5. Placed' \subseteq Node
    BY <1>0, <2>1, PlaceType DEF TypeOK
  <2>6. /\ DOMAIN anchors' \subseteq Node
        /\ IsFiniteSet(DOMAIN anchors')
        /\ reserved' \in Nat
        /\ counts' \in [Node -> [Kinds -> Nat]]
        /\ petals' \in [Node -> Nat]
        /\ hubs' \subseteq Node
    BY <2>1, PlaceType
  <2>7. QED
    BY <1>0, <1>1, <2>3, <2>4, <2>5, <2>6
    DEF AddNode, TypeOK, TypeInv, TaskSet, client
<1>2. ASSUME NEW n \in Node, AddSymbolEarly(n) PROVE TypeInv'
  <2>1. ParentOf[n] \in Node
    BY <1>2, LayoutAssumption DEF AddSymbolEarly
  <2>2. /\ waiting' \in [Node -> Seq(Node)]
        /\ \A f \in Node : Len(waiting'[f]) <= SymbolsCap
        /\ lost' \subseteq Node
    <3>1. CASE Len(waiting[ParentOf[n]]) < SymbolsCap
      <4>1. /\ waiting' = [waiting EXCEPT ![ParentOf[n]] = Append(@, n)]
            /\ lost' = lost
        BY <1>2, <3>1 DEF AddSymbolEarly
      <4>2. /\ Append(waiting[ParentOf[n]], n) \in Seq(Node)
            /\ Len(Append(waiting[ParentOf[n]], n)) <= SymbolsCap
        BY <1>0, <2>1, <3>1, LayoutAssumption DEF TypeOK
      <4>3. QED
        BY <1>0, <2>1, <4>1, <4>2 DEF TypeOK
    <3>2. CASE ~ (Len(waiting[ParentOf[n]]) < SymbolsCap)
      BY <1>0, <1>2, <3>2 DEF AddSymbolEarly, TypeOK
    <3>3. QED
      BY <3>1, <3>2
  <2>3. sent' \in [Node -> 0..2]
    BY <1>0, <1>2, SentType DEF AddSymbolEarly
  <2>4. QED
    BY <1>0, <1>2, <2>2, <2>3
    DEF AddSymbolEarly, TypeOK, TypeInv, Placed, placement, client
<1>3. ASSUME NEW e \in Edge, AddEdge(e) PROVE TypeInv'
  <2>1. ASSUME BufferEdge(e)
        PROVE  pending' \in Seq(Edge) /\ Len(pending') <= EdgesCap /\ dropped' \in Nat
    <3>0. pending \in Seq(Edge) /\ Len(pending) <= EdgesCap /\ dropped \in Nat
      BY <1>0 DEF TypeOK
    <3>1. ASSUME NEW i \in Twins(e), pending' = Append(RemoveAt(pending, i), e),
                 UNCHANGED dropped
          PROVE  pending' \in Seq(Edge) /\ Len(pending') <= EdgesCap /\ dropped' \in Nat
      <4>1. i \in DOMAIN pending
        BY DEF Twins
      <4>2. /\ RemoveAt(pending, i) \in Seq(Edge)
            /\ Len(RemoveAt(pending, i)) = Len(pending) - 1
        BY <3>0, <4>1, RemoveAtType
      <4>3. QED
        BY <3>0, <3>1, <4>2
    <3>2. CASE ~Full /\ pending' = Append(pending, e) /\ UNCHANGED dropped
      BY <3>0, <3>2, LayoutAssumption DEF Full
    <3>3. CASE Full /\ pending' = Append(Tail(pending), e) /\ dropped' = dropped + 1
      <4>1. pending # <<>>
        BY <3>0, <3>3, LayoutAssumption DEF Full
      <4>2. Tail(pending) \in Seq(Edge) /\ Len(Tail(pending)) = Len(pending) - 1
        BY <3>0, <4>1, HeadTailProperties
      <4>3. QED
        BY <3>0, <3>3, <4>2
    <3>4. QED
      BY <2>1, <3>1, <3>2, <3>3 DEF BufferEdge
  <2>2. /\ pending' \in Seq(Edge) /\ Len(pending') <= EdgesCap
        /\ dropped' \in Nat
        /\ lines' \subseteq Edge
    BY <1>0, <1>3, <2>1 DEF AddEdge, TypeOK
  <2>3. edgesSent' \subseteq Edge
    BY <1>0, <1>3 DEF AddEdge, TypeOK
  <2>4. QED
    BY <1>0, <1>3, <2>2, <2>3 DEF AddEdge, TypeOK, TypeInv, Placed, placement
<1>4. ASSUME NEW d \in Node, RequestSubtree(d) PROVE TypeInv'
  <2>1. again' \subseteq Node /\ requests' \in 0..MaxRequests
    BY <1>0, <1>4, LayoutAssumption DEF RequestSubtree, TypeOK
  <2>2. QED
    BY <1>0, <1>4, <2>1 DEF RequestSubtree, TypeOK, TypeInv, Placed, placement, client
<1>5. CASE Done
  BY <1>0, <1>5 DEF Done, TypeOK, TypeInv, Placed, placement, client, history
<1>6. QED
  BY <1>1, <1>2, <1>3, <1>4, <1>5 DEF Producer

\* What is being done is a task of a node.
LEMMA HeadTask ==
    ASSUME TypeInv, work # <<>>
    PROVE  /\ This \in Node
           /\ Tail(work) \in Seq(TaskSet)
<1>1. work \in Seq(TaskSet)
  BY DEF TypeInv, TypeOK, TaskSet
<1>2. Head(work) \in TaskSet /\ Tail(work) \in Seq(TaskSet)
  BY <1>1, HeadTailProperties
<1>3. QED
  BY <1>2 DEF TaskSet, This

\* A call goes on.
LEMMA CascadeType == TypeInv /\ Cascade => TypeInv'
<1> SUFFICES ASSUME TypeInv, Cascade PROVE TypeInv'
  OBVIOUS
<1>0. /\ TypeOK /\ IsFiniteSet(DOMAIN anchors)
      /\ work \in Seq(TaskSet)
  BY DEF TypeInv, TypeOK, TaskSet
<1>1. ASSUME NEW n \in Node, EmitAgain(n) PROVE TypeInv'
  <2>1. << Task("emit", n) >> \in Seq(TaskSet)
    BY DEF Task, TaskSet
  <2>2. work' \in Seq(TaskSet)
    BY <1>1, <2>1 DEF EmitAgain
  <2>3. QED
    BY <1>0, <1>1, <2>2
    DEF EmitAgain, TypeOK, TypeInv, TaskSet, Placed, placement, client, history
<1>2. CASE EmitSlot
  <2>1. work # <<>>
    BY <1>2 DEF EmitSlot, Doing
  <2>2. This \in Node /\ Tail(work) \in Seq(TaskSet)
    BY <2>1, HeadTask
  <2>3. DOMAIN shown' \subseteq Node
    <3>1. shown' = With(shown, This, slots[This])
      BY <1>2 DEF EmitSlot
    <3>2. DOMAIN shown' = DOMAIN shown \cup {This}
      BY <3>1, WithDomain
    <3>3. QED
      BY <1>0, <2>2, <3>2 DEF TypeOK
  <2>4. /\ work' \in Seq(TaskSet)
        /\ waiting' \in [Node -> Seq(Node)]
        /\ \A f \in Node : Len(waiting'[f]) <= SymbolsCap
    <3>1. CASE KindOf[This] = "file"
      <4>1. /\ work' = Tasks("symbol", waiting[This]) \o Tail(work)
            /\ waiting' = [waiting EXCEPT ![This] = <<>>]
        BY <1>2, <3>1 DEF EmitSlot
      <4>2. waiting[This] \in Seq(Node)
        BY <1>0, <2>2 DEF TypeOK
      <4>3. Tasks("symbol", waiting[This]) \in Seq(TaskSet)
        BY <4>2, TasksType
      <4>4. work' \in Seq(TaskSet)
        BY <2>2, <4>1, <4>3
      <4>5. << >> \in Seq(Node) /\ Len(<< >>) <= SymbolsCap
        BY LayoutAssumption
      <4>6. QED
        BY <1>0, <2>2, <4>1, <4>4, <4>5 DEF TypeOK
    <3>2. CASE KindOf[This] # "file"
      BY <1>0, <1>2, <2>2, <3>2 DEF EmitSlot, TypeOK
    <3>3. QED
      BY <3>1, <3>2
  <2>5. QED
    BY <1>0, <1>2, <2>3, <2>4
    DEF EmitSlot, TypeOK, TypeInv, TaskSet, Placed, placement, history
<1>3. CASE PlaceSymbol
  <2>1. work # <<>>
    BY <1>3 DEF PlaceSymbol, Doing
  <2>2. This \in Node /\ Tail(work) \in Seq(TaskSet)
    BY <2>1, HeadTask
  <2>3. Place(This)
    BY <1>3 DEF PlaceSymbol
  <2>4. << Task("emit", This), Task("edges", This) >> \in Seq(TaskSet)
    BY <2>2 DEF Task, TaskSet
  <2>5. work' \in Seq(TaskSet)
    BY <1>3, <2>2, <2>4 DEF PlaceSymbol
  <2>6. Placed' \subseteq Node
    BY <1>0, <2>2, <2>3, PlaceType DEF TypeOK
  <2>7. /\ DOMAIN anchors' \subseteq Node
        /\ IsFiniteSet(DOMAIN anchors')
        /\ reserved' \in Nat
        /\ counts' \in [Node -> [Kinds -> Nat]]
        /\ petals' \in [Node -> Nat]
        /\ hubs' \subseteq Node
    BY <2>2, <2>3, PlaceType
  <2>8. QED
    BY <1>0, <1>3, <2>5, <2>6, <2>7
    DEF PlaceSymbol, TypeOK, TypeInv, TaskSet, client, history
<1>4. ASSUME NEW i \in DOMAIN pending, FlushEdge(i) PROVE TypeInv'
  <2>1. /\ RemoveAt(pending, i) \in Seq(Edge)
        /\ Len(RemoveAt(pending, i)) = Len(pending) - 1
    BY <1>0, RemoveAtType DEF TypeOK
  <2>2. pending' \in Seq(Edge) /\ Len(pending') <= EdgesCap
    BY <1>0, <1>4, <2>1, LayoutAssumption DEF FlushEdge, TypeOK
  <2>3. lines' \subseteq Edge
    BY <1>0, <1>4 DEF FlushEdge, TypeOK
  <2>4. QED
    BY <1>0, <1>4, <2>2, <2>3 DEF FlushEdge, TypeOK, TypeInv, Placed, placement, history
<1>5. CASE EdgesFlushed
  <2>1. work' \in Seq(TaskSet)
    BY <1>5, HeadTask DEF EdgesFlushed, Doing
  <2>2. QED
    BY <1>0, <1>5, <2>1
    DEF EdgesFlushed, TypeOK, TypeInv, TaskSet, Placed, placement, client, history
<1>6. QED
  BY <1>1, <1>2, <1>3, <1>4, <1>5 DEF Cascade

\* Every variable of the authority keeps its type, and both buffers stay
\* within their capacity, for any graph and any order of arrival.
THEOREM LayoutTypeCorrect == Spec => []TypeOK
<1>1. TypeInv /\ UNCHANGED vars => TypeInv'
  BY DEF TypeInv, TypeOK, Placed, vars, placement, client, history
<1>2. TypeInv /\ [Next]_vars => TypeInv'
  BY <1>1, ProducerType, CascadeType DEF Next
<1>3. TypeInv => TypeOK
  BY DEF TypeInv
<1>4. QED
  BY InitType, <1>2, <1>3, PTL DEF Spec

-----------------------------------------------------------------------------
(* No edge before its ends.                                                *)

(* LinesHaveEnds alone is not inductive: an edge is sent because its ends  *)
(* are placed, not because they are shown.  The two differ in one state of *)
(* a cascade only, when the next thing to do is to emit the node that has  *)
(* just been placed.                                                       *)
PlacedIsShown ==
    /\ Doing("emit") => Placed \subseteq DOMAIN shown \cup {This}
    /\ ~Doing("emit") => Placed \subseteq DOMAIN shown

ScreenInv == TypeInv /\ PlacedIsShown /\ LinesHaveEnds

LEMMA ProducerScreen == ScreenInv /\ Producer => PlacedIsShown' /\ LinesHaveEnds'
<1> SUFFICES ASSUME ScreenInv, Producer PROVE PlacedIsShown' /\ LinesHaveEnds'
  OBVIOUS
<1>0. TypeInv /\ PlacedIsShown /\ LinesHaveEnds
  BY DEF ScreenInv
<1>a. ASSUME work = <<>> PROVE Placed \subseteq DOMAIN shown
  BY <1>0, <1>a DEF PlacedIsShown, Doing
<1>1. ASSUME NEW n \in Node, AddNode(n) PROVE PlacedIsShown' /\ LinesHaveEnds'
  <2>1. Placed' = Placed \cup {n} /\ Placed \subseteq DOMAIN shown
    BY <1>0, <1>1, <1>a, PlaceType DEF AddNode, Unlocked
  <2>2. work' = << Task("emit", n), Task("edges", n) >> /\ UNCHANGED client
    BY <1>1 DEF AddNode
  <2>3. Doing("emit")' /\ This' = n
    BY <2>2 DEF Doing, This, Task
  <2>4. QED
    BY <1>0, <2>1, <2>2, <2>3 DEF PlacedIsShown, LinesHaveEnds, client
<1>2. ASSUME NEW n \in Node, AddSymbolEarly(n) PROVE PlacedIsShown' /\ LinesHaveEnds'
  BY <1>0, <1>2
  DEF AddSymbolEarly, PlacedIsShown, LinesHaveEnds, Doing, This, Placed, placement, client
<1>3. ASSUME NEW e \in Edge, AddEdge(e) PROVE PlacedIsShown' /\ LinesHaveEnds'
  <2>1. Placed \subseteq DOMAIN shown
    BY <1>3, <1>a DEF AddEdge, Unlocked
  <2>2. UNCHANGED <<slots, work, shown>>
    BY <1>3 DEF AddEdge, placement
  <2>3. \A l \in lines' : l \in lines \/ Ends(l) \subseteq Placed
    BY <1>3 DEF AddEdge
  <2>4. QED
    BY <1>0, <2>1, <2>2, <2>3 DEF PlacedIsShown, LinesHaveEnds, Doing, This, Placed
<1>4. ASSUME NEW d \in Node, RequestSubtree(d) PROVE PlacedIsShown' /\ LinesHaveEnds'
  BY <1>0, <1>4
  DEF RequestSubtree, PlacedIsShown, LinesHaveEnds, Doing, This, Placed, placement, client
<1>5. CASE Done
  BY <1>0, <1>5
  DEF Done, PlacedIsShown, LinesHaveEnds, Doing, This, Placed, placement, client
<1>6. QED
  BY <1>1, <1>2, <1>3, <1>4, <1>5 DEF Producer

LEMMA CascadeScreen == ScreenInv /\ Cascade => PlacedIsShown' /\ LinesHaveEnds'
<1> SUFFICES ASSUME ScreenInv, Cascade PROVE PlacedIsShown' /\ LinesHaveEnds'
  OBVIOUS
<1>0. /\ TypeInv /\ PlacedIsShown /\ LinesHaveEnds
      /\ work \in Seq(TaskSet)
  BY DEF ScreenInv, TypeInv, TypeOK, TaskSet
<1>1. ASSUME NEW n \in Node, EmitAgain(n) PROVE PlacedIsShown' /\ LinesHaveEnds'
  <2>1. Placed \subseteq DOMAIN shown
    BY <1>0, <1>1 DEF EmitAgain, PlacedIsShown, Doing
  <2>2. QED
    BY <1>0, <1>1, <2>1
    DEF EmitAgain, PlacedIsShown, LinesHaveEnds, Placed, placement, client
<1>2. CASE EmitSlot
  <2>1. Placed \subseteq DOMAIN shown \cup {This}
    BY <1>0, <1>2 DEF EmitSlot, PlacedIsShown
  <2>2. DOMAIN shown' = DOMAIN shown \cup {This}
    BY <1>2, WithDomain DEF EmitSlot
  <2>3. UNCHANGED <<slots, lines>>
    BY <1>2 DEF EmitSlot, placement
  <2>4. QED
    BY <1>0, <2>1, <2>2, <2>3 DEF PlacedIsShown, LinesHaveEnds, Placed
<1>3. CASE PlaceSymbol
  <2>1. Doing("symbol") /\ ~Doing("emit") /\ work # <<>>
    BY <1>3 DEF PlaceSymbol, Doing
  <2>2. This \in Node /\ Tail(work) \in Seq(TaskSet)
    BY <1>0, <2>1, HeadTask
  <2>3. Placed' = Placed \cup {This} /\ Placed \subseteq DOMAIN shown
    BY <1>0, <1>3, <2>1, <2>2, PlaceType DEF PlaceSymbol, PlacedIsShown
  <2>4. /\ work' = << Task("emit", This), Task("edges", This) >> \o Tail(work)
        /\ UNCHANGED client
    BY <1>3 DEF PlaceSymbol
  <2>5. work' # <<>> /\ Head(work') = Task("emit", This)
    <3>1. Len(work') = 2 + Len(Tail(work)) /\ work'[1] = Task("emit", This)
      BY <2>2, <2>4
    <3>2. QED
      BY <2>2, <3>1
  <2>6. Doing("emit")' /\ This' = This
    BY <2>5 DEF Doing, This, Task
  <2>7. QED
    BY <1>0, <2>3, <2>4, <2>6 DEF PlacedIsShown, LinesHaveEnds, client
<1>4. ASSUME NEW i \in DOMAIN pending, FlushEdge(i) PROVE PlacedIsShown' /\ LinesHaveEnds'
  <2>1. Placed \subseteq DOMAIN shown
    BY <1>0, <1>4 DEF FlushEdge, Doing, PlacedIsShown
  <2>2. /\ Ends(pending[i]) \subseteq Placed
        /\ lines' = lines \cup {pending[i]}
        /\ UNCHANGED <<slots, work, shown>>
    BY <1>4 DEF FlushEdge, Ready, placement
  <2>3. QED
    BY <1>0, <2>1, <2>2 DEF PlacedIsShown, LinesHaveEnds, Doing, This, Placed
<1>5. CASE EdgesFlushed
  <2>1. Placed \subseteq DOMAIN shown
    BY <1>0, <1>5 DEF EdgesFlushed, Doing, PlacedIsShown
  <2>2. UNCHANGED <<slots, shown, lines>>
    BY <1>5 DEF EdgesFlushed, placement, client
  <2>3. QED
    BY <1>0, <2>1, <2>2 DEF PlacedIsShown, LinesHaveEnds, Placed
<1>6. QED
  BY <1>1, <1>2, <1>3, <1>4, <1>5 DEF Cascade

\* The client is never sent an edge before the slots of both its ends, for
\* any graph, any order of arrival and any capacity of the buffers.
THEOREM EdgesAreDrawable == Spec => []LinesHaveEnds
<1>1. Init => ScreenInv
  <2>1. ASSUME Init PROVE PlacedIsShown /\ LinesHaveEnds
    BY <2>1 DEF Init, PlacedIsShown, LinesHaveEnds, Doing, Placed
  <2>2. QED
    BY <2>1, InitType DEF ScreenInv
<1>2. ScreenInv /\ UNCHANGED vars => ScreenInv'
  BY DEF ScreenInv, TypeInv, TypeOK, PlacedIsShown, LinesHaveEnds, Doing, This,
         Placed, vars, placement, client, history
<1>3. ScreenInv /\ Next => ScreenInv'
  BY ProducerType, CascadeType, ProducerScreen, CascadeScreen DEF ScreenInv, Next
<1>4. ScreenInv /\ [Next]_vars => ScreenInv'
  BY <1>2, <1>3
<1>5. ScreenInv => LinesHaveEnds
  BY DEF ScreenInv
<1>6. QED
  BY <1>1, <1>4, <1>5, PTL DEF Spec
-----------------------------------------------------------------------------
(* Sequences and what is in them.                                          *)

LEMMA ToSetAppend ==
    ASSUME NEW S, NEW s \in Seq(S), NEW m \in S
    PROVE  /\ ToSet(Append(s, m)) = ToSet(s) \cup {m}
           /\ DOMAIN Append(s, m) = DOMAIN s \cup {Len(s) + 1}
           /\ Append(s, m)[Len(s) + 1] = m
           /\ \A i \in DOMAIN s : Append(s, m)[i] = s[i]
<1>1. /\ DOMAIN s = 1..Len(s) /\ Len(s) \in Nat
      /\ DOMAIN Append(s, m) = 1..(Len(s) + 1)
      /\ \A i \in 1..Len(s) : Append(s, m)[i] = s[i]
      /\ Append(s, m)[Len(s) + 1] = m
  OBVIOUS
<1>2. 1..(Len(s) + 1) = (1..Len(s)) \cup {Len(s) + 1}
  BY <1>1
<1>3. QED
  BY <1>1, <1>2 DEF ToSet

LEMMA ToSetConcat ==
    ASSUME NEW S, NEW s \in Seq(S), NEW t \in Seq(S)
    PROVE  /\ ToSet(s \o t) = ToSet(s) \cup ToSet(t)
           /\ DOMAIN (s \o t) = 1..(Len(s) + Len(t))
           /\ \A i \in DOMAIN s : (s \o t)[i] = s[i]
           /\ \A i \in DOMAIN t : (s \o t)[Len(s) + i] = t[i]
<1> DEFINE u == s \o t
<1>1. /\ DOMAIN s = 1..Len(s) /\ Len(s) \in Nat
      /\ DOMAIN t = 1..Len(t) /\ Len(t) \in Nat
      /\ DOMAIN u = 1..(Len(s) + Len(t))
  OBVIOUS
<1>2. \A i \in 1..(Len(s) + Len(t)) : u[i] = IF i <= Len(s) THEN s[i] ELSE t[i - Len(s)]
  BY ConcatProperties
<1> HIDE DEF u
<1>3. \A i \in DOMAIN s : i \in DOMAIN u /\ u[i] = s[i]
  BY <1>1, <1>2
<1>4. ASSUME NEW i \in DOMAIN t PROVE Len(s) + i \in DOMAIN u /\ u[Len(s) + i] = t[i]
  <2>1. /\ Len(s) + i \in 1..(Len(s) + Len(t)) /\ ~(Len(s) + i <= Len(s))
        /\ (Len(s) + i) - Len(s) = i
    BY <1>1
  <2>2. QED
    BY <1>1, <1>2, <2>1
<1>5. ASSUME NEW i \in DOMAIN u PROVE u[i] \in ToSet(s) \cup ToSet(t)
  <2>1. CASE i <= Len(s)
    BY <1>1, <1>2, <2>1 DEF ToSet
  <2>2. CASE ~(i <= Len(s))
    <3>1. i - Len(s) \in DOMAIN t /\ u[i] = t[i - Len(s)]
      BY <1>1, <1>2, <2>2
    <3>2. QED
      BY <3>1 DEF ToSet
  <2>3. QED
    BY <2>1, <2>2
<1>6. ToSet(u) = ToSet(s) \cup ToSet(t)
  BY <1>3, <1>4, <1>5 DEF ToSet
<1>7. QED
  BY <1>1, <1>3, <1>4, <1>6 DEF u

LEMMA ToSetTail ==
    ASSUME NEW S, NEW s \in Seq(S), s # <<>>
    PROVE  /\ ToSet(s) = {Head(s)} \cup ToSet(Tail(s))
           /\ \A i \in DOMAIN Tail(s) : i + 1 \in DOMAIN s /\ Tail(s)[i] = s[i + 1]
           /\ 1 \in DOMAIN s /\ Head(s) = s[1]
<1> DEFINE u == Tail(s)
<1>1. /\ Len(u) = Len(s) - 1 /\ Len(s) \in Nat \ {0}
      /\ DOMAIN s = 1..Len(s) /\ DOMAIN u = 1..Len(u) /\ Head(s) = s[1]
      /\ \A i \in 1..Len(u) : u[i] = s[i + 1]
  OBVIOUS
<1> HIDE DEF u
<1>2. \A i \in DOMAIN u : i + 1 \in DOMAIN s /\ u[i] = s[i + 1]
  BY <1>1
<1>3. ASSUME NEW i \in DOMAIN s PROVE s[i] \in {Head(s)} \cup ToSet(u)
  <2>1. CASE i = 1
    BY <1>1, <2>1
  <2>2. CASE i # 1
    <3>1. i - 1 \in DOMAIN u /\ (i - 1) + 1 = i
      BY <1>1, <2>2
    <3>2. u[i - 1] = s[i]
      BY <1>2, <3>1
    <3>3. QED
      BY <3>1, <3>2 DEF ToSet
  <2>3. QED
    BY <2>1, <2>2
<1>4. 1 \in DOMAIN s /\ Head(s) \in ToSet(s)
  BY <1>1 DEF ToSet
<1>5. ToSet(s) = {Head(s)} \cup ToSet(u)
  BY <1>2, <1>3, <1>4 DEF ToSet
<1>6. QED
  BY <1>1, <1>2, <1>4, <1>5 DEF u

LEMMA ToSetTasks ==
    ASSUME NEW q \in Seq(Node), NEW do
    PROVE  ToSet(Tasks(do, q)) = {Task(do, n) : n \in ToSet(q)}
BY DEF ToSet, Tasks

LEMMA ToSetEmpty == ToSet(<<>>) = {}
BY DEF ToSet

\* A symbol that is sent once is let through once.
OnceOnly(s) ==
    \A i, j \in DOMAIN s :
        s[i] = s[j] /\ s[i].do = "symbol" /\ s[i].node \notin Resent => i = j

Letting(s) == {n \in Node \ Resent : Task("symbol", n) \in ToSet(s)}

LEMMA OnceTail ==
    ASSUME NEW s \in Seq(TaskSet), s # <<>>, OnceOnly(s)
    PROVE  /\ OnceOnly(Tail(s))
           /\ Head(s).do = "symbol" /\ Head(s).node \notin Resent => Head(s) \notin ToSet(Tail(s))
<1> DEFINE u == Tail(s)
<1>1. /\ \A i \in DOMAIN u : i + 1 \in DOMAIN s /\ u[i] = s[i + 1]
      /\ 1 \in DOMAIN s /\ Head(s) = s[1]
  BY ToSetTail
<1>2. DOMAIN u \subseteq Nat \ {0}
  OBVIOUS
<1> HIDE DEF u
<1>3. OnceOnly(u)
  <2>1. ASSUME NEW i \in DOMAIN u, NEW j \in DOMAIN u,
               u[i] = u[j], u[i].do = "symbol", u[i].node \notin Resent
        PROVE  i = j
    <3>1. i + 1 = j + 1
      BY <1>1, <2>1 DEF OnceOnly
    <3>2. QED
      BY <1>2, <3>1
  <2>2. QED
    BY <2>1 DEF OnceOnly
<1>4. ASSUME Head(s).do = "symbol", Head(s).node \notin Resent PROVE Head(s) \notin ToSet(u)
  <2>1. SUFFICES ASSUME NEW i \in DOMAIN u, u[i] = Head(s) PROVE FALSE
    BY DEF ToSet
  <2>2. s[i + 1] = s[1] /\ i + 1 \in DOMAIN s
    BY <1>1, <2>1
  <2>3. 1 = i + 1
    BY <1>1, <1>4, <2>2 DEF OnceOnly
  <2>4. QED
    BY <1>2, <2>3
<1>5. QED
  BY <1>3, <1>4 DEF u

LEMMA OnceConcat ==
    ASSUME NEW s \in Seq(TaskSet), NEW t \in Seq(TaskSet), OnceOnly(s), OnceOnly(t),
           Letting(s) \cap Letting(t) = {}
    PROVE  OnceOnly(s \o t)
<1> DEFINE u == s \o t
<1>1. /\ DOMAIN s = 1..Len(s) /\ Len(s) \in Nat
      /\ DOMAIN t = 1..Len(t) /\ Len(t) \in Nat
      /\ DOMAIN u = 1..(Len(s) + Len(t))
      /\ \A i \in DOMAIN s : u[i] = s[i] /\ s[i] \in TaskSet
      /\ \A i \in DOMAIN t : u[Len(s) + i] = t[i] /\ t[i] \in TaskSet
  BY ToSetConcat
<1> HIDE DEF u
<1>2. ASSUME NEW i \in DOMAIN u
      PROVE  i \in DOMAIN s \/ \E k \in DOMAIN t : i = Len(s) + k
  <2>1. CASE i <= Len(s)
    BY <1>1, <2>1
  <2>2. CASE ~(i <= Len(s))
    <3>1. i - Len(s) \in DOMAIN t /\ i = Len(s) + (i - Len(s))
      BY <1>1, <2>2
    <3>2. QED
      BY <3>1
  <2>3. QED
    BY <2>1, <2>2
<1>3. ASSUME NEW i \in DOMAIN s, NEW k \in DOMAIN t, s[i] = t[k],
             s[i].do = "symbol", s[i].node \notin Resent
      PROVE  FALSE
  <2>1. s[i] = Task("symbol", s[i].node) /\ s[i].node \in Node
    BY <1>1, <1>3 DEF Task, TaskSet
  <2>2. s[i] \in ToSet(s) /\ s[i] \in ToSet(t)
    BY <1>3 DEF ToSet
  <2>3. QED
    BY <1>3, <2>1, <2>2 DEF Letting
<1>4. ASSUME NEW i \in DOMAIN u, NEW j \in DOMAIN u,
             u[i] = u[j], u[i].do = "symbol", u[i].node \notin Resent
      PROVE  i = j
  <2>1. CASE i \in DOMAIN s /\ j \in DOMAIN s
    BY <1>1, <1>4, <2>1 DEF OnceOnly
  <2>2. CASE i \in DOMAIN s /\ \E k \in DOMAIN t : j = Len(s) + k
    BY <1>1, <1>3, <1>4, <2>2
  <2>3. CASE j \in DOMAIN s /\ \E k \in DOMAIN t : i = Len(s) + k
    BY <1>1, <1>3, <1>4, <2>3
  <2>4. ASSUME NEW k \in DOMAIN t, NEW l \in DOMAIN t, i = Len(s) + k, j = Len(s) + l
        PROVE  i = j
    <3>1. k = l
      BY <1>1, <1>4, <2>4 DEF OnceOnly
    <3>2. QED
      BY <2>4, <3>1
  <2>5. QED
    BY <1>2, <2>1, <2>2, <2>3, <2>4
<1>5. QED
  BY <1>4 DEF OnceOnly, u

-----------------------------------------------------------------------------
(* What waits, what is let through and what is shown.                      *)

\* A symbol waits in the buffer of its file; unless it is sent twice it is
\* there once, and not placed.
WaitingOnce ==
    \A f \in Node : \A i, j \in DOMAIN waiting[f] :
        waiting[f][i] = waiting[f][j] /\ waiting[f][i] \notin Resent => i = j

Waits ==
    \A f \in Node : \A n \in ToSet(waiting[f]) :
        /\ KindOf[n] = "symbol" /\ ParentOf[n] = f /\ sent[n] > 0
        /\ n \notin Resent => n \notin Placed

\* What is emitted is placed.  What is let through has left the buffer, and
\* its file is placed.
Works ==
    \A t \in ToSet(work) :
        /\ t.do = "emit" => t.node \in Placed
        /\ t.do = "symbol" =>
              /\ KindOf[t.node] = "symbol" /\ KindOf[ParentOf[t.node]] = "file"
              /\ ParentOf[t.node] \in Placed /\ sent[t.node] > 0
              /\ t.node \notin Resent =>
                    t.node \notin Placed /\ t.node \notin ToSet(waiting[ParentOf[t.node]])

\* The client has the slots of the authority, the one being emitted aside;
\* of a node sent once it has the slot or none.
Shows ==
    /\ DOMAIN shown \subseteq Placed /\ again \subseteq Placed
    /\ \A n \in Placed : sent[n] > 0
    /\ \A n \in Placed :
          \/ n \in DOMAIN shown /\ shown[n] = slots[n]
          \/ Doing("emit") /\ n = This
    /\ \A n \in DOMAIN shown : n \notin Resent => shown[n] = slots[n]

\* A placed symbol has a file the client knows, and a slot around it.
Family ==
    \A n \in Placed : KindOf[n] = "symbol" =>
        /\ ParentOf[n] # n /\ ParentOf[n] \in DOMAIN shown
        /\ ParentOf[n] \notin Resent => slots[n].around = slots[ParentOf[n]]

\* No node is forgotten: it was lost, or it is placed, waits or is let through.
Accounted ==
    \A n \in Node : sent[n] > 0 /\ n \notin lost =>
        \/ n \in Placed
        \/ KindOf[n] = "symbol" /\ n \in ToSet(waiting[ParentOf[n]])
        \/ Task("symbol", n) \in ToSet(work)

\* Only the file that is emitted next still has symbols waiting for it.
FilesLetThrough ==
    \A f \in Placed : KindOf[f] = "file" /\ waiting[f] # <<>> => Doing("emit") /\ This = f

\* A buffered edge with both ends placed is about to be flushed.
EdgesAreDue ==
    \A e \in ToSet(pending) : Ends(e) \subseteq Placed =>
        \E x \in Ends(e) : Task("edges", x) \in ToSet(work)

FlowInv == OnceOnly(work) /\ WaitingOnce /\ Waits /\ Works
DueInv == Accounted /\ FilesLetThrough /\ EdgesAreDue
LayoutInv == TypeInv /\ FlowInv /\ Shows /\ Family /\ DueInv

LEMMA LayoutInit == Init => LayoutInv
<1> SUFFICES ASSUME Init PROVE LayoutInv
  OBVIOUS
<1>1. /\ work = <<>> /\ pending = <<>> /\ Placed = {} /\ DOMAIN shown = {} /\ again = {}
      /\ \A f \in Node : waiting[f] = <<>> /\ sent[f] = 0
      /\ ToSet(work) = {} /\ ToSet(pending) = {} /\ \A f \in Node : ToSet(waiting[f]) = {}
      /\ DOMAIN <<>> = {}
  BY ToSetEmpty DEF Init, Placed
<1>2. FlowInv
  BY <1>1 DEF FlowInv, OnceOnly, WaitingOnce, Waits, Works
<1>3. Shows /\ Family
  BY <1>1 DEF Shows, Family
<1>4. DueInv
  BY <1>1 DEF DueInv, Accounted, FilesLetThrough, EdgesAreDue
<1>5. QED
  BY <1>2, <1>3, <1>4, InitType DEF LayoutInv

\* Placing a node gives it a slot, a symbol one around its file, and moves
\* nobody else.
LEMMA PlaceSlot ==
    ASSUME TypeInv, NEW n \in Node, Place(n)
    PROVE  /\ Placed' = Placed \cup {n}
           /\ \A m \in Placed : m # n => slots'[m] = slots[m]
           /\ KindOf[n] = "symbol" => slots'[n].around = slots[ParentOf[n]]
<1>1. slots' = With(slots, n, SlotOf(n))
  BY DEF Place
<1>2. Placed' = Placed \cup {n}
  BY PlaceType
<1>3. slots'[n] = SlotOf(n) /\ \A m \in Placed : m # n => slots'[m] = slots[m]
  BY <1>1 DEF With, Placed
<1>4. KindOf[n] = "symbol" => SlotOf(n).around = slots[ParentOf[n]]
  BY DEF SlotOf
<1>5. QED
  BY <1>2, <1>3, <1>4

\* A node that is placed while the client knows all the others.
LEMMA PlaceShows ==
    ASSUME TypeInv, Shows, Family, NEW n \in Node, Place(n), ~Doing("emit"),
           n \notin Resent => n \notin Placed,
           KindOf[n] = "symbol" => ParentOf[n] \in Placed /\ ParentOf[n] # n,
           \A m \in Placed \cup {n} : sent'[m] > 0,
           shown' = shown, again' = again,
           Doing("emit")', This' = n
    PROVE  Shows' /\ Family'
<1>1. /\ Placed' = Placed \cup {n}
      /\ \A m \in Placed : m # n => slots'[m] = slots[m]
      /\ KindOf[n] = "symbol" => slots'[n].around = slots[ParentOf[n]]
  BY PlaceSlot
<1>2. /\ DOMAIN shown = Placed
      /\ \A m \in Placed : shown[m] = slots[m]
  BY DEF Shows
<1>3. Shows'
  BY <1>1, <1>2 DEF Shows
<1>4. ASSUME NEW m \in Placed', KindOf[m] = "symbol"
      PROVE  /\ ParentOf[m] # m /\ ParentOf[m] \in DOMAIN shown
             /\ ParentOf[m] \notin Resent => slots'[m].around = slots'[ParentOf[m]]
  <2>1. CASE m = n
    <3>1. ParentOf[n] \in Placed /\ ParentOf[n] # n
      BY <1>4, <2>1
    <3>2. slots'[ParentOf[n]] = slots[ParentOf[n]]
      BY <1>1, <3>1
    <3>3. QED
      BY <1>1, <1>2, <1>4, <2>1, <3>1, <3>2
  <2>2. CASE m # n
    <3>1. /\ m \in Placed /\ ParentOf[m] # m /\ ParentOf[m] \in DOMAIN shown
          /\ ParentOf[m] \notin Resent => slots[m].around = slots[ParentOf[m]]
      BY <1>1, <1>4, <2>2 DEF Family
    <3>2. ParentOf[m] \notin Resent => ParentOf[m] # n
      BY <1>2, <3>1
    <3>3. QED
      BY <1>1, <1>2, <2>2, <3>1, <3>2
  <2>3. QED
    BY <2>1, <2>2
<1>5. Family'
  BY <1>4 DEF Family
<1>6. QED
  BY <1>3, <1>5

\* add_node of a node that can be placed.
LEMMA AddNodeLayout ==
    ASSUME LayoutInv, NEW n \in Node, AddNode(n)
    PROVE  FlowInv' /\ Shows' /\ Family' /\ DueInv'
<1> USE DEF LayoutInv
<1>0. /\ work = <<>> /\ again = {} /\ MaySend(n) /\ Place(n)
      /\ KindOf[n] = "symbol" => ParentOf[n] \in Placed
      /\ work' = << Task("emit", n), Task("edges", n) >>
      /\ sent' = [sent EXCEPT ![n] = @ + 1]
      /\ UNCHANGED <<waiting, pending, again, shown, lost>>
  BY DEF AddNode, Unlocked, client
<1>1. /\ sent \in [Node -> 0..2] /\ Placed \subseteq Node
  BY DEF TypeInv, TypeOK
<1>2. /\ sent'[n] > 0
      /\ \A m \in Node : sent[m] > 0 => sent'[m] > 0
      /\ \A m \in Node : m # n => sent'[m] = sent[m]
  BY <1>0, <1>1
<1>3. n \notin Resent => sent[n] = 0
  BY <1>0, <1>1 DEF MaySend
<1>4. n \notin Resent => n \notin Placed /\ \A f \in Node : n \notin ToSet(waiting[f])
  BY <1>3 DEF Shows, FlowInv, Waits
<1>5. /\ ToSet(work') = {Task("emit", n), Task("edges", n)}
      /\ Doing("emit")' /\ This' = n
  BY <1>0 DEF ToSet, Doing, This, Task
<1>6. Placed' = Placed \cup {n}
  BY <1>0, PlaceSlot
<1>7. ~Doing("emit")
  BY <1>0 DEF Doing
<1>8. KindOf[n] = "symbol" => ParentOf[n] # n
  BY <1>0 DEF Family
<1>9. Shows' /\ Family'
  <2>1. \A m \in Placed \cup {n} : sent'[m] > 0
    BY <1>1, <1>2 DEF Shows
  <2>2. QED
    BY <1>0, <1>4, <1>5, <1>7, <1>8, <2>1, PlaceShows
<1>10. FlowInv'
  <2>1. OnceOnly(work)'
    <3>1. DOMAIN work' = {1, 2} /\ work'[1].do = "emit" /\ work'[2].do = "edges"
      BY <1>0 DEF Task
    <3>2. QED
      BY <3>1 DEF OnceOnly
  <2>2. WaitingOnce'
    BY <1>0 DEF FlowInv, WaitingOnce
  <2>3. Waits'
    BY <1>0, <1>2, <1>4, <1>6 DEF FlowInv, Waits, ToSet, TypeInv, TypeOK
  <2>4. Works'
    BY <1>5, <1>6 DEF Works, Task
  <2>5. QED
    BY <2>1, <2>2, <2>3, <2>4 DEF FlowInv
<1>11. Accounted'
  <2>1. Task("symbol", n) \notin ToSet(work)
    BY <1>0, ToSetEmpty
  <2>2. ASSUME NEW m \in Node, sent'[m] > 0, m \notin lost
        PROVE  m \in Placed' \/ (KindOf[m] = "symbol" /\ m \in ToSet(waiting[ParentOf[m]]))
    <3>1. CASE m = n
      BY <1>6, <3>1
    <3>2. CASE m # n
      BY <1>0, <1>2, <1>6, <2>2, <3>2, ToSetEmpty DEF DueInv, Accounted
    <3>3. QED
      BY <3>1, <3>2
  <2>3. QED
    BY <1>0, <2>2 DEF Accounted
<1>12. FilesLetThrough'
  BY <1>0, <1>5, <1>6, <1>7 DEF DueInv, FilesLetThrough
<1>13. EdgesAreDue'
  <2>1. \A e \in ToSet(pending) : ~(Ends(e) \subseteq Placed)
    BY <1>0, ToSetEmpty DEF DueInv, EdgesAreDue
  <2>2. QED
    BY <1>0, <1>5, <1>6, <2>1 DEF EdgesAreDue
<1>14. QED
  BY <1>9, <1>10, <1>11, <1>12, <1>13 DEF DueInv

\* add_node of a symbol whose parent is not placed.
LEMMA AddSymbolEarlyLayout ==
    ASSUME LayoutInv, NEW n \in Node, AddSymbolEarly(n)
    PROVE  FlowInv' /\ Shows' /\ Family' /\ DueInv'
<1> USE DEF LayoutInv
<1> DEFINE f == ParentOf[n]
<1>0. /\ work = <<>> /\ again = {} /\ MaySend(n) /\ KindOf[n] = "symbol"
      /\ f \in Node /\ f \notin Placed
      /\ sent' = [sent EXCEPT ![n] = @ + 1]
      /\ UNCHANGED <<work, again, shown, slots, pending>>
      /\ Placed' = Placed
      /\ \/ waiting' = [waiting EXCEPT ![f] = Append(@, n)] /\ lost' = lost
         \/ waiting' = waiting /\ lost' = lost \cup {n}
  BY LayoutAssumption DEF AddSymbolEarly, Unlocked, placement, client, Placed
<1>1. /\ sent \in [Node -> 0..2] /\ Placed \subseteq Node
      /\ waiting \in [Node -> Seq(Node)]
  BY DEF TypeInv, TypeOK
<1>2. /\ sent'[n] > 0
      /\ \A m \in Node : sent[m] > 0 => sent'[m] > 0
      /\ \A m \in Node : m # n => sent'[m] = sent[m]
  <2>1. sent' = [sent EXCEPT ![n] = @ + 1]
    BY <1>0
  <2>2. QED
    BY <1>1, <2>1
<1>3. n \notin Resent => sent[n] = 0
  BY <1>0, <1>1 DEF MaySend
<1>4. n \notin Resent => n \notin Placed /\ \A g \in Node : n \notin ToSet(waiting[g])
  BY <1>3 DEF Shows, FlowInv, Waits
<1>5. ToSet(work) = {} /\ ToSet(work') = {} /\ ~Doing("emit") /\ ~Doing("emit")'
  BY <1>0, ToSetEmpty DEF Doing
<1> HIDE DEF f
<1>6. /\ \A g \in Node : g # f => waiting'[g] = waiting[g]
      /\ \/ waiting'[f] = waiting[f] /\ n \in lost'
         \/ waiting'[f] = Append(waiting[f], n)
      /\ lost \subseteq lost'
  BY <1>0, <1>1
<1>7. /\ ToSet(waiting'[f]) \subseteq ToSet(waiting[f]) \cup {n}
      /\ ToSet(waiting[f]) \subseteq ToSet(waiting'[f])
      /\ n \in ToSet(waiting'[f]) \/ n \in lost'
  <2>1. waiting[f] \in Seq(Node)
    BY <1>0, <1>1
  <2>2. ToSet(Append(waiting[f], n)) = ToSet(waiting[f]) \cup {n}
    BY <2>1, ToSetAppend
  <2>3. QED
    BY <1>6, <2>2
<1>8. FlowInv'
  <2>1. OnceOnly(work)'
    BY <1>0 DEF FlowInv, OnceOnly
  <2>2. WaitingOnce'
    <3>1. ASSUME NEW g \in Node, NEW i \in DOMAIN waiting'[g], NEW j \in DOMAIN waiting'[g],
                 waiting'[g][i] = waiting'[g][j], waiting'[g][i] \notin Resent
          PROVE  i = j
      <4>1. CASE waiting'[g] = waiting[g]
        BY <3>1, <4>1 DEF FlowInv, WaitingOnce
      <4>2. CASE g = f /\ waiting'[f] = Append(waiting[f], n)
        <5> DEFINE q == waiting[f]
        <5>1. q \in Seq(Node)
          BY <1>0, <1>1
        <5>2. /\ DOMAIN waiting'[g] = DOMAIN q \cup {Len(q) + 1}
              /\ waiting'[g][Len(q) + 1] = n
              /\ \A k \in DOMAIN q : waiting'[g][k] = q[k]
          BY <4>2, <5>1, ToSetAppend
        <5>3. \A k \in DOMAIN q : q[k] \in ToSet(q)
          BY DEF ToSet
        <5>4. n \notin Resent => n \notin ToSet(q)
          BY <1>0, <1>4
        <5>5. i \in DOMAIN q /\ j \in DOMAIN q => i = j
          BY <1>0, <3>1, <5>2 DEF FlowInv, WaitingOnce
        <5> HIDE DEF q
        <5>6. QED
          BY <3>1, <5>2, <5>3, <5>4, <5>5
      <4>3. QED
        BY <1>6, <4>1, <4>2
    <3>2. QED
      BY <3>1 DEF WaitingOnce
  <2>3. Waits'
    <3>1. ASSUME NEW g \in Node, NEW m \in ToSet(waiting'[g])
          PROVE  /\ KindOf[m] = "symbol" /\ ParentOf[m] = g /\ sent'[m] > 0
                 /\ m \notin Resent => m \notin Placed
      <4>1. CASE m \in ToSet(waiting[g])
        <5>1. m \in Node
          BY <1>1, <4>1 DEF ToSet
        <5>2. QED
          BY <1>2, <4>1, <5>1 DEF FlowInv, Waits
      <4>2. CASE m \notin ToSet(waiting[g])
        <5>1. g = f /\ m = n
          BY <1>6, <1>7, <3>1, <4>2
        <5>2. QED
          BY <1>0, <1>2, <1>4, <5>1 DEF f
      <4>3. QED
        BY <4>1, <4>2
    <3>2. QED
      BY <1>0, <3>1 DEF Waits
  <2>4. Works'
    BY <1>5 DEF Works
  <2>5. QED
    BY <2>1, <2>2, <2>3, <2>4 DEF FlowInv
<1>9. Shows' /\ Family'
  <2>1. \A m \in Placed : sent'[m] > 0
    BY <1>1, <1>2 DEF Shows
  <2>2. QED
    BY <1>0, <1>5, <2>1 DEF Shows, Family
<1>10. Accounted'
  <2>1. ASSUME NEW m \in Node, sent'[m] > 0, m \notin lost'
        PROVE  m \in Placed \/ (KindOf[m] = "symbol" /\ m \in ToSet(waiting'[ParentOf[m]]))
    <3>1. CASE m = n
      BY <1>0, <1>7, <2>1, <3>1 DEF f
    <3>2. CASE m # n
      <4>1. m \in Placed \/ (KindOf[m] = "symbol" /\ m \in ToSet(waiting[ParentOf[m]]))
        BY <1>2, <1>5, <1>6, <2>1, <3>2 DEF DueInv, Accounted
      <4>2. KindOf[m] = "symbol" => ParentOf[m] \in Node
        BY LayoutAssumption
      <4>3. QED
        BY <1>6, <1>7, <4>1, <4>2
    <3>3. QED
      BY <3>1, <3>2
  <2>2. QED
    BY <1>0, <2>1 DEF Accounted
<1>11. FilesLetThrough'
  BY <1>0, <1>1, <1>5, <1>6 DEF DueInv, FilesLetThrough
<1>12. EdgesAreDue'
  BY <1>0, <1>5 DEF DueInv, EdgesAreDue
<1>13. QED
  BY <1>8, <1>9, <1>10, <1>11, <1>12 DEF DueInv

\* Removing one element adds none.
LEMMA ToSetRemoveAt ==
    ASSUME NEW S, NEW q \in Seq(S), NEW i \in DOMAIN q
    PROVE  ToSet(RemoveAt(q, i)) \subseteq ToSet(q)
<1>1. i \in 1..Len(q) /\ Len(q) \in Nat /\ DOMAIN q = 1..Len(q)
  OBVIOUS
<1> DEFINE front == SubSeq(q, 1, i - 1)
           back == SubSeq(q, i + 1, Len(q))
<1>2. /\ front \in Seq(S) /\ DOMAIN front = 1..(i - 1)
      /\ \A j \in 1..(i - 1) : front[j] = q[j]
  BY <1>1, SubSeqProperties
<1>3. /\ back \in Seq(S) /\ DOMAIN back = 1..(Len(q) - i)
      /\ \A j \in 1..(Len(q) - i) : back[j] = q[j + i]
  BY <1>1, SubSeqProperties
<1>4. RemoveAt(q, i) = front \o back
  BY DEF RemoveAt
<1> HIDE DEF front, back
<1>5. ToSet(front \o back) = ToSet(front) \cup ToSet(back)
  BY <1>2, <1>3, ToSetConcat
<1>6. ToSet(front) \subseteq ToSet(q)
  BY <1>1, <1>2 DEF ToSet
<1>7. ToSet(back) \subseteq ToSet(q)
  <2>1. \A j \in 1..(Len(q) - i) : j + i \in 1..Len(q)
    BY <1>1
  <2>2. QED
    BY <1>1, <1>3, <2>1 DEF ToSet
<1>8. QED
  BY <1>4, <1>5, <1>6, <1>7

\* What the steps that touch neither placement, buffers, tasks nor slots keep.
LEMMA FlowKept ==
    ASSUME LayoutInv, UNCHANGED <<placement, waiting, work, shown, sent, lost>>,
           again' \subseteq Placed
    PROVE  FlowInv' /\ Shows' /\ Family' /\ Accounted' /\ FilesLetThrough'
<1>1. Placed' = Placed /\ (Doing("emit"))' = Doing("emit") /\ This' = This
  BY DEF placement, Placed, Doing, This
<1>2. FlowInv'
  BY <1>1 DEF LayoutInv, FlowInv, OnceOnly, WaitingOnce, Waits, Works
<1>3. Shows' /\ Family'
  BY <1>1 DEF LayoutInv, placement, Shows, Family
<1>4. Accounted' /\ FilesLetThrough'
  BY <1>1 DEF LayoutInv, DueInv, Accounted, FilesLetThrough
<1>5. QED
  BY <1>2, <1>3, <1>4

\* add_edge
LEMMA AddEdgeLayout ==
    ASSUME LayoutInv, NEW e \in Edge, AddEdge(e)
    PROVE  FlowInv' /\ Shows' /\ Family' /\ DueInv'
<1>1. /\ UNCHANGED <<placement, waiting, work, again, shown, sent, lost>>
      /\ work = <<>>
      /\ again \subseteq Placed /\ Placed' = Placed
      /\ pending \in Seq(Edge)
  BY DEF AddEdge, Unlocked, LayoutInv, Shows, TypeInv, TypeOK, placement, Placed
<1>2. FlowInv' /\ Shows' /\ Family' /\ Accounted' /\ FilesLetThrough'
  BY <1>1, FlowKept
<1>3. \A d \in ToSet(pending) : ~(Ends(d) \subseteq Placed)
  BY <1>1, ToSetEmpty DEF LayoutInv, DueInv, EdgesAreDue
<1>4. \A d \in ToSet(pending') : ~(Ends(d) \subseteq Placed)
  <2>1. CASE Ends(e) \subseteq Placed
    BY <1>3, <2>1 DEF AddEdge
  <2>2. CASE ~(Ends(e) \subseteq Placed)
    <3>1. \A q \in Seq(Edge) :
             ToSet(q) \subseteq ToSet(pending) /\ pending' = Append(q, e)
             => \A d \in ToSet(pending') : ~(Ends(d) \subseteq Placed)
      BY <1>3, <2>2, ToSetAppend
    <3>2. ASSUME NEW i \in Twins(e), pending' = Append(RemoveAt(pending, i), e)
          PROVE  \A d \in ToSet(pending') : ~(Ends(d) \subseteq Placed)
      <4>1. i \in DOMAIN pending
        BY DEF Twins
      <4>2. /\ RemoveAt(pending, i) \in Seq(Edge)
            /\ ToSet(RemoveAt(pending, i)) \subseteq ToSet(pending)
        BY <1>1, <4>1, RemoveAtType, ToSetRemoveAt
      <4>3. QED
        BY <3>1, <3>2, <4>2
    <3>3. CASE pending' = Append(pending, e)
      BY <1>1, <3>1, <3>3
    <3>4. CASE Full /\ pending' = Append(Tail(pending), e)
      <4>1. pending # <<>>
        BY <1>1, <3>4, LayoutAssumption DEF Full
      <4>2. Tail(pending) \in Seq(Edge) /\ ToSet(Tail(pending)) \subseteq ToSet(pending)
        BY <1>1, <4>1, HeadTailProperties, ToSetTail
      <4>3. QED
        BY <3>1, <3>4, <4>2
    <3>5. QED
      BY <2>2, <3>2, <3>3, <3>4 DEF AddEdge, BufferEdge
  <2>3. QED
    BY <2>1, <2>2
<1>5. QED
  BY <1>1, <1>2, <1>4 DEF DueInv, EdgesAreDue

LEMMA RequestSubtreeLayout ==
    ASSUME LayoutInv, NEW d \in Node, RequestSubtree(d)
    PROVE  FlowInv' /\ Shows' /\ Family' /\ DueInv'
<1>1. /\ UNCHANGED <<placement, waiting, work, shown, sent, lost, pending>>
      /\ again' \subseteq Placed /\ Placed' = Placed
  BY DEF RequestSubtree, client, placement, Placed
<1>2. FlowInv' /\ Shows' /\ Family' /\ Accounted' /\ FilesLetThrough'
  BY <1>1, FlowKept
<1>3. QED
  BY <1>1, <1>2 DEF LayoutInv, DueInv, EdgesAreDue

\* done, and a step that changes nothing.
LEMMA QuietLayout ==
    ASSUME LayoutInv, Done \/ UNCHANGED vars
    PROVE  FlowInv' /\ Shows' /\ Family' /\ DueInv'
<1>1. /\ UNCHANGED <<placement, waiting, work, again, shown, sent, lost, pending>>
      /\ again \subseteq Placed /\ Placed' = Placed
  BY DEF Done, client, history, vars, placement, Placed, LayoutInv, Shows
<1>2. FlowInv' /\ Shows' /\ Family' /\ Accounted' /\ FilesLetThrough'
  BY <1>1, FlowKept
<1>3. QED
  BY <1>1, <1>2 DEF LayoutInv, DueInv, EdgesAreDue

\* request_subtree emits a slot again.
LEMMA EmitAgainLayout ==
    ASSUME LayoutInv, NEW n \in Node, EmitAgain(n)
    PROVE  FlowInv' /\ Shows' /\ Family' /\ DueInv'
<1> USE DEF LayoutInv
<1>0. /\ work = <<>> /\ n \in again /\ again' \subseteq again
      /\ work' = << Task("emit", n) >>
      /\ UNCHANGED <<slots, waiting, pending, shown, sent, lost>>
      /\ Placed' = Placed /\ again \subseteq Placed
  BY DEF EmitAgain, client, history, placement, Placed, Shows
<1>1. /\ ToSet(work) = {} /\ ToSet(work') = {Task("emit", n)} /\ ~Doing("emit")
      /\ Doing("emit")' /\ This' = n
  BY <1>0, ToSetEmpty DEF ToSet, Doing, This, Task
<1>2. FlowInv'
  <2>1. OnceOnly(work)'
    BY <1>0 DEF OnceOnly
  <2>2. WaitingOnce' /\ Waits'
    BY <1>0 DEF FlowInv, WaitingOnce, Waits
  <2>3. Works'
    BY <1>0, <1>1 DEF Works, Task
  <2>4. QED
    BY <2>1, <2>2, <2>3 DEF FlowInv
<1>3. Shows' /\ Family'
  BY <1>0, <1>1 DEF Shows, Family
<1>4. DueInv'
  <2>1. Accounted'
    BY <1>0, <1>1 DEF DueInv, Accounted
  <2>2. FilesLetThrough'
    BY <1>0, <1>1 DEF DueInv, FilesLetThrough
  <2>3. EdgesAreDue'
    BY <1>0, <1>1 DEF DueInv, EdgesAreDue
  <2>4. QED
    BY <2>1, <2>2, <2>3 DEF DueInv
<1>5. QED
  BY <1>2, <1>3, <1>4

\* A waiting edge goes out.
LEMMA FlushEdgeLayout ==
    ASSUME LayoutInv, NEW i \in DOMAIN pending, FlushEdge(i)
    PROVE  FlowInv' /\ Shows' /\ Family' /\ DueInv'
<1>1. /\ UNCHANGED <<placement, waiting, work, again, shown, sent, lost>>
      /\ pending' = RemoveAt(pending, i)
      /\ again \subseteq Placed /\ Placed' = Placed
      /\ pending \in Seq(Edge)
  BY DEF FlushEdge, history, LayoutInv, Shows, TypeInv, TypeOK, placement, Placed
<1>2. FlowInv' /\ Shows' /\ Family' /\ Accounted' /\ FilesLetThrough'
  BY <1>1, FlowKept
<1>3. ToSet(pending') \subseteq ToSet(pending)
  BY <1>1, ToSetRemoveAt
<1>4. QED
  BY <1>1, <1>2, <1>3 DEF LayoutInv, DueInv, EdgesAreDue

\* The first task is done.
LEMMA WorkTail ==
    ASSUME TypeInv, work # <<>>
    PROVE  /\ ToSet(work) = {Head(work)} \cup ToSet(Tail(work))
           /\ Tail(work) \in Seq(TaskSet)
           /\ Head(work) \in TaskSet /\ This \in Node
           /\ Head(work) = Task(Head(work).do, This)
           /\ Head(work) \in ToSet(work)
<1>1. work \in Seq(TaskSet)
  BY DEF TypeInv, TypeOK, TaskSet
<1>2. Head(work) \in TaskSet /\ Tail(work) \in Seq(TaskSet)
  BY <1>1, HeadTailProperties
<1>3. ToSet(work) = {Head(work)} \cup ToSet(Tail(work))
  BY <1>1, ToSetTail
<1>4. Head(work) = Task(Head(work).do, This) /\ This \in Node
  BY <1>2 DEF TaskSet, Task, This
<1>5. QED
  BY <1>2, <1>3, <1>4

\* No edge is left for the node.
LEMMA EdgesFlushedLayout ==
    ASSUME LayoutInv, EdgesFlushed
    PROVE  FlowInv' /\ Shows' /\ Family' /\ DueInv'
<1> USE DEF LayoutInv
<1>0. /\ Doing("edges") /\ work # <<>> /\ work' = Tail(work)
      /\ UNCHANGED <<slots, waiting, pending, again, shown, sent, lost>>
      /\ Placed' = Placed
      /\ \A i \in DOMAIN pending : ~Ready(i)
  BY DEF EdgesFlushed, Doing, client, history, placement, Placed
<1>1. /\ ToSet(work) = {Head(work)} \cup ToSet(work')
      /\ Head(work) = Task("edges", This)
      /\ ~Doing("emit")
  BY <1>0, WorkTail DEF Doing
<1>2. FlowInv'
  <2>1. OnceOnly(work)'
    <3>1. work \in Seq(TaskSet)
      BY DEF TypeInv, TypeOK, TaskSet
    <3>2. QED
      BY <1>0, <3>1, OnceTail DEF FlowInv
  <2>2. WaitingOnce' /\ Waits'
    BY <1>0 DEF FlowInv, WaitingOnce, Waits
  <2>3. Works'
    BY <1>0, <1>1 DEF FlowInv, Works
  <2>4. QED
    BY <2>1, <2>2, <2>3 DEF FlowInv
<1>3. Shows' /\ Family'
  BY <1>0, <1>1 DEF Shows, Family
<1>4. DueInv'
  <2>1. Accounted'
    <3>1. \A n : Task("symbol", n) # Head(work)
      BY <1>1 DEF Task
    <3>2. QED
      BY <1>0, <1>1, <3>1 DEF DueInv, Accounted
  <2>2. FilesLetThrough'
    BY <1>0, <1>1 DEF DueInv, FilesLetThrough
  <2>3. EdgesAreDue'
    <3>1. ASSUME NEW e \in ToSet(pending), Ends(e) \subseteq Placed
          PROVE  \E x \in Ends(e) : Task("edges", x) \in ToSet(work')
      <4>1. PICK x \in Ends(e) : Task("edges", x) \in ToSet(work)
        BY <3>1 DEF DueInv, EdgesAreDue
      <4>2. PICK i \in DOMAIN pending : e = pending[i]
        BY DEF ToSet
      <4>3. This \notin Ends(e)
        BY <1>0, <3>1, <4>2 DEF Ready
      <4>4. Task("edges", x) # Head(work)
        BY <1>1, <4>1, <4>3 DEF Task
      <4>5. QED
        BY <1>1, <4>1, <4>4
    <3>2. QED
      BY <1>0, <3>1 DEF EdgesAreDue
  <2>4. QED
    BY <2>1, <2>2, <2>3 DEF DueInv
<1>5. QED
  BY <1>2, <1>3, <1>4

\* The symbols that waited for a file are let through once each.
LEMMA LetThroughOnce ==
    ASSUME LayoutInv, NEW f \in Node, NEW t \in Seq(TaskSet),
           OnceOnly(t), ToSet(t) \subseteq ToSet(work)
    PROVE  OnceOnly(Tasks("symbol", waiting[f]) \o t)
<1> DEFINE q == waiting[f]
           s == Tasks("symbol", q)
<1>1. q \in Seq(Node)
  BY DEF LayoutInv, TypeInv, TypeOK
<1>2. s \in Seq(TaskSet)
  BY <1>1, TasksType
<1>3. /\ DOMAIN s = DOMAIN q
      /\ \A i \in DOMAIN q : s[i] = Task("symbol", q[i])
  BY DEF Tasks
<1>4. \A i, j \in DOMAIN q : q[i] = q[j] /\ q[i] \notin Resent => i = j
  BY DEF LayoutInv, FlowInv, WaitingOnce
<1>5. \A i \in DOMAIN q : q[i] \in ToSet(q) /\ q[i] \in Node
  BY <1>1 DEF ToSet
<1>6. \A n \in ToSet(q) : ParentOf[n] = f /\ n \in Node
  BY <1>1 DEF LayoutInv, FlowInv, Waits, ToSet
<1>7. ToSet(s) = {Task("symbol", n) : n \in ToSet(q)}
  BY <1>1, ToSetTasks
<1>8. \A n \in Node : Task("symbol", n) \in ToSet(t) /\ n \notin Resent
                      => n \notin ToSet(waiting[ParentOf[n]])
  BY DEF LayoutInv, FlowInv, Works, Task
<1>9. \A n \in ToSet(q) : n \notin Resent => Task("symbol", n) \notin ToSet(t)
  BY <1>6, <1>8
<1> HIDE DEF s, q
<1>10. OnceOnly(s)
  BY <1>3, <1>4 DEF OnceOnly, Task
<1>11. Letting(s) \cap Letting(t) = {}
  BY <1>7, <1>9 DEF Letting, Task
<1>12. OnceOnly(s \o t)
  BY <1>2, <1>10, <1>11, OnceConcat
<1>13. QED
  BY <1>12 DEF s, q

\* A slot is emitted; that of a file lets its symbols through.
LEMMA EmitSlotLayout ==
    ASSUME LayoutInv, EmitSlot
    PROVE  FlowInv' /\ Shows' /\ Family' /\ DueInv'
<1> USE DEF LayoutInv
<1>0. /\ Doing("emit") /\ work # <<>>
      /\ shown' = With(shown, This, slots[This])
      /\ UNCHANGED <<slots, pending, again, sent, lost>>
      /\ Placed' = Placed
  BY DEF EmitSlot, Doing, history, placement, Placed
<1>1. /\ ToSet(work) = {Head(work)} \cup ToSet(Tail(work))
      /\ Tail(work) \in Seq(TaskSet)
      /\ Head(work) = Task("emit", This) /\ This \in Node
      /\ This \in Placed
  <2>1. /\ ToSet(work) = {Head(work)} \cup ToSet(Tail(work))
        /\ Tail(work) \in Seq(TaskSet)
        /\ Head(work) = Task("emit", This) /\ This \in Node
    BY <1>0, WorkTail DEF Doing
  <2>2. This \in Placed
    BY <2>1 DEF FlowInv, Works, Task
  <2>3. QED
    BY <2>1, <2>2
<1>2. /\ DOMAIN shown' = DOMAIN shown \cup {This}
      /\ shown'[This] = slots[This]
      /\ \A n \in DOMAIN shown : n # This => shown'[n] = shown[n]
  BY <1>0 DEF With
<1>3. Shows'
  BY <1>0, <1>1, <1>2 DEF Shows
<1>4. Family'
  BY <1>0, <1>2 DEF Family
<1>5. /\ waiting \in [Node -> Seq(Node)] /\ work \in Seq(TaskSet)
  BY DEF TypeInv, TypeOK, TaskSet
<1>6. OnceOnly(Tail(work))
  BY <1>0, <1>5, OnceTail DEF FlowInv
<1>a. PICK u \in Seq(TaskSet) : u = Tail(work)
  BY <1>1
\* What the two branches have in common.
<1>7. /\ \A g \in Node : waiting'[g] = waiting[g] \/ (g = This /\ waiting'[g] = <<>>)
      /\ KindOf[This] = "file" =>
            /\ waiting'[This] = <<>>
            /\ ToSet(work') = {Task("symbol", n) : n \in ToSet(waiting[This])} \cup ToSet(u)
      /\ KindOf[This] # "file" => waiting' = waiting /\ work' = u
      /\ OnceOnly(work')
  <2>1. CASE KindOf[This] = "file"
    <3>1. /\ work' = Tasks("symbol", waiting[This]) \o u
          /\ waiting' = [waiting EXCEPT ![This] = <<>>]
      BY <2>1, <1>a DEF EmitSlot
    <3>2. waiting[This] \in Seq(Node)
      BY <1>1, <1>5
    <3>3. /\ Tasks("symbol", waiting[This]) \in Seq(TaskSet)
          /\ ToSet(Tasks("symbol", waiting[This])) = {Task("symbol", n) : n \in ToSet(waiting[This])}
      BY <3>2, TasksType, ToSetTasks
    <3>4. ToSet(work') = {Task("symbol", n) : n \in ToSet(waiting[This])} \cup ToSet(u)
      BY <3>1, <3>3, ToSetConcat
    <3>5. OnceOnly(work')
      BY <3>1, <1>1, <1>6, <1>a, LetThroughOnce
    <3>6. QED
      BY <1>1, <1>5, <2>1, <3>1, <3>4, <3>5
  <2>2. CASE KindOf[This] # "file"
    BY <1>6, <1>a, <2>2 DEF EmitSlot
  <2>3. QED
    BY <2>1, <2>2
<1>8. ToSet(work) = {Task("emit", This)} \cup ToSet(u) /\ ToSet(u) \subseteq ToSet(work')
  BY <1>1, <1>7, <1>a
<1>9. \A g \in Node : ToSet(waiting'[g]) \subseteq ToSet(waiting[g])
  BY <1>7, ToSetEmpty
<1>10. FlowInv'
  <2>1. WaitingOnce'
    BY <1>7 DEF FlowInv, WaitingOnce
  <2>2. Waits'
    BY <1>0, <1>9 DEF FlowInv, Waits
  <2>3. ASSUME NEW t \in ToSet(work')
        PROVE  /\ t.do = "emit" => t.node \in Placed
               /\ t.do = "symbol" =>
                    /\ KindOf[t.node] = "symbol" /\ KindOf[ParentOf[t.node]] = "file"
                    /\ ParentOf[t.node] \in Placed /\ sent[t.node] > 0
                    /\ t.node \notin Resent =>
                          t.node \notin Placed /\ t.node \notin ToSet(waiting'[ParentOf[t.node]])
    <3>1. CASE t \in ToSet(u)
      <4>1. t \in ToSet(work)
        BY <1>8, <3>1
      <4>2. t.do = "symbol" => ParentOf[t.node] \in Node
        BY <4>1 DEF FlowInv, Works, TypeInv, TypeOK
      <4>3. QED
        BY <1>9, <4>1, <4>2 DEF FlowInv, Works
    <3>2. CASE t \notin ToSet(u)
      <4>1. KindOf[This] = "file"
        BY <1>7, <3>2
      <4>2. PICK n \in ToSet(waiting[This]) : t = Task("symbol", n)
        BY <1>7, <2>3, <3>2, <4>1
      <4>3. /\ KindOf[n] = "symbol" /\ ParentOf[n] = This /\ sent[n] > 0
            /\ n \notin Resent => n \notin Placed
        BY <1>1 DEF FlowInv, Waits
      <4>4. ToSet(waiting'[This]) = {}
        BY <1>7, <4>1, ToSetEmpty
      <4>5. QED
        BY <1>1, <4>1, <4>2, <4>3, <4>4 DEF Task
    <3>3. QED
      BY <3>1, <3>2
  <2>4. Works'
    BY <1>0, <2>3 DEF Works
  <2>5. QED
    BY <1>7, <2>1, <2>2, <2>4 DEF FlowInv
<1>11. Accounted'
  <2>1. ASSUME NEW m \in Node, sent[m] > 0, m \notin lost, m \notin Placed
        PROVE  \/ KindOf[m] = "symbol" /\ m \in ToSet(waiting'[ParentOf[m]])
               \/ Task("symbol", m) \in ToSet(work')
    <3>1. CASE KindOf[m] = "symbol" /\ m \in ToSet(waiting[ParentOf[m]])
      <4>1. ParentOf[m] \in Node
        BY <3>1, LayoutAssumption
      <4>2. CASE waiting'[ParentOf[m]] = waiting[ParentOf[m]]
        BY <3>1, <4>2
      <4>3. CASE ParentOf[m] = This /\ KindOf[This] = "file"
        BY <1>7, <3>1, <4>3
      <4>4. QED
        BY <1>7, <4>1, <4>2, <4>3
    <3>2. CASE Task("symbol", m) \in ToSet(work)
      BY <1>8, <3>2 DEF Task
    <3>3. QED
      BY <2>1, <3>1, <3>2 DEF DueInv, Accounted
  <2>2. QED
    BY <1>0, <2>1 DEF Accounted
<1>12. FilesLetThrough'
  <2>1. \A f \in Placed : KindOf[f] = "file" => waiting'[f] = <<>>
    BY <1>7 DEF DueInv, FilesLetThrough, TypeInv, TypeOK
  <2>2. QED
    BY <1>0, <2>1 DEF FilesLetThrough
<1>13. EdgesAreDue'
  <2>1. \A x : Task("edges", x) \in ToSet(work) => Task("edges", x) \in ToSet(work')
    BY <1>8 DEF Task
  <2>2. QED
    BY <1>0, <2>1 DEF DueInv, EdgesAreDue
<1>14. QED
  BY <1>3, <1>4, <1>10, <1>11, <1>12, <1>13 DEF DueInv

\* A symbol that is let through is placed.
LEMMA PlaceSymbolLayout ==
    ASSUME LayoutInv, PlaceSymbol
    PROVE  FlowInv' /\ Shows' /\ Family' /\ DueInv'
<1> USE DEF LayoutInv
<1>a. work # <<>> /\ work \in Seq(TaskSet)
  BY DEF PlaceSymbol, Doing, TypeInv, TypeOK, TaskSet
<1>b. PICK n \in Node : n = This
  BY <1>a, WorkTail
<1>c. PICK u \in Seq(TaskSet) : u = Tail(work)
  BY <1>a, WorkTail
<1>d. PICK two \in Seq(TaskSet) : two = << Task("emit", n), Task("edges", n) >>
  <2>1. << Task("emit", n), Task("edges", n) >> \in Seq(TaskSet)
    BY DEF Task, TaskSet
  <2>2. QED
    BY <2>1
<1>0. /\ Doing("symbol") /\ Place(n) /\ work' = two \o u
      /\ UNCHANGED <<waiting, pending, again, shown, sent, lost>>
  BY <1>b, <1>c, <1>d DEF PlaceSymbol, client, history
<1>1. /\ ToSet(work) = {Task("symbol", n)} \cup ToSet(u)
      /\ ~Doing("emit")
  BY <1>0, <1>a, <1>b, <1>c, WorkTail DEF Doing
<1>2. /\ Task("symbol", n) \in ToSet(work)
      /\ KindOf[n] = "symbol" /\ KindOf[ParentOf[n]] = "file"
      /\ ParentOf[n] \in Placed /\ ParentOf[n] # n /\ sent[n] > 0
      /\ n \notin Resent => n \notin Placed /\ n \notin ToSet(waiting[ParentOf[n]])
  <2>1. Task("symbol", n) \in ToSet(work)
    BY <1>1
  <2>2. Task("symbol", n).do = "symbol" /\ Task("symbol", n).node = n
    BY DEF Task
  <2>3. /\ KindOf[n] = "symbol" /\ KindOf[ParentOf[n]] = "file"
        /\ ParentOf[n] \in Placed /\ sent[n] > 0
        /\ n \notin Resent => n \notin Placed /\ n \notin ToSet(waiting[ParentOf[n]])
    BY <2>1, <2>2 DEF FlowInv, Works
  <2>4. QED
    BY <2>1, <2>3
<1>3. /\ OnceOnly(u)
      /\ n \notin Resent => Task("symbol", n) \notin ToSet(u)
  <2>1. Head(work) = Task("symbol", n)
    BY <1>0, <1>a, <1>b, WorkTail DEF Doing
  <2>2. QED
    BY <1>a, <1>c, <2>1, OnceTail DEF FlowInv, Task
<1>4. /\ ToSet(two) = {Task("emit", n), Task("edges", n)}
      /\ OnceOnly(two) /\ Letting(two) = {}
      /\ DOMAIN two = {1, 2} /\ two[1] = Task("emit", n) /\ Len(two) = 2
  <2>1. DOMAIN two = {1, 2} /\ two[1] = Task("emit", n) /\ two[2] = Task("edges", n) /\ Len(two) = 2
    BY <1>d
  <2>2. ToSet(two) = {Task("emit", n), Task("edges", n)}
    BY <2>1 DEF ToSet
  <2>3. OnceOnly(two) /\ Letting(two) = {}
    BY <2>1, <2>2 DEF OnceOnly, Letting, Task
  <2>4. QED
    BY <2>1, <2>2, <2>3
<1>5. /\ ToSet(work') = {Task("emit", n), Task("edges", n)} \cup ToSet(u)
      /\ OnceOnly(work')
  BY <1>0, <1>3, <1>4, ToSetConcat, OnceConcat
<1>6. Doing("emit")' /\ This' = n
  <2>1. /\ DOMAIN (two \o u) = 1..(Len(two) + Len(u))
        /\ (two \o u)[1] = two[1] /\ Len(u) \in Nat /\ two \o u \in Seq(TaskSet)
    <3>1. 1 \in DOMAIN two
      BY <1>4
    <3>2. QED
      BY <3>1, ToSetConcat
  <2>2. PICK w \in Seq(TaskSet) : w = two \o u
    BY <2>1
  <2>3. w # <<>> /\ Head(w) = Task("emit", n)
    BY <1>4, <2>1, <2>2
  <2>4. work' = w
    BY <1>0, <2>2
  <2>5. QED
    BY <2>3, <2>4 DEF Doing, This, Task
<1>7. Placed' = Placed \cup {n}
  BY <1>0, PlaceSlot
<1>8. Shows' /\ Family'
  <2>1. \A m \in Placed \cup {n} : sent'[m] > 0
    BY <1>0, <1>2 DEF Shows
  <2>2. QED
    BY <1>0, <1>1, <1>2, <1>6, <2>1, PlaceShows
<1>9. FlowInv'
  <2>1. WaitingOnce'
    BY <1>0 DEF FlowInv, WaitingOnce
  <2>2. Waits'
    BY <1>0, <1>2, <1>7 DEF FlowInv, Waits
  <2>3. Works'
    <3>1. ASSUME NEW t \in ToSet(u)
          PROVE  /\ t.do = "emit" => t.node \in Placed'
                 /\ t.do = "symbol" =>
                      /\ KindOf[t.node] = "symbol" /\ KindOf[ParentOf[t.node]] = "file"
                      /\ ParentOf[t.node] \in Placed' /\ sent[t.node] > 0
                      /\ t.node \notin Resent =>
                            t.node \notin Placed' /\ t.node \notin ToSet(waiting[ParentOf[t.node]])
      <4>1. t \in ToSet(work) /\ t \in TaskSet
        <5>1. PICK i \in DOMAIN u : t = u[i]
          BY DEF ToSet
        <5>2. t \in TaskSet
          BY <5>1
        <5>3. QED
          BY <1>1, <5>2
      <4>2. t.do = "symbol" /\ t.node = n => t = Task("symbol", n)
        BY <4>1 DEF Task, TaskSet
      <4>3. QED
        BY <1>3, <1>7, <4>1, <4>2 DEF FlowInv, Works
    <3>2. QED
      BY <1>0, <1>5, <1>7, <3>1 DEF Works, Task
  <2>4. QED
    BY <1>5, <2>1, <2>2, <2>3 DEF FlowInv
<1>10. Accounted'
  <2>1. \A m \in Node : Task("symbol", m) \in ToSet(work) => m = n \/ Task("symbol", m) \in ToSet(work')
    BY <1>1, <1>5 DEF Task
  <2>2. QED
    BY <1>0, <1>7, <2>1 DEF DueInv, Accounted
<1>11. FilesLetThrough'
  BY <1>0, <1>1, <1>2, <1>7 DEF DueInv, FilesLetThrough
<1>12. EdgesAreDue'
  <2>1. \A x : Task("edges", x) \in ToSet(work) => Task("edges", x) \in ToSet(work')
    BY <1>1, <1>5 DEF Task
  <2>2. ASSUME NEW e \in ToSet(pending), Ends(e) \subseteq Placed \cup {n}
        PROVE  \E x \in Ends(e) : Task("edges", x) \in ToSet(work')
    <3>1. CASE n \in Ends(e)
      BY <1>5, <3>1
    <3>2. CASE n \notin Ends(e)
      <4>1. Ends(e) \subseteq Placed
        BY <2>2, <3>2
      <4>2. PICK x \in Ends(e) : Task("edges", x) \in ToSet(work)
        BY <4>1 DEF DueInv, EdgesAreDue
      <4>3. QED
        BY <2>1, <4>2
    <3>3. QED
      BY <3>1, <3>2
  <2>3. QED
    BY <1>0, <1>7, <2>2 DEF EdgesAreDue
<1>13. QED
  BY <1>8, <1>9, <1>10, <1>11, <1>12 DEF DueInv

LEMMA LayoutStep == LayoutInv /\ [Next]_vars => LayoutInv'
<1> SUFFICES ASSUME LayoutInv, [Next]_vars PROVE LayoutInv'
  OBVIOUS
<1>1. TypeInv'
  <2>1. TypeInv /\ UNCHANGED vars => TypeInv'
    BY DEF TypeInv, TypeOK, Placed, vars, placement, client, history
  <2>2. QED
    BY <2>1, ProducerType, CascadeType DEF LayoutInv, Next
<1>2. ASSUME Producer PROVE FlowInv' /\ Shows' /\ Family' /\ DueInv'
  BY <1>2, AddNodeLayout, AddSymbolEarlyLayout, AddEdgeLayout, RequestSubtreeLayout, QuietLayout
  DEF Producer
<1>3. ASSUME Cascade PROVE FlowInv' /\ Shows' /\ Family' /\ DueInv'
  BY <1>3, EmitAgainLayout, EmitSlotLayout, PlaceSymbolLayout, FlushEdgeLayout, EdgesFlushedLayout
  DEF Cascade
<1>4. QED
  BY <1>1, <1>2, <1>3, QuietLayout DEF Next, LayoutInv

-----------------------------------------------------------------------------
(* The client's slots.                                                     *)

\* Only the emission of a slot changes what the client has.
LEMMA ShownStep ==
    ASSUME LayoutInv, [Next]_vars
    PROVE  \/ shown' = shown
           \/ /\ shown' = With(shown, This, slots[This])
              /\ This \in Placed
              /\ DOMAIN shown' = DOMAIN shown \cup {This}
              /\ shown'[This] = slots[This]
              /\ \A n \in DOMAIN shown : n # This => shown'[n] = shown[n]
<1>1. CASE EmitSlot
  <2>1. shown' = With(shown, This, slots[This])
    BY <1>1 DEF EmitSlot
  <2>2. This \in Placed
    <3>1. Head(work) \in ToSet(work) /\ Head(work) = Task("emit", This)
      BY <1>1, WorkTail DEF EmitSlot, Doing, LayoutInv
    <3>2. QED
      BY <3>1 DEF LayoutInv, FlowInv, Works, Task
  <2>3. QED
    BY <2>1, <2>2 DEF With
<1>2. CASE ~EmitSlot
  BY <1>2 DEF Next, Producer, Cascade, AddNode, AddSymbolEarly, AddEdge, RequestSubtree, Done,
              EmitAgain, PlaceSymbol, FlushEdge, EdgesFlushed, client, vars
<1>3. QED
  BY <1>1, <1>2

\* A slot the client has never changes, unless its node is sent twice.
THEOREM SlotsAreFinal == Spec => SlotIsFinal
<1>1. ASSUME LayoutInv, [Next]_vars
      PROVE  \A n \in DOMAIN shown \ Resent : n \in DOMAIN shown' /\ shown'[n] = shown[n]
  BY <1>1, ShownStep DEF LayoutInv, Shows
<1>2. LayoutInv /\ [Next]_vars
      => [\A n \in DOMAIN shown \ Resent : n \in DOMAIN shown' /\ shown'[n] = shown[n]]_vars
  BY <1>1
<1>3. QED
  BY LayoutInit, LayoutStep, <1>2, PTL DEF Spec, SlotIsFinal

LEMMA FollowStep ==
    ASSUME LayoutInv, SymbolsFollowTheirFile, [Next]_vars
    PROVE  SymbolsFollowTheirFile'
<1>1. CASE shown' = shown
  BY <1>1 DEF SymbolsFollowTheirFile
<1>2. CASE /\ This \in Placed
           /\ DOMAIN shown' = DOMAIN shown \cup {This}
           /\ shown'[This] = slots[This]
           /\ \A n \in DOMAIN shown : n # This => shown'[n] = shown[n]
  <2>1. ASSUME NEW n \in DOMAIN shown', KindOf[n] = "symbol"
        PROVE  /\ ParentOf[n] \in DOMAIN shown'
               /\ ParentOf[n] \notin Resent => shown'[n].around = shown'[ParentOf[n]]
    <3>1. CASE n = This
      <4>1. /\ ParentOf[n] # n /\ ParentOf[n] \in DOMAIN shown
            /\ ParentOf[n] \notin Resent =>
                  slots[n].around = slots[ParentOf[n]] /\ shown[ParentOf[n]] = slots[ParentOf[n]]
        BY <1>2, <2>1, <3>1 DEF LayoutInv, Family, Shows
      <4>2. QED
        BY <1>2, <3>1, <4>1
    <3>2. CASE n # This
      <4>1. /\ n \in DOMAIN shown /\ ParentOf[n] \in DOMAIN shown
            /\ ParentOf[n] \notin Resent => shown[n].around = shown[ParentOf[n]]
        BY <1>2, <2>1, <3>2 DEF SymbolsFollowTheirFile
      <4>2. ParentOf[n] \notin Resent => shown'[ParentOf[n]] = shown[ParentOf[n]]
        BY <1>2, <4>1 DEF LayoutInv, Shows
      <4>3. QED
        BY <1>2, <3>2, <4>1, <4>2
    <3>3. QED
      BY <3>1, <3>2
  <2>2. QED
    BY <2>1 DEF SymbolsFollowTheirFile
<1>3. QED
  BY <1>1, <1>2, ShownStep

\* A symbol is shown after its file and around it, in any order of arrival.
THEOREM SymbolsAroundTheirFile == Spec => []SymbolsFollowTheirFile
<1>1. Init => LayoutInv /\ SymbolsFollowTheirFile
  BY LayoutInit, ToSetEmpty DEF Init, SymbolsFollowTheirFile
<1>2. LayoutInv /\ SymbolsFollowTheirFile /\ [Next]_vars
      => LayoutInv' /\ SymbolsFollowTheirFile'
  BY LayoutStep, FollowStep
<1>3. QED
  BY <1>1, <1>2, PTL DEF Spec

-----------------------------------------------------------------------------
(* Nothing ready waits.                                                    *)

\* Two dictionaries with the same entries are equal.
Maps == /\ slots = [k \in DOMAIN slots |-> slots[k]]
        /\ shown = [k \in DOMAIN shown |-> shown[k]]

LEMMA WithMap ==
    ASSUME NEW f, NEW key, NEW value, NEW g, g = With(f, key, value)
    PROVE  g = [k \in DOMAIN g |-> g[k]]
BY DEF With

LEMMA MapsStep ==
    ASSUME LayoutInv, Maps, [Next]_vars
    PROVE  Maps'
<1>1. shown' = [k \in DOMAIN shown' |-> shown'[k]]
  BY ShownStep, WithMap DEF Maps
<1>2. slots' = slots \/ \E n \in Node : slots' = With(slots, n, SlotOf(n))
  <2>1. CASE PlaceSymbol
    <3>1. This \in Node
      BY <2>1, WorkTail DEF PlaceSymbol, Doing, LayoutInv
    <3>2. QED
      BY <2>1, <3>1 DEF PlaceSymbol, Place
  <2>2. CASE \E n \in Node : AddNode(n)
    BY <2>2 DEF AddNode, Place
  <2>3. CASE ~PlaceSymbol /\ ~ \E n \in Node : AddNode(n)
    BY <2>3 DEF Next, Producer, Cascade, AddSymbolEarly, AddEdge, RequestSubtree, Done,
                EmitAgain, EmitSlot, FlushEdge, EdgesFlushed, placement, vars
  <2>4. QED
    BY <2>1, <2>2, <2>3
<1>3. slots' = [k \in DOMAIN slots' |-> slots'[k]]
  BY <1>2, WithMap DEF Maps
<1>4. QED
  BY <1>1, <1>3 DEF Maps

LEMMA NothingReadyHolds == LayoutInv /\ Maps => NothingReadyWaits
<1> SUFFICES ASSUME LayoutInv, Maps, Unlocked
             PROVE  /\ \A n \in Node :
                          /\ sent[n] > 0
                          /\ n \notin lost
                          /\ KindOf[n] = "symbol" =>
                                ParentOf[n] \in Placed /\ KindOf[ParentOf[n]] = "file"
                          => n \in DOMAIN shown
                    /\ \A e \in ToSet(pending) : ~ (Ends(e) \subseteq Placed)
                    /\ shown = slots
  BY DEF NothingReadyWaits
<1>1. ToSet(work) = {} /\ ~Doing("emit")
  BY ToSetEmpty DEF Unlocked, Doing
<1>2. Placed = DOMAIN shown /\ \A n \in Placed : shown[n] = slots[n]
  BY <1>1 DEF LayoutInv, Shows
<1>3. ASSUME NEW n \in Node, sent[n] > 0, n \notin lost,
             KindOf[n] = "symbol" => ParentOf[n] \in Placed /\ KindOf[ParentOf[n]] = "file"
      PROVE  n \in DOMAIN shown
  <2>1. CASE n \in Placed
    BY <1>2, <2>1
  <2>2. CASE KindOf[n] = "symbol" /\ n \in ToSet(waiting[ParentOf[n]])
    <3>1. waiting[ParentOf[n]] # <<>>
      BY <2>2, ToSetEmpty
    <3>2. QED
      BY <1>1, <1>3, <2>2, <3>1 DEF LayoutInv, DueInv, FilesLetThrough
  <2>3. QED
    BY <1>1, <1>3, <2>1, <2>2 DEF LayoutInv, DueInv, Accounted
<1>4. \A e \in ToSet(pending) : ~ (Ends(e) \subseteq Placed)
  BY <1>1 DEF LayoutInv, DueInv, EdgesAreDue
<1>5. shown = slots
  BY <1>2 DEF Maps, Placed
<1>6. QED
  BY <1>3, <1>4, <1>5

\* Between two calls, whatever can be shown is shown where it was placed, and
\* no edge with both ends placed is held back.
THEOREM NothingReadyIsHeld == Spec => []NothingReadyWaits
<1>1. Init => LayoutInv /\ Maps
  <2>1. Init => Maps
    BY DEF Init, Maps
  <2>2. QED
    BY <2>1, LayoutInit
<1>2. LayoutInv /\ Maps /\ [Next]_vars => LayoutInv' /\ Maps'
  BY LayoutStep, MapsStep
<1>3. QED
  BY <1>1, <1>2, NothingReadyHolds, PTL DEF Spec
=============================================================================
