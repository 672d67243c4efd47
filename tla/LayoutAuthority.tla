-------------------------- MODULE LayoutAuthority --------------------------
(***************************************************************************)
(* LayoutAuthority: gives every graph node one final slot and streams      *)
(* slots and edges to the client.                                          *)
(*                                                                         *)
(* Nodes and edges arrive in any order.  A symbol waits for its file, an   *)
(* edge for its end points; both buffers are bounded.  Every public method *)
(* holds the authority's lock to its end.  Inside, placing a node may set  *)
(* off a cascade: a file lets its symbols through, each of them the edges  *)
(* that waited for it.  The cascade is one step per event emitted, since   *)
(* subscribers see the events one by one; work and again say what the      *)
(* method that holds the lock has still to do.                             *)
(*                                                                         *)
(* A slot is kept as what compute_slot is given, not as coordinates.       *)
(***************************************************************************)
EXTENDS Naturals, FiniteSets, SequencesExt

CONSTANTS
    Node,         \* node ids
    NoNode,       \* no parent, no hub
    KindOf,       \* [Node -> kind]
    DomainOf,     \* [Node -> domain id]
    ParentOf,     \* [Node -> parent id, or NoNode]
    Edge,         \* the edges the producer may send
    Resent,       \* nodes the producer may send twice, against its contract
    Reservation,  \* _DEFAULT_DOMAIN_RESERVATION
    SymbolsCap,   \* _PENDING_SYMBOLS_CAP_PER_FILE
    EdgesCap,     \* _PENDING_EDGES_CAP
    MaxRequests   \* bound on the request_subtree calls

\* "ring" stands for the kinds placed on arcs around the domain.
Kinds == {"domain", "tool_hub", "file", "symbol", "ring"}

\* The preconditions that _validate_node and _validate_edge enforce.
ASSUME LayoutAssumption ==
    /\ NoNode \notin Node
    /\ KindOf \in [Node -> Kinds]
    /\ DomainOf \in [Node -> Node]
    /\ \A n \in Node : KindOf[n] = "domain" => DomainOf[n] = n
    /\ ParentOf \in [Node -> Node \cup {NoNode}]
    /\ \A n \in Node : KindOf[n] = "symbol" => ParentOf[n] \in Node
    /\ Edge \subseteq [source : Node, target : Node, kind : STRING]
    /\ Resent \subseteq Node
    /\ Reservation \in Nat \ {0}
    /\ SymbolsCap \in Nat
    /\ EdgesCap \in Nat \ {0}
    /\ MaxRequests \in Nat

VARIABLES
    anchors,   \* _DomainRegistry: the frozen anchors of the domains seen
    reserved,  \* _DomainRegistry._reserved
    counts,    \* _counts of the (domain, kind) buckets
    petals,    \* _counts of the symbols of a file
    slots,     \* _slots
    hubs,      \* _hub_angles: the tool hubs whose angle is known
    waiting,   \* _pending_symbols
    pending,   \* _pending_edges, oldest first
    dropped,   \* _edges_dropped
    closed,    \* _closed
    work,      \* what the call that holds the lock has still to do
    again,     \* slots request_subtree has still to emit again
    shown,     \* the client: the last slot it received for each node
    lines,     \* the client: the edges it received
    sent,      \* history: how often each node was sent
    edgesSent, \* history: the edges sent
    lost,      \* history: symbols that found the buffer of their file full
    requests   \* history: request_subtree calls so far

placement == <<anchors, reserved, counts, petals, slots, hubs>>
client == <<shown, lines>>
history == <<sent, edgesSent, lost, requests>>
vars == <<placement, waiting, pending, dropped, closed, work, again, client, history>>

Init ==
    /\ anchors = <<>>
    /\ reserved = Reservation
    /\ counts = [d \in Node |-> [kind \in Kinds |-> 0]]
    /\ petals = [f \in Node |-> 0]
    /\ slots = <<>>
    /\ hubs = {}
    /\ waiting = [f \in Node |-> <<>>]
    /\ pending = <<>>
    /\ dropped = 0
    /\ closed = FALSE
    /\ work = <<>>
    /\ again = {}
    /\ shown = <<>>
    /\ lines = {}
    /\ sent = [n \in Node |-> 0]
    /\ edgesSent = {}
    /\ lost = {}
    /\ requests = 0

-----------------------------------------------------------------------------
(* Placement.                                                              *)

Placed == DOMAIN slots

\* The dictionary f after f[key] = value.
With(f, key, value) ==
    [k \in DOMAIN f \cup {key} |-> IF k = key THEN value ELSE f[k]]

NextIndex == Cardinality(DOMAIN anchors)
NextReserved == IF NextIndex >= reserved THEN NextIndex + Reservation ELSE reserved

\* index_for: a domain met for the first time gets the next index, and an
\* anchor for the reservation of that moment.
Register(d) ==
    IF d \in DOMAIN anchors
    THEN UNCHANGED <<anchors, reserved>>
    ELSE /\ anchors' = With(anchors, d, [index |-> NextIndex, total |-> NextReserved])
         /\ reserved' = NextReserved

\* The arguments of compute_slot.  A domain is placed by its index and the
\* present reservation; a file at its hub's angle if that is known.
SlotOf(n) ==
    LET anchor == anchors'[DomainOf[n]]
        idx == counts[DomainOf[n]][KindOf[n]]
    IN  CASE KindOf[n] = "domain"   -> [at |-> [anchor EXCEPT !.total = reserved']]
          [] KindOf[n] = "tool_hub" -> [at |-> anchor, hub |-> n]
          [] KindOf[n] = "file"     ->
                [at |-> anchor, idx |-> idx,
                 hub |-> IF ParentOf[n] \in hubs THEN ParentOf[n] ELSE NoNode]
          [] KindOf[n] = "symbol"   ->
                [around |-> slots[ParentOf[n]], idx |-> petals[ParentOf[n]]]
          [] KindOf[n] = "ring"     -> [at |-> anchor, idx |-> idx]

\* _compute_assignment and the assignments to _slots and _hub_angles.
Place(n) ==
    /\ Register(DomainOf[n])
    /\ counts' = [counts EXCEPT ![DomainOf[n]][KindOf[n]] = @ + 1]
    /\ petals' = IF KindOf[n] = "symbol"
                 THEN [petals EXCEPT ![ParentOf[n]] = @ + 1] ELSE petals
    /\ slots' = With(slots, n, SlotOf(n))
    /\ hubs' = IF KindOf[n] = "tool_hub" THEN hubs \cup {n} ELSE hubs

-----------------------------------------------------------------------------
(* The public methods: each takes the lock, and work is done before the    *)
(* next one gets it.                                                       *)

Task(do, n) == [do |-> do, node |-> n]
Tasks(do, nodes) == [i \in DOMAIN nodes |-> Task(do, nodes[i])]

Unlocked == work = <<>> /\ again = {}

MaySend(n) == sent[n] < (IF n \in Resent THEN 2 ELSE 1)

\* Seeded fault: the edges of the node go out before its slot.
AddNodeEdgesFirst(n) ==
    /\ Unlocked /\ ~closed /\ MaySend(n)
    /\ KindOf[n] = "symbol" => ParentOf[n] \in Placed
    /\ Place(n)
    /\ work' = << Task("edges", n), Task("emit", n) >>
    /\ sent' = [sent EXCEPT ![n] = @ + 1]
    /\ UNCHANGED <<waiting, pending, dropped, closed, again, client,
                   edgesSent, lost, requests>>

\* Seeded fault: the waiting symbols are let through before the file is emitted.
AddNodeSymbolsFirst(n) ==
    /\ Unlocked /\ ~closed /\ MaySend(n)
    /\ KindOf[n] = "symbol" => ParentOf[n] \in Placed
    /\ Place(n)
    /\ work' = Tasks("symbol", waiting[n]) \o << Task("emit", n), Task("edges", n) >>
    /\ waiting' = [waiting EXCEPT ![n] = <<>>]
    /\ sent' = [sent EXCEPT ![n] = @ + 1]
    /\ UNCHANGED <<pending, dropped, closed, again, client, edgesSent, lost, requests>>

\* add_node, of a node that can be placed at once.
AddNode(n) ==
    /\ Unlocked /\ ~closed /\ MaySend(n)
    /\ KindOf[n] = "symbol" => ParentOf[n] \in Placed
    /\ Place(n)
    /\ work' = << Task("emit", n), Task("edges", n) >>
    /\ sent' = [sent EXCEPT ![n] = @ + 1]
    /\ UNCHANGED <<waiting, pending, dropped, closed, again, client,
                   edgesSent, lost, requests>>

\* add_node, of a symbol whose parent is not placed.  A full buffer takes no
\* more, and nothing is counted.
AddSymbolEarly(n) ==
    /\ Unlocked /\ ~closed /\ MaySend(n)
    /\ KindOf[n] = "symbol" /\ ParentOf[n] \notin Placed
    /\ IF Len(waiting[ParentOf[n]]) < SymbolsCap
       THEN /\ waiting' = [waiting EXCEPT ![ParentOf[n]] = Append(@, n)]
            /\ UNCHANGED lost
       ELSE /\ lost' = lost \cup {n}
            /\ UNCHANGED waiting
    /\ sent' = [sent EXCEPT ![n] = @ + 1]
    /\ UNCHANGED <<placement, pending, dropped, closed, work, again, client,
                   edgesSent, requests>>

Ends(e) == {e.source, e.target}
Pair(e) == <<e.source, e.target>>

\* Where an edge between the same two nodes is buffered (once at most).
Twins(e) == {i \in DOMAIN pending : Pair(pending[i]) = Pair(e)}
Full == Len(pending) >= EdgesCap

\* Seeded fault: room is made when the buffer is over its capacity.
BufferEdgeOffByOne(e) ==
    \/ \E i \in Twins(e) :
          /\ pending' = Append(RemoveAt(pending, i), e)
          /\ UNCHANGED dropped
    \/ /\ Twins(e) = {} /\ Len(pending) <= EdgesCap
       /\ pending' = Append(pending, e)
       /\ UNCHANGED dropped
    \/ /\ Twins(e) = {} /\ Len(pending) > EdgesCap
       /\ pending' = Append(Tail(pending), e)
       /\ dropped' = dropped + 1

\* _buffer_edge: an edge between the same two nodes is replaced and becomes
\* the youngest; a full buffer drops its oldest.
BufferEdge(e) ==
    \/ \E i \in Twins(e) :
          /\ pending' = Append(RemoveAt(pending, i), e)
          /\ UNCHANGED dropped
    \/ /\ Twins(e) = {} /\ ~Full
       /\ pending' = Append(pending, e)
       /\ UNCHANGED dropped
    \/ /\ Twins(e) = {} /\ Full
       /\ pending' = Append(Tail(pending), e)
       /\ dropped' = dropped + 1

\* add_edge
AddEdge(e) ==
    /\ Unlocked /\ ~closed
    /\ e \notin edgesSent
    /\ IF Ends(e) \subseteq Placed
       THEN /\ lines' = lines \cup {e}
            /\ UNCHANGED <<pending, dropped>>
       ELSE /\ BufferEdge(e)
            /\ UNCHANGED lines
    /\ edgesSent' = edgesSent \cup {e}
    /\ UNCHANGED <<placement, waiting, closed, work, again, shown, sent, lost, requests>>

\* request_subtree of a domain that is known.
RequestSubtree(d) ==
    /\ Unlocked /\ ~closed
    /\ requests < MaxRequests
    /\ d \in DOMAIN anchors
    /\ again' = {n \in Placed : DomainOf[n] = d}
    /\ requests' = requests + 1
    /\ UNCHANGED <<placement, waiting, pending, dropped, closed, work, client,
                   sent, edgesSent, lost>>

\* done: whatever still waits is given up.
Done ==
    /\ Unlocked /\ ~closed
    /\ closed' = TRUE
    /\ UNCHANGED <<placement, waiting, pending, dropped, work, again, client, history>>

-----------------------------------------------------------------------------
(* The rest of a call.                                                     *)

Doing(do) == work # <<>> /\ Head(work).do = do
This == Head(work).node

\* Seeded fault: the slot is computed again for what has arrived since.
EmitAgainReseated(n) ==
    /\ work = <<>> /\ n \in again
    /\ again' = again \ {n}
    /\ Place(n)
    /\ work' = << Task("emit", n) >>
    /\ UNCHANGED <<waiting, pending, dropped, closed, client, history>>

\* The loop of request_subtree; in the code it follows the order of _slots.
EmitAgain(n) ==
    /\ work = <<>> /\ n \in again
    /\ again' = again \ {n}
    /\ work' = << Task("emit", n) >>
    /\ UNCHANGED <<placement, waiting, pending, dropped, closed, client, history>>

\* _emit_slot: the slot of a file takes its waiting symbols out of the buffer.
EmitSlot ==
    /\ Doing("emit")
    /\ shown' = With(shown, This, slots[This])
    /\ IF KindOf[This] = "file"
       THEN /\ work' = Tasks("symbol", waiting[This]) \o Tail(work)
            /\ waiting' = [waiting EXCEPT ![This] = <<>>]
       ELSE /\ work' = Tail(work)
            /\ UNCHANGED waiting
    /\ UNCHANGED <<placement, pending, dropped, closed, again, lines, history>>

\* Seeded fault: the edges of the symbols are left to the file.
PlaceSymbolOnly ==
    /\ Doing("symbol")
    /\ Place(This)
    /\ work' = << Task("emit", This) >> \o Tail(work)
    /\ UNCHANGED <<waiting, pending, dropped, closed, again, client, history>>

\* One round of _flush_pending_symbols.
PlaceSymbol ==
    /\ Doing("symbol")
    /\ Place(This)
    /\ work' = << Task("emit", This), Task("edges", This) >> \o Tail(work)
    /\ UNCHANGED <<waiting, pending, dropped, closed, again, client, history>>

\* _try_flush_pending_edges_for: the edges of the node whose two ends are placed.
Ready(i) == This \in Ends(pending[i]) /\ Ends(pending[i]) \subseteq Placed

FlushEdge(i) ==
    /\ Doing("edges")
    /\ Ready(i) /\ \A j \in 1..(i - 1) : ~Ready(j)
    /\ lines' = lines \cup {pending[i]}
    /\ pending' = RemoveAt(pending, i)
    /\ UNCHANGED <<placement, waiting, dropped, closed, work, again, shown, history>>

EdgesFlushed ==
    /\ Doing("edges") /\ \A i \in DOMAIN pending : ~Ready(i)
    /\ work' = Tail(work)
    /\ UNCHANGED <<placement, waiting, pending, dropped, closed, again, client, history>>

Producer ==
    \/ \E n \in Node : AddNode(n) \/ AddSymbolEarly(n)
    \/ \E e \in Edge : AddEdge(e)
    \/ \E d \in Node : RequestSubtree(d)
    \/ Done

Cascade ==
    \/ \E n \in Node : EmitAgain(n)
    \/ EmitSlot
    \/ PlaceSymbol
    \/ \E i \in DOMAIN pending : FlushEdge(i)
    \/ EdgesFlushed

Next == Producer \/ Cascade

Spec == Init /\ [][Next]_vars

-----------------------------------------------------------------------------
(* Properties.                                                             *)

\* Every variable keeps its type; the buffers stay within their bounds.
TypeOK ==
    /\ DOMAIN anchors \subseteq Node
    /\ reserved \in Nat
    /\ counts \in [Node -> [Kinds -> Nat]]
    /\ petals \in [Node -> Nat]
    /\ Placed \subseteq Node
    /\ hubs \subseteq Node
    /\ waiting \in [Node -> Seq(Node)]
    /\ \A f \in Node : Len(waiting[f]) <= SymbolsCap
    /\ pending \in Seq(Edge) /\ Len(pending) <= EdgesCap
    /\ dropped \in Nat
    /\ closed \in BOOLEAN
    /\ work \in Seq([do : {"emit", "symbol", "edges"}, node : Node])
    /\ again \subseteq Node
    /\ DOMAIN shown \subseteq Node
    /\ lines \subseteq Edge
    /\ sent \in [Node -> 0..2]
    /\ edgesSent \subseteq Edge
    /\ lost \subseteq Node
    /\ requests \in 0..MaxRequests

\* At every moment of a cascade, the client knows a slot for both ends of
\* every edge it was given: an edge that cannot be drawn is never sent.
LinesHaveEnds == \A e \in lines : Ends(e) \subseteq DOMAIN shown

\* I3: a symbol is shown after its file and around the slot the file is shown
\* at (a file that is sent twice moves away from its first symbols).
SymbolsFollowTheirFile ==
    \A n \in DOMAIN shown :
        KindOf[n] = "symbol" =>
            /\ ParentOf[n] \in DOMAIN shown
            /\ ParentOf[n] \notin Resent => shown[n].around = shown[ParentOf[n]]

\* Nothing waits for what is already there: between two calls, every node
\* that was sent and not lost is shown where it was placed, a symbol as soon
\* as its file is; and no buffered edge has both ends placed.
NothingReadyWaits ==
    Unlocked =>
        /\ \A n \in Node :
              /\ sent[n] > 0
              /\ n \notin lost
              /\ KindOf[n] = "symbol" => ParentOf[n] \in Placed /\ KindOf[ParentOf[n]] = "file"
              => n \in DOMAIN shown
        /\ \A e \in ToSet(pending) : ~ (Ends(e) \subseteq Placed)
        /\ shown = slots

\* I4, I7: the slot the client has for a node is final, whatever arrives
\* later (its tool hub, its domain, more domains) and whoever asks for it
\* again; only a node sent twice moves.
SlotIsFinal ==
    [][\A n \in DOMAIN shown \ Resent : n \in DOMAIN shown' /\ shown'[n] = shown[n]]_vars
=============================================================================
