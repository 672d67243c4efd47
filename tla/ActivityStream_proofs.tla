----------------------- MODULE ActivityStream_proofs -----------------------
(***************************************************************************)
(* What holds of the activity spine for any number of threads and          *)
(* browsers, any deque length and any number of restarts.                  *)
(***************************************************************************)
EXTENDS ActivityStream, SequenceTheorems, FiniteSetTheorems, TLAPS

\* A replay window is a part of the rows it is taken from.
LEMMA WindowSubset ==
    ASSUME NEW S
    PROVE  Window(S) \subseteq S
BY DEF Window

\* The deque stays a sequence of ids within its maxlen.
LEMMA PushType ==
    ASSUME buf \in Seq(Nat), Len(buf) <= MaxEvents, evicted \in BOOLEAN,
           NEW ev \in Nat, Push(ev)
    PROVE  buf' \in Seq(Nat) /\ Len(buf') <= MaxEvents /\ evicted' \in BOOLEAN
<1>1. evicted' \in BOOLEAN
  BY DEF Push
<1>2. CASE Len(buf) = MaxEvents
  <2>1. Tail(buf) \in Seq(Nat) /\ Len(Tail(buf)) = MaxEvents - 1
    BY <1>2, ActivityAssumption
  <2>2. buf' = Append(Tail(buf), ev)
    BY <1>2 DEF Push
  <2>3. QED
    BY <1>1, <2>1, <2>2, ActivityAssumption
<1>3. CASE Len(buf) # MaxEvents
  <2>1. buf' = Append(buf, ev)
    BY <1>3 DEF Push
  <2>2. QED
    BY <1>1, <1>3, <2>1, ActivityAssumption
<1>4. QED
  BY <1>2, <1>3

\* The position of a handler that has an event to take stays within the deque.
LEMMA AdvanceType ==
    ASSUME TypeOK, NEW c \in Clients, AtEvent(c), Advance(c)
    PROVE  cursor' \in [Clients -> 0..MaxEvents]
<1>1. cursor[c] + 1 \in 0..MaxEvents
  <2>1. Len(buf) \in Nat /\ Len(buf) <= MaxEvents /\ cursor[c] \in Nat
    BY ActivityAssumption DEF TypeOK
  <2>2. QED
    BY <2>1, ActivityAssumption DEF AtEvent
<1>2. QED
  BY <1>1 DEF TypeOK, Advance

\* A thread that serves no request.
LEMMA IdleType ==
    Idle \in [at : {"idle", "inserted", "recorded"}, id : Nat]
BY DEF Idle, NoId

\* The state keeps its types under every step of the server, the network and
\* the browsers.
THEOREM TypeCorrect == Spec => []TypeOK
<1>1. Init => TypeOK
  <2> SUFFICES ASSUME Init PROVE TypeOK
    OBVIOUS
  <2>1. ingest \in [Producers -> [at : {"idle", "inserted", "recorded"}, id : Nat]]
    BY IdleType DEF Init
  <2>2. /\ rows \in [Clients -> SUBSET Nat]
        /\ skipped \in [Clients -> SUBSET Nat]
        /\ got \in [Clients -> Seq(Nat)]
    BY DEF Init
  <2>3. QED
    <3>1. /\ conn \in [Clients -> {"off", "captured", "serving"}]
          /\ cursor \in [Clients -> 0..MaxEvents]
          /\ durable \in [Clients -> Nat]
          /\ lastId \in [Clients -> Nat]
      BY ActivityAssumption DEF Init
    <3>2. buf \in Seq(Nat) /\ Len(buf) <= MaxEvents /\ committed \subseteq Nat
      BY ActivityAssumption DEF Init
    <3>3. nextId \in Nat \ {0} /\ passes \in Nat /\ drops \in Nat /\ restarts \in Nat
      BY DEF Init
    <3>4. evicted \in BOOLEAN /\ impactBusy \in BOOLEAN
      BY DEF Init
    <3>5. QED
      BY <2>1, <2>2, <3>1, <3>2, <3>3, <3>4 DEF TypeOK
<1>2. TypeOK /\ [Next]_vars => TypeOK'
  <2> SUFFICES ASSUME TypeOK, [Next]_vars PROVE TypeOK'
    OBVIOUS
  <2> USE DEF TypeOK
  <2>1. CASE UNCHANGED vars
    BY <2>1 DEF vars, serverVars, handlerVars, clientVars, boundVars
  <2>2. ASSUME NEW p \in Producers, Insert(p) PROVE TypeOK'
    BY <2>2 DEF Insert, handlerVars, clientVars, boundVars
  <2>3. ASSUME NEW p \in Producers, RecordFails(p) PROVE TypeOK'
    BY <2>3 DEF RecordFails, Idle, NoId, handlerVars, clientVars, boundVars
  <2>4. ASSUME NEW p \in Producers, Commit(p) PROVE TypeOK'
    <3>1. ingest' \in [Producers -> [at : {"idle", "inserted", "recorded"}, id : Nat]]
      BY <2>4 DEF Commit
    <3>2. committed' \subseteq Nat
      BY <2>4 DEF Commit
    <3>3. QED
      BY <2>4, <3>1, <3>2 DEF Commit, handlerVars, clientVars, boundVars
  <2>5. ASSUME NEW p \in Producers, Emit(p) PROVE TypeOK'
    <3>1. ingest[p].id \in Nat
      OBVIOUS
    <3>2. buf' \in Seq(Nat) /\ Len(buf') <= MaxEvents /\ evicted' \in BOOLEAN
      BY <2>5, <3>1, PushType DEF Emit
    <3>3. QED
      BY <2>5, <3>2 DEF Emit, Idle, NoId, handlerVars, clientVars, boundVars
  <2>6. ASSUME NEW p \in Producers, EmitFails(p) PROVE TypeOK'
    BY <2>6 DEF EmitFails, Idle, NoId, handlerVars, clientVars, boundVars
  <2>7. CASE ImpactStart
    BY <2>7 DEF ImpactStart, handlerVars, clientVars, boundVars
  <2>8. CASE ImpactEmit
    <3>1. buf' \in Seq(Nat) /\ Len(buf') <= MaxEvents /\ evicted' \in BOOLEAN
      BY <2>8, PushType DEF ImpactEmit, NoId
    <3>2. QED
      BY <2>8, <3>1 DEF ImpactEmit, handlerVars, clientVars, boundVars
  <2>9. CASE ImpactNothing
    BY <2>9 DEF ImpactNothing, handlerVars, clientVars, boundVars
  <2>10. ASSUME NEW c \in Clients, Connect(c) PROVE TypeOK'
    BY <2>10 DEF Connect, serverVars, clientVars, boundVars
  <2>11. ASSUME NEW c \in Clients, Query(c) PROVE TypeOK'
    BY <2>11, WindowSubset DEF Query, serverVars, boundVars
  <2>12. ASSUME NEW c \in Clients, ReplayRow(c) PROVE TypeOK'
    BY <2>12 DEF ReplayRow, Receive, serverVars, boundVars
  <2>13. ASSUME NEW c \in Clients, TailSkip(c) PROVE TypeOK'
    BY <2>13, AdvanceType DEF TailSkip, AtEvent, Advance, serverVars, clientVars, boundVars
  <2>14. ASSUME NEW c \in Clients, TailActivity(c) PROVE TypeOK'
    <3>1. cursor' \in [Clients -> 0..MaxEvents]
      BY <2>14, AdvanceType DEF TailActivity
    <3>2. NextEvent(c) \in Nat
      <4>1. cursor[c] + 1 \in 1..Len(buf)
        BY <2>14, ActivityAssumption DEF TailActivity, AtEvent
      <4>2. QED
        BY <4>1 DEF NextEvent
    <3>3. QED
      BY <2>14, <3>1, <3>2 DEF TailActivity, Receive, Advance, serverVars, boundVars
  <2>15. ASSUME NEW c \in Clients, TailImpact(c) PROVE TypeOK'
    BY <2>15, AdvanceType DEF TailImpact, AtEvent, Advance, serverVars, boundVars
  <2>16. ASSUME NEW c \in Clients, Drop(c) PROVE TypeOK'
    BY <2>16 DEF Drop, serverVars, clientVars
  <2>17. CASE Restart
    <3>1. ingest' \in [Producers -> [at : {"idle", "inserted", "recorded"}, id : Nat]]
      BY <2>17, IdleType DEF Restart
    <3>2. rows' \in [Clients -> SUBSET Nat]
      BY <2>17 DEF Restart
    <3>3. conn' \in [Clients -> {"off", "captured", "serving"}]
      BY <2>17 DEF Restart
    <3>4. passes' \in Nat /\ restarts' \in Nat
      BY <2>17 DEF Restart
    <3>5. buf' \in Seq(Nat) /\ Len(buf') <= MaxEvents
      <4>1. buf' = <<>>
        BY <2>17 DEF Restart
      <4>2. QED
        BY <4>1, ActivityAssumption
    <3>6. impactBusy' \in BOOLEAN
      BY <2>17, Zenon DEF Restart
    <3>7. QED
      BY <2>17, <3>1, <3>2, <3>3, <3>4, <3>5, <3>6 DEF Restart, clientVars
  <2>18. QED
    BY <2>1, <2>2, <2>3, <2>4, <2>5, <2>6, <2>7, <2>8, <2>9, <2>10, <2>11,
       <2>12, <2>13, <2>14, <2>15, <2>16, <2>17
       DEF Next, Ingest, Impact, Serve
<1>3. QED
  BY <1>1, <1>2, PTL DEF Spec

-----------------------------------------------------------------------------
(* Order and uniqueness of what a browser receives.                        *)

\* A replayed row lies above everything on the wire, and what was received
\* lies at or below the resume point; with these, the order is inductive.
OrderInv ==
    /\ DeliveredOnceInOrder
    /\ ResumePointIsDurable
    /\ \A c \in Clients : \A k \in 1..Len(got[c]) : got[c][k] <= lastId[c]
    /\ \A c \in Clients : \A i \in rows[c] : durable[c] < i
    /\ \A c \in Clients : conn[c] # "serving" => rows[c] = {}

\* Receiving an id above the resume point keeps a client's part of OrderInv.
LEMMA ReceiveKeepsOrder ==
    ASSUME TypeOK, OrderInv, NEW c \in Clients, NEW i \in Nat, lastId[c] < i,
           Receive(c, i)
    PROVE  /\ DeliveredOnceInOrder'
           /\ \A d \in Clients : \A k \in 1..Len(got'[d]) : got'[d][k] <= lastId'[d]
           /\ lastId' = [lastId EXCEPT ![c] = i]
<1> DEFINE old == got[c]
<1>1. /\ got' = [got EXCEPT ![c] = Append(old, i)]
      /\ lastId' = [lastId EXCEPT ![c] = i]
  BY DEF Receive
<1>2. old \in Seq(Nat) /\ lastId[c] \in Nat
  BY DEF TypeOK
<1>3. /\ Len(Append(old, i)) = Len(old) + 1
      /\ Append(old, i)[Len(old) + 1] = i
      /\ \A k \in 1..Len(old) : Append(old, i)[k] = old[k]
  BY <1>2
<1>4. \A k \in 1..Len(old) : old[k] < i
  BY <1>2, ElementOfSeq DEF OrderInv
<1>5. \A d \in Clients : \A k \in 1..Len(got'[d]) : got'[d][k] <= lastId'[d]
  <2> SUFFICES ASSUME NEW d \in Clients, NEW k \in 1..Len(got'[d])
               PROVE  got'[d][k] <= lastId'[d]
    OBVIOUS
  <2>1. CASE d = c
    BY <1>1, <1>2, <1>3, <1>4, <2>1 DEF TypeOK
  <2>2. CASE d # c
    BY <1>1, <2>2 DEF OrderInv, TypeOK
  <2>3. QED
    BY <2>1, <2>2
<1>6. DeliveredOnceInOrder'
  <2> SUFFICES ASSUME NEW d \in Clients, NEW j \in 1..Len(got'[d]),
                      NEW k \in 1..Len(got'[d]), j < k
               PROVE  got'[d][j] < got'[d][k]
    BY DEF DeliveredOnceInOrder
  <2>1. CASE d = c
    <3>1. got'[d] = Append(old, i)
      BY <1>1, <2>1 DEF TypeOK
    <3>2. CASE k = Len(old) + 1
      BY <3>1, <3>2, <1>2, <1>3, <1>4
    <3>3. CASE k # Len(old) + 1
      BY <3>1, <3>3, <1>2, <1>3 DEF OrderInv, DeliveredOnceInOrder
    <3>4. QED
      BY <3>2, <3>3
  <2>2. CASE d # c
    BY <1>1, <2>2 DEF OrderInv, DeliveredOnceInOrder, TypeOK
  <2>3. QED
    BY <2>1, <2>2
<1>7. QED
  BY <1>1, <1>5, <1>6

\* OrderInv holds throughout: only the replay and the tail write, each writes
\* an id above the durable cursor, and a reconnect starts from what the
\* browser has.
LEMMA OrderInvariant == Spec => []OrderInv
<1>1. Init => OrderInv
  BY DEF Init, OrderInv, DeliveredOnceInOrder, ResumePointIsDurable
<1>2. TypeOK /\ OrderInv /\ [Next]_vars => OrderInv'
  <2> SUFFICES ASSUME TypeOK, OrderInv, [Next]_vars PROVE OrderInv'
    OBVIOUS
  <2>1. CASE UNCHANGED <<conn, durable, rows, lastId, got>>
    BY <2>1 DEF OrderInv, DeliveredOnceInOrder, ResumePointIsDurable
  <2>2. ASSUME NEW c \in Clients, Connect(c) PROVE OrderInv'
    <3>1. UNCHANGED <<rows, lastId, got>>
      BY <2>2 DEF Connect, clientVars
    <3>2. /\ durable' = [durable EXCEPT ![c] = lastId[c]]
          /\ conn' = [conn EXCEPT ![c] = "captured"]
          /\ conn[c] = "off"
      BY <2>2 DEF Connect
    <3>3. QED
      BY <3>1, <3>2 DEF OrderInv, DeliveredOnceInOrder, ResumePointIsDurable, TypeOK
  <2>3. ASSUME NEW c \in Clients, Query(c) PROVE OrderInv'
    <3> DEFINE above == {i \in committed : i > durable[c]}
    <3>1. UNCHANGED <<durable, lastId, got>>
      BY <2>3 DEF Query
    <3>2. /\ rows' = [rows EXCEPT ![c] = Window(above)]
          /\ conn' = [conn EXCEPT ![c] = "serving"]
          /\ conn[c] = "captured"
      BY <2>3 DEF Query
    <3>3. \A i \in Window(above) : durable[c] < i
      BY WindowSubset DEF TypeOK
    <3>4. QED
      BY <3>1, <3>2, <3>3 DEF OrderInv, DeliveredOnceInOrder, ResumePointIsDurable, TypeOK
  <2>4. ASSUME NEW c \in Clients, ReplayRow(c) PROVE OrderInv'
    <3>1. PICK i \in rows[c] :
              /\ \A j \in rows[c] : i <= j
              /\ Receive(c, i)
              /\ durable' = [durable EXCEPT ![c] = i]
              /\ rows' = [rows EXCEPT ![c] = @ \ {i}]
      BY <2>4 DEF ReplayRow
    <3>2. i \in Nat /\ durable[c] < i /\ lastId[c] = durable[c]
      BY <2>4 DEF ReplayRow, OrderInv, ResumePointIsDurable, TypeOK
    <3>3. /\ DeliveredOnceInOrder'
          /\ \A d \in Clients : \A k \in 1..Len(got'[d]) : got'[d][k] <= lastId'[d]
          /\ lastId' = [lastId EXCEPT ![c] = i]
      BY <3>1, <3>2, ReceiveKeepsOrder
    <3>4. ResumePointIsDurable'
      BY <2>4, <3>1, <3>3 DEF ReplayRow, OrderInv, ResumePointIsDurable, TypeOK
    <3>5. \A d \in Clients : \A j \in rows'[d] : durable'[d] < j
      BY <3>1 DEF OrderInv, TypeOK
    <3>6. \A d \in Clients : conn'[d] # "serving" => rows'[d] = {}
      BY <2>4, <3>1 DEF ReplayRow, OrderInv, TypeOK
    <3>7. QED
      BY <3>3, <3>4, <3>5, <3>6 DEF OrderInv
  <2>5. ASSUME NEW c \in Clients, TailActivity(c) PROVE OrderInv'
    <3> DEFINE i == NextEvent(c)
    <3>1. i \in Nat
      BY <2>5 DEF TailActivity, AtEvent, NextEvent, TypeOK
    <3>2. /\ durable[c] < i
          /\ lastId[c] = durable[c]
          /\ durable' = [durable EXCEPT ![c] = i]
          /\ rows[c] = {}
          /\ UNCHANGED <<conn, rows>>
          /\ Receive(c, i)
      BY <2>5, <3>1 DEF TailActivity, AtEvent, Advance, OrderInv, ResumePointIsDurable, TypeOK
    <3>3. /\ DeliveredOnceInOrder'
          /\ \A d \in Clients : \A k \in 1..Len(got'[d]) : got'[d][k] <= lastId'[d]
          /\ lastId' = [lastId EXCEPT ![c] = i]
      <4> HIDE DEF i
      <4>1. QED
        BY <3>1, <3>2, ReceiveKeepsOrder
    <3>4. QED
      <4> HIDE DEF i
      <4>1. QED
        BY <3>2, <3>3 DEF OrderInv, ResumePointIsDurable, TypeOK
  <2>6. ASSUME NEW c \in Clients, TailImpact(c) PROVE OrderInv'
    <3>1. UNCHANGED <<conn, rows, durable, got>>
      BY <2>6 DEF TailImpact, Advance
    <3>2. lastId' = lastId
      BY <2>6 DEF TailImpact, AtEvent, OrderInv, ResumePointIsDurable, TypeOK
    <3>3. QED
      BY <2>1, <3>1, <3>2
  <2>7. ASSUME NEW c \in Clients, Drop(c) PROVE OrderInv'
    <3>1. UNCHANGED <<durable, lastId, got>>
      BY <2>7 DEF Drop, clientVars
    <3>2. /\ conn' = [conn EXCEPT ![c] = "off"]
          /\ rows' = [rows EXCEPT ![c] = {}]
      BY <2>7 DEF Drop
    <3>3. QED
      BY <3>1, <3>2 DEF OrderInv, DeliveredOnceInOrder, ResumePointIsDurable, TypeOK
  <2>8. CASE Restart
    BY <2>8 DEF Restart, clientVars, OrderInv, DeliveredOnceInOrder, ResumePointIsDurable
  <2>9. ASSUME NEW p \in Producers, Ingest(p) PROVE OrderInv'
    BY <2>1, <2>9 DEF Ingest, Insert, RecordFails, Commit, Emit, EmitFails,
                      handlerVars, clientVars
  <2>10. ASSUME Impact PROVE OrderInv'
    BY <2>1, <2>10 DEF Impact, ImpactStart, ImpactEmit, ImpactNothing,
                       handlerVars, clientVars
  <2>11. ASSUME NEW c \in Clients, TailSkip(c) PROVE OrderInv'
    BY <2>1, <2>11 DEF TailSkip, Advance, clientVars
  <2>12. CASE UNCHANGED vars
    BY <2>1, <2>12 DEF vars, handlerVars, clientVars
  <2>13. QED
    BY <2>2, <2>3, <2>4, <2>5, <2>6, <2>7, <2>8, <2>9, <2>10, <2>11, <2>12
       DEF Next, Serve
<1>3. QED
  BY <1>1, <1>2, TypeCorrect, PTL DEF Spec

\* No browser receives an activity twice or out of order, for any number of
\* ingest threads, browsers, reconnects, restarts and deque evictions.
THEOREM DeliveryIsOnceAndInOrder == Spec => []DeliveredOnceInOrder
BY OrderInvariant, PTL DEF OrderInv

\* The id a browser resumes from is always the handler's durable cursor.
THEOREM ResumePointCorrect == Spec => []ResumePointIsDurable
BY OrderInvariant, PTL DEF OrderInv

-----------------------------------------------------------------------------
(* The spine implements the abstract feed, when POSTs come one at a time    *)
(* and while the deque has dropped nothing.                                 *)

\* One request is served at a time, and building a fragment never raises.
InTurn ==
    /\ \A p, q \in Producers : p = q
    /\ ~EmitMayFail

\* What client c is still owed.
Owed(c) == committed \ (Delivered(c) \cup skipped[c])

\* Ids are given out and committed in order; the last one is known.
RowsInOrder ==
    /\ nextId <= MaxIds + 1
    /\ committed \subseteq 1..(nextId - 1)
    /\ committed # {} => \E m \in committed : \A j \in committed : j <= m
    /\ \A p \in Producers : ingest[p].at # "idle" =>
          /\ ingest[p].id = nextId - 1
          /\ ingest[p].id \in Ids
          /\ ingest[p].at = "recorded" <=> ingest[p].id \in committed

\* The deque holds committed ids in order, all below the one in the making.
EventsInOrder ==
    /\ \A k \in 1..Len(buf) : buf[k] # NoId => buf[k] \in committed
    /\ \A j, k \in 1..Len(buf) :
          j < k /\ buf[j] # NoId /\ buf[k] # NoId => buf[j] < buf[k]
    /\ \A p \in Producers : \A k \in 1..Len(buf) :
          ingest[p].at # "idle" => buf[k] < ingest[p].id

\* Nothing owed lies below the resume point, and what a window left out has
\* a window's worth of newer rows, so that no later window takes it in.
Resumable(c) ==
    /\ lastId[c] = 0 \/ lastId[c] \in committed
    /\ rows[c] \subseteq committed \ skipped[c]
    /\ skipped[c] \subseteq committed
    /\ \A i \in Owed(c) : lastId[c] < i
    /\ \A i \in skipped[c] : Cardinality({j \in committed : j > i}) >= ReplayLimit
    /\ conn[c] # "off" => cursor[c] <= Len(buf)

\* While a client is served, what it is owed is in the replay, ahead of it in
\* the deque, or recorded and about to be emitted, in that order.
Ahead(c, i) ==
    \/ \E k \in 1..Len(buf) : cursor[c] < k /\ buf[k] = i
    \/ \E p \in Producers : ingest[p].at = "recorded" /\ ingest[p].id = i

Covered(c) ==
    conn[c] = "serving" =>
        /\ \A i \in Owed(c) \ rows[c] : Ahead(c, i) /\ \A r \in rows[c] : r < i
        /\ \A i \in skipped[c] : i <= lastId[c] \/ \E r \in rows[c] : i < r

FeedInv ==
    /\ RowsInOrder
    /\ EventsInOrder
    /\ \A c \in Clients : Resumable(c) /\ Covered(c)

\* While nothing is dropped, the deque only grows at its end.
LEMMA PushGrows ==
    ASSUME TypeOK, ~evicted', NEW ev, Push(ev)
    PROVE  buf' = Append(buf, ev)
BY DEF Push, TypeOK

\* The members of a longer deque.
LEMMA Grown ==
    ASSUME TypeOK, NEW ev \in Nat, buf' = Append(buf, ev)
    PROVE  /\ Len(buf') = Len(buf) + 1
           /\ buf'[Len(buf) + 1] = ev
           /\ \A k \in 1..Len(buf) : buf'[k] = buf[k]
BY DEF TypeOK

\* The deque's order is not disturbed by an event without a row.
LEMMA ImpactKeepsOrder ==
    ASSUME TypeOK, RowsInOrder, EventsInOrder, buf' = Append(buf, NoId),
           UNCHANGED <<committed, ingest>>
    PROVE  EventsInOrder'
<1>1. NoId \in Nat
  BY DEF NoId
<1>2. /\ Len(buf') = Len(buf) + 1
      /\ buf'[Len(buf) + 1] = NoId
      /\ \A k \in 1..Len(buf) : buf'[k] = buf[k]
  BY <1>1, Grown
<1>3. Len(buf) \in Nat
  BY DEF TypeOK
<1>4. \A k \in 1..Len(buf') : k \in 1..Len(buf) \/ k = Len(buf) + 1
  BY <1>2, <1>3
<1>5. \A k \in 1..Len(buf') : buf'[k] # NoId => buf'[k] \in committed'
  BY <1>2, <1>4 DEF EventsInOrder
<1>6. \A j, k \in 1..Len(buf') :
          j < k /\ buf'[j] # NoId /\ buf'[k] # NoId => buf'[j] < buf'[k]
  BY <1>2, <1>4 DEF EventsInOrder
<1>7. ASSUME NEW p \in Producers, NEW k \in 1..Len(buf'), ingest'[p].at # "idle"
      PROVE  buf'[k] < ingest'[p].id
  BY <1>2, <1>4, <1>7 DEF EventsInOrder, RowsInOrder, NoId, Ids
<1>8. QED
  BY <1>5, <1>6, <1>7 DEF EventsInOrder

\* The event of a row in the making goes to the end of the order.
LEMMA EmitKeepsOrder ==
    ASSUME TypeOK, InTurn, RowsInOrder, EventsInOrder, NEW p \in Producers,
           ingest[p].at = "recorded", buf' = Append(buf, ingest[p].id),
           ingest' = [ingest EXCEPT ![p] = Idle], committed' = committed
    PROVE  EventsInOrder'
<1> DEFINE i == ingest[p].id
<1>1. i \in Nat /\ i \in committed
  BY DEF TypeOK, RowsInOrder
<1>2. /\ Len(buf') = Len(buf) + 1
      /\ buf'[Len(buf) + 1] = i
      /\ \A k \in 1..Len(buf) : buf'[k] = buf[k]
  BY <1>1, Grown
<1>3. Len(buf) \in Nat
  BY DEF TypeOK
<1>4. \A k \in 1..Len(buf') : k \in 1..Len(buf) \/ k = Len(buf) + 1
  BY <1>2, <1>3
<1>5. \A k \in 1..Len(buf) : buf[k] < i
  BY DEF EventsInOrder
<1>6. \A k \in 1..Len(buf') : buf'[k] # NoId => buf'[k] \in committed'
  BY <1>1, <1>2, <1>4 DEF EventsInOrder
<1>7. \A j, k \in 1..Len(buf') :
          j < k /\ buf'[j] # NoId /\ buf'[k] # NoId => buf'[j] < buf'[k]
  <2> SUFFICES ASSUME NEW j \in 1..Len(buf'), NEW k \in 1..Len(buf'),
                      j < k, buf'[j] # NoId, buf'[k] # NoId
               PROVE  buf'[j] < buf'[k]
    OBVIOUS
  <2>1. j \in 1..Len(buf)
    BY <1>3, <1>4
  <2>2. CASE k \in 1..Len(buf)
    BY <1>2, <2>1, <2>2 DEF EventsInOrder
  <2>3. CASE k = Len(buf) + 1
    BY <1>2, <1>5, <2>1, <2>3
  <2>4. QED
    BY <1>4, <2>2, <2>3
<1>8. \A q \in Producers : ingest'[q].at = "idle"
  BY DEF InTurn, TypeOK, Idle
<1>9. QED
  BY <1>6, <1>7, <1>8 DEF EventsInOrder

\* What concerns a client depends on its own variables and on the server's.
LEMMA OthersKeep ==
    ASSUME NEW c \in Clients, Resumable(c), Covered(c), conn[c] # "serving" => rows[c] = {},
           UNCHANGED <<buf, committed, ingest>>,
           got'[c] = got[c], lastId'[c] = lastId[c], skipped'[c] = skipped[c],
           \/ /\ conn'[c] = conn[c]
              /\ cursor'[c] = cursor[c]
              /\ rows'[c] = rows[c]
           \/ /\ conn'[c] = "off"
              /\ rows'[c] = {}
    PROVE  Resumable(c)' /\ Covered(c)'
<1>1. Owed(c)' = Owed(c)
  BY DEF Owed, Delivered
<1>2. Resumable(c)'
  BY <1>1 DEF Resumable
<1>3. CASE conn'[c] = conn[c] /\ cursor'[c] = cursor[c] /\ rows'[c] = rows[c]
  <2>1. \A i : Ahead(c, i)' = Ahead(c, i)
    BY <1>3 DEF Ahead
  <2>2. Covered(c)'
    BY <1>1, <1>3, <2>1 DEF Covered
  <2>3. QED
    BY <1>2, <2>2
<1>4. CASE conn'[c] = "off"
  BY <1>2, <1>4 DEF Covered
<1>5. QED
  BY <1>2, <1>3, <1>4

\* An event pushed at the end leaves every client where it was.
LEMMA PushKeepsClients ==
    ASSUME TypeOK, NEW c \in Clients, Resumable(c), Covered(c), NEW ev \in Nat,
           buf' = Append(buf, ev),
           UNCHANGED <<committed, conn, cursor, rows, lastId, got, skipped>>,
           \A p \in Producers :
              \/ ingest'[p] = ingest[p]
              \/ ingest[p].id = ev
    PROVE  Resumable(c)' /\ Covered(c)'
<1>1. /\ Len(buf') = Len(buf) + 1
      /\ buf'[Len(buf) + 1] = ev
      /\ \A k \in 1..Len(buf) : buf'[k] = buf[k]
  BY Grown
<1>2. Owed(c)' = Owed(c)
  BY DEF Owed, Delivered
<1>3. Len(buf) \in Nat /\ cursor[c] \in Nat
  BY DEF TypeOK
<1>4. Resumable(c)'
  BY <1>1, <1>2, <1>3 DEF Resumable
<1>5. ASSUME NEW i, Ahead(c, i), conn[c] = "serving"
      PROVE  Ahead(c, i)'
  <2>1. CASE \E k \in 1..Len(buf) : cursor[c] < k /\ buf[k] = i
    <3>1. PICK k \in 1..Len(buf) : cursor[c] < k /\ buf[k] = i
      BY <2>1
    <3>2. k \in 1..Len(buf') /\ buf'[k] = i /\ cursor'[c] < k
      BY <1>1, <1>3, <3>1
    <3>3. QED
      BY <3>2 DEF Ahead
  <2>2. ASSUME NEW p \in Producers, ingest[p].at = "recorded", ingest[p].id = i
        PROVE  Ahead(c, i)'
    <3>1. CASE ingest'[p] = ingest[p]
      BY <2>2, <3>1 DEF Ahead
    <3>2. CASE ingest[p].id = ev
      <4>1. /\ Len(buf) + 1 \in 1..Len(buf')
            /\ cursor'[c] < Len(buf) + 1
            /\ buf'[Len(buf) + 1] = i
        BY <1>1, <1>3, <1>5, <2>2, <3>2 DEF Resumable
      <4>2. QED
        BY <4>1 DEF Ahead
    <3>3. QED
      BY <3>1, <3>2
  <2>3. QED
    BY <1>5, <2>1, <2>2 DEF Ahead
<1>6. Covered(c)'
  BY <1>2, <1>5 DEF Covered
<1>7. QED
  BY <1>4, <1>6

\* A committed row is above everything a client has or was refused, and is
\* about to be emitted.
LEMMA CommitKeepsClients ==
    ASSUME TypeOK, OrderInv, RowsInOrder, NEW c \in Clients, Resumable(c), Covered(c),
           NEW p \in Producers, Commit(p)
    PROVE  Resumable(c)' /\ Covered(c)'
<1>0. PICK i : i = ingest[p].id
  OBVIOUS
<1>1. /\ i \in Nat /\ i > 0 /\ i \notin committed
      /\ \A j \in committed : j < i
  <2>1. /\ i = nextId - 1 /\ i \notin committed
        /\ committed \subseteq 1..(nextId - 1)
        /\ i \in 1..MaxIds
    BY <1>0 DEF Commit, RowsInOrder, Ids
  <2>2. nextId \in Nat /\ MaxIds \in Nat
    BY ActivityAssumption DEF TypeOK
  <2>3. QED
    BY <2>1, <2>2
<1>2. /\ committed' = committed \cup {i}
      /\ UNCHANGED <<buf, conn, cursor, rows, lastId, got, skipped>>
      /\ ingest' = [ingest EXCEPT ![p].at = "recorded"]
  BY <1>0 DEF Commit, handlerVars, clientVars
<1>3. lastId[c] < i
  BY <1>1 DEF Resumable, TypeOK
<1>4. Owed(c)' = Owed(c) \cup {i}
  <2>1. i \notin Delivered(c)
    <3> SUFFICES ASSUME NEW k \in 1..Len(got[c]), got[c][k] = i PROVE FALSE
      BY DEF Delivered
    <3>1. got[c][k] <= lastId[c]
      BY DEF OrderInv
    <3>2. QED
      BY <1>1, <1>3, <3>1 DEF TypeOK
  <2>2. i \notin skipped[c]
    BY <1>1 DEF Resumable
  <2>3. QED
    BY <1>2, <2>1, <2>2 DEF Owed, Delivered
<1>5. ingest'[p].at = "recorded" /\ ingest'[p].id = i
  BY <1>0, <1>2 DEF TypeOK
<1>6. ASSUME NEW q \in Producers, ingest[q].at = "recorded"
      PROVE  ingest'[q] = ingest[q]
  BY <1>2, <1>6 DEF TypeOK, Commit
<1>7. Resumable(c)'
  <2>1. ASSUME NEW s \in skipped[c]
        PROVE  Cardinality({j \in committed' : j > s}) >= ReplayLimit
    <3> DEFINE new == {j \in committed' : j > s}
               old == {j \in committed : j > s}
    <3>1. IsFiniteSet(committed')
      <4>1. committed' \subseteq 1..(nextId - 1) \cup {i}
        BY <1>2 DEF RowsInOrder
      <4>2. IsFiniteSet(1..(nextId - 1) \cup {i})
        <5>1. nextId - 1 \in Int /\ 1 \in Int
          BY DEF TypeOK
        <5>2. IsFiniteSet(1..(nextId - 1))
          BY <5>1, FS_Interval
        <5>3. QED
          BY <5>2, FS_AddElement
      <4>3. QED
        BY <4>1, <4>2, FS_Subset
    <3>2. IsFiniteSet(new)
      <4>1. new \subseteq committed'
        OBVIOUS
      <4>2. QED
        BY <3>1, <4>1, FS_Subset
    <3>3. old \subseteq new
      BY <1>2
    <3>4. IsFiniteSet(old) /\ Cardinality(old) <= Cardinality(new)
      BY <3>2, <3>3, FS_Subset
    <3>5. Cardinality(old) \in Nat /\ Cardinality(new) \in Nat
      BY <3>2, <3>4, FS_CardinalityType
    <3>6. Cardinality(old) >= ReplayLimit
      BY DEF Resumable
    <3>7. QED
      BY <3>4, <3>5, <3>6, ActivityAssumption
  <2>2. QED
    BY <1>2, <1>3, <1>4, <2>1 DEF Resumable
<1>8. Covered(c)'
  <2> SUFFICES ASSUME conn[c] = "serving"
               PROVE  /\ \A j \in Owed(c)' \ rows[c] :
                            Ahead(c, j)' /\ \A r \in rows[c] : r < j
                      /\ \A s \in skipped[c] : s <= lastId[c] \/ \E r \in rows[c] : s < r
    BY <1>2 DEF Covered
  <2>1. ASSUME NEW j \in Owed(c) \ rows[c]
        PROVE  Ahead(c, j)' /\ \A r \in rows[c] : r < j
    <3>1. Ahead(c, j)
      BY DEF Covered
    <3>2. Ahead(c, j)'
      BY <1>2, <1>6, <3>1 DEF Ahead
    <3>3. QED
      BY <3>2 DEF Covered
  <2>2. Ahead(c, i)'
    BY <1>5 DEF Ahead
  <2>3. \A r \in rows[c] : r < i
    BY <1>1 DEF Resumable
  <2>4. QED
    BY <1>4, <2>1, <2>2, <2>3 DEF Covered
<1>9. QED
  BY <1>7, <1>8

\* A step that neither commits, emits nor serves leaves the clients alone.
LEMMA BystandersKeep ==
    ASSUME NEW c \in Clients, Resumable(c), Covered(c),
           UNCHANGED <<buf, committed, conn, cursor, rows, lastId, got, skipped>>,
           \A p \in Producers : ingest[p].at = "recorded" => ingest'[p] = ingest[p]
    PROVE  Resumable(c)' /\ Covered(c)'
<1>1. Owed(c)' = Owed(c)
  BY DEF Owed, Delivered
<1>2. Resumable(c)'
  BY <1>1 DEF Resumable
<1>3. ASSUME NEW i, Ahead(c, i) PROVE Ahead(c, i)'
  BY <1>3 DEF Ahead
<1>4. Covered(c)'
  BY <1>1, <1>3 DEF Covered
<1>5. QED
  BY <1>2, <1>4

\* A POST keeps the invariant.
LEMMA IngestKeepsFeed ==
    ASSUME TypeOK, OrderInv, FeedInv, InTurn, ~evicted', NEW p \in Producers, Ingest(p)
    PROVE  FeedInv'
<1> USE DEF FeedInv
<1>0. \A q \in Producers : q = p
  BY DEF InTurn
<1>1. CASE Insert(p)
  <2>1. /\ ingest[p].at = "idle"
        /\ nextId <= MaxIds
        /\ nextId' = nextId + 1
        /\ ingest' = [ingest EXCEPT ![p] = [at |-> "inserted", id |-> nextId]]
        /\ UNCHANGED <<buf, committed, conn, cursor, rows, lastId, got, skipped>>
    BY <1>1 DEF Insert, handlerVars, clientVars
  <2>2. /\ ingest'[p].at = "inserted"
        /\ ingest'[p].id = nextId
    BY <2>1 DEF TypeOK
  <2>3. nextId \in Nat \ {0} /\ MaxIds \in Nat
    BY ActivityAssumption DEF TypeOK
  <2>4. RowsInOrder'
    <3>1. /\ nextId' <= MaxIds + 1
          /\ committed' \subseteq 1..(nextId' - 1)
          /\ nextId \notin committed'
      BY <2>1, <2>3 DEF RowsInOrder
    <3>2. \A q \in Producers :
              /\ ingest'[q].id = nextId' - 1
              /\ ingest'[q].id \in Ids
              /\ ingest'[q].at = "recorded" <=> ingest'[q].id \in committed'
      BY <1>0, <2>1, <2>2, <2>3, <3>1 DEF Ids
    <3>3. QED
      BY <2>1, <3>1, <3>2 DEF RowsInOrder
  <2>5. EventsInOrder'
    <3>1. ASSUME NEW k \in 1..Len(buf) PROVE buf[k] < nextId
      <4>1. CASE buf[k] = NoId
        BY <2>3, <4>1 DEF NoId
      <4>2. CASE buf[k] \in committed
        <5>1. buf[k] \in 1..(nextId - 1)
          BY <4>2 DEF RowsInOrder
        <5>2. QED
          BY <2>3, <5>1
      <4>3. QED
        BY <4>1, <4>2 DEF EventsInOrder
    <3>2. QED
      BY <1>0, <2>1, <2>2, <3>1 DEF EventsInOrder
  <2>6. \A q \in Producers : ingest[q].at = "recorded" => ingest'[q] = ingest[q]
    BY <1>0, <2>1
  <2>7. \A c \in Clients : Resumable(c)' /\ Covered(c)'
    BY <2>1, <2>6, BystandersKeep
  <2>8. QED
    BY <2>4, <2>5, <2>7
<1>2. CASE RecordFails(p)
  <2>1. /\ ingest[p].at = "inserted"
        /\ ingest' = [ingest EXCEPT ![p] = Idle]
        /\ UNCHANGED <<nextId, buf, committed, conn, cursor, rows, lastId, got, skipped>>
    BY <1>2 DEF RecordFails, handlerVars, clientVars
  <2>2. \A q \in Producers : ingest'[q].at = "idle"
    BY <1>0, <2>1 DEF Idle, TypeOK
  <2>3. RowsInOrder' /\ EventsInOrder'
    BY <2>1, <2>2 DEF RowsInOrder, EventsInOrder
  <2>4. \A q \in Producers : ingest[q].at = "recorded" => ingest'[q] = ingest[q]
    BY <1>0, <2>1
  <2>5. \A c \in Clients : Resumable(c)' /\ Covered(c)'
    BY <2>1, <2>4, BystandersKeep
  <2>6. QED
    BY <2>3, <2>5
<1>3. CASE Commit(p)
  <2>1. PICK i : i = ingest[p].id
    OBVIOUS
  <2>2. /\ ingest[p].at = "inserted"
        /\ ingest' = [ingest EXCEPT ![p].at = "recorded"]
        /\ committed' = committed \cup {i}
        /\ UNCHANGED <<nextId, buf>>
    BY <1>3, <2>1 DEF Commit
  <2>3. ingest'[p].at = "recorded" /\ ingest'[p].id = i
    BY <2>1, <2>2 DEF TypeOK
  <2>4. nextId \in Nat \ {0} /\ MaxIds \in Nat
    BY ActivityAssumption DEF TypeOK
  <2>5. i = nextId - 1 /\ i \in Ids
    BY <2>1, <2>2 DEF RowsInOrder
  <2>6. RowsInOrder'
    <3>1. committed' \subseteq 1..(nextId' - 1)
      BY <2>2, <2>4, <2>5 DEF RowsInOrder, Ids
    <3>2. i \in committed' /\ \A j \in committed' : j <= i
      BY <2>2, <2>4, <2>5, <3>1
    <3>3. \A q \in Producers :
              /\ ingest'[q].id = nextId' - 1
              /\ ingest'[q].id \in Ids
              /\ ingest'[q].at = "recorded" <=> ingest'[q].id \in committed'
      BY <1>0, <2>2, <2>3, <2>5, <3>2
    <3>4. nextId' <= MaxIds + 1
      BY <2>2 DEF RowsInOrder
    <3>5. committed' # {} => \E m \in committed' : \A j \in committed' : j <= m
      BY <3>2
    <3>6. QED
      BY <3>1, <3>3, <3>4, <3>5 DEF RowsInOrder
  <2>7. EventsInOrder'
    BY <1>0, <2>1, <2>2, <2>3 DEF EventsInOrder
  <2>8. \A c \in Clients : Resumable(c)' /\ Covered(c)'
    BY <1>3, CommitKeepsClients
  <2>9. QED
    BY <2>6, <2>7, <2>8
<1>4. CASE Emit(p)
  <2>1. PICK i : i = ingest[p].id
    OBVIOUS
  <2>2. /\ ingest[p].at = "recorded"
        /\ Push(i)
        /\ ingest' = [ingest EXCEPT ![p] = Idle]
        /\ UNCHANGED <<nextId, committed, conn, cursor, rows, lastId, got, skipped>>
    BY <1>4, <2>1 DEF Emit, handlerVars, clientVars
  <2>3. buf' = Append(buf, i)
    BY <2>2, PushGrows
  <2>4. EventsInOrder'
    BY <2>1, <2>2, <2>3, EmitKeepsOrder
  <2>5. \A q \in Producers : ingest'[q].at = "idle"
    BY <1>0, <2>2 DEF Idle, TypeOK
  <2>6. RowsInOrder'
    BY <2>2, <2>5 DEF RowsInOrder
  <2>7. i \in Nat
    BY <2>1 DEF TypeOK
  <2>8. \A c \in Clients : Resumable(c)' /\ Covered(c)'
    BY <1>0, <2>1, <2>2, <2>3, <2>7, PushKeepsClients
  <2>9. QED
    BY <2>4, <2>6, <2>8
<1>5. CASE EmitFails(p)
  BY <1>5 DEF EmitFails, InTurn
<1>6. QED
  BY <1>1, <1>2, <1>3, <1>4, <1>5 DEF Ingest

\* A blast-radius pass keeps it.
LEMMA ImpactKeepsFeed ==
    ASSUME TypeOK, FeedInv, ~evicted', Impact
    PROVE  FeedInv'
<1>1. UNCHANGED <<nextId, committed, ingest, conn, cursor, rows, lastId, got, skipped>>
  BY DEF Impact, ImpactStart, ImpactEmit, ImpactNothing, handlerVars, clientVars
<1>2. RowsInOrder'
  BY <1>1 DEF FeedInv, RowsInOrder
<1>3. CASE buf' = buf
  <2>1. EventsInOrder'
    BY <1>1, <1>3 DEF FeedInv, EventsInOrder
  <2>2. \A c \in Clients : Resumable(c)' /\ Covered(c)'
    BY <1>1, <1>3, BystandersKeep DEF FeedInv
  <2>3. QED
    BY <1>2, <2>1, <2>2 DEF FeedInv
<1>4. CASE Push(NoId)
  <2>1. buf' = Append(buf, NoId)
    BY <1>4, PushGrows
  <2>2. EventsInOrder'
    BY <1>1, <2>1, ImpactKeepsOrder DEF FeedInv
  <2>3. NoId \in Nat
    BY DEF NoId
  <2>4. \A c \in Clients : Resumable(c)' /\ Covered(c)'
    BY <1>1, <2>1, <2>3, PushKeepsClients DEF FeedInv
  <2>5. QED
    BY <1>2, <2>2, <2>4 DEF FeedInv
<1>5. QED
  BY <1>3, <1>4 DEF Impact, ImpactStart, ImpactEmit, ImpactNothing

-----------------------------------------------------------------------------
\* The table is finite, so its parts can be counted.
LEMMA TableFinite ==
    ASSUME TypeOK, RowsInOrder, NEW S, S \subseteq committed
    PROVE  IsFiniteSet(S) /\ Cardinality(S) \in Nat
<1>1. nextId - 1 \in Int /\ 1 \in Int
  BY DEF TypeOK
<1>2. IsFiniteSet(1..(nextId - 1))
  BY <1>1, FS_Interval
<1>3. S \subseteq 1..(nextId - 1)
  BY DEF RowsInOrder
<1>4. QED
  BY <1>2, <1>3, FS_Subset, FS_CardinalityType

\* The rows above one that is itself above the cursor are all above it.
LEMMA AboveTheCursor ==
    ASSUME TypeOK, NEW c \in Clients, NEW s, s \in committed, s > durable[c]
    PROVE  {j \in {i \in committed : i > durable[c]} : j > s} = {j \in committed : j > s}
<1>1. \A j \in committed : j > s => j > durable[c]
  <2>1. s \in Nat /\ durable[c] \in Nat /\ \A j \in committed : j \in Nat
    BY DEF TypeOK
  <2>2. QED
    BY <2>1
<1>2. QED
  BY <1>1

\* A row is in the replay window exactly when fewer rows than a window are
\* newer.
LEMMA InWindow ==
    ASSUME TypeOK, NEW c \in Clients, NEW s, s \in committed, s > durable[c]
    PROVE  s \in Window({i \in committed : i > durable[c]})
           <=> Cardinality({j \in committed : j > s}) < ReplayLimit
<1> DEFINE above == {i \in committed : i > durable[c]}
<1>1. {j \in above : j > s} = {j \in committed : j > s}
  BY AboveTheCursor
<1>2. s \in above
  OBVIOUS
<1>3. Window(above) = {i \in above : Cardinality({j \in above : j > i}) < ReplayLimit}
  BY DEF Window
<1> HIDE DEF above
<1>4. s \in Window(above) <=> Cardinality({j \in above : j > s}) < ReplayLimit
  BY <1>2, <1>3
<1>5. QED
  BY <1>1, <1>4 DEF above

\* A row that the window leaves out has a newer one in it: the newest of all.
LEMMA WindowIsNewer ==
    ASSUME TypeOK, RowsInOrder, NEW c \in Clients, NEW s, s \in committed, s > durable[c],
           Cardinality({j \in committed : j > s}) >= ReplayLimit
    PROVE  \E r \in Window({i \in committed : i > durable[c]}) : s < r
<1>1. PICK m \in committed : \A j \in committed : j <= m
  BY DEF RowsInOrder
<1>2. s \in Nat /\ m \in Nat /\ durable[c] \in Nat
  BY DEF TypeOK
<1>3. {j \in committed : j > m} = {}
  <2>1. \A j \in committed : j \in Nat
    BY DEF TypeOK
  <2>2. \A j \in committed : ~(j > m)
    BY <1>1, <1>2, <2>1
  <2>3. QED
    BY <2>2
<1>4. Cardinality({j \in committed : j > m}) < ReplayLimit
  BY <1>3, FS_EmptySet, ActivityAssumption
<1>5. s # m
  BY <1>4, TableFinite, ActivityAssumption
<1>6. s < m
  BY <1>1, <1>2, <1>5
<1>7. m \in Window({i \in committed : i > durable[c]})
  BY <1>2, <1>4, <1>6, InWindow
<1>8. QED
  BY <1>6, <1>7

\* The members of a window are older than nothing that it leaves out.
LEMMA WindowIsNewest ==
    ASSUME TypeOK, RowsInOrder, NEW c \in Clients,
           NEW s, s \in committed, s > durable[c],
           NEW w, w \in committed, w > durable[c],
           Cardinality({j \in committed : j > s}) >= ReplayLimit,
           Cardinality({j \in committed : j > w}) < ReplayLimit
    PROVE  s < w
<1> DEFINE newS == {j \in committed : j > s}
           newW == {j \in committed : j > w}
<1>1. s \in Nat /\ w \in Nat
  BY DEF TypeOK
<1>2. ASSUME w <= s PROVE FALSE
  <2>1. newS \subseteq newW
    <3>1. \A j \in committed : j \in Nat
      BY DEF TypeOK
    <3>2. \A j \in committed : j > s => j > w
      BY <1>1, <1>2, <3>1
    <3>3. QED
      BY <3>2
  <2>2. IsFiniteSet(newW) /\ Cardinality(newW) \in Nat /\ Cardinality(newS) \in Nat
    BY TableFinite
  <2>3. Cardinality(newS) <= Cardinality(newW)
    BY <2>1, <2>2, FS_Subset
  <2>4. QED
    BY <2>2, <2>3, ActivityAssumption
<1>3. QED
  BY <1>1, <1>2

\* What a client has received lies at or below its resume point.
LEMMA DeliveredIsBelow ==
    ASSUME TypeOK, OrderInv, NEW c \in Clients, NEW i \in Delivered(c)
    PROVE  i <= lastId[c]
BY DEF Delivered, OrderInv

\* The query: what the client is owed afterwards is the window, which leaves
\* out again whatever an earlier window left out.
LEMMA QueryOwes ==
    ASSUME TypeOK, OrderInv, FeedInv, NEW c \in Clients, Query(c)
    PROVE  /\ Owed(c)' = rows'[c]
           /\ rows'[c] \subseteq Owed(c)
           /\ \A s \in skipped'[c] \ skipped[c] :
                 /\ s \in Owed(c)
                 /\ s > durable[c]
                 /\ Cardinality({j \in committed : j > s}) >= ReplayLimit
           /\ \A w \in rows'[c] :
                 /\ w > durable[c]
                 /\ Cardinality({j \in committed : j > w}) < ReplayLimit
<1> DEFINE above == {i \in committed : i > durable[c]}
           window == Window(above)
<1>1. /\ rows'[c] = window
      /\ skipped'[c] = skipped[c] \cup (above \ window)
      /\ conn[c] = "captured"
      /\ UNCHANGED <<committed, got>>
  BY DEF Query, TypeOK, serverVars
<1>2. lastId[c] = durable[c]
  BY <1>1 DEF OrderInv, ResumePointIsDurable
<1>3. window \subseteq above
  BY WindowSubset
<1>4. \A s \in above : s \in window <=> Cardinality({j \in committed : j > s}) < ReplayLimit
  BY InWindow
<1>5. \A s \in above : s \in committed /\ s > durable[c]
  OBVIOUS
<1>6. \A s \in above : Cardinality({j \in committed : j > s}) \in Nat
  BY TableFinite DEF FeedInv
<1>7. \A i \in Owed(c) : i \in above
  BY <1>2 DEF FeedInv, Resumable, Owed
<1> HIDE DEF window, above
<1>8. \A i \in above : i \notin Delivered(c)
  <2> SUFFICES ASSUME NEW i \in above, i \in Delivered(c) PROVE FALSE
    OBVIOUS
  <2>1. i <= durable[c]
    BY <1>2, DeliveredIsBelow
  <2>2. i \in Nat /\ durable[c] \in Nat
    BY <1>5 DEF TypeOK
  <2>3. QED
    BY <1>5, <2>1, <2>2
<1>9. \A w \in window : w \notin skipped[c]
  <2> SUFFICES ASSUME NEW w \in window, w \in skipped[c] PROVE FALSE
    OBVIOUS
  <2>1. Cardinality({j \in committed : j > w}) >= ReplayLimit
    BY DEF FeedInv, Resumable
  <2>2. w \in above
    BY <1>3
  <2>3. QED
    BY <1>4, <1>6, <2>1, <2>2, ActivityAssumption
<1>10. rows'[c] \subseteq Owed(c)
  BY <1>1, <1>3, <1>5, <1>8, <1>9 DEF Owed
<1>11. Owed(c)' = rows'[c]
  <2>1. Owed(c)' = Owed(c) \ (above \ window)
    BY <1>1 DEF Owed, Delivered
  <2>2. QED
    BY <1>1, <1>3, <1>7, <1>10, <2>1
<1>12. ASSUME NEW s \in skipped'[c] \ skipped[c]
       PROVE  /\ s \in Owed(c)
              /\ s > durable[c]
              /\ Cardinality({j \in committed : j > s}) >= ReplayLimit
  <2>1. s \in above \ window
    BY <1>1, <1>12
  <2>2. s \in Owed(c)
    BY <1>5, <1>8, <1>12, <2>1 DEF Owed
  <2>3. QED
    BY <1>4, <1>5, <1>6, <2>1, <2>2, ActivityAssumption
<1>13. QED
  BY <1>1, <1>3, <1>4, <1>5, <1>10, <1>11, <1>12

\* The next row of a replay is the oldest the client is owed.
LEMMA ReplayIsNext ==
    ASSUME TypeOK, OrderInv, FeedInv, NEW c \in Clients, conn[c] = "serving",
           NEW i \in rows[c], \A j \in rows[c] : i <= j
    PROVE  i \in Owed(c) /\ \A j \in Owed(c) : i <= j
<1>1. /\ i \in committed /\ i \notin skipped[c]
      /\ durable[c] < i /\ lastId[c] = durable[c]
  BY DEF FeedInv, Resumable, OrderInv, ResumePointIsDurable
<1>2. i \in Nat /\ lastId[c] \in Nat /\ \A j \in committed : j \in Nat
  BY <1>1 DEF TypeOK
<1>3. i \notin Delivered(c)
  BY <1>1, <1>2, DeliveredIsBelow
<1>4. ASSUME NEW j \in Owed(c) PROVE i <= j
  <2>1. CASE j \in rows[c]
    BY <2>1
  <2>2. CASE j \notin rows[c]
    <3>1. i < j
      BY <2>2 DEF FeedInv, Covered
    <3>2. j \in Nat
      BY <1>2 DEF Owed
    <3>3. QED
      BY <1>2, <3>1, <3>2
  <2>3. QED
    BY <2>1, <2>2
<1>5. QED
  BY <1>1, <1>3, <1>4 DEF Owed

\* So is the next event above the durable cursor, once the replay is written.
LEMMA EventIsNext ==
    ASSUME TypeOK, OrderInv, FeedInv, NEW c \in Clients, AtEvent(c),
           NEW i, i = NextEvent(c), i > durable[c]
    PROVE  i \in Owed(c) /\ \A j \in Owed(c) : i <= j
<1>1. /\ conn[c] = "serving" /\ rows[c] = {}
      /\ cursor[c] \in Nat /\ Len(buf) \in Nat /\ cursor[c] < Len(buf)
      /\ i = buf[cursor[c] + 1]
      /\ lastId[c] = durable[c]
  BY DEF AtEvent, NextEvent, OrderInv, ResumePointIsDurable, TypeOK
<1>2. cursor[c] + 1 \in 1..Len(buf)
  BY <1>1
<1>3. i \in Nat /\ durable[c] \in Nat /\ \A j \in committed : j \in Nat
  BY <1>1, <1>2 DEF TypeOK
<1>4. i # NoId
  BY <1>3 DEF NoId
<1>5. i \in committed
  BY <1>1, <1>2, <1>4 DEF FeedInv, EventsInOrder
<1>6. i \notin Delivered(c)
  BY <1>1, <1>3, DeliveredIsBelow
<1>7. i \notin skipped[c]
  BY <1>1, <1>3 DEF FeedInv, Covered
<1>8. ASSUME NEW j \in Owed(c) PROVE i <= j
  <2>1. Ahead(c, j) /\ j \in Nat
    BY <1>1, <1>3 DEF FeedInv, Covered, Owed
  <2>2. CASE \E k \in 1..Len(buf) : cursor[c] < k /\ buf[k] = j
    <3>1. PICK k \in 1..Len(buf) : cursor[c] < k /\ buf[k] = j
      BY <2>2
    <3>2. CASE k = cursor[c] + 1
      BY <1>1, <1>3, <3>1, <3>2
    <3>3. CASE k # cursor[c] + 1
      <4>1. cursor[c] + 1 < k
        BY <1>1, <3>1, <3>3
      <4>2. j # NoId
        <5>1. j \in committed /\ committed \subseteq 1..(nextId - 1)
          BY DEF FeedInv, RowsInOrder, Owed
        <5>2. QED
          BY <5>1 DEF NoId, TypeOK
      <4>3. i < j
        BY <1>1, <1>2, <1>4, <3>1, <4>1, <4>2 DEF FeedInv, EventsInOrder
      <4>4. QED
        BY <1>3, <2>1, <4>3
    <3>4. QED
      BY <3>2, <3>3
  <2>3. ASSUME NEW p \in Producers, ingest[p].at = "recorded", ingest[p].id = j
        PROVE  i <= j
    <3>1. i < j
      BY <1>1, <1>2, <2>3 DEF FeedInv, EventsInOrder
    <3>2. QED
      BY <1>3, <2>1, <3>1
  <2>4. QED
    BY <2>1, <2>2, <2>3 DEF Ahead
<1>9. QED
  BY <1>5, <1>6, <1>7, <1>8 DEF Owed

\* Receiving the oldest row it is owed settles that row and no other.
LEMMA ReceiveOwes ==
    ASSUME TypeOK, NEW c \in Clients, NEW i \in Owed(c), \A j \in Owed(c) : i <= j,
           Receive(c, i), committed' = committed
    PROVE  /\ Owed(c)' = Owed(c) \ {i}
           /\ lastId'[c] = i
           /\ \A j \in Owed(c)' : i < j
<1> DEFINE old == got[c]
<1>1. /\ got'[c] = Append(old, i)
      /\ lastId'[c] = i
      /\ skipped' = skipped
  BY DEF Receive, TypeOK
<1>2. i \in Nat /\ \A j \in committed : j \in Nat
  BY DEF Owed, TypeOK
<1>3. old \in Seq(Nat)
  BY DEF TypeOK
<1>4. {Append(old, i)[k] : k \in 1..Len(Append(old, i))} = {old[k] : k \in 1..Len(old)} \cup {i}
  <2>1. /\ Len(Append(old, i)) = Len(old) + 1
        /\ Append(old, i)[Len(old) + 1] = i
        /\ \A k \in 1..Len(old) : Append(old, i)[k] = old[k]
        /\ Len(old) \in Nat
    BY <1>2, <1>3
  <2>2. \A k \in 1..Len(Append(old, i)) : k \in 1..Len(old) \/ k = Len(old) + 1
    BY <2>1
  <2>3. \A k \in 1..Len(old) : k \in 1..Len(Append(old, i))
    BY <2>1
  <2>4. Len(old) + 1 \in 1..Len(Append(old, i))
    BY <2>1
  <2> HIDE DEF old
  <2>5. QED
    BY <2>1, <2>2, <2>3, <2>4
<1>5. Delivered(c)' = Delivered(c) \cup {i}
  BY <1>1, <1>4 DEF Delivered
<1>6. Owed(c)' = Owed(c) \ {i}
  BY <1>1, <1>5 DEF Owed
<1>7. \A j \in Owed(c)' : i < j
  BY <1>2, <1>6 DEF Owed
<1>8. QED
  BY <1>1, <1>6, <1>7

\* A step of one client keeps the invariant when it keeps that client's part.
LEMMA OneClientKeepsFeed ==
    ASSUME TypeOK, OrderInv, FeedInv, NEW c \in Clients,
           UNCHANGED <<nextId, buf, committed, ingest>>,
           Resumable(c)' /\ Covered(c)',
           \A d \in Clients : d # c =>
              /\ conn'[d] = conn[d] /\ cursor'[d] = cursor[d] /\ rows'[d] = rows[d]
              /\ got'[d] = got[d] /\ lastId'[d] = lastId[d] /\ skipped'[d] = skipped[d]
    PROVE  FeedInv'
<1>1. RowsInOrder' /\ EventsInOrder'
  BY DEF FeedInv, RowsInOrder, EventsInOrder
<1>2. ASSUME NEW d \in Clients, d # c PROVE Resumable(d)' /\ Covered(d)'
  <2>1. Resumable(d) /\ Covered(d) /\ (conn[d] # "serving" => rows[d] = {})
    BY DEF FeedInv, OrderInv
  <2>2. QED
    BY <1>2, <2>1, OthersKeep
<1>3. QED
  BY <1>1, <1>2 DEF FeedInv

-----------------------------------------------------------------------------
\* Reconnecting only settles where the tail will start.
LEMMA ConnectKeepsFeed ==
    ASSUME TypeOK, OrderInv, FeedInv, NEW c \in Clients, Connect(c)
    PROVE  FeedInv'
<1>1. /\ UNCHANGED <<nextId, buf, committed, ingest, rows, got, lastId, skipped>>
      /\ conn'[c] = "captured"
      /\ cursor'[c] = Len(buf)
      /\ \A d \in Clients : d # c => conn'[d] = conn[d] /\ cursor'[d] = cursor[d]
  BY DEF Connect, serverVars, clientVars, TypeOK
<1>2. Owed(c)' = Owed(c)
  BY <1>1 DEF Owed, Delivered
<1>3. Len(buf) \in Nat
  BY DEF TypeOK
<1>4. Resumable(c)'
  BY <1>1, <1>2, <1>3 DEF FeedInv, Resumable
<1>5. Covered(c)'
  BY <1>1 DEF Covered
<1>6. QED
  BY <1>1, <1>4, <1>5, OneClientKeepsFeed

\* The query leaves out a prefix of the backlog and replays the rest.
LEMMA QueryKeepsFeed ==
    ASSUME TypeOK, OrderInv, FeedInv, NEW c \in Clients, Query(c)
    PROVE  FeedInv'
<1>1. /\ UNCHANGED <<nextId, buf, committed, ingest, cursor, got, lastId>>
      /\ conn[c] = "captured" /\ conn'[c] = "serving"
      /\ skipped[c] \subseteq skipped'[c]
      /\ \A d \in Clients : d # c =>
            conn'[d] = conn[d] /\ rows'[d] = rows[d] /\ skipped'[d] = skipped[d]
  BY DEF Query, serverVars, TypeOK
<1>2. lastId[c] = durable[c] /\ lastId[c] \in Nat
  BY <1>1 DEF OrderInv, ResumePointIsDurable, TypeOK
<1>3. /\ Owed(c)' = rows'[c]
      /\ rows'[c] \subseteq Owed(c)
      /\ \A s \in skipped'[c] \ skipped[c] :
            /\ s \in Owed(c)
            /\ s > durable[c]
            /\ Cardinality({j \in committed : j > s}) >= ReplayLimit
  BY QueryOwes
<1>4. Resumable(c)'
  <2>1. rows'[c] \subseteq committed' \ skipped'[c]
    BY <1>3 DEF Owed
  <2>2. skipped'[c] \subseteq committed'
    BY <1>1, <1>3 DEF FeedInv, Resumable, Owed
  <2>3. \A i \in Owed(c)' : lastId'[c] < i
    BY <1>1, <1>3 DEF FeedInv, Resumable
  <2>4. \A s \in skipped'[c] : Cardinality({j \in committed' : j > s}) >= ReplayLimit
    BY <1>1, <1>3 DEF FeedInv, Resumable
  <2>5. /\ lastId'[c] = 0 \/ lastId'[c] \in committed'
        /\ cursor'[c] <= Len(buf')
    BY <1>1 DEF FeedInv, Resumable
  <2>6. QED
    BY <2>1, <2>2, <2>3, <2>4, <2>5 DEF Resumable
<1>5. \A s \in skipped'[c] : s <= lastId'[c] \/ \E r \in rows'[c] : s < r
  <2> SUFFICES ASSUME NEW s \in skipped'[c], ~(s <= lastId[c])
               PROVE  \E r \in rows'[c] : s < r
    BY <1>1
  <2>1. s \in committed /\ s \in Nat
    BY <1>1, <1>4 DEF Resumable, TypeOK
  <2>2. s > durable[c]
    BY <1>2, <2>1
  <2>3. Cardinality({j \in committed : j > s}) >= ReplayLimit
    BY <1>1, <1>4 DEF Resumable
  <2>4. \E r \in Window({i \in committed : i > durable[c]}) : s < r
    BY <2>1, <2>2, <2>3, WindowIsNewer DEF FeedInv
  <2>5. rows'[c] = Window({i \in committed : i > durable[c]})
    BY DEF Query, TypeOK
  <2>6. QED
    BY <2>4, <2>5
<1>6. Covered(c)'
  BY <1>3, <1>5 DEF Covered
<1>7. QED
  BY <1>1, <1>4, <1>6, OneClientKeepsFeed

\* Writing the next row of the replay.
LEMMA ReplayKeepsFeed ==
    ASSUME TypeOK, OrderInv, FeedInv, NEW c \in Clients, ReplayRow(c)
    PROVE  FeedInv'
<1>1. PICK i \in rows[c] :
          /\ \A j \in rows[c] : i <= j
          /\ Receive(c, i)
          /\ rows' = [rows EXCEPT ![c] = @ \ {i}]
  BY DEF ReplayRow
<1>2. /\ UNCHANGED <<nextId, buf, committed, ingest, conn, cursor, skipped>>
      /\ conn[c] = "serving"
      /\ rows'[c] = rows[c] \ {i}
      /\ \A d \in Clients : d # c =>
            rows'[d] = rows[d] /\ got'[d] = got[d] /\ lastId'[d] = lastId[d]
  BY <1>1 DEF ReplayRow, Receive, serverVars, TypeOK
<1>3. i \in Owed(c) /\ \A j \in Owed(c) : i <= j
  BY <1>1, <1>2, ReplayIsNext
<1>4. /\ Owed(c)' = Owed(c) \ {i}
      /\ lastId'[c] = i
      /\ \A j \in Owed(c)' : i < j
  BY <1>1, <1>2, <1>3, ReceiveOwes
<1>5. i \in committed /\ i \in Nat /\ \A j \in committed : j \in Nat
  BY <1>3 DEF Owed, TypeOK
<1>6. Resumable(c)'
  BY <1>2, <1>4, <1>5 DEF FeedInv, Resumable
<1>7. Covered(c)'
  <2>1. \A j : Ahead(c, j)' = Ahead(c, j)
    BY <1>2 DEF Ahead
  <2>2. ASSUME NEW j \in Owed(c)' \ rows'[c]
        PROVE  Ahead(c, j)' /\ \A r \in rows'[c] : r < j
    <3>1. j \in Owed(c) \ rows[c]
      BY <1>2, <1>4
    <3>2. Ahead(c, j) /\ \A r \in rows[c] : r < j
      BY <1>2, <3>1 DEF FeedInv, Covered
    <3>3. QED
      BY <1>2, <2>1, <3>2
  <2>3. ASSUME NEW s \in skipped'[c]
        PROVE  s <= lastId'[c] \/ \E r \in rows'[c] : s < r
    <3>1. s \in skipped[c] /\ s \in Nat /\ lastId[c] \in Nat
      BY <1>2 DEF TypeOK
    <3>2. CASE s <= lastId[c]
      <4>1. lastId[c] < i
        BY <1>3 DEF FeedInv, Resumable
      <4>2. QED
        BY <1>4, <1>5, <3>1, <3>2, <4>1
    <3>3. CASE \E r \in rows[c] : s < r
      BY <1>2, <1>4, <1>5, <3>1, <3>3
    <3>4. QED
      BY <1>2, <3>1, <3>2, <3>3 DEF FeedInv, Covered
  <2>4. QED
    BY <2>2, <2>3 DEF Covered
<1>8. QED
  BY <1>2, <1>6, <1>7, OneClientKeepsFeed

\* Moving past an event that is owed to nobody any more.
LEMMA AdvanceCovers ==
    ASSUME TypeOK, NEW c \in Clients, AtEvent(c), Covered(c),
           UNCHANGED <<buf, ingest>>, cursor'[c] = cursor[c] + 1,
           NEW j \in Owed(c), j # NextEvent(c)
    PROVE  Ahead(c, j)'
<1>1. Ahead(c, j)
  BY DEF AtEvent, Covered
<1>2. cursor[c] \in Nat
  BY DEF TypeOK
<1>3. CASE \E k \in 1..Len(buf) : cursor[c] < k /\ buf[k] = j
  <2>1. PICK k \in 1..Len(buf) : cursor[c] < k /\ buf[k] = j
    BY <1>3
  <2>2. cursor[c] + 1 < k
    BY <1>2, <2>1 DEF NextEvent
  <2>3. k \in 1..Len(buf') /\ cursor'[c] < k /\ buf'[k] = j
    BY <2>1, <2>2
  <2>4. QED
    BY <2>3 DEF Ahead
<1>4. QED
  BY <1>1, <1>3 DEF Ahead

\* The tail skips what was replayed, and what is no row at all.
LEMMA TailPassKeepsFeed ==
    ASSUME TypeOK, OrderInv, FeedInv, NEW c \in Clients, TailSkip(c) \/ TailImpact(c)
    PROVE  FeedInv'
<1>1. /\ AtEvent(c)
      /\ NextEvent(c) <= durable[c]
      /\ Advance(c)
      /\ lastId' = lastId
      /\ UNCHANGED <<got, skipped>>
  <2>1. CASE TailSkip(c)
    BY <2>1 DEF TailSkip, clientVars
  <2>2. CASE TailImpact(c)
    BY <2>2 DEF TailImpact, AtEvent, NoId, OrderInv, ResumePointIsDurable, TypeOK
  <2>3. QED
    BY <2>1, <2>2
<1>2. /\ UNCHANGED <<nextId, buf, committed, ingest, conn, rows>>
      /\ conn[c] = "serving" /\ rows[c] = {}
      /\ cursor'[c] = cursor[c] + 1
      /\ cursor[c] \in Nat /\ Len(buf) \in Nat /\ cursor[c] < Len(buf)
      /\ \A d \in Clients : d # c => cursor'[d] = cursor[d]
  BY <1>1 DEF Advance, AtEvent, serverVars, TypeOK
<1>3. lastId[c] = durable[c] /\ lastId[c] \in Nat
  BY <1>2 DEF OrderInv, ResumePointIsDurable, TypeOK
<1>4. Owed(c)' = Owed(c)
  BY <1>1, <1>2 DEF Owed, Delivered
<1>5. \A j \in Owed(c) : j # NextEvent(c)
  <2> SUFFICES ASSUME NEW j \in Owed(c), j = NextEvent(c) PROVE FALSE
    OBVIOUS
  <2>1. lastId[c] < j /\ j <= lastId[c]
    BY <1>1, <1>3 DEF FeedInv, Resumable
  <2>2. j \in Nat
    BY DEF Owed, TypeOK
  <2>3. QED
    BY <1>3, <2>1, <2>2
<1>6. Resumable(c)'
  BY <1>1, <1>2, <1>4 DEF FeedInv, Resumable
<1>7. \A j \in Owed(c) : Ahead(c, j)'
  BY <1>1, <1>2, <1>5, AdvanceCovers DEF FeedInv
<1>8. Covered(c)'
  BY <1>1, <1>2, <1>4, <1>7 DEF FeedInv, Covered
<1>9. QED
  BY <1>1, <1>2, <1>6, <1>8, OneClientKeepsFeed

\* The tail hands over the next row.
LEMMA TailActivityKeepsFeed ==
    ASSUME TypeOK, OrderInv, FeedInv, NEW c \in Clients, TailActivity(c)
    PROVE  FeedInv'
<1>1. PICK i : i = NextEvent(c)
  OBVIOUS
<1>2. /\ AtEvent(c)
      /\ i > durable[c]
      /\ Receive(c, i)
      /\ Advance(c)
  BY <1>1 DEF TailActivity
<1>3. /\ UNCHANGED <<nextId, buf, committed, ingest, conn, rows, skipped>>
      /\ conn[c] = "serving" /\ rows[c] = {}
      /\ cursor'[c] = cursor[c] + 1
      /\ cursor[c] \in Nat /\ Len(buf) \in Nat /\ cursor[c] < Len(buf)
      /\ \A d \in Clients : d # c =>
            cursor'[d] = cursor[d] /\ got'[d] = got[d] /\ lastId'[d] = lastId[d]
  BY <1>2 DEF Advance, AtEvent, Receive, serverVars, TypeOK
<1>4. i \in Owed(c) /\ \A j \in Owed(c) : i <= j
  BY <1>1, <1>2, EventIsNext
<1>5. /\ Owed(c)' = Owed(c) \ {i}
      /\ lastId'[c] = i
      /\ \A j \in Owed(c)' : i < j
  BY <1>2, <1>3, <1>4, ReceiveOwes
<1>6. i \in committed /\ i \in Nat
  BY <1>4 DEF Owed, TypeOK
<1>7. Resumable(c)'
  <2>1. /\ lastId'[c] \in committed'
        /\ rows'[c] \subseteq committed' \ skipped'[c]
        /\ skipped'[c] \subseteq committed'
        /\ cursor'[c] <= Len(buf')
    BY <1>3, <1>5, <1>6 DEF FeedInv, Resumable
  <2>2. \A s \in skipped'[c] : Cardinality({j \in committed' : j > s}) >= ReplayLimit
    BY <1>3 DEF FeedInv, Resumable
  <2>3. QED
    BY <1>5, <2>1, <2>2 DEF Resumable
<1>8. \A j \in Owed(c)' : Ahead(c, j)'
  BY <1>1, <1>2, <1>3, <1>5, AdvanceCovers DEF FeedInv
<1>9. \A s \in skipped'[c] : s <= lastId'[c]
  <2> SUFFICES ASSUME NEW s \in skipped[c] PROVE s <= i
    BY <1>3, <1>5
  <2>1. s <= lastId[c] /\ lastId[c] < i
    BY <1>3, <1>4 DEF FeedInv, Covered, Resumable
  <2>2. s \in Nat /\ lastId[c] \in Nat
    BY DEF TypeOK
  <2>3. QED
    BY <1>6, <2>1, <2>2
<1>10. Covered(c)'
  BY <1>3, <1>8, <1>9 DEF Covered
<1>11. QED
  BY <1>3, <1>7, <1>10, OneClientKeepsFeed

\* A lost connection, and a dead server, leave what is owed to the next
\* connection.
LEMMA LossKeepsFeed ==
    ASSUME TypeOK, OrderInv, FeedInv, (\E c \in Clients : Drop(c)) \/ Restart
    PROVE  FeedInv'
<1>1. UNCHANGED <<nextId, committed, lastId, got, skipped>>
  BY DEF Drop, Restart, serverVars, clientVars
<1>2. ASSUME NEW c \in Clients, Drop(c) PROVE FeedInv'
  <2>1. /\ UNCHANGED <<buf, ingest, cursor>>
        /\ conn'[c] = "off" /\ rows'[c] = {}
        /\ \A d \in Clients : d # c => conn'[d] = conn[d] /\ rows'[d] = rows[d]
    BY <1>2 DEF Drop, serverVars, TypeOK
  <2>2. Resumable(c) /\ Covered(c) /\ (conn[c] # "serving" => rows[c] = {})
    BY DEF FeedInv, OrderInv
  <2>3. Resumable(c)' /\ Covered(c)'
    BY <1>1, <2>1, <2>2, OthersKeep
  <2>4. QED
    BY <1>1, <2>1, <2>3, OneClientKeepsFeed
<1>3. CASE Restart
  <2>1. /\ \A p \in Producers : ingest'[p].at = "idle"
        /\ buf' = <<>>
        /\ \A c \in Clients : conn'[c] = "off" /\ rows'[c] = {}
    BY <1>3 DEF Restart, Idle
  <2>2. RowsInOrder' /\ EventsInOrder'
    BY <1>1, <2>1 DEF FeedInv, RowsInOrder, EventsInOrder
  <2>3. ASSUME NEW c \in Clients PROVE Resumable(c)' /\ Covered(c)'
    <3>1. Owed(c)' = Owed(c)
      BY <1>1 DEF Owed, Delivered
    <3>2. Resumable(c)'
      BY <1>1, <2>1, <3>1 DEF FeedInv, Resumable
    <3>3. QED
      BY <2>1, <3>2 DEF Covered
  <2>4. QED
    BY <2>2, <2>3 DEF FeedInv
<1>4. QED
  BY <1>2, <1>3

\* FeedInv holds for as long as the deque has dropped nothing.
LEMMA FeedInvariant ==
    ASSUME InTurn
    PROVE  Spec /\ []~evicted => []FeedInv
<1>1. Init => FeedInv
  <2> SUFFICES ASSUME Init PROVE FeedInv
    OBVIOUS
  <2>1. \A p \in Producers : ingest[p].at = "idle"
    BY DEF Init, Idle
  <2>2. RowsInOrder
    BY <2>1, ActivityAssumption DEF Init, RowsInOrder
  <2>3. EventsInOrder
    BY <2>1 DEF Init, EventsInOrder
  <2>4. \A c \in Clients : Resumable(c) /\ Covered(c)
    BY DEF Init, Resumable, Covered, Owed
  <2>5. QED
    BY <2>2, <2>3, <2>4 DEF FeedInv
<1>2. TypeOK /\ OrderInv /\ FeedInv /\ ~evicted' /\ [Next]_vars => FeedInv'
  <2> SUFFICES ASSUME TypeOK, OrderInv, FeedInv, ~evicted', [Next]_vars
               PROVE  FeedInv'
    OBVIOUS
  <2>1. CASE UNCHANGED vars
    <3>1. UNCHANGED <<nextId, committed, ingest, buf, conn, cursor, rows, lastId, got, skipped>>
      BY <2>1 DEF vars, serverVars, handlerVars, clientVars
    <3>2. RowsInOrder' /\ EventsInOrder'
      BY <3>1 DEF FeedInv, RowsInOrder, EventsInOrder
    <3>3. \A c \in Clients : Resumable(c)' /\ Covered(c)'
      BY <3>1, BystandersKeep DEF FeedInv
    <3>4. QED
      BY <3>2, <3>3 DEF FeedInv
  <2>2. ASSUME NEW p \in Producers, Ingest(p) PROVE FeedInv'
    BY <2>2, IngestKeepsFeed
  <2>3. CASE Impact
    BY <2>3, ImpactKeepsFeed
  <2>4. ASSUME NEW c \in Clients, Connect(c) PROVE FeedInv'
    BY <2>4, ConnectKeepsFeed
  <2>5. ASSUME NEW c \in Clients, Serve(c) PROVE FeedInv'
    BY <2>5, QueryKeepsFeed, ReplayKeepsFeed, TailPassKeepsFeed, TailActivityKeepsFeed
       DEF Serve
  <2>6. ASSUME NEW c \in Clients, Drop(c) PROVE FeedInv'
    BY <2>6, LossKeepsFeed
  <2>7. CASE Restart
    BY <2>7, LossKeepsFeed
  <2>8. QED
    BY <2>1, <2>2, <2>3, <2>4, <2>5, <2>6, <2>7 DEF Next
<1>3. QED
  BY <1>1, <1>2, TypeCorrect, OrderInvariant, PTL DEF Spec

-----------------------------------------------------------------------------
\* Every step of the spine is a step of the feed, or none.
LEMMA FeedStep ==
    ASSUME InTurn, TypeOK, OrderInv, FeedInv, [Next]_vars
    PROVE  [Feed!FeedNext]_(Feed!feedVars)
<1> USE DEF Feed!feedVars
<1>1. \A c \in Clients : Feed!Pending(c) = Owed(c)
  BY DEF Feed!Pending, Feed!Delivered, Owed, Delivered
<1>2. \A i \in committed : i \in Ids
  <2>1. committed \subseteq 1..(nextId - 1) /\ nextId <= MaxIds + 1
    BY DEF FeedInv, RowsInOrder
  <2>2. nextId \in Nat /\ MaxIds \in Nat
    BY ActivityAssumption DEF TypeOK
  <2>3. QED
    BY <2>1, <2>2 DEF Ids
<1>3. ASSUME NEW c \in Clients, NEW i \in Owed(c), \A j \in Owed(c) : i <= j,
             Receive(c, i), committed' = committed
      PROVE  Feed!FeedNext
  <2>1. Feed!Hand(c, i)
    BY <1>1, <1>3 DEF Feed!Hand, Receive
  <2>2. i \in Feed!Ids
    BY <1>2 DEF Owed, Ids, Feed!Ids
  <2>3. QED
    BY <2>1, <2>2 DEF Feed!FeedNext
<1>4. CASE UNCHANGED <<committed, got, skipped>>
  BY <1>4
<1>5. ASSUME NEW p \in Producers, Ingest(p)
      PROVE  [Feed!FeedNext]_(Feed!feedVars)
  <2>1. CASE Commit(p)
    <3>1. PICK i : i = ingest[p].id
      OBVIOUS
    <3>2. /\ i = nextId - 1 /\ i \in Ids /\ i \notin committed
          /\ committed \subseteq 1..(nextId - 1)
      BY <2>1, <3>1 DEF Commit, FeedInv, RowsInOrder
    <3>3. nextId \in Nat
      BY DEF TypeOK
    <3>4. \A j \in committed : j < i
      BY <3>2, <3>3
    <3>5. Feed!AppendRow(i)
      BY <2>1, <3>1, <3>4 DEF Commit, clientVars, Feed!AppendRow
    <3>6. i \in Feed!Ids
      BY <3>2 DEF Ids, Feed!Ids
    <3>7. QED
      BY <3>5, <3>6 DEF Feed!FeedNext
  <2>2. CASE ~Commit(p)
    BY <1>4, <1>5, <2>2 DEF Ingest, Insert, RecordFails, Emit, EmitFails, clientVars
  <2>3. QED
    BY <2>1, <2>2
<1>6. ASSUME NEW c \in Clients, Query(c)
      PROVE  [Feed!FeedNext]_(Feed!feedVars)
  <2> DEFINE left == skipped'[c] \ skipped[c]
  <2>1. /\ Owed(c)' = rows'[c]
        /\ \A s \in left :
              /\ s \in Owed(c)
              /\ s > durable[c]
              /\ Cardinality({j \in committed : j > s}) >= ReplayLimit
        /\ \A w \in rows'[c] :
              /\ w > durable[c]
              /\ Cardinality({j \in committed : j > w}) < ReplayLimit
    BY <1>6, QueryOwes
  <2>2. /\ UNCHANGED <<committed, got>>
        /\ skipped[c] \subseteq skipped'[c]
        /\ skipped' = [skipped EXCEPT ![c] = skipped'[c]]
    BY <1>6 DEF Query, serverVars, TypeOK
  <2>3. skipped' = [skipped EXCEPT ![c] = @ \cup left]
    BY <2>2
  <2>4. \A j \in Owed(c) \ left : j \in rows'[c]
    BY <2>1, <2>2 DEF Owed, Delivered
  <2>5. \A s \in left, j \in Owed(c) \ left : s < j
    <3> SUFFICES ASSUME NEW s \in left, NEW j \in Owed(c) \ left PROVE s < j
      OBVIOUS
    <3>1. s \in committed /\ j \in committed
      BY <2>1 DEF Owed
    <3>2. QED
      BY <2>1, <2>4, <3>1, WindowIsNewest DEF FeedInv
  <2>6. left \in SUBSET Owed(c)
    BY <2>1
  <2> HIDE DEF left
  <2>7. Feed!GiveUp(c, left)
    BY <1>1, <2>2, <2>3, <2>5 DEF Feed!GiveUp
  <2>8. QED
    BY <1>1, <2>6, <2>7 DEF Feed!FeedNext
<1>7. ASSUME NEW c \in Clients, ReplayRow(c)
      PROVE  [Feed!FeedNext]_(Feed!feedVars)
  <2>1. PICK i \in rows[c] : (\A j \in rows[c] : i <= j) /\ Receive(c, i)
    BY <1>7 DEF ReplayRow
  <2>2. conn[c] = "serving" /\ committed' = committed
    BY <1>7 DEF ReplayRow, serverVars
  <2>3. i \in Owed(c) /\ \A j \in Owed(c) : i <= j
    BY <2>1, <2>2, ReplayIsNext
  <2>4. QED
    BY <1>3, <2>1, <2>2, <2>3
<1>8. ASSUME NEW c \in Clients, TailActivity(c)
      PROVE  [Feed!FeedNext]_(Feed!feedVars)
  <2>1. PICK i : i = NextEvent(c)
    OBVIOUS
  <2>2. AtEvent(c) /\ i > durable[c] /\ Receive(c, i) /\ committed' = committed
    BY <1>8, <2>1 DEF TailActivity, Advance, serverVars
  <2>3. i \in Owed(c) /\ \A j \in Owed(c) : i <= j
    BY <2>1, <2>2, EventIsNext
  <2>4. QED
    BY <1>3, <2>2, <2>3
<1>9. CASE Impact
  BY <1>4, <1>9 DEF Impact, ImpactStart, ImpactEmit, ImpactNothing, clientVars
<1>10. ASSUME NEW c \in Clients, Connect(c) \/ TailSkip(c) \/ TailImpact(c) \/ Drop(c)
       PROVE  [Feed!FeedNext]_(Feed!feedVars)
  BY <1>4, <1>10 DEF Connect, TailSkip, TailImpact, Drop, Advance, serverVars, clientVars
<1>11. CASE Restart
  BY <1>4, <1>11 DEF Restart, clientVars
<1>12. CASE UNCHANGED vars
  BY <1>4, <1>12 DEF vars, serverVars, clientVars
<1>13. QED
  BY <1>5, <1>6, <1>7, <1>8, <1>9, <1>10, <1>11, <1>12 DEF Next, Serve

\* The spine implements the abstract feed while POSTs come one at a time, no
\* fragment raises and the deque has dropped nothing: the log grows at its
\* end, and every browser is handed the next row of the log or loses a prefix
\* of its backlog, through any number of reconnects and restarts (_tail_live,
\* _replay_log).  With two POSTs at once this fails (NothingOvertaken).
THEOREM SpineIsTheFeed ==
    ASSUME InTurn
    PROVE  Spec /\ []~evicted => FeedSafety
<1>1. Init => Feed!FeedInit
  BY DEF Init, Feed!FeedInit
<1>2. TypeOK /\ OrderInv /\ FeedInv /\ [Next]_vars => [Feed!FeedNext]_(Feed!feedVars)
  BY FeedStep
<1>3. QED
  BY <1>1, <1>2, TypeCorrect, OrderInvariant, FeedInvariant, PTL
     DEF Spec, FeedSafety, Feed!FeedSpec

\* Under the same conditions no browser is moved past a row it was not given:
\* what NothingOvertaken loses with two POSTs at once is kept by one at a time,
\* so the order of commit and emit across threads is all that breaks it.
THEOREM NoRowIsOvertakenInTurn ==
    ASSUME InTurn
    PROVE  Spec /\ []~evicted => []NothingOvertaken
<1>1. TypeOK /\ FeedInv => NothingOvertaken
  <2> SUFFICES ASSUME TypeOK, FeedInv, NEW c \in Clients, NEW i \in committed,
                      i <= lastId[c], i \notin Delivered(c) \cup skipped[c]
               PROVE  FALSE
    BY DEF NothingOvertaken
  <2>1. lastId[c] < i
    BY DEF FeedInv, Resumable, Owed
  <2>2. i \in Nat /\ lastId[c] \in Nat
    BY DEF TypeOK
  <2>3. QED
    BY <2>1, <2>2
<1>2. QED
  BY <1>1, TypeCorrect, FeedInvariant, PTL
=============================================================================
