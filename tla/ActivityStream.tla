--------------------------- MODULE ActivityStream ---------------------------
(***************************************************************************)
(* The live session-activity spine of the standalone server.               *)
(*                                                                         *)
(* POST /api/activity runs on one thread per request                       *)
(* (ThreadingHTTPServer): it appends a row to the PostgreSQL table         *)
(* session_activity (the id comes from a sequence when the row is          *)
(* inserted; readers see the row when the transaction commits), then       *)
(* appends an event to an in-process deque and may start a blast-radius    *)
(* pass, which appends an event of its own.  GET /api/activity/stream runs *)
(* on one thread per browser: it notes the deque's length, replays the     *)
(* table, then tails the deque.                                            *)
(*                                                                         *)
(* A client is one EventSource.  It reconnects by itself and sends the id  *)
(* of the last frame it received.  A frame the kernel accepted and the     *)
(* network lost is a frame the client never saw: for the client it is the  *)
(* same as a connection dropped just before that frame, so delivery is one *)
(* step and Drop may come before it.                                       *)
(***************************************************************************)
EXTENDS Naturals, Sequences, FiniteSets

CONSTANTS
    Producers,      \* the ingest threads that may run at the same time
    Clients,        \* the EventSource objects
    MaxIds,         \* bound on the rows ever inserted
    MaxEvents,      \* deque(maxlen=max_events)
    ReplayLimit,    \* read_recent(limit=...)
    MaxDrops,       \* bound on lost connections
    MaxRestarts,    \* bound on server restarts
    EmitMayFail     \* may building the fragment of a stored row raise?

ASSUME ActivityAssumption ==
    /\ MaxIds \in Nat
    /\ MaxEvents \in Nat \ {0}
    /\ ReplayLimit \in Nat \ {0}
    /\ MaxDrops \in Nat
    /\ MaxRestarts \in Nat
    /\ EmitMayFail \in BOOLEAN

VARIABLES
    nextId,     \* session_activity_id_seq
    committed,  \* ids of the rows a query can see
    ingest,     \* [Producers -> where the POST handler stands, and its row id]
    buf,        \* the deque: activity ids, NoId for a blast-radius event
    evicted,    \* history: the deque has dropped an event
    passes,     \* blast-radius threads started and not yet past the lock
    impactBusy, \* _impact_lock is held
    conn,       \* [Clients -> where the stream handler stands]
    cursor,     \* buffer_cursor of the handler
    durable,    \* durable_since of the handler
    rows,       \* rows of the replay query not written yet
    lastId,     \* the browser's Last-Event-ID
    got,        \* history: the activity ids the browser received, in order
    skipped,    \* history: ids a replay window left out
    drops,
    restarts

serverVars == <<nextId, committed, ingest, buf, evicted, passes, impactBusy>>
handlerVars == <<conn, cursor, durable, rows>>
clientVars == <<lastId, got, skipped>>
boundVars == <<drops, restarts>>
vars == <<serverVars, handlerVars, clientVars, boundVars>>

NoId == 0
Ids == 1..MaxIds
Idle == [at |-> "idle", id |-> NoId]

Delivered(c) == {got[c][k] : k \in 1..Len(got[c])}

Init ==
    /\ nextId = 1
    /\ committed = {}
    /\ ingest = [p \in Producers |-> Idle]
    /\ buf = <<>>
    /\ evicted = FALSE
    /\ passes = 0
    /\ impactBusy = FALSE
    /\ conn = [c \in Clients |-> "off"]
    /\ cursor = [c \in Clients |-> 0]
    /\ durable = [c \in Clients |-> 0]
    /\ rows = [c \in Clients |-> {}]
    /\ lastId = [c \in Clients |-> 0]
    /\ got = [c \in Clients |-> <<>>]
    /\ skipped = [c \in Clients |-> {}]
    /\ drops = 0
    /\ restarts = 0

-----------------------------------------------------------------------------
(* The deque.  A full deque drops its first element to take a new one; the *)
(* positions of the others move down by one.                               *)

\* Seeded fault: the deque is made without its maxlen.
PushUnbounded(ev) ==
    /\ buf' = Append(buf, ev)
    /\ UNCHANGED evicted

Push(ev) ==
    /\ buf' = IF Len(buf) = MaxEvents THEN Append(Tail(buf), ev)
                                      ELSE Append(buf, ev)
    /\ evicted' = (evicted \/ Len(buf) = MaxEvents)

-----------------------------------------------------------------------------
(* POST /api/activity                                                      *)

\* INSERT ... RETURNING id: the sequence gives the id out, whatever happens
\* to the transaction.
Insert(p) ==
    /\ ingest[p].at = "idle"
    /\ nextId <= MaxIds
    /\ ingest' = [ingest EXCEPT ![p] = [at |-> "inserted", id |-> nextId]]
    /\ nextId' = nextId + 1
    /\ UNCHANGED <<committed, buf, evicted, passes, impactBusy>>
    /\ UNCHANGED <<handlerVars, clientVars, boundVars>>

\* The transaction fails: the handler answers {"ok": false}.
RecordFails(p) ==
    /\ ingest[p].at = "inserted"
    /\ ingest' = [ingest EXCEPT ![p] = Idle]
    /\ UNCHANGED <<nextId, committed, buf, evicted, passes, impactBusy>>
    /\ UNCHANGED <<handlerVars, clientVars, boundVars>>

\* conn.commit(): record_activity returns the id.
Commit(p) ==
    /\ ingest[p].at = "inserted"
    /\ ingest' = [ingest EXCEPT ![p].at = "recorded"]
    /\ committed' = committed \cup {ingest[p].id}
    /\ UNCHANGED <<nextId, buf, evicted, passes, impactBusy>>
    /\ UNCHANGED <<handlerVars, clientVars, boundVars>>

\* emit() and, for the edit of a file, the start of a blast-radius thread.
Emit(p) ==
    /\ ingest[p].at = "recorded"
    /\ Push(ingest[p].id)
    /\ \E edit \in BOOLEAN : passes' = IF edit THEN passes + 1 ELSE passes
    /\ ingest' = [ingest EXCEPT ![p] = Idle]
    /\ UNCHANGED <<nextId, committed, impactBusy>>
    /\ UNCHANGED <<handlerVars, clientVars, boundVars>>

\* event_to_graph raises on a row already stored: {"ok": false}, no event.
EmitFails(p) ==
    /\ EmitMayFail
    /\ ingest[p].at = "recorded"
    /\ ingest' = [ingest EXCEPT ![p] = Idle]
    /\ UNCHANGED <<nextId, committed, buf, evicted, passes, impactBusy>>
    /\ UNCHANGED <<handlerVars, clientVars, boundVars>>

-----------------------------------------------------------------------------
(* The blast-radius pass: _impact_lock is tried without blocking.          *)

ImpactStart ==
    /\ passes > 0
    /\ passes' = passes - 1
    /\ impactBusy' = TRUE   \* taken by this thread, or already held: dropped
    /\ UNCHANGED <<nextId, committed, ingest, buf, evicted>>
    /\ UNCHANGED <<handlerVars, clientVars, boundVars>>

\* The pass finds something and emits it without an activity id.
ImpactEmit ==
    /\ impactBusy
    /\ Push(NoId)
    /\ impactBusy' = FALSE
    /\ UNCHANGED <<nextId, committed, ingest, passes>>
    /\ UNCHANGED <<handlerVars, clientVars, boundVars>>

\* Nothing affected, or the lookup raised: only the lock is released.
ImpactNothing ==
    /\ impactBusy
    /\ impactBusy' = FALSE
    /\ UNCHANGED <<nextId, committed, ingest, buf, evicted, passes>>
    /\ UNCHANGED <<handlerVars, clientVars, boundVars>>

-----------------------------------------------------------------------------
(* GET /api/activity/stream                                                *)

\* Seeded fault: the handler goes on from the position of the last connection.
ConnectKeepsCursor(c) ==
    /\ conn[c] = "off"
    /\ conn' = [conn EXCEPT ![c] = "captured"]
    /\ durable' = [durable EXCEPT ![c] = lastId[c]]
    /\ UNCHANGED <<cursor, rows, serverVars, clientVars, boundVars>>

\* The EventSource (re)connects with the last id it received (?since=0 never
\* exceeds it); the handler notes the deque's length before it replays.
Connect(c) ==
    /\ conn[c] = "off"
    /\ conn' = [conn EXCEPT ![c] = "captured"]
    /\ cursor' = [cursor EXCEPT ![c] = Len(buf)]
    /\ durable' = [durable EXCEPT ![c] = lastId[c]]
    /\ UNCHANGED <<rows, serverVars, clientVars, boundVars>>

\* Seeded fault: the window keeps the oldest rows (ORDER BY id LIMIT n).
OldestWindow(S) ==
    {i \in S : Cardinality({j \in S : j < i}) < ReplayLimit}

\* The newest ReplayLimit members of S.
Window(S) ==
    {i \in S : Cardinality({j \in S : j > i}) < ReplayLimit}

\* read_recent: one snapshot of the table, the newest rows above the cursor.
Query(c) ==
    /\ conn[c] = "captured"
    /\ LET above == {i \in committed : i > durable[c]}
       IN  /\ rows' = [rows EXCEPT ![c] = Window(above)]
           /\ skipped' = [skipped EXCEPT ![c] = @ \cup (above \ Window(above))]
    /\ conn' = [conn EXCEPT ![c] = "serving"]
    /\ UNCHANGED <<cursor, durable, lastId, got, serverVars, boundVars>>

\* The client receives activity i under the frame id i.
Receive(c, i) ==
    /\ got' = [got EXCEPT ![c] = Append(@, i)]
    /\ lastId' = [lastId EXCEPT ![c] = i]
    /\ UNCHANGED skipped

\* _replay_log writes the next row, in id order.
ReplayRow(c) ==
    /\ conn[c] = "serving"
    /\ \E i \in rows[c] :
          /\ \A j \in rows[c] : i <= j
          /\ Receive(c, i)
          /\ durable' = [durable EXCEPT ![c] = i]
          /\ rows' = [rows EXCEPT ![c] = @ \ {i}]
    /\ UNCHANGED <<conn, cursor, serverVars, boundVars>>

\* _tail_live, once the replay is written, has an event at its position.
AtEvent(c) ==
    /\ conn[c] = "serving"
    /\ rows[c] = {}
    /\ cursor[c] < Len(buf)

NextEvent(c) == buf[cursor[c] + 1]

Advance(c) ==
    /\ cursor' = [cursor EXCEPT ![c] = @ + 1]
    /\ UNCHANGED <<conn, rows, serverVars, boundVars>>

\* The row of this event was replayed: only the position moves.
TailSkip(c) ==
    /\ AtEvent(c)
    /\ NextEvent(c) # NoId
    /\ NextEvent(c) <= durable[c]
    /\ Advance(c)
    /\ UNCHANGED <<durable, clientVars>>

\* Seeded fault: no comparison with the durable cursor.
TailActivityUnchecked(c) ==
    /\ AtEvent(c)
    /\ NextEvent(c) # NoId
    /\ Receive(c, NextEvent(c))
    /\ durable' = [durable EXCEPT ![c] = NextEvent(c)]
    /\ Advance(c)

TailActivity(c) ==
    /\ AtEvent(c)
    /\ NextEvent(c) > durable[c]
    /\ Receive(c, NextEvent(c))
    /\ durable' = [durable EXCEPT ![c] = NextEvent(c)]
    /\ Advance(c)

\* Seeded fault: the deque's position is the frame id.
TailImpactByPosition(c) ==
    /\ AtEvent(c)
    /\ NextEvent(c) = NoId
    /\ lastId' = [lastId EXCEPT ![c] = cursor[c] + 1]
    /\ Advance(c)
    /\ UNCHANGED <<durable, got, skipped>>

\* A blast-radius event has no row: it goes out under the durable cursor, so
\* that a reconnect resumes from a row.
TailImpact(c) ==
    /\ AtEvent(c)
    /\ NextEvent(c) = NoId
    /\ lastId' = [lastId EXCEPT ![c] = durable[c]]
    /\ Advance(c)
    /\ UNCHANGED <<durable, got, skipped>>

\* A write fails, or the browser closes the connection.
Drop(c) ==
    /\ conn[c] # "off"
    /\ drops < MaxDrops
    /\ drops' = drops + 1
    /\ conn' = [conn EXCEPT ![c] = "off"]
    /\ rows' = [rows EXCEPT ![c] = {}]
    /\ UNCHANGED <<cursor, durable, restarts, serverVars, clientVars>>

\* The server process dies and a new one is started: the table survives,
\* uncommitted rows, the deque and every thread do not.
Restart ==
    /\ restarts < MaxRestarts
    /\ restarts' = restarts + 1
    /\ ingest' = [p \in Producers |-> Idle]
    /\ buf' = <<>>
    /\ passes' = 0
    /\ impactBusy' = FALSE
    /\ conn' = [c \in Clients |-> "off"]
    /\ rows' = [c \in Clients |-> {}]
    /\ UNCHANGED <<nextId, committed, evicted, cursor, durable, clientVars, drops>>

-----------------------------------------------------------------------------
Ingest(p) ==
    \/ Insert(p)
    \/ RecordFails(p)
    \/ Commit(p)
    \/ Emit(p)
    \/ EmitFails(p)

Impact == ImpactStart \/ ImpactEmit \/ ImpactNothing

Serve(c) ==
    \/ Query(c)
    \/ ReplayRow(c)
    \/ TailSkip(c)
    \/ TailActivity(c)
    \/ TailImpact(c)

Next ==
    \/ \E p \in Producers : Ingest(p)
    \/ Impact
    \/ \E c \in Clients : Connect(c) \/ Serve(c) \/ Drop(c)
    \/ Restart

Spec == Init /\ [][Next]_vars

\* A started POST runs on, the handler threads run, and an EventSource that
\* lost its connection retries.  No fairness for new POSTs, for blast-radius
\* passes, for drops or for restarts.
Fairness ==
    /\ \A p \in Producers : WF_vars(RecordFails(p) \/ Commit(p) \/ Emit(p) \/ EmitFails(p))
    /\ \A c \in Clients : WF_vars(Connect(c)) /\ WF_vars(Serve(c))

FairSpec == Spec /\ Fairness

-----------------------------------------------------------------------------
(* Properties                                                              *)

\* Every variable has its type: in particular the deque never holds more than
\* max_events, and no handler's position lies beyond that.
TypeOK ==
    /\ nextId \in Nat \ {0}
    /\ committed \subseteq Nat
    /\ ingest \in [Producers -> [at : {"idle", "inserted", "recorded"}, id : Nat]]
    /\ buf \in Seq(Nat) /\ Len(buf) <= MaxEvents
    /\ evicted \in BOOLEAN
    /\ passes \in Nat
    /\ impactBusy \in BOOLEAN
    /\ conn \in [Clients -> {"off", "captured", "serving"}]
    /\ cursor \in [Clients -> 0..MaxEvents]
    /\ durable \in [Clients -> Nat]
    /\ rows \in [Clients -> SUBSET Nat]
    /\ lastId \in [Clients -> Nat]
    /\ got \in [Clients -> Seq(Nat)]
    /\ skipped \in [Clients -> SUBSET Nat]
    /\ drops \in Nat
    /\ restarts \in Nat

\* No browser receives an activity twice or out of order, whatever the
\* threads, reconnects and restarts do: replay and tail overlap on purpose,
\* and the durable id is what keeps the overlap off the wire (_tail_live).
DeliveredOnceInOrder ==
    \A c \in Clients :
        \A j, k \in 1..Len(got[c]) : j < k => got[c][j] < got[c][k]

\* The id a browser would resume from is the handler's durable cursor, also
\* after blast-radius events, which have no id of their own: the deque's
\* positions never reach the wire.
ResumePointIsDurable ==
    \A c \in Clients : conn[c] # "off" => lastId[c] = durable[c]

\* A row below a browser's resume point will never be asked for again, so it
\* must have been delivered or left out by a replay window: "an ingest
\* concurrent with replay is either replayed from PostgreSQL or retained in
\* the buffer" (_tail_live).  Once the deque has evicted, nothing is promised.
NothingOvertaken ==
    ~evicted =>
        \A c \in Clients : \A i \in committed :
            i <= lastId[c] => i \in Delivered(c) \cup skipped[c]

\* Every stored row reaches every browser in the end, through the tail or
\* through the replay of a reconnect, unless a replay window left it out.
EveryRowArrives ==
    \A c \in Clients : \A i \in Ids :
        (i \in committed) ~> (i \in Delivered(c) \cup skipped[c])

\* The spine is the abstract feed: the log grows at its end, and each browser
\* is handed the next row of the log or loses a prefix of its backlog.
Feed == INSTANCE ActivityFeed WITH
    Clients <- Clients, MaxIds <- MaxIds,
    committed <- committed, got <- got, skipped <- skipped
FeedSafety == Feed!FeedSpec
=============================================================================
