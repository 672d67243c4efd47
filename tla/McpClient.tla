------------------------------ MODULE McpClient ------------------------------
(***************************************************************************)
(* The path of a question to the code-intelligence process: threads that   *)
(* ask through _SyncLoop.run, the APBridge they share, and the MCPClients  *)
(* the bridge builds one after the other, each with a child process, a     *)
(* reader task and an idle watch.                                          *)
(*                                                                         *)
(* Everything but the child runs on one asyncio loop: a step is what runs  *)
(* between two awaits.  A JSON-RPC answer is matched to its request by id  *)
(* alone, so a request carries here what it really asks (ask, step) and an *)
(* answer says what it answers.                                            *)
(***************************************************************************)
EXTENDS Naturals, FiniteSets

CONSTANTS
    Callers,    \* threads that use one bridge
    NoCaller,   \* the bridge's lock is free
    MaxAsks,    \* bound on the questions asked
    MaxClients, \* bound on the clients built
    MaxFaults   \* bound on crashes of a child and failures of a stream

ASSUME McpAssumption ==
    /\ NoCaller \notin Callers
    /\ MaxAsks \in Nat
    /\ MaxClients \in Nat
    /\ MaxFaults \in Nat

VARIABLES
    asked,      \* questions asked so far
    lock,       \* who holds APBridge._lock
    current,    \* APBridge._client, 0 for None
    bridgeUp,   \* APBridge._connected
    born,       \* MCPClients built so far
    at,         \* [Callers -> where the coroutine of the caller stands]
    ask,        \* [Callers -> its last question]
    on,         \* [Callers -> the client it works with]
    req,        \* [Callers -> its last JSON-RPC request]
    fut,        \* [Callers -> the future of that request]
    got,        \* [Callers -> what the answer in that future answers]
    connected,  \* [Clients -> MCPClient._connected]
    handle,     \* [Clients -> is MCPClient._proc set?]
    child,      \* [Clients -> the child process: "exiting" was told to exit by a
                \*  task that waits and kills, "deserted" by one that does not]
    reader,     \* [Clients -> _reader_task]
    watch,      \* [Clients -> is _idle_task waiting?]
    nextId,     \* [Clients -> _req_id]
    pending,    \* [Clients -> the requests in _pending]
    inbox,      \* [Clients -> requests an answer of which may still be read]
    faults

bridgeVars == <<lock, current, bridgeUp, born>>
callerVars == <<at, ask, on, req, fut, got>>
procVars == <<connected, handle, child, reader, watch>>
rpcVars == <<nextId, pending, inbox>>
vars == <<asked, bridgeVars, callerVars, procVars, rpcVars, faults>>

Clients == 1..MaxClients
Asks == 1..MaxAsks
Steps == {"initialize", "tools", "call"}
Matter == [ask : Asks, step : Steps]
Request == [id : Nat \ {0}, ask : Asks, step : Steps]
NoRequest == [id |-> 0]
Nothing == [ask |-> 0]

Init ==
    /\ asked = 0 /\ lock = NoCaller /\ current = 0 /\ bridgeUp = FALSE /\ born = 0
    /\ at = [c \in Callers |-> "idle"]
    /\ ask = [c \in Callers |-> 0]
    /\ on = [c \in Callers |-> 0]
    /\ req = [c \in Callers |-> NoRequest]
    /\ fut = [c \in Callers |-> "none"]
    /\ got = [c \in Callers |-> Nothing]
    /\ connected = [g \in Clients |-> FALSE]
    /\ handle = [g \in Clients |-> FALSE]
    /\ child = [g \in Clients |-> "none"]
    /\ reader = [g \in Clients |-> "none"]
    /\ watch = [g \in Clients |-> FALSE]
    /\ nextId = [g \in Clients |-> 0]
    /\ pending = [g \in Clients |-> {}]
    /\ inbox = [g \in Clients |-> {}]
    /\ faults = 0

-----------------------------------------------------------------------------
(* Requests and futures.                                                   *)

\* Seeded fault: the id is the number of requests in flight, plus one.
IdByLoad(g) == Cardinality(pending[g]) + 1

\* Seeded fault: the counter is not advanced.
IdStale(g) == nextId[g]

RequestId(g) == nextId[g] + 1

\* _send up to its first await: the future is in _pending under its id, the
\* frame is on its way to the child.
Register(c, g, n, s) ==
    LET r == [id |-> RequestId(g), ask |-> n, step |-> s]
    IN  /\ nextId' = [nextId EXCEPT ![g] = RequestId(g)]
        /\ pending' = [pending EXCEPT ![g] = {e \in @ : e.id # r.id} \cup {r}]
        /\ inbox' = [inbox EXCEPT ![g] = IF reader[g] = "reading" /\ child[g] = "up"
                                         THEN @ \cup {r} ELSE @]
        /\ req' = [req EXCEPT ![c] = r]
        /\ fut' = [fut EXCEPT ![c] = "open"]
        /\ UNCHANGED got

\* The future of caller c is in the table of client g.
Registered(c, g) == on[c] = g /\ fut[c] = "open" /\ req[c] \in pending[g]

\* Every future in the table of client g fails, and the table is emptied.
FailPending(g) ==
    /\ fut' = [c \in Callers |-> IF Registered(c, g) THEN "error" ELSE fut[c]]
    /\ pending' = [pending EXCEPT ![g] = {}]

\* _release_tasks and _detach_process, then stdin is closed and SIGTERM sent.
\* The child is told to exit by a task that goes on to wait for it, or by one
\* that ends here.
Release(g, told) ==
    /\ connected' = [connected EXCEPT ![g] = FALSE]
    /\ watch' = [watch EXCEPT ![g] = FALSE]
    /\ reader' = [reader EXCEPT ![g] = IF @ = "reading" THEN "cancelled" ELSE @]
    /\ handle' = [handle EXCEPT ![g] = FALSE]
    /\ child' = [child EXCEPT ![g] = IF handle[g] /\ @ = "up" THEN told ELSE @]
    /\ FailPending(g)
    /\ inbox' = [inbox EXCEPT ![g] = {}]
    /\ UNCHANGED nextId

-----------------------------------------------------------------------------
(* A question: APBridge.call.                                              *)

\* The fast path of APBridge.connect.
Usable == bridgeUp /\ current # 0 /\ connected[current]

\* MCPClient.call on a connected client.
SendCall(c, g, n) ==
    /\ Register(c, g, n, "call")
    /\ on' = [on EXCEPT ![c] = g]
    /\ at' = [at EXCEPT ![c] = "drain"]

\* A thread hands a coroutine to the loop.  The thread that closes the bridge
\* asks nothing meanwhile.
Ask(c) ==
    /\ at[c] = "idle"
    /\ asked < MaxAsks
    /\ \A d \in Callers : at[d] # "leaving"
    /\ asked' = asked + 1
    /\ ask' = [ask EXCEPT ![c] = asked + 1]
    /\ \/ /\ Usable
          /\ SendCall(c, current, asked + 1)
       \/ /\ ~Usable
          /\ at' = [at EXCEPT ![c] = "lock"]
          /\ UNCHANGED <<on, req, fut, got, rpcVars>>
    /\ UNCHANGED <<bridgeVars, procVars, faults>>

\* A client is forgotten, if there is one, and a new one built under the lock.
BuildClient(c) ==
    /\ born < MaxClients
    /\ lock' = c
    /\ born' = born + 1
    /\ current' = born + 1
    /\ bridgeUp' = FALSE
    /\ at' = [at EXCEPT ![c] = "spawn"]
    /\ on' = [on EXCEPT ![c] = born + 1]
    /\ UNCHANGED <<req, fut, got, rpcVars>>

\* Seeded fault: the holder of the lock does not look again.
LockUnchecked(c) ==
    /\ at[c] = "lock"
    /\ lock = NoCaller
    /\ BuildClient(c)
    /\ UNCHANGED <<asked, ask, procVars, faults>>

\* The slow path, with the lock: a client another caller has connected
\* meanwhile is used, any other one is replaced.
Lock(c) ==
    /\ at[c] = "lock"
    /\ lock = NoCaller
    /\ \/ Usable /\ SendCall(c, current, ask[c]) /\ UNCHANGED bridgeVars
       \/ ~Usable /\ BuildClient(c)
    /\ UNCHANGED <<asked, ask, procVars, faults>>

\* The coroutine of a caller is over: its thread may ask again.
Return(c) ==
    /\ at' = [at EXCEPT ![c] = "idle"]
    /\ ask' = [ask EXCEPT ![c] = 0]
    /\ on' = [on EXCEPT ![c] = 0]
    /\ req' = [req EXCEPT ![c] = NoRequest]
    /\ fut' = [fut EXCEPT ![c] = "none"]
    /\ got' = [got EXCEPT ![c] = Nothing]

\* connect raised, or the bridge was closed: no client, and the question of
\* this caller is answered with None.
Disconnected(c) ==
    /\ lock' = IF lock = c THEN NoCaller ELSE lock
    /\ current' = 0
    /\ bridgeUp' = FALSE
    /\ Return(c)
    /\ UNCHANGED <<born, asked>>

\* No command resolved, not allowed, not started in time.
SpawnFails(c) ==
    /\ at[c] = "spawn"
    /\ Disconnected(c)
    /\ UNCHANGED <<procVars, rpcVars, faults>>

\* The child runs; the reader task is created before the handshake.
Spawned(c) ==
    /\ at[c] = "spawn"
    /\ at' = [at EXCEPT ![c] = "spawned"]
    /\ handle' = [handle EXCEPT ![on[c]] = TRUE]
    /\ child' = [child EXCEPT ![on[c]] = "up"]
    /\ reader' = [reader EXCEPT ![on[c]] = "reading"]
    /\ UNCHANGED <<asked, bridgeVars, ask, on, req, fut, got, connected, watch, rpcVars, faults>>

Initialize(c) ==
    /\ at[c] = "spawned"
    /\ at' = [at EXCEPT ![c] = "handshake"]
    /\ Register(c, on[c], ask[c], "initialize")
    /\ UNCHANGED <<asked, bridgeVars, ask, on, procVars, faults>>

ListTools(c) ==
    /\ at[c] = "handshake"
    /\ fut[c] = "answer"
    /\ req[c].step = "initialize"
    /\ Register(c, on[c], ask[c], "tools")
    /\ UNCHANGED <<asked, bridgeVars, at, ask, on, procVars, faults>>

\* The handshake is over; the coroutine in connect goes on a little later.
ToolsListed(c) ==
    /\ at[c] = "handshake"
    /\ fut[c] = "answer"
    /\ req[c].step = "tools"
    /\ at' = [at EXCEPT ![c] = "up"]
    /\ connected' = [connected EXCEPT ![on[c]] = TRUE]
    /\ watch' = [watch EXCEPT ![on[c]] = TRUE]
    /\ UNCHANGED <<asked, bridgeVars, ask, on, req, fut, got, handle, child, reader, rpcVars, faults>>

\* connect returns True: the call, or "Not connected" when the reader has
\* ended in between.
Connected(c) ==
    /\ at[c] = "up"
    /\ lock' = NoCaller
    /\ bridgeUp' = TRUE
    /\ \/ /\ connected[on[c]]
          /\ SendCall(c, on[c], ask[c])
          /\ UNCHANGED ask
       \/ /\ ~connected[on[c]]
          /\ Return(c)
          /\ UNCHANGED rpcVars
    /\ UNCHANGED <<asked, current, born, procVars, faults>>

\* A request of the handshake failed: aclose, still under the connect timeout.
HandshakeFails(c) ==
    /\ at[c] = "handshake"
    /\ fut[c] = "error"
    /\ at' = [at EXCEPT ![c] = "closing"]
    /\ Release(on[c], "exiting")
    /\ UNCHANGED <<asked, bridgeVars, ask, on, req, got, faults>>

\* Seeded fault: the timeout covers the first request of the handshake only.
ConnectTimeoutOnce(c) ==
    /\ at[c] = "handshake"
    /\ req[c].step = "initialize"
    /\ at' = [at EXCEPT ![c] = "reaping"]
    /\ Release(on[c], "exiting")
    /\ UNCHANGED <<asked, bridgeVars, ask, on, req, got, faults>>

\* The connect timeout cancels the handshake; connect then calls aclose.
ConnectTimeout(c) ==
    /\ at[c] = "handshake"
    /\ at' = [at EXCEPT ![c] = "reaping"]
    /\ Release(on[c], "exiting")
    /\ UNCHANGED <<asked, bridgeVars, ask, on, req, got, faults>>

\* It can also cut the aclose of a failed handshake short, and the second
\* aclose finds no process to wait for.
ConnectTimeoutClosing(c) ==
    /\ at[c] = "closing"
    /\ child' = [child EXCEPT ![on[c]] = IF @ = "exiting" THEN "deserted" ELSE @]
    /\ Disconnected(c)
    /\ UNCHANGED <<connected, handle, reader, watch, rpcVars, faults>>

\* Seeded fault: aclose waits for the grace period and does not kill.
ReapUnkilled(c) ==
    /\ at[c] \in {"closing", "reaping", "leaving"}
    /\ Disconnected(c)
    /\ UNCHANGED <<procVars, rpcVars, faults>>

\* aclose: the child has exited in time, or it is killed when the grace
\* period is over.
Reap(c) ==
    /\ at[c] \in {"closing", "reaping", "leaving"}
    /\ child' = [child EXCEPT ![on[c]] = IF @ = "exiting" THEN "gone" ELSE @]
    /\ Disconnected(c)
    /\ UNCHANGED <<connected, handle, reader, watch, rpcVars, faults>>

-----------------------------------------------------------------------------
(* A call in flight.                                                       *)

Finish(c) ==
    /\ Return(c)
    /\ UNCHANGED <<asked, bridgeVars, procVars, faults>>

\* drain() returns: the pipe took the frame, or nobody noticed yet that the
\* child is gone.
Drained(c) ==
    /\ at[c] = "drain"
    /\ at' = [at EXCEPT ![c] = "wait"]
    /\ UNCHANGED <<asked, bridgeVars, ask, on, req, fut, got, procVars, rpcVars, faults>>

\* drain() raises: the entry stays in _pending.
WriteFails(c) ==
    /\ at[c] = "drain"
    /\ child[on[c]] # "up"
    /\ Finish(c)
    /\ UNCHANGED rpcVars

\* The future is done: a result, or the error of the reader or of a close.
CallEnds(c) ==
    /\ at[c] = "wait"
    /\ fut[c] \in {"answer", "error"}
    /\ Finish(c)
    /\ UNCHANGED rpcVars

\* The ceiling on one call: the entry is taken out of the table.
CallTimeout(c) ==
    /\ at[c] = "wait"
    /\ fut[c] = "open"
    /\ pending' = [pending EXCEPT ![on[c]] = @ \ {req[c]}]
    /\ Finish(c)
    /\ UNCHANGED <<nextId, inbox>>

\* _SyncLoop.run: the thread's own bound is over, the coroutine is cancelled
\* and leaves its entry in the table.  The bound exceeds those of a connect.
GiveUp(c) ==
    /\ at[c] \in {"drain", "wait"}
    /\ Finish(c)
    /\ UNCHANGED rpcVars

\* WorkflowGraphASTSource.close, by the thread that asked, when it is done.
CloseBridge(c) ==
    /\ \A d \in Callers : at[d] = "idle"
    /\ current # 0
    /\ on' = [on EXCEPT ![c] = current]
    /\ at' = [at EXCEPT ![c] = "leaving"]
    /\ Release(current, "exiting")
    /\ UNCHANGED <<asked, bridgeVars, ask, req, got, faults>>

-----------------------------------------------------------------------------
(* The tasks of a client and its child.                                    *)

\* A woken coroutine runs before anything that is read after its answer: the
\* loop runs callbacks first in, first out.
HandshakeResumes(g) ==
    \E c \in Callers : on[c] = g /\ at[c] = "handshake" /\ fut[c] # "open"

Waiting(c) == at[c] \in {"handshake", "drain", "wait"}

\* The child answers request r, with a result or an error, and the reader
\* resolves the entry with that id, if there is one and its future is not done.
Answer(g, r) ==
    /\ reader[g] = "reading"
    /\ r \in inbox[g]
    /\ ~HandshakeResumes(g)
    /\ inbox' = [inbox EXCEPT ![g] = @ \ {r}]
    /\ pending' = [pending EXCEPT ![g] = {e \in @ : e.id # r.id}]
    /\ LET Hit(c) == Waiting(c) /\ Registered(c, g) /\ req[c].id = r.id
       IN  /\ \E outcome \in {"answer", "error"} :
                 fut' = [c \in Callers |-> IF Hit(c) THEN outcome ELSE fut[c]]
           /\ got' = [c \in Callers |->
                        IF Hit(c) THEN [ask |-> r.ask, step |-> r.step] ELSE got[c]]
    /\ UNCHANGED <<asked, bridgeVars, at, ask, on, req, procVars, nextId, faults>>

\* Seeded fault: only close() clears the flag.
ReaderLeavesFlag(g) ==
    /\ ~HandshakeResumes(g)
    /\ reader' = [reader EXCEPT ![g] = "ended"]
    /\ FailPending(g)
    /\ inbox' = [inbox EXCEPT ![g] = {}]
    /\ UNCHANGED <<asked, bridgeVars, at, ask, on, req, got>>
    /\ UNCHANGED <<connected, handle, child, watch, nextId>>

\* read_loop's finally clause.
ReaderEnds(g) ==
    /\ ~HandshakeResumes(g)
    /\ reader' = [reader EXCEPT ![g] = "ended"]
    /\ connected' = [connected EXCEPT ![g] = FALSE]
    /\ FailPending(g)
    /\ inbox' = [inbox EXCEPT ![g] = {}]
    /\ UNCHANGED <<asked, bridgeVars, at, ask, on, req, got>>
    /\ UNCHANGED <<handle, child, watch, nextId>>

\* End of file, or the cancellation reaches the reader.
ReaderStops(g) ==
    /\ \/ reader[g] = "reading" /\ child[g] = "gone"
       \/ reader[g] = "cancelled"
    /\ ReaderEnds(g)
    /\ UNCHANGED faults

\* A failure of the stream while the child lives: a line over the limit.
StreamFails(g) ==
    /\ reader[g] = "reading"
    /\ faults < MaxFaults
    /\ faults' = faults + 1
    /\ ReaderEnds(g)

\* Seeded fault: only a client that is still connected is closed.
IdleCloseConnected(g) ==
    /\ watch[g]
    /\ connected[g]
    /\ \A c \in Callers : on[c] = g => at[c] # "up"
    /\ Release(g, "deserted")
    /\ UNCHANGED <<asked, bridgeVars, at, ask, on, req, got, faults>>

\* No call has begun for a while: the watch closes the client.  aclose also
\* cancels the task that runs it, so that its wait for the child, and with it
\* the kill, never happens.
IdleClose(g) ==
    /\ watch[g]
    /\ \A c \in Callers : on[c] = g => at[c] # "up"
    /\ Release(g, "deserted")
    /\ UNCHANGED <<asked, bridgeVars, at, ask, on, req, got, faults>>

ChildDies(g) ==
    /\ child[g] = "up"
    /\ faults < MaxFaults
    /\ faults' = faults + 1
    /\ child' = [child EXCEPT ![g] = "gone"]
    /\ inbox' = [inbox EXCEPT ![g] = {}]
    /\ UNCHANGED <<asked, bridgeVars, callerVars, connected, handle, reader, watch, nextId, pending>>

\* SIGTERM, or the end of its input, is obeyed.  A child need not do so.
ChildExits(g) ==
    /\ child[g] \in {"exiting", "deserted"}
    /\ child' = [child EXCEPT ![g] = "gone"]
    /\ UNCHANGED <<asked, bridgeVars, callerVars, connected, handle, reader, watch, rpcVars, faults>>

-----------------------------------------------------------------------------
Connecting(c) ==
    \/ Lock(c)
    \/ SpawnFails(c) \/ Spawned(c)
    \/ Initialize(c) \/ ListTools(c) \/ ToolsListed(c) \/ Connected(c)
    \/ HandshakeFails(c) \/ ConnectTimeout(c) \/ ConnectTimeoutClosing(c)
    \/ Reap(c)

Calling(c) ==
    \/ Drained(c) \/ WriteFails(c)
    \/ CallEnds(c) \/ CallTimeout(c)
    \/ GiveUp(c)

Background(g) ==
    \/ \E r \in inbox[g] : Answer(g, r)
    \/ ReaderStops(g) \/ StreamFails(g)
    \/ IdleClose(g)
    \/ ChildDies(g) \/ ChildExits(g)

Next ==
    \/ \E c \in Callers : Ask(c) \/ Connecting(c) \/ Calling(c) \/ CloseBridge(c)
    \/ \E g \in Clients : Background(g)

Spec == Init /\ [][Next]_vars

\* The loop runs its tasks and timers: the lock is passed on, a spawn ends, a
\* woken coroutine goes on, timeouts and the idle watch fire.  Nothing makes
\* a child answer, take a frame or exit when it is told to.
Fairness ==
    /\ \A c \in Callers :
          /\ WF_vars(Lock(c))
          /\ WF_vars(SpawnFails(c) \/ Spawned(c))
          /\ WF_vars(Initialize(c))
          /\ WF_vars(ListTools(c) \/ ToolsListed(c) \/ HandshakeFails(c) \/ ConnectTimeout(c))
          /\ WF_vars(Connected(c))
          /\ WF_vars(Reap(c))
          /\ WF_vars(CallEnds(c) \/ CallTimeout(c))
          /\ WF_vars(GiveUp(c))
    /\ \A g \in Clients :
          /\ WF_vars(ReaderStops(g))
          /\ WF_vars(IdleClose(g))

FairSpec == Spec /\ Fairness

-----------------------------------------------------------------------------
Places ==
    {"idle", "lock", "spawn", "spawned", "handshake", "up", "closing", "reaping",
     "drain", "wait", "leaving"}

\* Every variable has its type.
TypeOK ==
    /\ asked \in 0..MaxAsks
    /\ lock \in Callers \cup {NoCaller}
    /\ current \in 0..MaxClients
    /\ bridgeUp \in BOOLEAN
    /\ born \in 0..MaxClients
    /\ at \in [Callers -> Places]
    /\ ask \in [Callers -> 0..MaxAsks]
    /\ on \in [Callers -> 0..MaxClients]
    /\ req \in [Callers -> Request \cup {NoRequest}]
    /\ fut \in [Callers -> {"none", "open", "answer", "error"}]
    /\ got \in [Callers -> Matter \cup {Nothing}]
    /\ connected \in [Clients -> BOOLEAN]
    /\ handle \in [Clients -> BOOLEAN]
    /\ child \in [Clients -> {"none", "up", "exiting", "deserted", "gone"}]
    /\ reader \in [Clients -> {"none", "reading", "cancelled", "ended"}]
    /\ watch \in [Clients -> BOOLEAN]
    /\ nextId \in [Clients -> Nat]
    /\ pending \in [Clients -> SUBSET Request]
    /\ inbox \in [Clients -> SUBSET Request]
    /\ faults \in 0..MaxFaults

\* The answer in a caller's future answers what that caller asked, although
\* calls time out, are given up and leave entries behind, and their answers
\* come late (_resolve_pending matches ids and nothing else).
AnswersMatch ==
    \A c \in Callers :
        fut[c] = "answer" => got[c] = [ask |-> req[c].ask, step |-> req[c].step]

\* A future that is open is in the table of a client whose reader still has to
\* run its finally clause, which fails it: no caller waits on a connection that
\* is already dead (mcp_client_reader.py, "deadlock observed on long upstream
\* responses").  Only initialize may be sent after the reader has ended; the
\* connect timeout covers it.
WaiterIsWatched ==
    \A c \in Callers :
        Waiting(c) /\ fut[c] = "open" =>
            /\ req[c] \in pending[on[c]]
            /\ reader[on[c]] = "reading" \/ req[c].step = "initialize"

\* The bridge never has two live connections: two children on one graph.
OneConnection ==
    \A g, h \in Clients : connected[g] /\ connected[h] => g = h

\* Every question of a thread ends, whatever the child does: it may be silent,
\* refuse input, crash or break its stream.
EveryAskEnds == \A c \in Callers : at[c] # "idle" ~> at[c] = "idle"

\* A child process does not outlive its use: also one the bridge has forgotten
\* (a broken stream, a failed handshake) is told to exit by its idle watch or
\* by a close.  A close that waits kills a child that ignores it, so that only a
\* deserted one can stay: one that its idle watch told, or whose close the
\* connect timeout cut short (aclose, mcp_client.py:283-293, is then cancelled
\* before its kill).  A child that does exit when it is told to is always gone.
EveryChildGoes ==
    \A g \in Clients :
        /\ child[g] = "up" ~> child[g] \in {"deserted", "gone"}
        /\ WF_vars(ChildExits(g)) => (child[g] = "up" ~> child[g] = "gone")

\* What the documents say and the code does not keep.  No run checks the
\* definition below; README, section 4, tells how it fails.

\* "Escalate rather than leak it" (mcp_client.py:288-289): a child that ignores
\* SIGTERM is killed.
NoChildIsLeaked == \A g \in Clients : child[g] = "up" ~> child[g] = "gone"
=============================================================================
