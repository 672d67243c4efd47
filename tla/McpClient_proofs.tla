--------------------------- MODULE McpClient_proofs ---------------------------
(***************************************************************************)
(* Proofs about McpClient: types, one live connection, a live reader for   *)
(* every waiting caller, and answers that go to the question they answer.  *)
(***************************************************************************)
EXTENDS McpClient, TLAPS

\* Where the coroutine of a caller holds the bridge's lock.
Section == {"spawn", "spawned", "handshake", "up", "closing", "reaping"}

\* Where it works with a client that is not connected.
Apart == {"spawn", "spawned", "handshake", "closing", "reaping", "leaving"}

\* The lock's holder builds the newest client, and the bridge knows no other.
LockHeld ==
    /\ \A c \in Callers : at[c] \in Section <=> lock = c
    /\ \A c \in Callers : at[c] \in Section => on[c] = born /\ current = born /\ born # 0
    /\ lock # NoCaller => ~bridgeUp

\* A client that is connected is the bridge's and has a reader; the flag of
\* the bridge follows when connect returns.
ConnectedFits ==
    /\ \A g \in Clients : connected[g] =>
          /\ reader[g] = "reading"
          /\ g = current
          /\ bridgeUp \/ \E c \in Callers : at[c] = "up"
    /\ \A c \in Callers : at[c] \in Apart => on[c] = current /\ ~connected[current]
    /\ \A c \in Callers : at[c] = "leaving" => \A d \in Callers \ {c} : at[d] = "idle"

\* An idle watch begins when the handshake is over, and the handshake goes on
\* before its reader can end.
HandshakeFits ==
    /\ \A g \in Clients : g > born => ~watch[g]
    /\ \A c \in Callers : at[c] \in {"spawn", "spawned", "handshake"} => ~watch[on[c]]
    /\ \A c \in Callers :
          at[c] = "handshake" /\ fut[c] = "answer" => reader[on[c]] = "reading"

\* A coroutine holds a request of its own question.
OwnRequest ==
    /\ \A c \in Callers : ask[c] \in 0..asked
    /\ \A c \in Callers : at[c] \in {"idle", "leaving"} <=> ask[c] = 0
    /\ \A c, d \in Callers : c # d /\ ask[c] # 0 => ask[c] # ask[d]
    /\ \A c \in Callers : at[c] \notin {"idle", "lock"} => on[c] \in Clients
    /\ \A c \in Callers : at[c] \in {"idle", "lock", "spawn", "spawned", "leaving"} => fut[c] = "none"
    /\ \A c \in Callers : at[c] \in {"handshake", "drain", "wait"} => fut[c] # "none"
    /\ \A c \in Callers : fut[c] # "none" => req[c] \in Request /\ req[c].ask = ask[c]
    /\ \A c \in Callers : at[c] \in {"drain", "wait"} => req[c].step = "call"

\* No client uses an id twice.
IdsDiffer ==
    \A g \in Clients :
        /\ \A r \in pending[g] \cup inbox[g] : r.id <= nextId[g]
        /\ \A r, e \in pending[g] \cup inbox[g] : r.id = e.id => r = e

Inv ==
    /\ TypeOK
    /\ LockHeld
    /\ ConnectedFits
    /\ HandshakeFits
    /\ OwnRequest
    /\ IdsDiffer
    /\ WaiterIsWatched
    /\ AnswersMatch

-----------------------------------------------------------------------------
(* Types.                                                                  *)

LEMMA RegisterType ==
  ASSUME TypeOK, NEW c \in Callers, NEW g \in Clients, NEW n \in Asks, NEW s \in Steps,
         Register(c, g, n, s)
  PROVE  /\ nextId' \in [Clients -> Nat]
         /\ pending' \in [Clients -> SUBSET Request]
         /\ inbox' \in [Clients -> SUBSET Request]
         /\ req' \in [Callers -> Request \cup {NoRequest}]
         /\ fut' \in [Callers -> {"none", "open", "answer", "error"}]
         /\ got' \in [Callers -> Matter \cup {Nothing}]
  <1> DEFINE r == [id |-> RequestId(g), ask |-> n, step |-> s]
  <1>1. nextId[g] \in Nat /\ RequestId(g) \in Nat \ {0}
    BY DEF TypeOK, RequestId
  <1>2. r \in Request
    BY <1>1 DEF Request
  <1>3. pending[g] \in SUBSET Request /\ inbox[g] \in SUBSET Request
    BY DEF TypeOK
  <1> HIDE DEF r
  <1>4. /\ nextId' = [nextId EXCEPT ![g] = RequestId(g)]
        /\ pending' = [pending EXCEPT ![g] = {e \in @ : e.id # r.id} \cup {r}]
        /\ inbox' = [inbox EXCEPT ![g] = IF reader[g] = "reading" /\ child[g] = "up"
                                         THEN @ \cup {r} ELSE @]
        /\ req' = [req EXCEPT ![c] = r]
        /\ fut' = [fut EXCEPT ![c] = "open"]
        /\ got' = got
    BY DEF Register, r
  <1> QED
    BY <1>1, <1>2, <1>3, <1>4 DEF TypeOK

LEMMA ReleaseType ==
  ASSUME TypeOK, NEW g \in Clients, NEW told \in {"exiting", "deserted"}, Release(g, told)
  PROVE  /\ connected' \in [Clients -> BOOLEAN]
         /\ watch' \in [Clients -> BOOLEAN]
         /\ reader' \in [Clients -> {"none", "reading", "cancelled", "ended"}]
         /\ handle' \in [Clients -> BOOLEAN]
         /\ child' \in [Clients -> {"none", "up", "exiting", "deserted", "gone"}]
         /\ fut' \in [Callers -> {"none", "open", "answer", "error"}]
         /\ pending' \in [Clients -> SUBSET Request]
         /\ inbox' \in [Clients -> SUBSET Request]
         /\ nextId' \in [Clients -> Nat]
  BY DEF TypeOK, Release, FailPending

LEMMA ReturnType ==
  ASSUME TypeOK, NEW c \in Callers, Return(c)
  PROVE  /\ at' \in [Callers -> Places]
         /\ ask' \in [Callers -> 0..MaxAsks]
         /\ on' \in [Callers -> 0..MaxClients]
         /\ req' \in [Callers -> Request \cup {NoRequest}]
         /\ fut' \in [Callers -> {"none", "open", "answer", "error"}]
         /\ got' \in [Callers -> Matter \cup {Nothing}]
  <1>1. MaxAsks \in Nat /\ MaxClients \in Nat
    BY McpAssumption
  <1> QED
    BY <1>1 DEF TypeOK, Return, Places

LEMMA DisconnectedType ==
  ASSUME TypeOK, NEW c \in Callers, Disconnected(c)
  PROVE  /\ asked' \in 0..MaxAsks
         /\ lock' \in Callers \cup {NoCaller}
         /\ current' \in 0..MaxClients
         /\ bridgeUp' \in BOOLEAN
         /\ born' \in 0..MaxClients
         /\ at' \in [Callers -> Places]
         /\ ask' \in [Callers -> 0..MaxAsks]
         /\ on' \in [Callers -> 0..MaxClients]
         /\ req' \in [Callers -> Request \cup {NoRequest}]
         /\ fut' \in [Callers -> {"none", "open", "answer", "error"}]
         /\ got' \in [Callers -> Matter \cup {Nothing}]
  <1>1. Return(c)
    BY DEF Disconnected
  <1>2. 0 \in 0..MaxClients
    BY McpAssumption
  <1>3. /\ lock' \in Callers \cup {NoCaller} /\ current' \in 0..MaxClients /\ bridgeUp' \in BOOLEAN
        /\ born' \in 0..MaxClients /\ asked' \in 0..MaxAsks
    BY <1>2 DEF Disconnected, TypeOK
  <1> QED
    BY <1>1, <1>3, ReturnType

LEMMA ReaderEndsType ==
  ASSUME TypeOK, NEW g \in Clients, ReaderEnds(g), faults' \in 0..MaxFaults
  PROVE  TypeOK'
  BY DEF TypeOK, ReaderEnds, FailPending, bridgeVars


-----------------------------------------------------------------------------
(* Consequences of the invariant that the steps below use.                 *)

LEMMA InvParts == Inv => /\ TypeOK /\ LockHeld /\ ConnectedFits /\ HandshakeFits
                         /\ OwnRequest /\ IdsDiffer /\ WaiterIsWatched /\ AnswersMatch
  BY DEF Inv

\* A coroutine that works with a client works with one that has been built.
LEMMA WorkingClient ==
  ASSUME Inv, NEW c \in Callers, at[c] \notin {"idle", "lock"}
  PROVE  on[c] \in Clients
  BY DEF Inv, OwnRequest

LEMMA AskOfWorker ==
  ASSUME Inv, NEW c \in Callers, at[c] \notin {"idle", "leaving"}
  PROVE  ask[c] \in Asks
  BY McpAssumption DEF Inv, OwnRequest, TypeOK, Asks

LEMMA UsableIsClient ==
  ASSUME Inv, Usable
  PROVE  current \in Clients /\ connected[current] /\ reader[current] = "reading"
  BY McpAssumption DEF Inv, TypeOK, ConnectedFits, Usable, Clients

LEMMA BornIsClient ==
  ASSUME Inv, current # 0
  PROVE  current \in Clients
  BY McpAssumption DEF Inv, TypeOK, Clients

\* Every step keeps the types.
LEMMA TypeNext ==
  ASSUME Inv, [Next]_vars
  PROVE  TypeOK'
  <1>1. ASSUME NEW c \in Callers, Ask(c) PROVE TypeOK'
    <2>1. asked' \in 0..MaxAsks /\ asked + 1 \in Asks /\ ask' \in [Callers -> 0..MaxAsks]
      BY <1>1, InvParts, McpAssumption DEF TypeOK, Ask, Asks
    <2>2. CASE Usable /\ SendCall(c, current, asked + 1)
      BY <2>1, <2>2, <1>1, InvParts, UsableIsClient, RegisterType
      DEF TypeOK, Places, Clients, Steps, Ask, SendCall, bridgeVars, procVars
    <2>3. CASE ~Usable /\ at' = [at EXCEPT ![c] = "lock"] /\ UNCHANGED <<on, req, fut, got, rpcVars>>
      BY <2>1, <2>3, <1>1, InvParts DEF TypeOK, Places, Ask, bridgeVars, procVars, rpcVars
    <2> QED
      BY <2>2, <2>3, <1>1 DEF Ask
  <1>2. ASSUME NEW c \in Callers, Lock(c) PROVE TypeOK'
    <2>1. CASE Usable /\ SendCall(c, current, ask[c]) /\ UNCHANGED bridgeVars
      BY <2>1, <1>2, InvParts, UsableIsClient, AskOfWorker, RegisterType
      DEF TypeOK, Places, Clients, Steps, Lock, SendCall, bridgeVars, procVars
    <2>2. CASE BuildClient(c)
      <3>1. born + 1 \in 0..MaxClients
        BY <2>2, InvParts, McpAssumption DEF TypeOK, BuildClient
      <3> QED
        BY <3>1, <2>2, <1>2, InvParts DEF TypeOK, Places, Lock, BuildClient, procVars, rpcVars
    <2> QED
      BY <2>1, <2>2, <1>2 DEF Lock
  <1>3. ASSUME NEW c \in Callers, SpawnFails(c) PROVE TypeOK'
    BY <1>3, InvParts, DisconnectedType DEF TypeOK, SpawnFails, procVars, rpcVars
  <1>4. ASSUME NEW c \in Callers, Spawned(c) PROVE TypeOK'
    BY <1>4, InvParts DEF TypeOK, Places, Spawned, vars, bridgeVars, callerVars, procVars, rpcVars
  <1>5. ASSUME NEW c \in Callers, Initialize(c) PROVE TypeOK'
    BY <1>5, InvParts, WorkingClient, AskOfWorker, RegisterType DEF TypeOK, Places, Steps, Initialize, bridgeVars, procVars
  <1>6. ASSUME NEW c \in Callers, ListTools(c) PROVE TypeOK'
    BY <1>6, InvParts, WorkingClient, AskOfWorker, RegisterType DEF TypeOK, Places, Steps, ListTools, bridgeVars, procVars
  <1>7. ASSUME NEW c \in Callers, ToolsListed(c) PROVE TypeOK'
    BY <1>7, InvParts DEF TypeOK, Places, ToolsListed, vars, bridgeVars, callerVars, procVars, rpcVars
  <1>8. ASSUME NEW c \in Callers, Connected(c) PROVE TypeOK'
    <2>1. CASE SendCall(c, on[c], ask[c]) /\ UNCHANGED ask
      BY <2>1, <1>8, InvParts, WorkingClient, AskOfWorker, RegisterType
      DEF TypeOK, Places, Clients, Steps, Connected, SendCall, procVars
    <2>2. CASE Return(c) /\ UNCHANGED rpcVars
      BY <2>2, <1>8, InvParts, ReturnType DEF TypeOK, Connected, procVars, rpcVars
    <2> QED
      BY <2>1, <2>2, <1>8 DEF Connected
  <1>9. ASSUME NEW c \in Callers, HandshakeFails(c) PROVE TypeOK'
    BY <1>9, InvParts, WorkingClient, ReleaseType, BornIsClient DEF TypeOK, Places, HandshakeFails, bridgeVars
  <1>10. ASSUME NEW c \in Callers, ConnectTimeout(c) PROVE TypeOK'
    BY <1>10, InvParts, WorkingClient, ReleaseType, BornIsClient DEF TypeOK, Places, ConnectTimeout, bridgeVars
  <1>11. ASSUME NEW c \in Callers, ConnectTimeoutClosing(c) PROVE TypeOK'
    BY <1>11, InvParts, DisconnectedType DEF TypeOK, ConnectTimeoutClosing, procVars, rpcVars
  <1>12. ASSUME NEW c \in Callers, Reap(c) PROVE TypeOK'
    BY <1>12, InvParts, DisconnectedType DEF TypeOK, Reap, rpcVars
  <1>13. ASSUME NEW c \in Callers, Drained(c) PROVE TypeOK'
    BY <1>13, InvParts DEF TypeOK, Places, Drained, vars, bridgeVars, callerVars, procVars, rpcVars
  <1>14. ASSUME NEW c \in Callers, WriteFails(c) PROVE TypeOK'
    BY <1>14, InvParts, ReturnType DEF TypeOK, WriteFails, Finish, bridgeVars, procVars, rpcVars
  <1>15. ASSUME NEW c \in Callers, CallEnds(c) PROVE TypeOK'
    BY <1>15, InvParts, ReturnType DEF TypeOK, CallEnds, Finish, bridgeVars, procVars, rpcVars
  <1>16. ASSUME NEW c \in Callers, CallTimeout(c) PROVE TypeOK'
    BY <1>16, InvParts, ReturnType DEF TypeOK, CallTimeout, Finish, bridgeVars, procVars
  <1>17. ASSUME NEW c \in Callers, GiveUp(c) PROVE TypeOK'
    BY <1>17, InvParts, ReturnType DEF TypeOK, GiveUp, Finish, bridgeVars, procVars, rpcVars
  <1>18. ASSUME NEW c \in Callers, CloseBridge(c) PROVE TypeOK'
    BY <1>18, InvParts, WorkingClient, ReleaseType, BornIsClient DEF TypeOK, Places, CloseBridge, bridgeVars
  <1>19. ASSUME NEW g \in Clients, NEW r \in inbox[g], Answer(g, r) PROVE TypeOK'
    BY <1>19, InvParts DEF TypeOK, Request, Matter, Answer, bridgeVars, procVars
  <1>20. ASSUME NEW g \in Clients, ReaderStops(g) PROVE TypeOK'
    BY <1>20, InvParts, ReaderEndsType, McpAssumption DEF TypeOK, ReaderStops
  <1>21. ASSUME NEW g \in Clients, StreamFails(g) PROVE TypeOK'
    BY <1>21, InvParts, ReaderEndsType, McpAssumption DEF TypeOK, StreamFails
  <1>22. ASSUME NEW g \in Clients, IdleClose(g) PROVE TypeOK'
    BY <1>22, InvParts, WorkingClient, ReleaseType, BornIsClient DEF TypeOK, Places, IdleClose, bridgeVars
  <1>23. ASSUME NEW g \in Clients, ChildDies(g) PROVE TypeOK'
    BY <1>23, InvParts, McpAssumption DEF TypeOK, ChildDies, bridgeVars, callerVars
  <1>24. ASSUME NEW g \in Clients, ChildExits(g) PROVE TypeOK'
    BY <1>24, InvParts DEF TypeOK, Places, ChildExits, vars, bridgeVars, callerVars, procVars, rpcVars
  <1>25. CASE UNCHANGED vars
    BY <1>25, InvParts DEF TypeOK, vars, bridgeVars, callerVars, procVars, rpcVars
  <1> QED
    BY <1>1, <1>2, <1>3, <1>4, <1>5, <1>6, <1>7, <1>8, <1>9, <1>10, <1>11, <1>12, <1>13, <1>14, <1>15, <1>16, <1>17, <1>18, <1>19, <1>20, <1>21, <1>22, <1>23, <1>24, <1>25 DEF Next, Connecting, Calling, Background

\* Every step keeps the lock with the one coroutine that builds a client.
LEMMA LockHeldNext ==
  ASSUME Inv, [Next]_vars
  PROVE  LockHeld'
  <1>1. ASSUME NEW c \in Callers, Ask(c) PROVE LockHeld'
    BY <1>1, InvParts, McpAssumption DEF TypeOK, Places, LockHeld, Section, OwnRequest, ConnectedFits, Ask, SendCall, Register, bridgeVars, callerVars, procVars, rpcVars
  <1>2. ASSUME NEW c \in Callers, Lock(c) PROVE LockHeld'
    BY <1>2, InvParts, McpAssumption DEF TypeOK, Places, LockHeld, Section, OwnRequest, ConnectedFits, Lock, BuildClient, SendCall, Register, bridgeVars, callerVars, procVars, rpcVars
  <1>3. ASSUME NEW c \in Callers, SpawnFails(c) PROVE LockHeld'
    BY <1>3, InvParts, McpAssumption DEF TypeOK, Places, LockHeld, Section, OwnRequest, ConnectedFits, SpawnFails, Disconnected, Return, bridgeVars, callerVars, procVars, rpcVars
  <1>4. ASSUME NEW c \in Callers, Spawned(c) PROVE LockHeld'
    BY <1>4, InvParts, McpAssumption DEF TypeOK, Places, LockHeld, Section, OwnRequest, ConnectedFits, Spawned, bridgeVars, callerVars, procVars, rpcVars
  <1>5. ASSUME NEW c \in Callers, Initialize(c) PROVE LockHeld'
    BY <1>5, InvParts, McpAssumption DEF TypeOK, Places, LockHeld, Section, OwnRequest, ConnectedFits, Initialize, Register, bridgeVars, callerVars, procVars, rpcVars
  <1>6. ASSUME NEW c \in Callers, ListTools(c) PROVE LockHeld'
    BY <1>6, InvParts, McpAssumption DEF TypeOK, Places, LockHeld, Section, OwnRequest, ConnectedFits, ListTools, Register, bridgeVars, callerVars, procVars, rpcVars
  <1>7. ASSUME NEW c \in Callers, ToolsListed(c) PROVE LockHeld'
    BY <1>7, InvParts, McpAssumption DEF TypeOK, Places, LockHeld, Section, OwnRequest, ConnectedFits, ToolsListed, bridgeVars, callerVars, procVars, rpcVars
  <1>8. ASSUME NEW c \in Callers, Connected(c) PROVE LockHeld'
    BY <1>8, InvParts, McpAssumption DEF TypeOK, Places, LockHeld, Section, OwnRequest, ConnectedFits, Connected, SendCall, Register, Return, bridgeVars, callerVars, procVars, rpcVars
  <1>9. ASSUME NEW c \in Callers, HandshakeFails(c) PROVE LockHeld'
    BY <1>9, InvParts, McpAssumption DEF TypeOK, Places, LockHeld, Section, OwnRequest, ConnectedFits, HandshakeFails, Release, FailPending, bridgeVars, callerVars, procVars, rpcVars
  <1>10. ASSUME NEW c \in Callers, ConnectTimeout(c) PROVE LockHeld'
    BY <1>10, InvParts, McpAssumption DEF TypeOK, Places, LockHeld, Section, OwnRequest, ConnectedFits, ConnectTimeout, Release, FailPending, bridgeVars, callerVars, procVars, rpcVars
  <1>11. ASSUME NEW c \in Callers, ConnectTimeoutClosing(c) PROVE LockHeld'
    BY <1>11, InvParts, McpAssumption DEF TypeOK, Places, LockHeld, Section, OwnRequest, ConnectedFits, ConnectTimeoutClosing, Disconnected, Return, bridgeVars, callerVars, procVars, rpcVars
  <1>12. ASSUME NEW c \in Callers, Reap(c) PROVE LockHeld'
    BY <1>12, InvParts, McpAssumption DEF TypeOK, Places, LockHeld, Section, OwnRequest, ConnectedFits, Reap, Disconnected, Return, bridgeVars, callerVars, procVars, rpcVars
  <1>13. ASSUME NEW c \in Callers, Drained(c) PROVE LockHeld'
    BY <1>13, InvParts, McpAssumption DEF TypeOK, Places, LockHeld, Section, OwnRequest, ConnectedFits, Drained, bridgeVars, callerVars, procVars, rpcVars
  <1>14. ASSUME NEW c \in Callers, WriteFails(c) PROVE LockHeld'
    BY <1>14, InvParts, McpAssumption DEF TypeOK, Places, LockHeld, Section, OwnRequest, ConnectedFits, WriteFails, Finish, Return, bridgeVars, callerVars, procVars, rpcVars
  <1>15. ASSUME NEW c \in Callers, CallEnds(c) PROVE LockHeld'
    BY <1>15, InvParts, McpAssumption DEF TypeOK, Places, LockHeld, Section, OwnRequest, ConnectedFits, CallEnds, Finish, Return, bridgeVars, callerVars, procVars, rpcVars
  <1>16. ASSUME NEW c \in Callers, CallTimeout(c) PROVE LockHeld'
    BY <1>16, InvParts, McpAssumption DEF TypeOK, Places, LockHeld, Section, OwnRequest, ConnectedFits, CallTimeout, Finish, Return, bridgeVars, callerVars, procVars, rpcVars
  <1>17. ASSUME NEW c \in Callers, GiveUp(c) PROVE LockHeld'
    BY <1>17, InvParts, McpAssumption DEF TypeOK, Places, LockHeld, Section, OwnRequest, ConnectedFits, GiveUp, Finish, Return, bridgeVars, callerVars, procVars, rpcVars
  <1>18. ASSUME NEW c \in Callers, CloseBridge(c) PROVE LockHeld'
    BY <1>18, InvParts, McpAssumption DEF TypeOK, Places, LockHeld, Section, OwnRequest, ConnectedFits, CloseBridge, Release, FailPending, bridgeVars, callerVars, procVars, rpcVars
  <1>19. ASSUME NEW g \in Clients, NEW r \in inbox[g], Answer(g, r) PROVE LockHeld'
    BY <1>19, InvParts, McpAssumption DEF TypeOK, Places, LockHeld, Section, OwnRequest, ConnectedFits, Answer, bridgeVars, callerVars, procVars, rpcVars
  <1>20. ASSUME NEW g \in Clients, ReaderStops(g) PROVE LockHeld'
    BY <1>20, InvParts, McpAssumption DEF TypeOK, Places, LockHeld, Section, OwnRequest, ConnectedFits, ReaderStops, ReaderEnds, FailPending, bridgeVars, callerVars, procVars, rpcVars
  <1>21. ASSUME NEW g \in Clients, StreamFails(g) PROVE LockHeld'
    BY <1>21, InvParts, McpAssumption DEF TypeOK, Places, LockHeld, Section, OwnRequest, ConnectedFits, StreamFails, ReaderEnds, FailPending, bridgeVars, callerVars, procVars, rpcVars
  <1>22. ASSUME NEW g \in Clients, IdleClose(g) PROVE LockHeld'
    BY <1>22, InvParts, McpAssumption DEF TypeOK, Places, LockHeld, Section, OwnRequest, ConnectedFits, IdleClose, Release, FailPending, bridgeVars, callerVars, procVars, rpcVars
  <1>23. ASSUME NEW g \in Clients, ChildDies(g) PROVE LockHeld'
    BY <1>23, InvParts, McpAssumption DEF TypeOK, Places, LockHeld, Section, OwnRequest, ConnectedFits, ChildDies, bridgeVars, callerVars, procVars, rpcVars
  <1>24. ASSUME NEW g \in Clients, ChildExits(g) PROVE LockHeld'
    BY <1>24, InvParts, McpAssumption DEF TypeOK, Places, LockHeld, Section, OwnRequest, ConnectedFits, ChildExits, bridgeVars, callerVars, procVars, rpcVars
  <1>25. CASE UNCHANGED vars
    BY <1>25, InvParts, McpAssumption DEF TypeOK, Places, LockHeld, Section, OwnRequest, ConnectedFits, vars, bridgeVars, callerVars, procVars, rpcVars
  <1> QED
    BY <1>1, <1>2, <1>3, <1>4, <1>5, <1>6, <1>7, <1>8, <1>9, <1>10, <1>11, <1>12, <1>13, <1>14, <1>15, <1>16, <1>17, <1>18, <1>19, <1>20, <1>21, <1>22, <1>23, <1>24, <1>25 DEF Next, Connecting, Calling, Background

\* Every step keeps the one live connection the bridge's.
LEMMA ConnectedFitsNext ==
  ASSUME Inv, [Next]_vars
  PROVE  ConnectedFits'
  <1>1. ASSUME NEW c \in Callers, Ask(c) PROVE ConnectedFits'
    BY <1>1, InvParts, McpAssumption DEF TypeOK, Places, LockHeld, Section, Apart, ConnectedFits, OwnRequest, WaiterIsWatched, Waiting, HandshakeFits, Usable, Clients, Ask, SendCall, Register, bridgeVars, callerVars, procVars, rpcVars
  <1>2. ASSUME NEW c \in Callers, Lock(c) PROVE ConnectedFits'
    <2>1. CASE Usable /\ SendCall(c, current, ask[c]) /\ UNCHANGED bridgeVars
      BY <2>1, <1>2, InvParts, McpAssumption, UsableIsClient DEF TypeOK, Places, LockHeld, Section, Apart, ConnectedFits, Usable, Clients, OwnRequest, Lock, SendCall, bridgeVars, procVars, rpcVars
    <2>2. CASE ~Usable /\ BuildClient(c)
      BY <2>2, <1>2, InvParts, McpAssumption DEF TypeOK, Places, LockHeld, Section, Apart, ConnectedFits, Usable, Clients, OwnRequest, Lock, BuildClient, bridgeVars, procVars, rpcVars
    <2> QED
      BY <2>1, <2>2, <1>2 DEF Lock
  <1>3. ASSUME NEW c \in Callers, SpawnFails(c) PROVE ConnectedFits'
    BY <1>3, InvParts, McpAssumption DEF TypeOK, Places, LockHeld, Section, Apart, ConnectedFits, OwnRequest, WaiterIsWatched, Waiting, HandshakeFits, Usable, Clients, SpawnFails, Disconnected, Return, bridgeVars, callerVars, procVars, rpcVars
  <1>4. ASSUME NEW c \in Callers, Spawned(c) PROVE ConnectedFits'
    BY <1>4, InvParts, McpAssumption DEF TypeOK, Places, LockHeld, Section, Apart, ConnectedFits, OwnRequest, WaiterIsWatched, Waiting, HandshakeFits, Usable, Clients, Spawned, bridgeVars, callerVars, procVars, rpcVars
  <1>5. ASSUME NEW c \in Callers, Initialize(c) PROVE ConnectedFits'
    BY <1>5, InvParts, McpAssumption DEF TypeOK, Places, LockHeld, Section, Apart, ConnectedFits, OwnRequest, WaiterIsWatched, Waiting, HandshakeFits, Usable, Clients, Initialize, Register, bridgeVars, callerVars, procVars, rpcVars
  <1>6. ASSUME NEW c \in Callers, ListTools(c) PROVE ConnectedFits'
    BY <1>6, InvParts, McpAssumption DEF TypeOK, Places, LockHeld, Section, Apart, ConnectedFits, OwnRequest, WaiterIsWatched, Waiting, HandshakeFits, Usable, Clients, ListTools, Register, bridgeVars, callerVars, procVars, rpcVars
  <1>7. ASSUME NEW c \in Callers, ToolsListed(c) PROVE ConnectedFits'
    BY <1>7, InvParts, McpAssumption DEF TypeOK, Places, LockHeld, Section, Apart, ConnectedFits, OwnRequest, WaiterIsWatched, Waiting, HandshakeFits, Usable, Clients, ToolsListed, bridgeVars, callerVars, procVars, rpcVars
  <1>8. ASSUME NEW c \in Callers, Connected(c) PROVE ConnectedFits'
    <2>1. CASE connected[on[c]] /\ SendCall(c, on[c], ask[c]) /\ UNCHANGED ask
      BY <2>1, <1>8, InvParts, McpAssumption, UsableIsClient DEF TypeOK, Places, LockHeld, Section, Apart, ConnectedFits, Usable, Clients, OwnRequest, Connected, SendCall, bridgeVars, procVars, rpcVars
    <2>2. CASE ~connected[on[c]] /\ Return(c) /\ UNCHANGED rpcVars
      BY <2>2, <1>8, InvParts, McpAssumption DEF TypeOK, Places, LockHeld, Section, Apart, ConnectedFits, Usable, Clients, OwnRequest, Connected, Return, bridgeVars, procVars, rpcVars
    <2> QED
      BY <2>1, <2>2, <1>8 DEF Connected
  <1>9. ASSUME NEW c \in Callers, HandshakeFails(c) PROVE ConnectedFits'
    BY <1>9, InvParts, McpAssumption DEF TypeOK, Places, LockHeld, Section, Apart, ConnectedFits, OwnRequest, WaiterIsWatched, Waiting, HandshakeFits, Usable, Clients, HandshakeFails, Release, FailPending, bridgeVars, callerVars, procVars, rpcVars
  <1>10. ASSUME NEW c \in Callers, ConnectTimeout(c) PROVE ConnectedFits'
    BY <1>10, InvParts, McpAssumption DEF TypeOK, Places, LockHeld, Section, Apart, ConnectedFits, OwnRequest, WaiterIsWatched, Waiting, HandshakeFits, Usable, Clients, ConnectTimeout, Release, FailPending, bridgeVars, callerVars, procVars, rpcVars
  <1>11. ASSUME NEW c \in Callers, ConnectTimeoutClosing(c) PROVE ConnectedFits'
    BY <1>11, InvParts, McpAssumption DEF TypeOK, Places, LockHeld, Section, Apart, ConnectedFits, OwnRequest, WaiterIsWatched, Waiting, HandshakeFits, Usable, Clients, ConnectTimeoutClosing, Disconnected, Return, bridgeVars, callerVars, procVars, rpcVars
  <1>12. ASSUME NEW c \in Callers, Reap(c) PROVE ConnectedFits'
    BY <1>12, InvParts, McpAssumption DEF TypeOK, Places, LockHeld, Section, Apart, ConnectedFits, OwnRequest, WaiterIsWatched, Waiting, HandshakeFits, Usable, Clients, Reap, Disconnected, Return, bridgeVars, callerVars, procVars, rpcVars
  <1>13. ASSUME NEW c \in Callers, Drained(c) PROVE ConnectedFits'
    BY <1>13, InvParts, McpAssumption DEF TypeOK, Places, LockHeld, Section, Apart, ConnectedFits, OwnRequest, WaiterIsWatched, Waiting, HandshakeFits, Usable, Clients, Drained, bridgeVars, callerVars, procVars, rpcVars
  <1>14. ASSUME NEW c \in Callers, WriteFails(c) PROVE ConnectedFits'
    BY <1>14, InvParts, McpAssumption DEF TypeOK, Places, LockHeld, Section, Apart, ConnectedFits, OwnRequest, WaiterIsWatched, Waiting, HandshakeFits, Usable, Clients, WriteFails, Finish, Return, bridgeVars, callerVars, procVars, rpcVars
  <1>15. ASSUME NEW c \in Callers, CallEnds(c) PROVE ConnectedFits'
    BY <1>15, InvParts, McpAssumption DEF TypeOK, Places, LockHeld, Section, Apart, ConnectedFits, OwnRequest, WaiterIsWatched, Waiting, HandshakeFits, Usable, Clients, CallEnds, Finish, Return, bridgeVars, callerVars, procVars, rpcVars
  <1>16. ASSUME NEW c \in Callers, CallTimeout(c) PROVE ConnectedFits'
    BY <1>16, InvParts, McpAssumption DEF TypeOK, Places, LockHeld, Section, Apart, ConnectedFits, OwnRequest, WaiterIsWatched, Waiting, HandshakeFits, Usable, Clients, CallTimeout, Finish, Return, bridgeVars, callerVars, procVars, rpcVars
  <1>17. ASSUME NEW c \in Callers, GiveUp(c) PROVE ConnectedFits'
    BY <1>17, InvParts, McpAssumption DEF TypeOK, Places, LockHeld, Section, Apart, ConnectedFits, OwnRequest, WaiterIsWatched, Waiting, HandshakeFits, Usable, Clients, GiveUp, Finish, Return, bridgeVars, callerVars, procVars, rpcVars
  <1>18. ASSUME NEW c \in Callers, CloseBridge(c) PROVE ConnectedFits'
    BY <1>18, InvParts, McpAssumption DEF TypeOK, Places, LockHeld, Section, Apart, ConnectedFits, OwnRequest, WaiterIsWatched, Waiting, HandshakeFits, Usable, Clients, CloseBridge, Release, FailPending, bridgeVars, callerVars, procVars, rpcVars
  <1>19. ASSUME NEW g \in Clients, NEW r \in inbox[g], Answer(g, r) PROVE ConnectedFits'
    BY <1>19, InvParts, McpAssumption DEF TypeOK, Places, LockHeld, Section, Apart, ConnectedFits, OwnRequest, WaiterIsWatched, Waiting, HandshakeFits, Usable, Clients, Answer, bridgeVars, callerVars, procVars, rpcVars
  <1>20. ASSUME NEW g \in Clients, ReaderStops(g) PROVE ConnectedFits'
    BY <1>20, InvParts, McpAssumption DEF TypeOK, Places, LockHeld, Section, Apart, ConnectedFits, OwnRequest, WaiterIsWatched, Waiting, HandshakeFits, Usable, Clients, ReaderStops, ReaderEnds, FailPending, bridgeVars, callerVars, procVars, rpcVars
  <1>21. ASSUME NEW g \in Clients, StreamFails(g) PROVE ConnectedFits'
    BY <1>21, InvParts, McpAssumption DEF TypeOK, Places, LockHeld, Section, Apart, ConnectedFits, OwnRequest, WaiterIsWatched, Waiting, HandshakeFits, Usable, Clients, StreamFails, ReaderEnds, FailPending, bridgeVars, callerVars, procVars, rpcVars
  <1>22. ASSUME NEW g \in Clients, IdleClose(g) PROVE ConnectedFits'
    BY <1>22, InvParts, McpAssumption DEF TypeOK, Places, LockHeld, Section, Apart, ConnectedFits, OwnRequest, WaiterIsWatched, Waiting, HandshakeFits, Usable, Clients, IdleClose, Release, FailPending, bridgeVars, callerVars, procVars, rpcVars
  <1>23. ASSUME NEW g \in Clients, ChildDies(g) PROVE ConnectedFits'
    BY <1>23, InvParts, McpAssumption DEF TypeOK, Places, LockHeld, Section, Apart, ConnectedFits, OwnRequest, WaiterIsWatched, Waiting, HandshakeFits, Usable, Clients, ChildDies, bridgeVars, callerVars, procVars, rpcVars
  <1>24. ASSUME NEW g \in Clients, ChildExits(g) PROVE ConnectedFits'
    BY <1>24, InvParts, McpAssumption DEF TypeOK, Places, LockHeld, Section, Apart, ConnectedFits, OwnRequest, WaiterIsWatched, Waiting, HandshakeFits, Usable, Clients, ChildExits, bridgeVars, callerVars, procVars, rpcVars
  <1>25. CASE UNCHANGED vars
    BY <1>25, InvParts, McpAssumption DEF TypeOK, Places, LockHeld, Section, Apart, ConnectedFits, OwnRequest, WaiterIsWatched, Waiting, HandshakeFits, Usable, Clients, vars, bridgeVars, callerVars, procVars, rpcVars
  <1> QED
    BY <1>1, <1>2, <1>3, <1>4, <1>5, <1>6, <1>7, <1>8, <1>9, <1>10, <1>11, <1>12, <1>13, <1>14, <1>15, <1>16, <1>17, <1>18, <1>19, <1>20, <1>21, <1>22, <1>23, <1>24, <1>25 DEF Next, Connecting, Calling, Background

\* Every step keeps the handshake apart from the idle watch and the reader's end.
LEMMA HandshakeFitsNext ==
  ASSUME Inv, [Next]_vars
  PROVE  HandshakeFits'
  <1>1. ASSUME NEW c \in Callers, Ask(c) PROVE HandshakeFits'
    <2>1. CASE Usable /\ SendCall(c, current, asked + 1)
      BY <2>1, <1>1, InvParts, McpAssumption, UsableIsClient DEF TypeOK, Places, LockHeld, Section, ConnectedFits, HandshakeFits, Usable, Clients, OwnRequest, Ask, SendCall, Register, bridgeVars, procVars, rpcVars
    <2>2. CASE ~Usable /\ at' = [at EXCEPT ![c] = "lock"] /\ UNCHANGED <<on, req, fut, got, rpcVars>>
      BY <2>2, <1>1, InvParts, McpAssumption DEF TypeOK, Places, LockHeld, Section, ConnectedFits, HandshakeFits, Usable, Clients, OwnRequest, Ask, Ask, bridgeVars, procVars, rpcVars
    <2> QED
      BY <2>1, <2>2, <1>1 DEF Ask
  <1>2. ASSUME NEW c \in Callers, Lock(c) PROVE HandshakeFits'
    <2>1. CASE Usable /\ SendCall(c, current, ask[c]) /\ UNCHANGED bridgeVars
      BY <2>1, <1>2, InvParts, McpAssumption, UsableIsClient DEF TypeOK, Places, LockHeld, Section, ConnectedFits, HandshakeFits, Usable, Clients, OwnRequest, Lock, SendCall, Register, bridgeVars, procVars, rpcVars
    <2>2. CASE ~Usable /\ BuildClient(c)
      BY <2>2, <1>2, InvParts, McpAssumption DEF TypeOK, Places, LockHeld, Section, ConnectedFits, HandshakeFits, Usable, Clients, OwnRequest, Lock, BuildClient, bridgeVars, procVars, rpcVars
    <2> QED
      BY <2>1, <2>2, <1>2 DEF Lock
  <1>3. ASSUME NEW c \in Callers, SpawnFails(c) PROVE HandshakeFits'
    BY <1>3, InvParts, McpAssumption DEF TypeOK, Places, LockHeld, Section, HandshakeFits, HandshakeResumes, OwnRequest, Registered, Clients, SpawnFails, Disconnected, Return, bridgeVars, callerVars, procVars, rpcVars
  <1>4. ASSUME NEW c \in Callers, Spawned(c) PROVE HandshakeFits'
    BY <1>4, InvParts, McpAssumption DEF TypeOK, Places, LockHeld, Section, HandshakeFits, HandshakeResumes, OwnRequest, Registered, Clients, Spawned, bridgeVars, callerVars, procVars, rpcVars
  <1>5. ASSUME NEW c \in Callers, Initialize(c) PROVE HandshakeFits'
    BY <1>5, InvParts, McpAssumption DEF TypeOK, Places, LockHeld, Section, HandshakeFits, HandshakeResumes, OwnRequest, Registered, Clients, Initialize, Register, bridgeVars, callerVars, procVars, rpcVars
  <1>6. ASSUME NEW c \in Callers, ListTools(c) PROVE HandshakeFits'
    BY <1>6, InvParts, McpAssumption DEF TypeOK, Places, LockHeld, Section, HandshakeFits, HandshakeResumes, OwnRequest, Registered, Clients, ListTools, Register, bridgeVars, callerVars, procVars, rpcVars
  <1>7. ASSUME NEW c \in Callers, ToolsListed(c) PROVE HandshakeFits'
    BY <1>7, InvParts, McpAssumption DEF TypeOK, Places, LockHeld, Section, HandshakeFits, HandshakeResumes, OwnRequest, Registered, Clients, ToolsListed, bridgeVars, callerVars, procVars, rpcVars
  <1>8. ASSUME NEW c \in Callers, Connected(c) PROVE HandshakeFits'
    <2>1. CASE connected[on[c]] /\ SendCall(c, on[c], ask[c]) /\ UNCHANGED ask
      BY <2>1, <1>8, InvParts, McpAssumption, UsableIsClient DEF TypeOK, Places, LockHeld, Section, ConnectedFits, HandshakeFits, Usable, Clients, OwnRequest, Connected, SendCall, Register, bridgeVars, procVars, rpcVars
    <2>2. CASE ~connected[on[c]] /\ Return(c) /\ UNCHANGED rpcVars
      BY <2>2, <1>8, InvParts, McpAssumption DEF TypeOK, Places, LockHeld, Section, ConnectedFits, HandshakeFits, Usable, Clients, OwnRequest, Connected, Return, bridgeVars, procVars, rpcVars
    <2> QED
      BY <2>1, <2>2, <1>8 DEF Connected
  <1>9. ASSUME NEW c \in Callers, HandshakeFails(c) PROVE HandshakeFits'
    BY <1>9, InvParts, McpAssumption DEF TypeOK, Places, LockHeld, Section, HandshakeFits, HandshakeResumes, OwnRequest, Registered, Clients, HandshakeFails, Release, FailPending, bridgeVars, callerVars, procVars, rpcVars
  <1>10. ASSUME NEW c \in Callers, ConnectTimeout(c) PROVE HandshakeFits'
    BY <1>10, InvParts, McpAssumption DEF TypeOK, Places, LockHeld, Section, HandshakeFits, HandshakeResumes, OwnRequest, Registered, Clients, ConnectTimeout, Release, FailPending, bridgeVars, callerVars, procVars, rpcVars
  <1>11. ASSUME NEW c \in Callers, ConnectTimeoutClosing(c) PROVE HandshakeFits'
    BY <1>11, InvParts, McpAssumption DEF TypeOK, Places, LockHeld, Section, HandshakeFits, HandshakeResumes, OwnRequest, Registered, Clients, ConnectTimeoutClosing, Disconnected, Return, bridgeVars, callerVars, procVars, rpcVars
  <1>12. ASSUME NEW c \in Callers, Reap(c) PROVE HandshakeFits'
    BY <1>12, InvParts, McpAssumption DEF TypeOK, Places, LockHeld, Section, HandshakeFits, HandshakeResumes, OwnRequest, Registered, Clients, Reap, Disconnected, Return, bridgeVars, callerVars, procVars, rpcVars
  <1>13. ASSUME NEW c \in Callers, Drained(c) PROVE HandshakeFits'
    BY <1>13, InvParts, McpAssumption DEF TypeOK, Places, LockHeld, Section, HandshakeFits, HandshakeResumes, OwnRequest, Registered, Clients, Drained, bridgeVars, callerVars, procVars, rpcVars
  <1>14. ASSUME NEW c \in Callers, WriteFails(c) PROVE HandshakeFits'
    BY <1>14, InvParts, McpAssumption DEF TypeOK, Places, LockHeld, Section, HandshakeFits, HandshakeResumes, OwnRequest, Registered, Clients, WriteFails, Finish, Return, bridgeVars, callerVars, procVars, rpcVars
  <1>15. ASSUME NEW c \in Callers, CallEnds(c) PROVE HandshakeFits'
    BY <1>15, InvParts, McpAssumption DEF TypeOK, Places, LockHeld, Section, HandshakeFits, HandshakeResumes, OwnRequest, Registered, Clients, CallEnds, Finish, Return, bridgeVars, callerVars, procVars, rpcVars
  <1>16. ASSUME NEW c \in Callers, CallTimeout(c) PROVE HandshakeFits'
    BY <1>16, InvParts, McpAssumption DEF TypeOK, Places, LockHeld, Section, HandshakeFits, HandshakeResumes, OwnRequest, Registered, Clients, CallTimeout, Finish, Return, bridgeVars, callerVars, procVars, rpcVars
  <1>17. ASSUME NEW c \in Callers, GiveUp(c) PROVE HandshakeFits'
    BY <1>17, InvParts, McpAssumption DEF TypeOK, Places, LockHeld, Section, HandshakeFits, HandshakeResumes, OwnRequest, Registered, Clients, GiveUp, Finish, Return, bridgeVars, callerVars, procVars, rpcVars
  <1>18. ASSUME NEW c \in Callers, CloseBridge(c) PROVE HandshakeFits'
    BY <1>18, InvParts, McpAssumption DEF TypeOK, Places, LockHeld, Section, HandshakeFits, HandshakeResumes, OwnRequest, Registered, Clients, CloseBridge, Release, FailPending, bridgeVars, callerVars, procVars, rpcVars
  <1>19. ASSUME NEW g \in Clients, NEW r \in inbox[g], Answer(g, r) PROVE HandshakeFits'
    BY <1>19, InvParts, McpAssumption DEF TypeOK, Places, LockHeld, Section, HandshakeFits, HandshakeResumes, OwnRequest, Registered, Clients, Answer, bridgeVars, callerVars, procVars, rpcVars
  <1>20. ASSUME NEW g \in Clients, ReaderStops(g) PROVE HandshakeFits'
    BY <1>20, InvParts, McpAssumption DEF TypeOK, Places, LockHeld, Section, HandshakeFits, HandshakeResumes, OwnRequest, Registered, Clients, ReaderStops, ReaderEnds, FailPending, bridgeVars, callerVars, procVars, rpcVars
  <1>21. ASSUME NEW g \in Clients, StreamFails(g) PROVE HandshakeFits'
    BY <1>21, InvParts, McpAssumption DEF TypeOK, Places, LockHeld, Section, HandshakeFits, HandshakeResumes, OwnRequest, Registered, Clients, StreamFails, ReaderEnds, FailPending, bridgeVars, callerVars, procVars, rpcVars
  <1>22. ASSUME NEW g \in Clients, IdleClose(g) PROVE HandshakeFits'
    BY <1>22, InvParts, McpAssumption DEF TypeOK, Places, LockHeld, Section, HandshakeFits, HandshakeResumes, OwnRequest, Registered, Clients, IdleClose, Release, FailPending, bridgeVars, callerVars, procVars, rpcVars
  <1>23. ASSUME NEW g \in Clients, ChildDies(g) PROVE HandshakeFits'
    BY <1>23, InvParts, McpAssumption DEF TypeOK, Places, LockHeld, Section, HandshakeFits, HandshakeResumes, OwnRequest, Registered, Clients, ChildDies, bridgeVars, callerVars, procVars, rpcVars
  <1>24. ASSUME NEW g \in Clients, ChildExits(g) PROVE HandshakeFits'
    BY <1>24, InvParts, McpAssumption DEF TypeOK, Places, LockHeld, Section, HandshakeFits, HandshakeResumes, OwnRequest, Registered, Clients, ChildExits, bridgeVars, callerVars, procVars, rpcVars
  <1>25. CASE UNCHANGED vars
    BY <1>25, InvParts, McpAssumption DEF TypeOK, Places, LockHeld, Section, HandshakeFits, HandshakeResumes, OwnRequest, Registered, Clients, vars, bridgeVars, callerVars, procVars, rpcVars
  <1> QED
    BY <1>1, <1>2, <1>3, <1>4, <1>5, <1>6, <1>7, <1>8, <1>9, <1>10, <1>11, <1>12, <1>13, <1>14, <1>15, <1>16, <1>17, <1>18, <1>19, <1>20, <1>21, <1>22, <1>23, <1>24, <1>25 DEF Next, Connecting, Calling, Background

\* What _send leaves behind, told of the request it makes.
Made(c, g, n, s) ==
    /\ req'[c] \in Request
    /\ req'[c].ask = n /\ req'[c].step = s /\ req'[c].id = nextId[g] + 1
    /\ req' = [req EXCEPT ![c] = req'[c]]
    /\ fut' = [fut EXCEPT ![c] = "open"]
    /\ got' = got
    /\ nextId' = [nextId EXCEPT ![g] = nextId[g] + 1]
    /\ pending' = [pending EXCEPT ![g] = {e \in pending[g] : e.id # req'[c].id} \cup {req'[c]}]
    /\ inbox' = [inbox EXCEPT ![g] = IF reader[g] = "reading" /\ child[g] = "up"
                                     THEN inbox[g] \cup {req'[c]} ELSE inbox[g]]

LEMMA RegisterMakes ==
  ASSUME TypeOK, NEW c \in Callers, NEW g \in Clients, NEW n \in Asks, NEW s \in Steps,
         Register(c, g, n, s)
  PROVE  Made(c, g, n, s)
  <1> DEFINE r == [id |-> RequestId(g), ask |-> n, step |-> s]
  <1>1. RequestId(g) = nextId[g] + 1 /\ nextId[g] + 1 \in Nat \ {0}
    BY DEF TypeOK, RequestId
  <1>2. r \in Request /\ r.ask = n /\ r.step = s /\ r.id = nextId[g] + 1
    BY <1>1 DEF Request
  <1> HIDE DEF r
  <1>3. /\ nextId' = [nextId EXCEPT ![g] = RequestId(g)]
        /\ pending' = [pending EXCEPT ![g] = {e \in @ : e.id # r.id} \cup {r}]
        /\ inbox' = [inbox EXCEPT ![g] = IF reader[g] = "reading" /\ child[g] = "up"
                                         THEN @ \cup {r} ELSE @]
        /\ req' = [req EXCEPT ![c] = r]
        /\ fut' = [fut EXCEPT ![c] = "open"]
        /\ got' = got
    BY DEF Register, r
  <1>4. req'[c] = r
    BY <1>3 DEF TypeOK
  <1> QED
    BY <1>1, <1>2, <1>3, <1>4 DEF Made

\* What a close or the end of a reader does to the futures.
Failed(g) ==
    /\ fut' \in [Callers -> {"none", "open", "answer", "error"}]
    /\ \A c \in Callers : fut'[c] = "none" <=> fut[c] = "none"
    /\ \A c \in Callers : fut'[c] = "answer" => fut[c] = "answer"
    /\ \A c \in Callers : fut'[c] = "open" =>
          fut[c] = "open" /\ ~(on[c] = g /\ req[c] \in pending[g])
    /\ pending' = [pending EXCEPT ![g] = {}]

LEMMA FailPendingDoes ==
  ASSUME TypeOK, NEW g \in Clients, FailPending(g)
  PROVE  Failed(g)
  BY DEF TypeOK, FailPending, Registered, Failed

\* Every step keeps a request its caller's.
LEMMA OwnRequestNext ==
  ASSUME Inv, [Next]_vars
  PROVE  OwnRequest'
  <1>1. ASSUME NEW c \in Callers, Ask(c) PROVE OwnRequest'
    <2>1. CASE Usable /\ SendCall(c, current, asked + 1)
      <3>1. current \in Clients /\ (asked + 1) \in Asks /\ Register(c, current, (asked + 1), "call")
        BY <2>1, <1>1, InvParts, McpAssumption, UsableIsClient, AskOfWorker DEF TypeOK, Asks, SendCall, Ask
      <3>2. Made(c, current, (asked + 1), "call")
        BY <3>1, InvParts, RegisterMakes DEF Steps
      <3>3. on' = [on EXCEPT ![c] = current] /\ at' = [at EXCEPT ![c] = "drain"]
        BY <2>1 DEF SendCall
      <3>4. reader[current] = "reading"
        BY <2>1, <3>1, InvParts, UsableIsClient DEF ConnectedFits
      <3> QED
        BY <2>1, <3>1, <3>2, <3>3, <3>4, <1>1, InvParts, McpAssumption DEF TypeOK, OwnRequest, Asks, Made, Ask, bridgeVars, procVars, rpcVars
    <2>2. CASE ~Usable /\ at' = [at EXCEPT ![c] = "lock"] /\ UNCHANGED <<on, req, fut, got, rpcVars>>
      BY <2>2, <1>1, InvParts, McpAssumption DEF TypeOK, OwnRequest, Asks, Ask, bridgeVars, procVars, rpcVars
    <2> QED
      BY <2>1, <2>2, <1>1 DEF Ask
  <1>2. ASSUME NEW c \in Callers, Lock(c) PROVE OwnRequest'
    <2>1. CASE Usable /\ SendCall(c, current, ask[c]) /\ UNCHANGED bridgeVars
      <3>1. current \in Clients /\ ask[c] \in Asks /\ Register(c, current, ask[c], "call")
        BY <2>1, <1>2, InvParts, McpAssumption, UsableIsClient, AskOfWorker DEF TypeOK, Asks, SendCall, Lock
      <3>2. Made(c, current, ask[c], "call")
        BY <3>1, InvParts, RegisterMakes DEF Steps
      <3>3. on' = [on EXCEPT ![c] = current] /\ at' = [at EXCEPT ![c] = "drain"]
        BY <2>1 DEF SendCall
      <3>4. reader[current] = "reading"
        BY <2>1, <3>1, InvParts, UsableIsClient DEF ConnectedFits
      <3> QED
        BY <2>1, <3>1, <3>2, <3>3, <3>4, <1>2, InvParts, McpAssumption DEF TypeOK, OwnRequest, Asks, Made, Lock, bridgeVars, procVars, rpcVars
    <2>2. CASE ~Usable /\ BuildClient(c)
      BY <2>2, <1>2, InvParts, McpAssumption DEF TypeOK, OwnRequest, Asks, Lock, BuildClient, Clients, LockHeld, Section, bridgeVars, procVars, rpcVars
    <2> QED
      BY <2>1, <2>2, <1>2 DEF Lock
  <1>3. ASSUME NEW c \in Callers, SpawnFails(c) PROVE OwnRequest'
    BY <1>3, InvParts, McpAssumption DEF TypeOK, Places, OwnRequest, LockHeld, Section, ConnectedFits, HandshakeFits, Clients, SpawnFails, Disconnected, Return, bridgeVars, callerVars, procVars, rpcVars
  <1>4. ASSUME NEW c \in Callers, Spawned(c) PROVE OwnRequest'
    BY <1>4, InvParts, McpAssumption DEF TypeOK, Places, OwnRequest, LockHeld, Section, ConnectedFits, HandshakeFits, Clients, Spawned, bridgeVars, callerVars, procVars, rpcVars
  <1>5. ASSUME NEW c \in Callers, Initialize(c) PROVE OwnRequest'
    <2>1. on[c] \in Clients /\ ask[c] \in Asks /\ Register(c, on[c], ask[c], "initialize")
      BY <1>5, WorkingClient, AskOfWorker DEF Initialize
    <2>2. Made(c, on[c], ask[c], "initialize")
      BY <2>1, InvParts, RegisterMakes DEF Steps
    <2> QED
      BY <2>1, <2>2, <1>5, InvParts, McpAssumption DEF TypeOK, OwnRequest, Asks, Made, Initialize, bridgeVars, procVars, rpcVars
  <1>6. ASSUME NEW c \in Callers, ListTools(c) PROVE OwnRequest'
    <2>1. on[c] \in Clients /\ ask[c] \in Asks /\ Register(c, on[c], ask[c], "tools")
      BY <1>6, WorkingClient, AskOfWorker DEF ListTools
    <2>2. Made(c, on[c], ask[c], "tools")
      BY <2>1, InvParts, RegisterMakes DEF Steps
    <2> QED
      BY <2>1, <2>2, <1>6, InvParts, McpAssumption DEF TypeOK, OwnRequest, Asks, Made, ListTools, bridgeVars, procVars, rpcVars
  <1>7. ASSUME NEW c \in Callers, ToolsListed(c) PROVE OwnRequest'
    BY <1>7, InvParts, McpAssumption DEF TypeOK, Places, OwnRequest, LockHeld, Section, ConnectedFits, HandshakeFits, Clients, ToolsListed, bridgeVars, callerVars, procVars, rpcVars
  <1>8. ASSUME NEW c \in Callers, Connected(c) PROVE OwnRequest'
    <2>1. CASE connected[on[c]] /\ SendCall(c, on[c], ask[c]) /\ UNCHANGED ask
      <3>1. on[c] \in Clients /\ ask[c] \in Asks /\ Register(c, on[c], ask[c], "call")
        BY <2>1, <1>8, InvParts, McpAssumption, WorkingClient, AskOfWorker DEF TypeOK, Asks, SendCall, Connected
      <3>2. Made(c, on[c], ask[c], "call")
        BY <3>1, InvParts, RegisterMakes DEF Steps
      <3>3. on' = [on EXCEPT ![c] = on[c]] /\ at' = [at EXCEPT ![c] = "drain"]
        BY <2>1 DEF SendCall
      <3>4. reader[on[c]] = "reading"
        BY <2>1, <3>1, InvParts, UsableIsClient DEF ConnectedFits
      <3> QED
        BY <2>1, <3>1, <3>2, <3>3, <3>4, <1>8, InvParts, McpAssumption DEF TypeOK, OwnRequest, Asks, Made, Connected, bridgeVars, procVars, rpcVars
    <2>2. CASE ~connected[on[c]] /\ Return(c) /\ UNCHANGED rpcVars
      BY <2>2, <1>8, InvParts, McpAssumption DEF TypeOK, OwnRequest, Asks, Connected, Return, bridgeVars, procVars, rpcVars
    <2> QED
      BY <2>1, <2>2, <1>8 DEF Connected
  <1>9. ASSUME NEW c \in Callers, HandshakeFails(c) PROVE OwnRequest'
    <2>1. on[c] \in Clients /\ FailPending(on[c])
      BY <1>9, WorkingClient DEF HandshakeFails, Release
    <2>2. Failed(on[c])
      BY <2>1, InvParts, FailPendingDoes
    <2> QED
      BY <2>1, <2>2, <1>9, InvParts, McpAssumption DEF TypeOK, Places, OwnRequest, LockHeld, Section, Clients, Failed, HandshakeFails, Release, bridgeVars, procVars
  <1>10. ASSUME NEW c \in Callers, ConnectTimeout(c) PROVE OwnRequest'
    <2>1. on[c] \in Clients /\ FailPending(on[c])
      BY <1>10, WorkingClient DEF ConnectTimeout, Release
    <2>2. Failed(on[c])
      BY <2>1, InvParts, FailPendingDoes
    <2> QED
      BY <2>1, <2>2, <1>10, InvParts, McpAssumption DEF TypeOK, Places, OwnRequest, LockHeld, Section, Clients, Failed, ConnectTimeout, Release, bridgeVars, procVars
  <1>11. ASSUME NEW c \in Callers, ConnectTimeoutClosing(c) PROVE OwnRequest'
    BY <1>11, InvParts, McpAssumption DEF TypeOK, Places, OwnRequest, LockHeld, Section, ConnectedFits, HandshakeFits, Clients, ConnectTimeoutClosing, Disconnected, Return, bridgeVars, callerVars, procVars, rpcVars
  <1>12. ASSUME NEW c \in Callers, Reap(c) PROVE OwnRequest'
    BY <1>12, InvParts, McpAssumption DEF TypeOK, Places, OwnRequest, LockHeld, Section, ConnectedFits, HandshakeFits, Clients, Reap, Disconnected, Return, bridgeVars, callerVars, procVars, rpcVars
  <1>13. ASSUME NEW c \in Callers, Drained(c) PROVE OwnRequest'
    BY <1>13, InvParts, McpAssumption DEF TypeOK, Places, OwnRequest, LockHeld, Section, ConnectedFits, HandshakeFits, Clients, Drained, bridgeVars, callerVars, procVars, rpcVars
  <1>14. ASSUME NEW c \in Callers, WriteFails(c) PROVE OwnRequest'
    BY <1>14, InvParts, McpAssumption DEF TypeOK, Places, OwnRequest, LockHeld, Section, ConnectedFits, HandshakeFits, Clients, WriteFails, Finish, Return, bridgeVars, callerVars, procVars, rpcVars
  <1>15. ASSUME NEW c \in Callers, CallEnds(c) PROVE OwnRequest'
    BY <1>15, InvParts, McpAssumption DEF TypeOK, Places, OwnRequest, LockHeld, Section, ConnectedFits, HandshakeFits, Clients, CallEnds, Finish, Return, bridgeVars, callerVars, procVars, rpcVars
  <1>16. ASSUME NEW c \in Callers, CallTimeout(c) PROVE OwnRequest'
    BY <1>16, InvParts, McpAssumption DEF TypeOK, Places, OwnRequest, LockHeld, Section, ConnectedFits, HandshakeFits, Clients, CallTimeout, Finish, Return, bridgeVars, callerVars, procVars, rpcVars
  <1>17. ASSUME NEW c \in Callers, GiveUp(c) PROVE OwnRequest'
    BY <1>17, InvParts, McpAssumption DEF TypeOK, Places, OwnRequest, LockHeld, Section, ConnectedFits, HandshakeFits, Clients, GiveUp, Finish, Return, bridgeVars, callerVars, procVars, rpcVars
  <1>18. ASSUME NEW c \in Callers, CloseBridge(c) PROVE OwnRequest'
    <2>1. current \in Clients /\ FailPending(current)
      BY <1>18, BornIsClient DEF CloseBridge, Release
    <2>2. Failed(current)
      BY <2>1, InvParts, FailPendingDoes
    <2> QED
      BY <2>1, <2>2, <1>18, InvParts, McpAssumption DEF TypeOK, Places, OwnRequest, LockHeld, Section, Clients, Failed, CloseBridge, Release, bridgeVars, procVars
  <1>19. ASSUME NEW g \in Clients, NEW r \in inbox[g], Answer(g, r) PROVE OwnRequest'
    BY <1>19, InvParts, McpAssumption DEF TypeOK, Places, OwnRequest, LockHeld, Section, ConnectedFits, HandshakeFits, Clients, Answer, bridgeVars, callerVars, procVars, rpcVars, Waiting, Registered
  <1>20. ASSUME NEW g \in Clients, ReaderStops(g) PROVE OwnRequest'
    <2>1. g \in Clients /\ FailPending(g)
      BY <1>20, BornIsClient DEF ReaderStops, ReaderEnds
    <2>2. Failed(g)
      BY <2>1, InvParts, FailPendingDoes
    <2> QED
      BY <2>1, <2>2, <1>20, InvParts, McpAssumption DEF TypeOK, Places, OwnRequest, LockHeld, Section, Clients, Failed, ReaderStops, ReaderEnds, bridgeVars, procVars
  <1>21. ASSUME NEW g \in Clients, StreamFails(g) PROVE OwnRequest'
    <2>1. g \in Clients /\ FailPending(g)
      BY <1>21, BornIsClient DEF StreamFails, ReaderEnds
    <2>2. Failed(g)
      BY <2>1, InvParts, FailPendingDoes
    <2> QED
      BY <2>1, <2>2, <1>21, InvParts, McpAssumption DEF TypeOK, Places, OwnRequest, LockHeld, Section, Clients, Failed, StreamFails, ReaderEnds, bridgeVars, procVars
  <1>22. ASSUME NEW g \in Clients, IdleClose(g) PROVE OwnRequest'
    <2>1. g \in Clients /\ FailPending(g)
      BY <1>22, BornIsClient DEF IdleClose, Release
    <2>2. Failed(g)
      BY <2>1, InvParts, FailPendingDoes
    <2> QED
      BY <2>1, <2>2, <1>22, InvParts, McpAssumption DEF TypeOK, Places, OwnRequest, LockHeld, Section, Clients, Failed, IdleClose, Release, bridgeVars, procVars
  <1>23. ASSUME NEW g \in Clients, ChildDies(g) PROVE OwnRequest'
    BY <1>23, InvParts, McpAssumption DEF TypeOK, Places, OwnRequest, LockHeld, Section, ConnectedFits, HandshakeFits, Clients, ChildDies, bridgeVars, callerVars, procVars, rpcVars
  <1>24. ASSUME NEW g \in Clients, ChildExits(g) PROVE OwnRequest'
    BY <1>24, InvParts, McpAssumption DEF TypeOK, Places, OwnRequest, LockHeld, Section, ConnectedFits, HandshakeFits, Clients, ChildExits, bridgeVars, callerVars, procVars, rpcVars
  <1>25. CASE UNCHANGED vars
    BY <1>25, InvParts, McpAssumption DEF TypeOK, Places, OwnRequest, LockHeld, Section, ConnectedFits, HandshakeFits, Clients, vars, bridgeVars, callerVars, procVars, rpcVars
  <1> QED
    BY <1>1, <1>2, <1>3, <1>4, <1>5, <1>6, <1>7, <1>8, <1>9, <1>10, <1>11, <1>12, <1>13, <1>14, <1>15, <1>16, <1>17, <1>18, <1>19, <1>20, <1>21, <1>22, <1>23, <1>24, <1>25 DEF Next, Connecting, Calling, Background

\* Every step keeps the ids of a client apart.
LEMMA IdsDifferNext ==
  ASSUME Inv, [Next]_vars
  PROVE  IdsDiffer'
  <1>1. ASSUME NEW c \in Callers, Ask(c) PROVE IdsDiffer'
    <2>1. CASE Usable /\ SendCall(c, current, asked + 1)
      <3>1. current \in Clients /\ (asked + 1) \in Asks /\ Register(c, current, (asked + 1), "call")
        BY <2>1, <1>1, InvParts, McpAssumption, UsableIsClient, AskOfWorker DEF TypeOK, Asks, SendCall, Ask
      <3>2. Made(c, current, (asked + 1), "call")
        BY <3>1, InvParts, RegisterMakes DEF Steps
      <3>3. on' = [on EXCEPT ![c] = current] /\ at' = [at EXCEPT ![c] = "drain"]
        BY <2>1 DEF SendCall
      <3>4. reader[current] = "reading"
        BY <2>1, <3>1, InvParts, UsableIsClient DEF ConnectedFits
      <3> QED
        BY <2>1, <3>1, <3>2, <3>3, <3>4, <1>1, InvParts, McpAssumption DEF TypeOK, IdsDiffer, Request, Made, Ask, bridgeVars, procVars, rpcVars
    <2>2. CASE ~Usable /\ at' = [at EXCEPT ![c] = "lock"] /\ UNCHANGED <<on, req, fut, got, rpcVars>>
      BY <2>2, <1>1, InvParts, McpAssumption DEF TypeOK, IdsDiffer, Request, Ask, bridgeVars, procVars, rpcVars
    <2> QED
      BY <2>1, <2>2, <1>1 DEF Ask
  <1>2. ASSUME NEW c \in Callers, Lock(c) PROVE IdsDiffer'
    <2>1. CASE Usable /\ SendCall(c, current, ask[c]) /\ UNCHANGED bridgeVars
      <3>1. current \in Clients /\ ask[c] \in Asks /\ Register(c, current, ask[c], "call")
        BY <2>1, <1>2, InvParts, McpAssumption, UsableIsClient, AskOfWorker DEF TypeOK, Asks, SendCall, Lock
      <3>2. Made(c, current, ask[c], "call")
        BY <3>1, InvParts, RegisterMakes DEF Steps
      <3>3. on' = [on EXCEPT ![c] = current] /\ at' = [at EXCEPT ![c] = "drain"]
        BY <2>1 DEF SendCall
      <3>4. reader[current] = "reading"
        BY <2>1, <3>1, InvParts, UsableIsClient DEF ConnectedFits
      <3> QED
        BY <2>1, <3>1, <3>2, <3>3, <3>4, <1>2, InvParts, McpAssumption DEF TypeOK, IdsDiffer, Request, Made, Lock, bridgeVars, procVars, rpcVars
    <2>2. CASE ~Usable /\ BuildClient(c)
      BY <2>2, <1>2, InvParts, McpAssumption DEF TypeOK, IdsDiffer, Request, Lock, BuildClient, Clients, LockHeld, Section, bridgeVars, procVars, rpcVars
    <2> QED
      BY <2>1, <2>2, <1>2 DEF Lock
  <1>3. ASSUME NEW c \in Callers, SpawnFails(c) PROVE IdsDiffer'
    BY <1>3, InvParts DEF TypeOK, IdsDiffer, Request, SpawnFails, Disconnected, Return, bridgeVars, callerVars, procVars, rpcVars
  <1>4. ASSUME NEW c \in Callers, Spawned(c) PROVE IdsDiffer'
    BY <1>4, InvParts DEF TypeOK, IdsDiffer, Request, Spawned, bridgeVars, callerVars, procVars, rpcVars
  <1>5. ASSUME NEW c \in Callers, Initialize(c) PROVE IdsDiffer'
    <2>1. on[c] \in Clients /\ ask[c] \in Asks /\ Register(c, on[c], ask[c], "initialize")
      BY <1>5, WorkingClient, AskOfWorker DEF Initialize
    <2>2. Made(c, on[c], ask[c], "initialize")
      BY <2>1, InvParts, RegisterMakes DEF Steps
    <2> QED
      BY <2>1, <2>2, <1>5, InvParts, McpAssumption DEF TypeOK, IdsDiffer, Request, Made, Initialize, bridgeVars, procVars, rpcVars
  <1>6. ASSUME NEW c \in Callers, ListTools(c) PROVE IdsDiffer'
    <2>1. on[c] \in Clients /\ ask[c] \in Asks /\ Register(c, on[c], ask[c], "tools")
      BY <1>6, WorkingClient, AskOfWorker DEF ListTools
    <2>2. Made(c, on[c], ask[c], "tools")
      BY <2>1, InvParts, RegisterMakes DEF Steps
    <2> QED
      BY <2>1, <2>2, <1>6, InvParts, McpAssumption DEF TypeOK, IdsDiffer, Request, Made, ListTools, bridgeVars, procVars, rpcVars
  <1>7. ASSUME NEW c \in Callers, ToolsListed(c) PROVE IdsDiffer'
    BY <1>7, InvParts DEF TypeOK, IdsDiffer, Request, ToolsListed, bridgeVars, callerVars, procVars, rpcVars
  <1>8. ASSUME NEW c \in Callers, Connected(c) PROVE IdsDiffer'
    <2>1. CASE connected[on[c]] /\ SendCall(c, on[c], ask[c]) /\ UNCHANGED ask
      <3>1. on[c] \in Clients /\ ask[c] \in Asks /\ Register(c, on[c], ask[c], "call")
        BY <2>1, <1>8, InvParts, McpAssumption, WorkingClient, AskOfWorker DEF TypeOK, Asks, SendCall, Connected
      <3>2. Made(c, on[c], ask[c], "call")
        BY <3>1, InvParts, RegisterMakes DEF Steps
      <3>3. on' = [on EXCEPT ![c] = on[c]] /\ at' = [at EXCEPT ![c] = "drain"]
        BY <2>1 DEF SendCall
      <3>4. reader[on[c]] = "reading"
        BY <2>1, <3>1, InvParts, UsableIsClient DEF ConnectedFits
      <3> QED
        BY <2>1, <3>1, <3>2, <3>3, <3>4, <1>8, InvParts, McpAssumption DEF TypeOK, IdsDiffer, Request, Made, Connected, bridgeVars, procVars, rpcVars
    <2>2. CASE ~connected[on[c]] /\ Return(c) /\ UNCHANGED rpcVars
      BY <2>2, <1>8, InvParts, McpAssumption DEF TypeOK, IdsDiffer, Request, Connected, Return, bridgeVars, procVars, rpcVars
    <2> QED
      BY <2>1, <2>2, <1>8 DEF Connected
  <1>9. ASSUME NEW c \in Callers, HandshakeFails(c) PROVE IdsDiffer'
    <2>1. on[c] \in Clients /\ FailPending(on[c])
      BY <1>9, WorkingClient DEF HandshakeFails, Release
    <2>2. Failed(on[c])
      BY <2>1, InvParts, FailPendingDoes
    <2> QED
      BY <2>1, <2>2, <1>9, InvParts, McpAssumption DEF TypeOK, IdsDiffer, Request, Failed, HandshakeFails, Release, bridgeVars, procVars
  <1>10. ASSUME NEW c \in Callers, ConnectTimeout(c) PROVE IdsDiffer'
    <2>1. on[c] \in Clients /\ FailPending(on[c])
      BY <1>10, WorkingClient DEF ConnectTimeout, Release
    <2>2. Failed(on[c])
      BY <2>1, InvParts, FailPendingDoes
    <2> QED
      BY <2>1, <2>2, <1>10, InvParts, McpAssumption DEF TypeOK, IdsDiffer, Request, Failed, ConnectTimeout, Release, bridgeVars, procVars
  <1>11. ASSUME NEW c \in Callers, ConnectTimeoutClosing(c) PROVE IdsDiffer'
    BY <1>11, InvParts DEF TypeOK, IdsDiffer, Request, ConnectTimeoutClosing, Disconnected, Return, bridgeVars, callerVars, procVars, rpcVars
  <1>12. ASSUME NEW c \in Callers, Reap(c) PROVE IdsDiffer'
    BY <1>12, InvParts DEF TypeOK, IdsDiffer, Request, Reap, Disconnected, Return, bridgeVars, callerVars, procVars, rpcVars
  <1>13. ASSUME NEW c \in Callers, Drained(c) PROVE IdsDiffer'
    BY <1>13, InvParts DEF TypeOK, IdsDiffer, Request, Drained, bridgeVars, callerVars, procVars, rpcVars
  <1>14. ASSUME NEW c \in Callers, WriteFails(c) PROVE IdsDiffer'
    BY <1>14, InvParts DEF TypeOK, IdsDiffer, Request, WriteFails, Finish, Return, bridgeVars, callerVars, procVars, rpcVars
  <1>15. ASSUME NEW c \in Callers, CallEnds(c) PROVE IdsDiffer'
    BY <1>15, InvParts DEF TypeOK, IdsDiffer, Request, CallEnds, Finish, Return, bridgeVars, callerVars, procVars, rpcVars
  <1>16. ASSUME NEW c \in Callers, CallTimeout(c) PROVE IdsDiffer'
    BY <1>16, InvParts DEF TypeOK, IdsDiffer, Request, CallTimeout, Finish, Return, bridgeVars, callerVars, procVars, rpcVars
  <1>17. ASSUME NEW c \in Callers, GiveUp(c) PROVE IdsDiffer'
    BY <1>17, InvParts DEF TypeOK, IdsDiffer, Request, GiveUp, Finish, Return, bridgeVars, callerVars, procVars, rpcVars
  <1>18. ASSUME NEW c \in Callers, CloseBridge(c) PROVE IdsDiffer'
    <2>1. current \in Clients /\ FailPending(current)
      BY <1>18, BornIsClient DEF CloseBridge, Release
    <2>2. Failed(current)
      BY <2>1, InvParts, FailPendingDoes
    <2> QED
      BY <2>1, <2>2, <1>18, InvParts, McpAssumption DEF TypeOK, IdsDiffer, Request, Failed, CloseBridge, Release, bridgeVars, procVars
  <1>19. ASSUME NEW g \in Clients, NEW r \in inbox[g], Answer(g, r) PROVE IdsDiffer'
    BY <1>19, InvParts DEF TypeOK, IdsDiffer, Request, Answer, bridgeVars, callerVars, procVars, rpcVars
  <1>20. ASSUME NEW g \in Clients, ReaderStops(g) PROVE IdsDiffer'
    <2>1. g \in Clients /\ FailPending(g)
      BY <1>20, BornIsClient DEF ReaderStops, ReaderEnds
    <2>2. Failed(g)
      BY <2>1, InvParts, FailPendingDoes
    <2> QED
      BY <2>1, <2>2, <1>20, InvParts, McpAssumption DEF TypeOK, IdsDiffer, Request, Failed, ReaderStops, ReaderEnds, bridgeVars, procVars
  <1>21. ASSUME NEW g \in Clients, StreamFails(g) PROVE IdsDiffer'
    <2>1. g \in Clients /\ FailPending(g)
      BY <1>21, BornIsClient DEF StreamFails, ReaderEnds
    <2>2. Failed(g)
      BY <2>1, InvParts, FailPendingDoes
    <2> QED
      BY <2>1, <2>2, <1>21, InvParts, McpAssumption DEF TypeOK, IdsDiffer, Request, Failed, StreamFails, ReaderEnds, bridgeVars, procVars
  <1>22. ASSUME NEW g \in Clients, IdleClose(g) PROVE IdsDiffer'
    <2>1. g \in Clients /\ FailPending(g)
      BY <1>22, BornIsClient DEF IdleClose, Release
    <2>2. Failed(g)
      BY <2>1, InvParts, FailPendingDoes
    <2> QED
      BY <2>1, <2>2, <1>22, InvParts, McpAssumption DEF TypeOK, IdsDiffer, Request, Failed, IdleClose, Release, bridgeVars, procVars
  <1>23. ASSUME NEW g \in Clients, ChildDies(g) PROVE IdsDiffer'
    BY <1>23, InvParts DEF TypeOK, IdsDiffer, Request, ChildDies, bridgeVars, callerVars, procVars, rpcVars
  <1>24. ASSUME NEW g \in Clients, ChildExits(g) PROVE IdsDiffer'
    BY <1>24, InvParts DEF TypeOK, IdsDiffer, Request, ChildExits, bridgeVars, callerVars, procVars, rpcVars
  <1>25. CASE UNCHANGED vars
    BY <1>25, InvParts DEF TypeOK, IdsDiffer, Request, vars, bridgeVars, callerVars, procVars, rpcVars
  <1> QED
    BY <1>1, <1>2, <1>3, <1>4, <1>5, <1>6, <1>7, <1>8, <1>9, <1>10, <1>11, <1>12, <1>13, <1>14, <1>15, <1>16, <1>17, <1>18, <1>19, <1>20, <1>21, <1>22, <1>23, <1>24, <1>25 DEF Next, Connecting, Calling, Background

\* Every step leaves a waiting caller with a reader.
LEMMA WaiterIsWatchedNext ==
  ASSUME Inv, [Next]_vars
  PROVE  WaiterIsWatched'
  <1>1. ASSUME NEW c \in Callers, Ask(c) PROVE WaiterIsWatched'
    <2>1. CASE Usable /\ SendCall(c, current, asked + 1)
      <3>1. current \in Clients /\ (asked + 1) \in Asks /\ Register(c, current, (asked + 1), "call")
        BY <2>1, <1>1, InvParts, McpAssumption, UsableIsClient, AskOfWorker DEF TypeOK, Asks, SendCall, Ask
      <3>2. Made(c, current, (asked + 1), "call")
        BY <3>1, InvParts, RegisterMakes DEF Steps
      <3>3. on' = [on EXCEPT ![c] = current] /\ at' = [at EXCEPT ![c] = "drain"]
        BY <2>1 DEF SendCall
      <3>4. reader[current] = "reading"
        BY <2>1, <3>1, InvParts, UsableIsClient DEF ConnectedFits
      <3> QED
        BY <2>1, <3>1, <3>2, <3>3, <3>4, <1>1, InvParts, McpAssumption DEF TypeOK, WaiterIsWatched, Waiting, OwnRequest, HandshakeFits, IdsDiffer, Made, Ask, bridgeVars, procVars, rpcVars
    <2>2. CASE ~Usable /\ at' = [at EXCEPT ![c] = "lock"] /\ UNCHANGED <<on, req, fut, got, rpcVars>>
      BY <2>2, <1>1, InvParts, McpAssumption DEF TypeOK, WaiterIsWatched, Waiting, OwnRequest, HandshakeFits, IdsDiffer, Ask, bridgeVars, procVars, rpcVars
    <2> QED
      BY <2>1, <2>2, <1>1 DEF Ask
  <1>2. ASSUME NEW c \in Callers, Lock(c) PROVE WaiterIsWatched'
    <2>1. CASE Usable /\ SendCall(c, current, ask[c]) /\ UNCHANGED bridgeVars
      <3>1. current \in Clients /\ ask[c] \in Asks /\ Register(c, current, ask[c], "call")
        BY <2>1, <1>2, InvParts, McpAssumption, UsableIsClient, AskOfWorker DEF TypeOK, Asks, SendCall, Lock
      <3>2. Made(c, current, ask[c], "call")
        BY <3>1, InvParts, RegisterMakes DEF Steps
      <3>3. on' = [on EXCEPT ![c] = current] /\ at' = [at EXCEPT ![c] = "drain"]
        BY <2>1 DEF SendCall
      <3>4. reader[current] = "reading"
        BY <2>1, <3>1, InvParts, UsableIsClient DEF ConnectedFits
      <3> QED
        BY <2>1, <3>1, <3>2, <3>3, <3>4, <1>2, InvParts, McpAssumption DEF TypeOK, WaiterIsWatched, Waiting, OwnRequest, HandshakeFits, IdsDiffer, Made, Lock, bridgeVars, procVars, rpcVars
    <2>2. CASE ~Usable /\ BuildClient(c)
      BY <2>2, <1>2, InvParts, McpAssumption DEF TypeOK, WaiterIsWatched, Waiting, OwnRequest, HandshakeFits, IdsDiffer, Lock, BuildClient, Clients, LockHeld, Section, bridgeVars, procVars, rpcVars
    <2> QED
      BY <2>1, <2>2, <1>2 DEF Lock
  <1>3. ASSUME NEW c \in Callers, SpawnFails(c) PROVE WaiterIsWatched'
    BY <1>3, InvParts DEF TypeOK, WaiterIsWatched, Waiting, OwnRequest, ConnectedFits, LockHeld, Section, IdsDiffer, HandshakeFits, Registered, SpawnFails, Disconnected, Return, bridgeVars, callerVars, procVars, rpcVars
  <1>4. ASSUME NEW c \in Callers, Spawned(c) PROVE WaiterIsWatched'
    BY <1>4, InvParts DEF TypeOK, WaiterIsWatched, Waiting, OwnRequest, ConnectedFits, LockHeld, Section, IdsDiffer, HandshakeFits, Registered, Spawned, bridgeVars, callerVars, procVars, rpcVars
  <1>5. ASSUME NEW c \in Callers, Initialize(c) PROVE WaiterIsWatched'
    <2>1. on[c] \in Clients /\ ask[c] \in Asks /\ Register(c, on[c], ask[c], "initialize")
      BY <1>5, WorkingClient, AskOfWorker DEF Initialize
    <2>2. Made(c, on[c], ask[c], "initialize")
      BY <2>1, InvParts, RegisterMakes DEF Steps
    <2> QED
      BY <2>1, <2>2, <1>5, InvParts, McpAssumption DEF TypeOK, WaiterIsWatched, Waiting, OwnRequest, HandshakeFits, IdsDiffer, Made, Initialize, bridgeVars, procVars, rpcVars
  <1>6. ASSUME NEW c \in Callers, ListTools(c) PROVE WaiterIsWatched'
    <2>1. on[c] \in Clients /\ ask[c] \in Asks /\ Register(c, on[c], ask[c], "tools")
      BY <1>6, WorkingClient, AskOfWorker DEF ListTools
    <2>2. Made(c, on[c], ask[c], "tools")
      BY <2>1, InvParts, RegisterMakes DEF Steps
    <2> QED
      BY <2>1, <2>2, <1>6, InvParts, McpAssumption DEF TypeOK, WaiterIsWatched, Waiting, OwnRequest, HandshakeFits, IdsDiffer, Made, ListTools, bridgeVars, procVars, rpcVars
  <1>7. ASSUME NEW c \in Callers, ToolsListed(c) PROVE WaiterIsWatched'
    BY <1>7, InvParts DEF TypeOK, WaiterIsWatched, Waiting, OwnRequest, ConnectedFits, LockHeld, Section, IdsDiffer, HandshakeFits, Registered, ToolsListed, bridgeVars, callerVars, procVars, rpcVars
  <1>8. ASSUME NEW c \in Callers, Connected(c) PROVE WaiterIsWatched'
    <2>1. CASE connected[on[c]] /\ SendCall(c, on[c], ask[c]) /\ UNCHANGED ask
      <3>1. on[c] \in Clients /\ ask[c] \in Asks /\ Register(c, on[c], ask[c], "call")
        BY <2>1, <1>8, InvParts, McpAssumption, WorkingClient, AskOfWorker DEF TypeOK, Asks, SendCall, Connected
      <3>2. Made(c, on[c], ask[c], "call")
        BY <3>1, InvParts, RegisterMakes DEF Steps
      <3>3. on' = [on EXCEPT ![c] = on[c]] /\ at' = [at EXCEPT ![c] = "drain"]
        BY <2>1 DEF SendCall
      <3>4. reader[on[c]] = "reading"
        BY <2>1, <3>1, InvParts, UsableIsClient DEF ConnectedFits
      <3> QED
        BY <2>1, <3>1, <3>2, <3>3, <3>4, <1>8, InvParts, McpAssumption DEF TypeOK, WaiterIsWatched, Waiting, OwnRequest, HandshakeFits, IdsDiffer, Made, Connected, bridgeVars, procVars, rpcVars
    <2>2. CASE ~connected[on[c]] /\ Return(c) /\ UNCHANGED rpcVars
      BY <2>2, <1>8, InvParts, McpAssumption DEF TypeOK, WaiterIsWatched, Waiting, OwnRequest, HandshakeFits, IdsDiffer, Connected, Return, bridgeVars, procVars, rpcVars
    <2> QED
      BY <2>1, <2>2, <1>8 DEF Connected
  <1>9. ASSUME NEW c \in Callers, HandshakeFails(c) PROVE WaiterIsWatched'
    <2>1. on[c] \in Clients /\ FailPending(on[c])
      BY <1>9, WorkingClient DEF HandshakeFails, Release
    <2>2. Failed(on[c])
      BY <2>1, InvParts, FailPendingDoes
    <2> QED
      BY <2>1, <2>2, <1>9, InvParts, McpAssumption DEF TypeOK, WaiterIsWatched, Waiting, OwnRequest, LockHeld, Section, Failed, HandshakeFails, Release, bridgeVars, procVars
  <1>10. ASSUME NEW c \in Callers, ConnectTimeout(c) PROVE WaiterIsWatched'
    <2>1. on[c] \in Clients /\ FailPending(on[c])
      BY <1>10, WorkingClient DEF ConnectTimeout, Release
    <2>2. Failed(on[c])
      BY <2>1, InvParts, FailPendingDoes
    <2> QED
      BY <2>1, <2>2, <1>10, InvParts, McpAssumption DEF TypeOK, WaiterIsWatched, Waiting, OwnRequest, LockHeld, Section, Failed, ConnectTimeout, Release, bridgeVars, procVars
  <1>11. ASSUME NEW c \in Callers, ConnectTimeoutClosing(c) PROVE WaiterIsWatched'
    BY <1>11, InvParts DEF TypeOK, WaiterIsWatched, Waiting, OwnRequest, ConnectedFits, LockHeld, Section, IdsDiffer, HandshakeFits, Registered, ConnectTimeoutClosing, Disconnected, Return, bridgeVars, callerVars, procVars, rpcVars
  <1>12. ASSUME NEW c \in Callers, Reap(c) PROVE WaiterIsWatched'
    BY <1>12, InvParts DEF TypeOK, WaiterIsWatched, Waiting, OwnRequest, ConnectedFits, LockHeld, Section, IdsDiffer, HandshakeFits, Registered, Reap, Disconnected, Return, bridgeVars, callerVars, procVars, rpcVars
  <1>13. ASSUME NEW c \in Callers, Drained(c) PROVE WaiterIsWatched'
    BY <1>13, InvParts DEF TypeOK, WaiterIsWatched, Waiting, OwnRequest, ConnectedFits, LockHeld, Section, IdsDiffer, HandshakeFits, Registered, Drained, bridgeVars, callerVars, procVars, rpcVars
  <1>14. ASSUME NEW c \in Callers, WriteFails(c) PROVE WaiterIsWatched'
    BY <1>14, InvParts DEF TypeOK, WaiterIsWatched, Waiting, OwnRequest, ConnectedFits, LockHeld, Section, IdsDiffer, HandshakeFits, Registered, WriteFails, Finish, Return, bridgeVars, callerVars, procVars, rpcVars
  <1>15. ASSUME NEW c \in Callers, CallEnds(c) PROVE WaiterIsWatched'
    BY <1>15, InvParts DEF TypeOK, WaiterIsWatched, Waiting, OwnRequest, ConnectedFits, LockHeld, Section, IdsDiffer, HandshakeFits, Registered, CallEnds, Finish, Return, bridgeVars, callerVars, procVars, rpcVars
  <1>16. ASSUME NEW c \in Callers, CallTimeout(c) PROVE WaiterIsWatched'
    BY <1>16, InvParts DEF TypeOK, WaiterIsWatched, Waiting, OwnRequest, ConnectedFits, LockHeld, Section, IdsDiffer, HandshakeFits, Registered, CallTimeout, Finish, Return, bridgeVars, callerVars, procVars, rpcVars
  <1>17. ASSUME NEW c \in Callers, GiveUp(c) PROVE WaiterIsWatched'
    BY <1>17, InvParts DEF TypeOK, WaiterIsWatched, Waiting, OwnRequest, ConnectedFits, LockHeld, Section, IdsDiffer, HandshakeFits, Registered, GiveUp, Finish, Return, bridgeVars, callerVars, procVars, rpcVars
  <1>18. ASSUME NEW c \in Callers, CloseBridge(c) PROVE WaiterIsWatched'
    <2>1. current \in Clients /\ FailPending(current)
      BY <1>18, BornIsClient DEF CloseBridge, Release
    <2>2. Failed(current)
      BY <2>1, InvParts, FailPendingDoes
    <2> QED
      BY <2>1, <2>2, <1>18, InvParts, McpAssumption DEF TypeOK, WaiterIsWatched, Waiting, OwnRequest, LockHeld, Section, Failed, CloseBridge, Release, bridgeVars, procVars
  <1>19. ASSUME NEW g \in Clients, NEW r \in inbox[g], Answer(g, r) PROVE WaiterIsWatched'
    BY <1>19, InvParts DEF TypeOK, WaiterIsWatched, Waiting, OwnRequest, ConnectedFits, LockHeld, Section, IdsDiffer, HandshakeFits, Registered, Answer, bridgeVars, callerVars, procVars, rpcVars
  <1>20. ASSUME NEW g \in Clients, ReaderStops(g) PROVE WaiterIsWatched'
    <2>1. g \in Clients /\ FailPending(g)
      BY <1>20, BornIsClient DEF ReaderStops, ReaderEnds
    <2>2. Failed(g)
      BY <2>1, InvParts, FailPendingDoes
    <2> QED
      BY <2>1, <2>2, <1>20, InvParts, McpAssumption DEF TypeOK, WaiterIsWatched, Waiting, OwnRequest, LockHeld, Section, Failed, ReaderStops, ReaderEnds, bridgeVars, procVars
  <1>21. ASSUME NEW g \in Clients, StreamFails(g) PROVE WaiterIsWatched'
    <2>1. g \in Clients /\ FailPending(g)
      BY <1>21, BornIsClient DEF StreamFails, ReaderEnds
    <2>2. Failed(g)
      BY <2>1, InvParts, FailPendingDoes
    <2> QED
      BY <2>1, <2>2, <1>21, InvParts, McpAssumption DEF TypeOK, WaiterIsWatched, Waiting, OwnRequest, LockHeld, Section, Failed, StreamFails, ReaderEnds, bridgeVars, procVars
  <1>22. ASSUME NEW g \in Clients, IdleClose(g) PROVE WaiterIsWatched'
    <2>1. g \in Clients /\ FailPending(g)
      BY <1>22, BornIsClient DEF IdleClose, Release
    <2>2. Failed(g)
      BY <2>1, InvParts, FailPendingDoes
    <2> QED
      BY <2>1, <2>2, <1>22, InvParts, McpAssumption DEF TypeOK, WaiterIsWatched, Waiting, OwnRequest, LockHeld, Section, Failed, IdleClose, Release, bridgeVars, procVars
  <1>23. ASSUME NEW g \in Clients, ChildDies(g) PROVE WaiterIsWatched'
    BY <1>23, InvParts DEF TypeOK, WaiterIsWatched, Waiting, OwnRequest, ConnectedFits, LockHeld, Section, IdsDiffer, HandshakeFits, Registered, ChildDies, bridgeVars, callerVars, procVars, rpcVars
  <1>24. ASSUME NEW g \in Clients, ChildExits(g) PROVE WaiterIsWatched'
    BY <1>24, InvParts DEF TypeOK, WaiterIsWatched, Waiting, OwnRequest, ConnectedFits, LockHeld, Section, IdsDiffer, HandshakeFits, Registered, ChildExits, bridgeVars, callerVars, procVars, rpcVars
  <1>25. CASE UNCHANGED vars
    BY <1>25, InvParts DEF TypeOK, WaiterIsWatched, Waiting, OwnRequest, ConnectedFits, LockHeld, Section, IdsDiffer, HandshakeFits, Registered, vars, bridgeVars, callerVars, procVars, rpcVars
  <1> QED
    BY <1>1, <1>2, <1>3, <1>4, <1>5, <1>6, <1>7, <1>8, <1>9, <1>10, <1>11, <1>12, <1>13, <1>14, <1>15, <1>16, <1>17, <1>18, <1>19, <1>20, <1>21, <1>22, <1>23, <1>24, <1>25 DEF Next, Connecting, Calling, Background

\* Every step keeps an answer with its question.
LEMMA AnswersMatchNext ==
  ASSUME Inv, [Next]_vars
  PROVE  AnswersMatch'
  <1>1. ASSUME NEW c \in Callers, Ask(c) PROVE AnswersMatch'
    <2>1. CASE Usable /\ SendCall(c, current, asked + 1)
      <3>1. current \in Clients /\ (asked + 1) \in Asks /\ Register(c, current, (asked + 1), "call")
        BY <2>1, <1>1, InvParts, McpAssumption, UsableIsClient, AskOfWorker DEF TypeOK, Asks, SendCall, Ask
      <3>2. Made(c, current, (asked + 1), "call")
        BY <3>1, InvParts, RegisterMakes DEF Steps
      <3>3. on' = [on EXCEPT ![c] = current] /\ at' = [at EXCEPT ![c] = "drain"]
        BY <2>1 DEF SendCall
      <3>4. reader[current] = "reading"
        BY <2>1, <3>1, InvParts, UsableIsClient DEF ConnectedFits
      <3> QED
        BY <2>1, <3>1, <3>2, <3>3, <3>4, <1>1, InvParts, McpAssumption DEF TypeOK, AnswersMatch, OwnRequest, Made, Ask, bridgeVars, procVars, rpcVars
    <2>2. CASE ~Usable /\ at' = [at EXCEPT ![c] = "lock"] /\ UNCHANGED <<on, req, fut, got, rpcVars>>
      BY <2>2, <1>1, InvParts, McpAssumption DEF TypeOK, AnswersMatch, OwnRequest, Ask, bridgeVars, procVars, rpcVars
    <2> QED
      BY <2>1, <2>2, <1>1 DEF Ask
  <1>2. ASSUME NEW c \in Callers, Lock(c) PROVE AnswersMatch'
    <2>1. CASE Usable /\ SendCall(c, current, ask[c]) /\ UNCHANGED bridgeVars
      <3>1. current \in Clients /\ ask[c] \in Asks /\ Register(c, current, ask[c], "call")
        BY <2>1, <1>2, InvParts, McpAssumption, UsableIsClient, AskOfWorker DEF TypeOK, Asks, SendCall, Lock
      <3>2. Made(c, current, ask[c], "call")
        BY <3>1, InvParts, RegisterMakes DEF Steps
      <3>3. on' = [on EXCEPT ![c] = current] /\ at' = [at EXCEPT ![c] = "drain"]
        BY <2>1 DEF SendCall
      <3>4. reader[current] = "reading"
        BY <2>1, <3>1, InvParts, UsableIsClient DEF ConnectedFits
      <3> QED
        BY <2>1, <3>1, <3>2, <3>3, <3>4, <1>2, InvParts, McpAssumption DEF TypeOK, AnswersMatch, OwnRequest, Made, Lock, bridgeVars, procVars, rpcVars
    <2>2. CASE ~Usable /\ BuildClient(c)
      BY <2>2, <1>2, InvParts, McpAssumption DEF TypeOK, AnswersMatch, OwnRequest, Lock, BuildClient, Clients, LockHeld, Section, bridgeVars, procVars, rpcVars
    <2> QED
      BY <2>1, <2>2, <1>2 DEF Lock
  <1>3. ASSUME NEW c \in Callers, SpawnFails(c) PROVE AnswersMatch'
    BY <1>3, InvParts DEF TypeOK, AnswersMatch, OwnRequest, Waiting, WaiterIsWatched, IdsDiffer, Registered, SpawnFails, Disconnected, Return, bridgeVars, callerVars, procVars, rpcVars
  <1>4. ASSUME NEW c \in Callers, Spawned(c) PROVE AnswersMatch'
    BY <1>4, InvParts DEF TypeOK, AnswersMatch, OwnRequest, Waiting, WaiterIsWatched, IdsDiffer, Registered, Spawned, bridgeVars, callerVars, procVars, rpcVars
  <1>5. ASSUME NEW c \in Callers, Initialize(c) PROVE AnswersMatch'
    <2>1. on[c] \in Clients /\ ask[c] \in Asks /\ Register(c, on[c], ask[c], "initialize")
      BY <1>5, WorkingClient, AskOfWorker DEF Initialize
    <2>2. Made(c, on[c], ask[c], "initialize")
      BY <2>1, InvParts, RegisterMakes DEF Steps
    <2> QED
      BY <2>1, <2>2, <1>5, InvParts, McpAssumption DEF TypeOK, AnswersMatch, OwnRequest, Made, Initialize, bridgeVars, procVars, rpcVars
  <1>6. ASSUME NEW c \in Callers, ListTools(c) PROVE AnswersMatch'
    <2>1. on[c] \in Clients /\ ask[c] \in Asks /\ Register(c, on[c], ask[c], "tools")
      BY <1>6, WorkingClient, AskOfWorker DEF ListTools
    <2>2. Made(c, on[c], ask[c], "tools")
      BY <2>1, InvParts, RegisterMakes DEF Steps
    <2> QED
      BY <2>1, <2>2, <1>6, InvParts, McpAssumption DEF TypeOK, AnswersMatch, OwnRequest, Made, ListTools, bridgeVars, procVars, rpcVars
  <1>7. ASSUME NEW c \in Callers, ToolsListed(c) PROVE AnswersMatch'
    BY <1>7, InvParts DEF TypeOK, AnswersMatch, OwnRequest, Waiting, WaiterIsWatched, IdsDiffer, Registered, ToolsListed, bridgeVars, callerVars, procVars, rpcVars
  <1>8. ASSUME NEW c \in Callers, Connected(c) PROVE AnswersMatch'
    <2>1. CASE connected[on[c]] /\ SendCall(c, on[c], ask[c]) /\ UNCHANGED ask
      <3>1. on[c] \in Clients /\ ask[c] \in Asks /\ Register(c, on[c], ask[c], "call")
        BY <2>1, <1>8, InvParts, McpAssumption, WorkingClient, AskOfWorker DEF TypeOK, Asks, SendCall, Connected
      <3>2. Made(c, on[c], ask[c], "call")
        BY <3>1, InvParts, RegisterMakes DEF Steps
      <3>3. on' = [on EXCEPT ![c] = on[c]] /\ at' = [at EXCEPT ![c] = "drain"]
        BY <2>1 DEF SendCall
      <3>4. reader[on[c]] = "reading"
        BY <2>1, <3>1, InvParts, UsableIsClient DEF ConnectedFits
      <3> QED
        BY <2>1, <3>1, <3>2, <3>3, <3>4, <1>8, InvParts, McpAssumption DEF TypeOK, AnswersMatch, OwnRequest, Made, Connected, bridgeVars, procVars, rpcVars
    <2>2. CASE ~connected[on[c]] /\ Return(c) /\ UNCHANGED rpcVars
      BY <2>2, <1>8, InvParts, McpAssumption DEF TypeOK, AnswersMatch, OwnRequest, Connected, Return, bridgeVars, procVars, rpcVars
    <2> QED
      BY <2>1, <2>2, <1>8 DEF Connected
  <1>9. ASSUME NEW c \in Callers, HandshakeFails(c) PROVE AnswersMatch'
    <2>1. on[c] \in Clients /\ FailPending(on[c])
      BY <1>9, WorkingClient DEF HandshakeFails, Release
    <2>2. Failed(on[c])
      BY <2>1, InvParts, FailPendingDoes
    <2> QED
      BY <2>1, <2>2, <1>9, InvParts, McpAssumption DEF TypeOK, AnswersMatch, OwnRequest, Failed, HandshakeFails, Release, bridgeVars, procVars
  <1>10. ASSUME NEW c \in Callers, ConnectTimeout(c) PROVE AnswersMatch'
    <2>1. on[c] \in Clients /\ FailPending(on[c])
      BY <1>10, WorkingClient DEF ConnectTimeout, Release
    <2>2. Failed(on[c])
      BY <2>1, InvParts, FailPendingDoes
    <2> QED
      BY <2>1, <2>2, <1>10, InvParts, McpAssumption DEF TypeOK, AnswersMatch, OwnRequest, Failed, ConnectTimeout, Release, bridgeVars, procVars
  <1>11. ASSUME NEW c \in Callers, ConnectTimeoutClosing(c) PROVE AnswersMatch'
    BY <1>11, InvParts DEF TypeOK, AnswersMatch, OwnRequest, Waiting, WaiterIsWatched, IdsDiffer, Registered, ConnectTimeoutClosing, Disconnected, Return, bridgeVars, callerVars, procVars, rpcVars
  <1>12. ASSUME NEW c \in Callers, Reap(c) PROVE AnswersMatch'
    BY <1>12, InvParts DEF TypeOK, AnswersMatch, OwnRequest, Waiting, WaiterIsWatched, IdsDiffer, Registered, Reap, Disconnected, Return, bridgeVars, callerVars, procVars, rpcVars
  <1>13. ASSUME NEW c \in Callers, Drained(c) PROVE AnswersMatch'
    BY <1>13, InvParts DEF TypeOK, AnswersMatch, OwnRequest, Waiting, WaiterIsWatched, IdsDiffer, Registered, Drained, bridgeVars, callerVars, procVars, rpcVars
  <1>14. ASSUME NEW c \in Callers, WriteFails(c) PROVE AnswersMatch'
    BY <1>14, InvParts DEF TypeOK, AnswersMatch, OwnRequest, Waiting, WaiterIsWatched, IdsDiffer, Registered, WriteFails, Finish, Return, bridgeVars, callerVars, procVars, rpcVars
  <1>15. ASSUME NEW c \in Callers, CallEnds(c) PROVE AnswersMatch'
    BY <1>15, InvParts DEF TypeOK, AnswersMatch, OwnRequest, Waiting, WaiterIsWatched, IdsDiffer, Registered, CallEnds, Finish, Return, bridgeVars, callerVars, procVars, rpcVars
  <1>16. ASSUME NEW c \in Callers, CallTimeout(c) PROVE AnswersMatch'
    BY <1>16, InvParts DEF TypeOK, AnswersMatch, OwnRequest, Waiting, WaiterIsWatched, IdsDiffer, Registered, CallTimeout, Finish, Return, bridgeVars, callerVars, procVars, rpcVars
  <1>17. ASSUME NEW c \in Callers, GiveUp(c) PROVE AnswersMatch'
    BY <1>17, InvParts DEF TypeOK, AnswersMatch, OwnRequest, Waiting, WaiterIsWatched, IdsDiffer, Registered, GiveUp, Finish, Return, bridgeVars, callerVars, procVars, rpcVars
  <1>18. ASSUME NEW c \in Callers, CloseBridge(c) PROVE AnswersMatch'
    <2>1. current \in Clients /\ FailPending(current)
      BY <1>18, BornIsClient DEF CloseBridge, Release
    <2>2. Failed(current)
      BY <2>1, InvParts, FailPendingDoes
    <2> QED
      BY <2>1, <2>2, <1>18, InvParts, McpAssumption DEF TypeOK, AnswersMatch, OwnRequest, Failed, CloseBridge, Release, bridgeVars, procVars
  <1>19. ASSUME NEW g \in Clients, NEW r \in inbox[g], Answer(g, r) PROVE AnswersMatch'
    BY <1>19, InvParts DEF TypeOK, AnswersMatch, OwnRequest, Waiting, WaiterIsWatched, IdsDiffer, Registered, Answer, bridgeVars, callerVars, procVars, rpcVars
  <1>20. ASSUME NEW g \in Clients, ReaderStops(g) PROVE AnswersMatch'
    <2>1. g \in Clients /\ FailPending(g)
      BY <1>20, BornIsClient DEF ReaderStops, ReaderEnds
    <2>2. Failed(g)
      BY <2>1, InvParts, FailPendingDoes
    <2> QED
      BY <2>1, <2>2, <1>20, InvParts, McpAssumption DEF TypeOK, AnswersMatch, OwnRequest, Failed, ReaderStops, ReaderEnds, bridgeVars, procVars
  <1>21. ASSUME NEW g \in Clients, StreamFails(g) PROVE AnswersMatch'
    <2>1. g \in Clients /\ FailPending(g)
      BY <1>21, BornIsClient DEF StreamFails, ReaderEnds
    <2>2. Failed(g)
      BY <2>1, InvParts, FailPendingDoes
    <2> QED
      BY <2>1, <2>2, <1>21, InvParts, McpAssumption DEF TypeOK, AnswersMatch, OwnRequest, Failed, StreamFails, ReaderEnds, bridgeVars, procVars
  <1>22. ASSUME NEW g \in Clients, IdleClose(g) PROVE AnswersMatch'
    <2>1. g \in Clients /\ FailPending(g)
      BY <1>22, BornIsClient DEF IdleClose, Release
    <2>2. Failed(g)
      BY <2>1, InvParts, FailPendingDoes
    <2> QED
      BY <2>1, <2>2, <1>22, InvParts, McpAssumption DEF TypeOK, AnswersMatch, OwnRequest, Failed, IdleClose, Release, bridgeVars, procVars
  <1>23. ASSUME NEW g \in Clients, ChildDies(g) PROVE AnswersMatch'
    BY <1>23, InvParts DEF TypeOK, AnswersMatch, OwnRequest, Waiting, WaiterIsWatched, IdsDiffer, Registered, ChildDies, bridgeVars, callerVars, procVars, rpcVars
  <1>24. ASSUME NEW g \in Clients, ChildExits(g) PROVE AnswersMatch'
    BY <1>24, InvParts DEF TypeOK, AnswersMatch, OwnRequest, Waiting, WaiterIsWatched, IdsDiffer, Registered, ChildExits, bridgeVars, callerVars, procVars, rpcVars
  <1>25. CASE UNCHANGED vars
    BY <1>25, InvParts DEF TypeOK, AnswersMatch, OwnRequest, Waiting, WaiterIsWatched, IdsDiffer, Registered, vars, bridgeVars, callerVars, procVars, rpcVars
  <1> QED
    BY <1>1, <1>2, <1>3, <1>4, <1>5, <1>6, <1>7, <1>8, <1>9, <1>10, <1>11, <1>12, <1>13, <1>14, <1>15, <1>16, <1>17, <1>18, <1>19, <1>20, <1>21, <1>22, <1>23, <1>24, <1>25 DEF Next, Connecting, Calling, Background

-----------------------------------------------------------------------------
(* The theorems.                                                           *)

LEMMA InitInv == Init => Inv
  <1> SUFFICES ASSUME Init PROVE Inv
    OBVIOUS
  <1>1. TypeOK
    <2>1. 0 \in 0..MaxAsks /\ 0 \in 0..MaxClients /\ 0 \in 0..MaxFaults
      BY McpAssumption
    <2> QED
      BY <2>1 DEF Init, TypeOK, Places
  <1>2. LockHeld /\ ConnectedFits /\ HandshakeFits /\ OwnRequest
    BY McpAssumption DEF Init, LockHeld, Section, ConnectedFits, Apart, HandshakeFits, OwnRequest
  <1>3. IdsDiffer /\ WaiterIsWatched /\ AnswersMatch
    BY DEF Init, IdsDiffer, WaiterIsWatched, Waiting, AnswersMatch
  <1> QED
    BY <1>1, <1>2, <1>3 DEF Inv

\* The invariant all of the following rest on: the lock's section, the one
\* connection, the order of the handshake and the reader, the ids.
THEOREM McpInvariant == Spec => []Inv
  <1>1. Inv /\ [Next]_vars => Inv'
    BY TypeNext, LockHeldNext, ConnectedFitsNext, HandshakeFitsNext, OwnRequestNext,
       IdsDifferNext, WaiterIsWatchedNext, AnswersMatchNext DEF Inv
  <1> QED
    BY InitInv, <1>1, PTL DEF Spec

\* Every variable of the bridge, its callers and its clients keeps its type.
THEOREM McpTypeCorrect == Spec => []TypeOK
  <1>1. Inv => TypeOK
    BY DEF Inv
  <1> QED
    BY McpInvariant, <1>1, PTL

\* For any number of threads, questions, clients and faults, an answer reaches
\* the question it answers: _resolve_pending may match ids and nothing else.
THEOREM AnswersAreMatched == Spec => []AnswersMatch
  <1>1. Inv => AnswersMatch
    BY DEF Inv
  <1> QED
    BY McpInvariant, <1>1, PTL

\* No caller waits on a connection whose reader has run its finally clause.
THEOREM WaitersAreWatched == Spec => []WaiterIsWatched
  <1>1. Inv => WaiterIsWatched
    BY DEF Inv
  <1> QED
    BY McpInvariant, <1>1, PTL

\* APBridge.connect's lock and its second look keep one live connection.
THEOREM OneConnectionOnly == Spec => []OneConnection
  <1>1. Inv => OneConnection
    BY DEF Inv, ConnectedFits, OneConnection
  <1> QED
    BY McpInvariant, <1>1, PTL
=============================================================================
