------------------------ MODULE BuildEpochs_proofs -------------------------
(***************************************************************************)
(* What holds of the background build for any number of request threads,   *)
(* builds, messages and faults.                                            *)
(***************************************************************************)
EXTENDS BuildEpochs, SequenceTheorems, TLAPS

-----------------------------------------------------------------------------
(* Types                                                                   *)

\* Every script a child may follow is a sequence of messages.
LEMMA ScriptsType ==
    /\ Scripts \subseteq Seq(Messages)
    /\ BaselineScript \in Seq(Messages)
    /\ AstScript \in Seq(Messages)
    /\ FinalScript \in Seq(Messages)
    /\ BuildErrorScript \in Seq(Messages)
    /\ WorkerErrorScript \in Seq(Messages)
    /\ \A status \in Keys : Done(status) \in Messages
    /\ NoMessage \in Messages
<1> USE DEF Message, Messages, Parts, NoPhase, Keys, Phases, Stages
<1>1. \A phase \in Keys : Progress(phase) \in Messages
  BY DEF Progress
<1>2. \A phase \in Keys, seq \in Nat : Ready(phase, seq) \in Messages
  BY DEF Ready
<1>3. \A part \in Parts, phase \in Keys : Delta(part, phase) \in Messages
  BY DEF Delta
<1>4. GraphFile \in Messages /\ NoMessage \in Messages
  BY DEF GraphFile, NoMessage
<1>5. \A status \in Keys : Done(status) \in Messages
  BY DEF Done
<1>6. [Progress("baseline") EXCEPT !.parts = {"baseline"}] \in Messages
  BY DEF Progress
<1> HIDE DEF Message, Messages
<1>7. BaselineScript \in Seq(Messages)
  <2>1. /\ Progress("starting") \in Messages
        /\ Delta("skeleton", NoPhase) \in Messages
        /\ Progress("skeleton") \in Messages
        /\ Ready("L0", 1) \in Messages
        /\ Ready("L3", 2) \in Messages
        /\ Progress("baseline_ready") \in Messages
    BY <1>1, <1>2, <1>3
  <2>2. QED
    BY <1>6, <2>1 DEF BaselineScript
<1>8. AstScript \in Seq(Messages)
  <2>1. Delta("ast", "L6") \in Messages /\ Ready("L6", 3) \in Messages
    BY <1>2, <1>3
  <2>2. QED
    BY <2>1 DEF AstScript
<1>9. /\ FinalScript \in Seq(Messages)
      /\ BuildErrorScript \in Seq(Messages)
      /\ WorkerErrorScript \in Seq(Messages)
  <2>1. /\ Progress("full_ready") \in Messages
        /\ Progress("error") \in Messages
        /\ Done("ok") \in Messages
        /\ Done("error") \in Messages
    BY <1>1, <1>5
  <2>2. QED
    BY <1>4, <2>1 DEF FinalScript, BuildErrorScript, WorkerErrorScript
<1>10. ASSUME NEW ast \in Bridge PROVE Script(ast) \in Seq(Messages)
  <2>1. (IF ast THEN AstScript ELSE <<>>) \in Seq(Messages)
    BY <1>8
  <2>2. QED
    BY <1>7, <1>9, <2>1, ConcatProperties DEF Script
<1>11. QED
  BY <1>4, <1>5, <1>7, <1>8, <1>9, <1>10 DEF Scripts

LEMMA InitType == Init => TypeOK
<1> SUFFICES ASSUME Init PROVE TypeOK
  OBVIOUS
<1> USE DEF Init
<1>1. RequestType
  BY BuildAssumption DEF RequestType, Idle, Places
<1>2. ChildType
  <2>1. <<>> \in Seq(Messages)
    OBVIOUS
  <2>2. NotStarted \in [todo : Seq(Messages), built : SUBSET Parts]
    BY <2>1 DEF NotStarted
  <2>3. QED
    BY <2>1, <2>2 DEF ChildType
<1>3. ServerType
  <2>1. drain \in [Epochs -> [at : DrainPlaces, msg : Messages]]
    BY ScriptsType DEF DrainPlaces
  <2>2. prog \in [phase : Keys, seq : Nat, flags : SUBSET Keys]
    BY DEF Keys, Stages
  <2>3. serverEpoch \in 0..MaxEpoch
    BY BuildAssumption
  <2>4. QED
    BY <2>1, <2>2, <2>3 DEF ServerType
<1>4. QED
  BY <1>1, <1>2, <1>3 DEF TypeOK

\* A child that dies: what is left of its queue is a prefix of it.
LEMMA DieType ==
    ASSUME ChildType, NEW e \in Epochs, Die(e)
    PROVE  ChildType'
<1>1. PICK n \in 0..Len(queue[e]) : queue' = [queue EXCEPT ![e] = SubSeq(@, 1, n)]
  BY DEF Die
<1>2. SubSeq(queue[e], 1, n) \in Seq(Messages)
  BY SubSeqProperties DEF ChildType
<1>3. queue' \in [Epochs -> Seq(Messages)]
  BY <1>1, <1>2 DEF ChildType
<1>4. child' \in [Epochs -> [todo : Seq(Messages), built : SUBSET Parts]]
  <2>1. <<>> \in Seq(Messages)
    OBVIOUS
  <2>2. QED
    BY <2>1 DEF Die, ChildType
<1>5. QED
  BY <1>3, <1>4 DEF Die, ChildType

\* The steps that only move a request or the roster.
LEMMA AnswerType ==
    ASSUME TypeOK, NEW r \in Requests,
           \/ RosterChanges \/ ReadRoster(r) \/ Ensure(r)
           \/ LookAtProc(r) \/ ProbeProc(r) \/ AnswerError(r)
           \/ ServeCurrent(r) \/ Rebuild(r)
           \/ PickVictim(r) \/ Reap(r) \/ Refuse(r) \/ NewEpoch(r)
    PROVE  TypeOK'
<1> USE DEF RequestType, At, Goto, Idle, Places
<1>0. RequestType
  BY DEF TypeOK
<1>1. CASE RosterChanges
  BY <1>0, <1>1 DEF RosterChanges, TypeOK, ChildType, ServerType, childVars, serverVars
<1>2. ASSUME RequestType', OnlyRequest PROVE TypeOK'
  BY <1>2 DEF OnlyRequest, TypeOK, ChildType, ServerType, childVars, serverVars
<1>3. CASE ReadRoster(r)
  <2>1. (roster # fp) \in BOOLEAN
    OBVIOUS
  <2>2. req' \in [Requests -> [at : Places, seen : Nat, changed : BOOLEAN, victim : Nat]]
    BY <1>0, <1>3, <2>1 DEF ReadRoster
  <2>3. QED
    BY <1>0, <1>2, <1>3, <2>2 DEF ReadRoster
<1>4. CASE Ensure(r)
  BY <1>0, <1>2, <1>4 DEF Ensure
<1>5. CASE LookAtProc(r)
  BY <1>0, <1>2, <1>5 DEF LookAtProc
<1>6. CASE ProbeProc(r)
  BY <1>0, <1>2, <1>6 DEF ProbeProc
<1>7. CASE AnswerError(r)
  BY <1>0, <1>2, <1>7 DEF AnswerError
<1>8. CASE ServeCurrent(r)
  BY <1>0, <1>2, <1>8 DEF ServeCurrent
<1>9. CASE Rebuild(r)
  BY <1>0, <1>2, <1>9 DEF Rebuild
<1>10. CASE PickVictim(r)
  <2>1. proc \in Nat
    BY <1>0, BuildAssumption
  <2>2. RequestType'
    <3>1. CASE proc \in alive
      BY <1>0, <1>10, <2>1, <3>1 DEF PickVictim
    <3>2. CASE proc \notin alive
      BY <1>0, <1>10, <3>2, BuildAssumption DEF PickVictim
    <3>3. QED
      BY <3>1, <3>2
  <2>3. QED
    BY <1>2, <1>10, <2>2 DEF PickVictim
<1>11. CASE Reap(r)
  <2>1. proc' \in 0..MaxEpoch
    BY <1>0, <1>11, BuildAssumption DEF Reap
  <2>2. RequestType'
    BY <1>0, <1>11, <2>1 DEF Reap
  <2>3. QED
    BY <1>2, <1>11, <2>2 DEF Reap
<1>12. CASE Refuse(r)
  <2>1. RequestType'
    BY <1>0, <1>12 DEF Refuse
  <2>2. QED
    BY <1>2, <1>12, <2>1 DEF Refuse
<1>13. CASE NewEpoch(r)
  BY <1>0, <1>2, <1>13, BuildAssumption DEF NewEpoch
<1>14. QED
  BY <1>1, <1>3, <1>4, <1>5, <1>6, <1>7, <1>8, <1>9, <1>10, <1>11, <1>12, <1>13

\* The steps of a request that reach the child or the server's state.
LEMMA StartType ==
    ASSUME TypeOK, NEW r \in Requests,
           Terminate(r) \/ BeginCache(r) \/ BeginProgress(r) \/ Spawn(r)
    PROVE  TypeOK'
<1> USE DEF TypeOK, At, Goto
<1>1. CASE Terminate(r)
  <2>1. RequestType'
    BY <1>1 DEF Terminate, RequestType, Places
  <2>2. ChildType'
    <3>1. CASE req[r].victim \in alive
      BY <1>1, <3>1, DieType DEF Terminate, ChildType
    <3>2. CASE req[r].victim \notin alive
      BY <1>1, <3>2 DEF Terminate, ChildType, childVars
    <3>3. QED
      BY <3>1, <3>2
  <2>3. QED
    BY <1>1, <2>1, <2>2 DEF Terminate, ServerType, serverVars
<1>2. CASE BeginCache(r)
  <2>1. RequestType'
    BY <1>2 DEF BeginCache, RequestType, Places
  <2>2. ServerType'
    BY <1>2 DEF BeginCache, ServerType, RequestType
  <2>3. QED
    BY <1>2, <2>1, <2>2 DEF BeginCache, ChildType, childVars
<1>3. CASE BeginProgress(r)
  <2>1. RequestType'
    BY <1>3 DEF BeginProgress, RequestType, Places
  <2>2. prog' \in [phase : Keys, seq : Nat, flags : SUBSET Keys]
    BY <1>3 DEF BeginProgress, Keys, Stages
  <2>3. ServerType'
    BY <1>3, <2>2 DEF BeginProgress, ServerType
  <2>4. QED
    BY <1>3, <2>1, <2>3 DEF BeginProgress, ChildType, childVars
<1>4. CASE Spawn(r)
  <2>1. RequestType'
    BY <1>4 DEF Spawn, RequestType, Places, Idle
  <2>2. drain' \in [Epochs -> [at : DrainPlaces, msg : Messages]]
    BY <1>4 DEF Spawn, ServerType, DrainPlaces
  <2>3. PICK script \in Seq(Messages) :
           child' = [child EXCEPT ![epoch] =
                       [todo |-> script, built |-> {}]]
    BY <1>4, ScriptsType DEF Spawn
  <2>4. child' \in [Epochs -> [todo : Seq(Messages), built : SUBSET Parts]]
    BY <2>3 DEF ChildType, RequestType
  <2>5. QED
    BY <1>4, <2>1, <2>2, <2>4 DEF Spawn, ChildType, ServerType, serverVars
<1>5. QED
  BY <1>1, <1>2, <1>3, <1>4
\* The child's messages keep their types, the graph file's included.
LEMMA ChildStepType ==
    ASSUME TypeOK, NEW e \in Epochs, Build(e) \/ ChildFault(e)
    PROVE  TypeOK'
<1> USE DEF TypeOK
<1>1. ASSUME ChildType', OnlyChild, faults' \subseteq FaultKinds \X Epochs PROVE TypeOK'
  BY <1>1 DEF OnlyChild, RequestType, ServerType, requestVars, serverVars
<1>2. \A kind \in FaultKinds : Fault(kind, e) => faults' \subseteq FaultKinds \X Epochs
  BY DEF Fault
<1>3. CASE Send(e)
  <2> DEFINE m == Head(child[e].todo)
             built == child[e].built \cup m.parts
             sent == IF m.kind = "graph_file" THEN [m EXCEPT !.parts = built] ELSE m
  <2>1. m \in Messages /\ Tail(child[e].todo) \in Seq(Messages)
    BY <1>3 DEF Send, ChildType
  <2>2. built \in SUBSET Parts
    BY <2>1 DEF ChildType, Messages
  <2>3. sent \in Messages
    BY <2>1, <2>2 DEF Messages
  <2>4. queue' = [queue EXCEPT ![e] = Append(@, sent)]
    BY <1>3 DEF Send
  <2>5. queue' \in [Epochs -> Seq(Messages)]
    BY <2>3, <2>4 DEF ChildType
  <2>6. child' = [child EXCEPT ![e].todo = Tail(@), ![e].built = built]
    BY <1>3 DEF Send
  <2>7. child' \in [Epochs -> [todo : Seq(Messages), built : SUBSET Parts]]
    BY <2>1, <2>2, <2>6 DEF ChildType
  <2>8. QED
    BY <1>1, <1>3, <2>5, <2>7 DEF Send, ChildType
<1>4. CASE BuildError(e)
  BY <1>1, <1>2, <1>4, ScriptsType DEF BuildError, ChildType, FaultKinds
<1>5. CASE WorkerError(e)
  BY <1>1, <1>2, <1>5, ScriptsType DEF WorkerError, ChildType, FaultKinds
<1>6. CASE Exit(e)
  BY <1>1, <1>6 DEF Exit, ChildType
<1>7. CASE Crash(e)
  BY <1>1, <1>2, <1>7, DieType DEF Crash, FaultKinds
<1>8. QED
  BY <1>3, <1>4, <1>5, <1>6, <1>7 DEF Build, ChildFault

\* Applying a message keeps the server's state well typed.
LEMMA DrainStepType ==
    ASSUME TypeOK, NEW e \in Epochs, Drain(e) \/ DrainFault(e)
    PROVE  TypeOK'
<1> DEFINE DrainTyped == drain' \in [Epochs -> [at : DrainPlaces, msg : Messages]]
           Progresses == [phase : Keys, seq : Nat, flags : SUBSET Keys]
<1> USE DEF TypeOK
<1>0. drain[e].msg \in Messages /\ prog \in Progresses
  BY DEF ServerType
<1>1. ASSUME ServerType', OnlyDrain, late' \in [Epochs -> Nat],
             queue' \in [Epochs -> Seq(Messages)],
             faults' \subseteq FaultKinds \X Epochs
      PROVE  TypeOK'
  BY <1>1 DEF OnlyDrain, RequestType, ChildType, requestVars, childVars
<1>2. \A kind \in FaultKinds : Fault(kind, e) => faults' \subseteq FaultKinds \X Epochs
  BY DEF Fault
<1>3. ASSUME DrainTyped, UNCHANGED <<queue, serverVars, late, faults>>, OnlyDrain
      PROVE  TypeOK'
  BY <1>1, <1>3 DEF ServerType, ChildType, serverVars
<1>4. CASE Get(e)
  <2>1. Head(queue[e]) \in Messages /\ Tail(queue[e]) \in Seq(Messages)
    BY <1>4 DEF Get, ChildType
  <2>2. DrainTyped
    BY <1>4, <2>1 DEF Get, ServerType, DrainPlaces
  <2>3. queue' \in [Epochs -> Seq(Messages)]
    BY <1>4, <2>1 DEF Get, ChildType
  <2>4. QED
    BY <1>1, <1>4, <2>2, <2>3 DEF Get, ServerType, serverVars
<1>5. CASE Timeout(e)
  BY <1>3, <1>5 DEF Timeout, ServerType, DrainPlaces
<1>6. CASE Watchdog(e)
  <2>1. Done("killed") \in Messages /\ NoMessage \in Messages
    BY ScriptsType DEF Keys, Stages
  <2>2. QED
    BY <1>3, <1>6, <2>1 DEF Watchdog, ServerType, DrainPlaces
<1>7. CASE CheckEpoch(e)
  BY <1>3, <1>7 DEF CheckEpoch, AfterMessage, ServerType, DrainPlaces
<1>8. CASE GetError(e)
  <2>1. DrainTyped
    BY <1>8, ScriptsType DEF GetError, ServerType, DrainPlaces
  <2>2. QED
    BY <1>1, <1>2, <1>8, <2>1 DEF GetError, ServerType, ChildType, serverVars, FaultKinds
<1>9. CASE FileError(e)
  <2>1. DrainTyped
    BY <1>9 DEF FileError, ServerType, DrainPlaces
  <2>2. QED
    BY <1>1, <1>2, <1>9, <2>1 DEF FileError, ServerType, ChildType, serverVars, FaultKinds
<1>10. ASSUME Applied(e), serverEpoch' = serverEpoch, cache' \subseteq Nodes,
              payload' \subseteq Nodes, ready' \subseteq Keys, prog' \in Progresses
       PROVE  TypeOK'
  <2>1. DrainTyped
    BY <1>10 DEF Applied, AfterMessage, ServerType, DrainPlaces
  <2>2. late' \in [Epochs -> Nat]
    BY <1>10 DEF Applied
  <2>3. ServerType'
    BY <1>10, <2>1 DEF ServerType
  <2>4. QED
    BY <1>1, <1>10, <2>2, <2>3 DEF Applied, ChildType
<1>11. CASE ApplyProgress(e)
  <2> DEFINE key == drain[e].msg.key
             flags == CASE key = "starting" -> {}
                        [] key \in {"skeleton", "baseline_ready"} ->
                             prog.flags \cup {"baseline_ready"}
                        [] key = "full_ready" -> prog.flags \cup {"full_ready"}
                        [] OTHER -> prog.flags
  <2>1. key \in Keys /\ prog.flags \in SUBSET Keys
    BY <1>0 DEF Messages
  <2>2. flags \in SUBSET Keys
    BY <2>1 DEF Keys, Stages
  <2>3. prog' = [prog EXCEPT !.phase = key, !.flags = flags]
    BY <1>11 DEF ApplyProgress
  <2>4. prog' \in Progresses
    BY <1>0, <2>1, <2>2, <2>3
  <2>5. QED
    BY <1>10, <1>11, <2>4 DEF ApplyProgress, ServerType
<1>12. CASE ApplyDelta(e)
  <2> DEFINE fresh == {[part |-> p, epoch |-> e] : p \in drain[e].msg.parts \ {n.part : n \in cache}}
  <2>1. fresh \subseteq Nodes
    BY <1>0 DEF Messages, Nodes
  <2>2. cache' \subseteq Nodes /\ payload' \subseteq Nodes
    BY <1>12, <2>1 DEF ApplyDelta, ServerType
  <2>3. QED
    BY <1>0, <1>10, <1>12, <2>2 DEF ApplyDelta, ServerType
<1>13. CASE ApplyReady(e)
  <2>1. DrainTyped
    BY <1>13 DEF ApplyReady, ServerType, DrainPlaces
  <2>2. ready' \subseteq Keys
    BY <1>0, <1>13 DEF ApplyReady, ServerType, Messages
  <2>3. QED
    BY <1>1, <1>13, <2>1, <2>2 DEF ApplyReady, ServerType, ChildType
<1>14. CASE PublishReady(e)
  <2>1. prog' \in Progresses
    BY <1>0, <1>14 DEF PublishReady, Messages
  <2>2. QED
    BY <1>10, <1>14, <2>1 DEF PublishReady, ServerType
<1>15. CASE ApplyGraph(e)
  <2>1. cache' \subseteq Nodes
    BY <1>0, <1>15 DEF ApplyGraph, Messages, Nodes
  <2>2. QED
    BY <1>0, <1>10, <1>15, <2>1 DEF ApplyGraph, ServerType
<1>16. CASE ApplyDone(e)
  <2>1. prog' \in Progresses
    BY <1>0, <1>16 DEF ApplyDone, Messages, Keys, Stages
  <2>2. QED
    BY <1>10, <1>16, <2>1 DEF ApplyDone, ServerType
<1>17. CASE Clear(e)
  <2>1. DrainTyped
    BY <1>17 DEF Clear, ServerType, DrainPlaces
  <2>2. RequestType'
    BY <1>17, BuildAssumption DEF Clear, RequestType
  <2>3. QED
    BY <1>17, <2>1, <2>2 DEF Clear, ChildType, ServerType, childVars, serverVars
<1>18. QED
  BY <1>4, <1>5, <1>6, <1>7, <1>8, <1>9, <1>11, <1>12, <1>13, <1>14, <1>15, <1>16,
     <1>17 DEF Drain, DrainFault, Apply

\* The state keeps its types under every step of the threads, the child and
\* the faults.
THEOREM BuildTypeCorrect == Spec => []TypeOK
<1>1. TypeOK /\ [Next]_vars => TypeOK'
  <2> SUFFICES ASSUME TypeOK, [Next]_vars PROVE TypeOK'
    OBVIOUS
  <2>1. CASE UNCHANGED vars
    BY <2>1 DEF TypeOK, RequestType, ChildType, ServerType, vars, requestVars,
                childVars, serverVars
  <2>2. CASE RosterChanges
    BY <2>2 DEF RosterChanges, TypeOK, RequestType, ChildType, ServerType,
                childVars, serverVars
  <2>3. ASSUME NEW r \in Requests, Request(r) PROVE TypeOK'
    BY <2>3, AnswerType, StartType DEF Request, Answer
  <2>4. ASSUME NEW e \in Epochs, Build(e) \/ ChildFault(e) PROVE TypeOK'
    BY <2>4, ChildStepType
  <2>5. ASSUME NEW e \in Epochs, Drain(e) \/ DrainFault(e) PROVE TypeOK'
    BY <2>5, DrainStepType
  <2>6. QED
    BY <2>1, <2>2, <2>3, <2>4, <2>5 DEF Next
<1>2. QED
  BY InitType, <1>1, PTL DEF Spec

-----------------------------------------------------------------------------
(* The epoch gate                                                          *)

\* The thread inside start_build is the one that holds _proc_lock.
Starting == {"begin_cache", "begin_progress", "spawn"}
OneStarter == \A r \in Requests : req[r].at \in Starting => lock = r

\* The server's epoch lags behind only between the bump and the reset.
EpochsAgree ==
    /\ \A r \in Requests : req[r].at = "begin_cache" => serverEpoch < epoch
    /\ (\A r \in Requests : req[r].at # "begin_cache") => serverEpoch = epoch

\* A drain belongs to an epoch that has begun.
DrainsHaveBegun == \A e \in Epochs : drain[e].at # "none" => e <= serverEpoch

\* A drain that was late is retired, and holds no message past the check.
PastTheGate == {"apply", "publish"}
Gate ==
    \A e \in Epochs :
        /\ late[e] <= 1
        /\ late[e] # 0 => e < serverEpoch /\ drain[e].at \notin PastTheGate

GateInv == OneStarter /\ EpochsAgree /\ DrainsHaveBegun /\ Gate

LEMMA GateInit == Init => GateInv
BY DEF Init, Idle, GateInv, OneStarter, EpochsAgree, DrainsHaveBegun, Gate, Starting,
       PastTheGate

\* What the invariant is about.
gateVars == <<req, lock, epoch, serverEpoch, drain, late>>

LEMMA GateStutter == GateInv /\ UNCHANGED gateVars => GateInv'
BY DEF gateVars, GateInv, OneStarter, EpochsAgree, DrainsHaveBegun, Gate

\* A request that moves outside start_build.
LEMMA GateRequest ==
    ASSUME TypeOK, GateInv, NEW r \in Requests,
           req[r].at \notin Starting, req'[r].at \notin Starting,
           \A s \in Requests \ {r} : req'[s] = req[s],
           UNCHANGED <<lock, epoch, serverEpoch, drain, late>>
    PROVE  GateInv'
<1> USE DEF GateInv, Starting
<1>1. OneStarter'
  BY DEF OneStarter
<1>2. EpochsAgree'
  BY DEF EpochsAgree
<1>3. DrainsHaveBegun' /\ Gate'
  BY DEF DrainsHaveBegun, Gate
<1>4. QED
  BY <1>1, <1>2, <1>3

LEMMA GateAnswer ==
    ASSUME TypeOK, GateInv, NEW r \in Requests,
           \/ ReadRoster(r) \/ Ensure(r)
           \/ LookAtProc(r) \/ ProbeProc(r) \/ AnswerError(r)
           \/ ServeCurrent(r) \/ Rebuild(r)
           \/ PickVictim(r) \/ Terminate(r) \/ Reap(r) \/ Refuse(r)
    PROVE  GateInv'
<1> DEFINE Moved == /\ req[r].at \notin Starting
                    /\ req'[r].at \notin Starting
                    /\ \A s \in Requests \ {r} : req'[s] = req[s]
           Rest == UNCHANGED <<lock, epoch, serverEpoch, drain, late>>
<1> USE DEF At, Goto, Starting, Idle
<1>0. req \in [Requests -> [at : Places, seen : Nat, changed : BOOLEAN, victim : Nat]]
  BY DEF TypeOK, RequestType
<1>1. CASE ReadRoster(r)
  <2>1. Moved
    BY <1>0, <1>1 DEF ReadRoster
  <2>2. QED
    BY <1>1, <2>1, GateRequest DEF ReadRoster, OnlyRequest, serverVars
<1>2. CASE Ensure(r)
  <2>1. Moved
    BY <1>0, <1>2 DEF Ensure
  <2>2. QED
    BY <1>2, <2>1, GateRequest DEF Ensure, OnlyRequest, serverVars
<1>3. CASE LookAtProc(r)
  <2>1. Moved
    BY <1>0, <1>3 DEF LookAtProc
  <2>2. QED
    BY <1>3, <2>1, GateRequest DEF LookAtProc, OnlyRequest, serverVars
<1>4. CASE ProbeProc(r)
  <2>1. Moved
    BY <1>0, <1>4 DEF ProbeProc
  <2>2. QED
    BY <1>4, <2>1, GateRequest DEF ProbeProc, OnlyRequest, serverVars
<1>5. CASE AnswerError(r)
  <2>1. Moved
    BY <1>0, <1>5 DEF AnswerError
  <2>2. QED
    BY <1>5, <2>1, GateRequest DEF AnswerError, OnlyRequest, serverVars
<1>6. CASE ServeCurrent(r)
  <2>1. Moved
    BY <1>0, <1>6 DEF ServeCurrent
  <2>2. QED
    BY <1>6, <2>1, GateRequest DEF ServeCurrent, OnlyRequest, serverVars
<1>7. CASE Rebuild(r)
  <2>1. Moved
    BY <1>0, <1>7 DEF Rebuild
  <2>2. QED
    BY <1>7, <2>1, GateRequest DEF Rebuild, OnlyRequest, serverVars
<1>8. CASE PickVictim(r)
  <2>1. Moved
    <3>1. CASE proc \in alive
      BY <1>0, <1>8, <3>1 DEF PickVictim
    <3>2. CASE proc \notin alive
      BY <1>0, <1>8, <3>2 DEF PickVictim
    <3>3. QED
      BY <3>1, <3>2
  <2>2. QED
    BY <1>8, <2>1, GateRequest DEF PickVictim, OnlyRequest, serverVars
<1>9. CASE Terminate(r)
  <2>1. Moved
    BY <1>0, <1>9 DEF Terminate
  <2>2. QED
    BY <1>9, <2>1, GateRequest DEF Terminate, serverVars
<1>10. CASE Reap(r)
  <2>1. Moved
    BY <1>0, <1>10 DEF Reap
  <2>2. QED
    BY <1>10, <2>1, GateRequest DEF Reap, OnlyRequest, serverVars
<1>11. CASE Refuse(r)
  <2>1. Moved
    BY <1>0, <1>11 DEF Refuse
  <2>2. QED
    BY <1>11, <2>1, GateRequest DEF Refuse, OnlyRequest, serverVars
<1>12. QED
  BY <1>1, <1>2, <1>3, <1>4, <1>5, <1>6, <1>7, <1>8, <1>9, <1>10, <1>11

\* start_build: the epoch is bumped, the server's state reset, the drain
\* started, in this order and by one thread.
LEMMA GateStart ==
    ASSUME TypeOK, GateInv, NEW r \in Requests,
           NewEpoch(r) \/ BeginCache(r) \/ BeginProgress(r) \/ Spawn(r)
    PROVE  GateInv'
<1> USE DEF GateInv, At, Goto
<1>0. /\ req \in [Requests -> [at : Places, seen : Nat, changed : BOOLEAN, victim : Nat]]
      /\ epoch \in Nat /\ serverEpoch \in Nat
      /\ late \in [Epochs -> Nat]
      /\ drain \in [Epochs -> [at : DrainPlaces, msg : Messages]]
      /\ NoRequest \notin Requests
  BY BuildAssumption DEF TypeOK, RequestType, ServerType
<1>1. CASE NewEpoch(r)
  <2>1. \A s \in Requests : req[s].at \notin Starting
    BY <1>0, <1>1 DEF NewEpoch, OneStarter
  <2>2. serverEpoch = epoch
    BY <2>1 DEF EpochsAgree, Starting
  <2>3. /\ req'[r].at = "begin_cache"
        /\ \A s \in Requests \ {r} : req'[s] = req[s]
        /\ lock' = r /\ epoch' = epoch + 1
        /\ UNCHANGED <<serverEpoch, drain, late>>
    BY <1>0, <1>1 DEF NewEpoch, OnlyRequest, serverVars
  <2>4. OneStarter' /\ EpochsAgree'
    BY <1>0, <2>1, <2>2, <2>3 DEF OneStarter, EpochsAgree, Starting
  <2>5. DrainsHaveBegun' /\ Gate'
    BY <2>3 DEF DrainsHaveBegun, Gate
  <2>6. QED
    BY <2>4, <2>5
<1>2. CASE BeginCache(r)
  <2>1. serverEpoch < epoch /\ lock = r
    BY <1>2 DEF BeginCache, EpochsAgree, OneStarter, Starting
  <2>2. /\ req'[r].at = "begin_progress"
        /\ \A s \in Requests \ {r} : req'[s] = req[s]
        /\ serverEpoch' = epoch
        /\ UNCHANGED <<lock, epoch, drain, late>>
    BY <1>0, <1>2 DEF BeginCache
  <2>3. \A s \in Requests \ {r} : req[s].at \notin Starting
    BY <2>1 DEF OneStarter
  <2>4. OneStarter' /\ EpochsAgree'
    BY <2>1, <2>2, <2>3 DEF OneStarter, EpochsAgree, Starting
  <2>5. DrainsHaveBegun' /\ Gate'
    BY <1>0, <2>1, <2>2 DEF DrainsHaveBegun, Gate, Epochs
  <2>6. QED
    BY <2>4, <2>5
<1>3. CASE BeginProgress(r)
  <2>1. lock = r
    BY <1>3 DEF BeginProgress, OneStarter, Starting
  <2>2. /\ req'[r].at = "spawn" /\ req[r].at = "begin_progress"
        /\ \A s \in Requests \ {r} : req'[s] = req[s]
        /\ UNCHANGED <<lock, epoch, serverEpoch, drain, late>>
    BY <1>0, <1>3 DEF BeginProgress
  <2>3. OneStarter' /\ EpochsAgree'
    BY <2>1, <2>2 DEF OneStarter, EpochsAgree, Starting
  <2>4. DrainsHaveBegun' /\ Gate'
    BY <2>2 DEF DrainsHaveBegun, Gate
  <2>5. QED
    BY <2>3, <2>4
<1>4. CASE Spawn(r)
  <2>1. \A s \in Requests \ {r} : req[s].at \notin Starting
    BY <1>4 DEF Spawn, OneStarter, Starting
  <2>2. serverEpoch = epoch
    BY <1>4, <2>1 DEF Spawn, EpochsAgree, Starting
  <2>3. /\ req'[r].at = "idle"
        /\ \A s \in Requests \ {r} : req'[s] = req[s]
        /\ UNCHANGED <<epoch, serverEpoch, late>>
    BY <1>0, <1>4 DEF Spawn, Idle, serverVars
  <2>4. \A e \in Epochs : drain'[e].at = IF e = epoch THEN "waiting" ELSE drain[e].at
    BY <1>0, <1>4 DEF Spawn
  <2>5. OneStarter' /\ EpochsAgree'
    BY <2>1, <2>2, <2>3 DEF OneStarter, EpochsAgree, Starting
  <2>6. DrainsHaveBegun'
    BY <1>0, <2>2, <2>3, <2>4 DEF DrainsHaveBegun, Epochs
  <2>7. Gate'
    BY <2>3, <2>4 DEF Gate, PastTheGate
  <2>8. QED
    BY <2>5, <2>6, <2>7
<1>5. QED
  BY <1>1, <1>2, <1>3, <1>4

\* A drain passes the check only in its own epoch; once it has been late it
\* is retired for good and never passes again.
LEMMA GateDrain ==
    ASSUME TypeOK, GateInv, NEW e \in Epochs, Drain(e) \/ DrainFault(e)
    PROVE  GateInv'
<1> USE DEF GateInv, DrainAt, Applies
<1>0. /\ serverEpoch \in Nat /\ e \in Nat
      /\ late \in [Epochs -> Nat]
      /\ drain \in [Epochs -> [at : DrainPlaces, msg : Messages]]
  BY BuildAssumption DEF TypeOK, ServerType, Epochs
<1>1. ASSUME UNCHANGED <<req, lock, epoch, serverEpoch>>,
             drain[e].at # "none",
             \A d \in Epochs \ {e} : drain'[d] = drain[d] /\ late'[d] = late[d],
             \/ /\ late'[e] = late[e]
                /\ \/ drain'[e].at \notin PastTheGate
                   \/ e = serverEpoch
                   \/ drain[e].at \in PastTheGate
             \/ /\ drain[e].at \in PastTheGate
                /\ drain'[e].at \notin PastTheGate
                /\ late'[e] = IF e = serverEpoch THEN late[e] ELSE late[e] + 1
      PROVE  GateInv'
  <2>1. OneStarter' /\ EpochsAgree'
    BY <1>1 DEF OneStarter, EpochsAgree
  <2>2. DrainsHaveBegun'
    BY <1>1 DEF DrainsHaveBegun
  <2>3. e <= serverEpoch
    BY <1>1 DEF DrainsHaveBegun
  <2>4. Gate'
    BY <1>0, <1>1, <2>3 DEF Gate
  <2>5. QED
    BY <2>1, <2>2, <2>4
<1>2. CASE Get(e) \/ Timeout(e) \/ Watchdog(e) \/ GetError(e) \/ FileError(e) \/ Clear(e)
  <2>1. /\ drain'[e].at \notin PastTheGate
        /\ \A d \in Epochs \ {e} : drain'[d] = drain[d]
    BY <1>0, <1>2 DEF Get, Timeout, Watchdog, GetError, FileError, Clear, PastTheGate
  <2>2. drain[e].at # "none" /\ UNCHANGED <<req, lock, epoch, serverEpoch, late>>
    BY <1>2 DEF Get, Timeout, Watchdog, GetError, FileError, Clear, OnlyDrain,
                requestVars, serverVars
  <2>3. QED
    BY <1>1, <2>1, <2>2
<1>3. CASE CheckEpoch(e)
  <2>1. /\ drain'[e].at = IF e = serverEpoch THEN "apply" ELSE AfterMessage(e)
        /\ \A d \in Epochs \ {e} : drain'[d] = drain[d]
    BY <1>0, <1>3 DEF CheckEpoch
  <2>2. drain[e].at # "none" /\ UNCHANGED <<req, lock, epoch, serverEpoch, late>>
    BY <1>3 DEF CheckEpoch, OnlyDrain, requestVars, serverVars
  <2>3. QED
    BY <1>1, <2>1, <2>2 DEF AfterMessage, PastTheGate
<1>4. CASE ApplyReady(e)
  <2>1. /\ drain[e].at \in PastTheGate
        /\ \A d \in Epochs \ {e} : drain'[d] = drain[d]
    BY <1>0, <1>4 DEF ApplyReady, PastTheGate
  <2>2. drain[e].at # "none" /\ UNCHANGED <<req, lock, epoch, serverEpoch, late>>
    BY <1>4 DEF ApplyReady, OnlyDrain, requestVars
  <2>3. QED
    BY <1>1, <2>1, <2>2
<1>5. ASSUME Applied(e), drain[e].at \in PastTheGate, serverEpoch' = serverEpoch
      PROVE  GateInv'
  <2>1. /\ drain'[e].at = AfterMessage(e)
        /\ late'[e] = IF e = serverEpoch THEN late[e] ELSE late[e] + 1
        /\ \A d \in Epochs \ {e} : drain'[d] = drain[d] /\ late'[d] = late[d]
    BY <1>0, <1>5 DEF Applied
  <2>2. UNCHANGED <<req, lock, epoch, serverEpoch>>
    BY <1>5 DEF Applied, OnlyDrain, requestVars
  <2>3. QED
    BY <1>1, <1>5, <2>1, <2>2 DEF AfterMessage, PastTheGate
<1>6. CASE \/ ApplyProgress(e) \/ ApplyDelta(e) \/ PublishReady(e)
           \/ ApplyGraph(e) \/ ApplyDone(e)
  BY <1>5, <1>6 DEF ApplyProgress, ApplyDelta, PublishReady, ApplyGraph, ApplyDone,
                    PastTheGate
<1>7. QED
  BY <1>2, <1>3, <1>4, <1>6 DEF Drain, DrainFault, Apply

LEMMA GateStep == TypeOK /\ GateInv /\ [Next]_vars => GateInv'
<1> SUFFICES ASSUME TypeOK, GateInv, [Next]_vars PROVE GateInv'
  OBVIOUS
<1>1. CASE UNCHANGED vars \/ RosterChanges
  BY <1>1, GateStutter DEF vars, requestVars, serverVars, RosterChanges, gateVars
<1>2. ASSUME NEW r \in Requests, Request(r) PROVE GateInv'
  BY <1>2, GateAnswer, GateStart DEF Request, Answer
<1>3. ASSUME NEW e \in Epochs, Build(e) \/ ChildFault(e) PROVE GateInv'
  BY <1>3, GateStutter DEF Build, ChildFault, Send, Exit, BuildError, WorkerError,
                           Crash, OnlyChild, requestVars, serverVars, gateVars
<1>4. ASSUME NEW e \in Epochs, Drain(e) \/ DrainFault(e) PROVE GateInv'
  BY <1>4, GateDrain
<1>5. QED
  BY <1>1, <1>2, <1>3, <1>4 DEF Next

\* Whatever the interleaving, a retired build applies at most one message to
\* the epochs that follow it.
THEOREM StaleBuildIsBounded == Spec => []StaleAtMostOnce
<1>1. GateInv => StaleAtMostOnce
  BY DEF GateInv, Gate, StaleAtMostOnce
<1>2. QED
  BY GateInit, GateStep, <1>1, BuildTypeCorrect, PTL DEF Spec

-----------------------------------------------------------------------------
(* The line from the child to its drain                                    *)

Elems(s) == {s[i] : i \in 1..Len(s)}

LEMMA ElemsAppend ==
    ASSUME NEW S, NEW s \in Seq(S), NEW m \in S
    PROVE  Elems(Append(s, m)) = Elems(s) \cup {m}
<1>1. /\ Len(Append(s, m)) = Len(s) + 1 /\ Len(s) \in Nat
      /\ \A i \in 1..Len(s) : Append(s, m)[i] = s[i]
      /\ Append(s, m)[Len(s) + 1] = m
  OBVIOUS
<1>2. 1..(Len(s) + 1) = (1..Len(s)) \cup {Len(s) + 1}
  BY <1>1
<1>3. QED
  BY <1>1, <1>2 DEF Elems

LEMMA ElemsTail ==
    ASSUME NEW S, NEW s \in Seq(S), s # <<>>
    PROVE  /\ Elems(s) = {Head(s)} \cup Elems(Tail(s))
           /\ Len(Tail(s)) = Len(s) - 1
           /\ \A i \in 1..Len(Tail(s)) : Tail(s)[i] = s[i + 1]
<1>1. /\ Len(Tail(s)) = Len(s) - 1 /\ Len(s) \in Nat \ {0}
      /\ Head(s) = s[1]
      /\ \A i \in 1..Len(Tail(s)) : Tail(s)[i] = s[i + 1]
  OBVIOUS
<1>2. ASSUME NEW i \in 1..Len(s) PROVE s[i] \in {Head(s)} \cup Elems(Tail(s))
  <2>1. CASE i = 1
    BY <1>1, <2>1
  <2>2. CASE i # 1
    <3>1. i - 1 \in 1..Len(Tail(s)) /\ (i - 1) + 1 = i
      BY <1>1, <2>2
    <3>2. Tail(s)[i - 1] = s[i]
      BY <1>1, <3>1
    <3>3. QED
      BY <3>1, <3>2 DEF Elems
  <2>3. QED
    BY <2>1, <2>2
<1>3. ASSUME NEW i \in 1..Len(Tail(s)) PROVE Tail(s)[i] \in Elems(s)
  BY <1>1 DEF Elems
<1>4. Head(s) \in Elems(s)
  BY <1>1 DEF Elems
<1>5. QED
  BY <1>1, <1>2, <1>3, <1>4 DEF Elems

LEMMA ElemsPrefix ==
    ASSUME NEW S, NEW s \in Seq(S), NEW n \in 0..Len(s)
    PROVE  /\ Elems(SubSeq(s, 1, n)) \subseteq Elems(s)
           /\ Len(SubSeq(s, 1, n)) = n
           /\ \A i \in 1..n : SubSeq(s, 1, n)[i] = s[i]
<1>1. /\ Len(SubSeq(s, 1, n)) = n
      /\ \A i \in 1..n : SubSeq(s, 1, n)[i] = s[i]
  BY SubSeqProperties
<1>2. QED
  BY <1>1 DEF Elems

LEMMA ElemsEmpty == Elems(<<>>) = {}
BY DEF Elems

\* "done" is the last message of a child, the graph file the one before it.
DoneIsLast(s) == \A i \in 1..Len(s) : s[i].kind = "done" => i = Len(s)
Shape(t) ==
    /\ DoneIsLast(t)
    /\ t # <<>> => t[Len(t)].kind = "done"
    /\ \A i \in 1..Len(t) : t[i].kind = "done" => t[i].parts = {}
    /\ \A i \in 1..Len(t) : t[i].kind = "graph_file" => i = Len(t) - 1
    /\ Len(t) > 1 /\ Done("ok") \in Elems(t) =>
          \E m \in Elems(t) : m.kind = "graph_file"

LEMMA ShapeTail ==
    ASSUME NEW t \in Seq(Messages), t # <<>>, Shape(t)
    PROVE  /\ Shape(Tail(t))
           /\ Head(t).kind = "done" => Tail(t) = <<>> /\ Head(t).parts = {}
           /\ Head(t).kind = "graph_file" => Len(Tail(t)) <= 1
           /\ Len(t) <= 1 => Head(t).kind = "done" /\ Len(Tail(t)) <= 1
<1> DEFINE u == Tail(t)
<1>1. /\ Len(u) = Len(t) - 1 /\ Len(t) \in Nat \ {0} /\ Head(t) = t[1]
      /\ \A i \in 1..Len(u) : u[i] = t[i + 1]
      /\ Elems(t) = {Head(t)} \cup Elems(u)
      /\ u \in Seq(Messages)
  BY ElemsTail
<1> HIDE DEF u
<1>2. ASSUME NEW i \in 1..Len(u) PROVE i + 1 \in 1..Len(t) /\ u[i] = t[i + 1]
  BY <1>1
<1>3. DoneIsLast(u)
  <2>1. ASSUME NEW i \in 1..Len(u), u[i].kind = "done" PROVE i = Len(u)
    <3>1. i + 1 = Len(t)
      BY <1>2, <2>1 DEF Shape, DoneIsLast
    <3>2. QED
      BY <1>1, <3>1
  <2>2. QED
    BY <2>1 DEF DoneIsLast
<1>4. u # <<>> => u[Len(u)].kind = "done"
  BY <1>1, <1>2 DEF Shape
<1>5. \A i \in 1..Len(u) : u[i].kind = "done" => u[i].parts = {}
  BY <1>1, <1>2 DEF Shape
<1>6. \A i \in 1..Len(u) : u[i].kind = "graph_file" => i = Len(u) - 1
  BY <1>1, <1>2 DEF Shape
<1>7. Head(t).kind = "done" => u = <<>> /\ Head(t).parts = {}
  BY <1>1 DEF Shape, DoneIsLast
<1>8. Head(t).kind = "graph_file" => Len(u) <= 1
  BY <1>1 DEF Shape
<1>11. Len(t) <= 1 => Head(t).kind = "done" /\ Len(u) <= 1
  BY <1>1 DEF Shape
<1>9. Len(u) > 1 /\ Done("ok") \in Elems(u) => \E m \in Elems(u) : m.kind = "graph_file"
  <2>1. SUFFICES ASSUME Len(u) > 1, Done("ok") \in Elems(u)
                 PROVE  \E m \in Elems(u) : m.kind = "graph_file"
    OBVIOUS
  <2>2. \E m \in Elems(t) : m.kind = "graph_file"
    BY <1>1, <2>1 DEF Shape
  <2>3. Head(t).kind # "graph_file"
    <3>1. ~(Len(u) <= 1)
      BY <1>1, <2>1
    <3>2. QED
      BY <1>8, <3>1
  <2>4. QED
    BY <1>1, <2>2, <2>3
<1>10. QED
  BY <1>3, <1>4, <1>5, <1>6, <1>7, <1>8, <1>9, <1>11 DEF Shape, u

\* Messages that come before the last ones of a build.
Early(b) == \A i \in 1..Len(b) : b[i].kind \notin {"done", "graph_file"}

LEMMA ShapeFinal ==
    ASSUME NEW b \in Seq(Messages), Early(b)
    PROVE  /\ Shape(b \o FinalScript)
           /\ Elems(b) \subseteq Elems(b \o FinalScript)
<1> DEFINE t == b \o FinalScript
           n == Len(b)
<1>0. FinalScript \in Seq(Messages)
  BY ScriptsType
<1>1. /\ n \in Nat /\ Len(t) = n + 3
      /\ \A i \in 1..n : t[i] = b[i]
      /\ t[n + 1] = Progress("full_ready") /\ t[n + 2] = GraphFile /\ t[n + 3] = Done("ok")
  <2>1. Len(FinalScript) = 3
    BY DEF FinalScript
  <2>2. /\ n \in Nat /\ Len(t) = n + 3
        /\ \A i \in 1..(n + 3) : t[i] = IF i <= n THEN b[i] ELSE FinalScript[i - n]
    <3>1. FinalScript \in Seq(Messages) /\ b \in Seq(Messages) /\ n \in Nat
      BY <1>0
    <3>2. /\ Len(t) = n + Len(FinalScript)
          /\ \A i \in 1..n + Len(FinalScript) :
                t[i] = IF i <= n THEN b[i] ELSE FinalScript[i - n]
      BY <3>1, ConcatProperties
    <3>3. QED
      BY <2>1, <3>1, <3>2
  <2>3. /\ t[n + 1] = FinalScript[1] /\ t[n + 2] = FinalScript[2] /\ t[n + 3] = FinalScript[3]
        /\ \A i \in 1..n : t[i] = b[i]
    BY <2>2
  <2>4. QED
    BY <2>2, <2>3 DEF FinalScript
<1> HIDE DEF t, n
<1>2. \A i \in 1..Len(t) : i \in 1..n \/ i = n + 1 \/ i = n + 2 \/ i = n + 3
  BY <1>1
<1>3. /\ Progress("full_ready").kind = "progress"
      /\ GraphFile.kind = "graph_file"
      /\ Done("ok").kind = "done" /\ Done("ok").parts = {}
  BY DEF Progress, GraphFile, Done, Message
<1>4. \A i \in 1..n : t[i].kind \notin {"done", "graph_file"}
  BY <1>1 DEF Early, n
<1>5. \A i \in 1..Len(t) : /\ t[i].kind = "done" => i = n + 3
                           /\ t[i].kind = "graph_file" => i = n + 2
  BY <1>1, <1>2, <1>3, <1>4
<1>6. DoneIsLast(t) /\ \A i \in 1..Len(t) : t[i].kind = "graph_file" => i = Len(t) - 1
  BY <1>1, <1>5 DEF DoneIsLast
<1>7. t[Len(t)].kind = "done" /\ \A i \in 1..Len(t) : t[i].kind = "done" => t[i].parts = {}
  BY <1>1, <1>3, <1>5
<1>8. GraphFile \in Elems(t)
  BY <1>1 DEF Elems
<1>9. Elems(b) \subseteq Elems(t)
  BY <1>1 DEF Elems, n
<1>10. QED
  BY <1>3, <1>6, <1>7, <1>8, <1>9 DEF Shape, t

\* The phases that every build publishes before it ends.
Published(ph, m) == m.kind = "phase_ready" /\ m.key = ph

LEMMA ScriptsShape ==
    /\ \A s \in Scripts :
          /\ Shape(s) /\ Len(s) > 1
          /\ \A ph \in {"L0", "L3"} : \E m \in Elems(s) : Published(ph, m)
    /\ Shape(BuildErrorScript) /\ BuildErrorScript # <<>>
    /\ Shape(WorkerErrorScript) /\ WorkerErrorScript # <<>>
    /\ Done("ok") \notin Elems(WorkerErrorScript)
<1>1. Early(BaselineScript) /\ Early(AstScript) /\ Early(<<Progress("error")>>)
  BY DEF Early, BaselineScript, AstScript, Progress, Delta, Ready, Message
<1>2. \A ph \in {"L0", "L3"} : \E m \in Elems(BaselineScript) : Published(ph, m)
  <2>1. /\ Len(BaselineScript) = 7
        /\ BaselineScript[4] = Ready("L0", 1)
        /\ BaselineScript[6] = Ready("L3", 2)
    BY DEF BaselineScript
  <2>2. Ready("L0", 1) \in Elems(BaselineScript) /\ Ready("L3", 2) \in Elems(BaselineScript)
    BY <2>1 DEF Elems
  <2>3. Published("L0", Ready("L0", 1)) /\ Published("L3", Ready("L3", 2))
    BY DEF Published, Ready, Message
  <2>4. QED
    BY <2>2, <2>3
<1>3. ASSUME NEW ast \in Bridge
      PROVE  /\ Shape(Script(ast)) /\ Len(Script(ast)) > 1
             /\ \A ph \in {"L0", "L3"} : \E m \in Elems(Script(ast)) : Published(ph, m)
  <2> DEFINE a == IF ast THEN AstScript ELSE <<>>
             b == BaselineScript \o a
  <2>1. a \in Seq(Messages) /\ Early(a)
    BY <1>1, ScriptsType DEF Early
  <2>2. /\ b \in Seq(Messages) /\ Len(b) = Len(BaselineScript) + Len(a)
        /\ \A i \in 1..Len(b) : b[i] = IF i <= Len(BaselineScript)
                                       THEN BaselineScript[i] ELSE a[i - Len(BaselineScript)]
    BY <2>1, ScriptsType, ConcatProperties
  <2>3. Script(ast) = b \o FinalScript
    BY DEF Script
  <2>4. Len(BaselineScript) \in Nat /\ Len(a) \in Nat
    BY <2>1, ScriptsType
  <2> HIDE DEF a, b
  <2>5. Early(b)
    <3>1. ASSUME NEW i \in 1..Len(b) PROVE b[i].kind \notin {"done", "graph_file"}
      <4>1. CASE i <= Len(BaselineScript)
        BY <1>1, <2>2, <2>4, <4>1 DEF Early
      <4>2. CASE ~(i <= Len(BaselineScript))
        <5>1. i - Len(BaselineScript) \in 1..Len(a) /\ b[i] = a[i - Len(BaselineScript)]
          BY <2>2, <2>4, <4>2
        <5>2. QED
          BY <2>1, <5>1 DEF Early
      <4>3. QED
        BY <4>1, <4>2
    <3>2. QED
      BY <3>1 DEF Early
  <2>6. Elems(BaselineScript) \subseteq Elems(b)
    BY <2>2, <2>4 DEF Elems
  <2>7. Shape(Script(ast)) /\ Elems(b) \subseteq Elems(Script(ast))
    BY <2>2, <2>3, <2>5, ShapeFinal
  <2>8. \A ph \in {"L0", "L3"} : \E m \in Elems(Script(ast)) : Published(ph, m)
    BY <1>2, <2>6, <2>7
  <2>9. Len(Script(ast)) > 1
    <3>1. Len(FinalScript) = 3 /\ Len(b) \in Nat
      BY <2>2 DEF FinalScript
    <3>2. Len(b \o FinalScript) = Len(b) + Len(FinalScript)
      BY <2>2, ScriptsType, ConcatProperties
    <3>3. QED
      BY <2>3, <3>1, <3>2
  <2>10. QED
    BY <2>7, <2>8, <2>9
<1>4. Shape(BuildErrorScript) /\ BuildErrorScript # <<>>
  <2>1. /\ Len(BuildErrorScript) = 3 /\ BuildErrorScript[1].kind = "progress"
        /\ BuildErrorScript[2] = GraphFile /\ BuildErrorScript[3] = Done("ok")
    BY DEF BuildErrorScript, Progress, Message
  <2>2. GraphFile.kind = "graph_file" /\ Done("ok").kind = "done" /\ Done("ok").parts = {}
    BY DEF GraphFile, Done, Message
  <2>3. GraphFile \in Elems(BuildErrorScript)
    BY <2>1 DEF Elems
  <2>4. QED
    BY <2>1, <2>2, <2>3 DEF Shape, DoneIsLast
<1>5. /\ Shape(WorkerErrorScript) /\ WorkerErrorScript # <<>>
      /\ Done("ok") \notin Elems(WorkerErrorScript)
  <2>1. /\ Len(WorkerErrorScript) = 2 /\ WorkerErrorScript[1] = Progress("error")
        /\ WorkerErrorScript[2] = Done("error")
    BY DEF WorkerErrorScript
  <2>2. /\ Done("error").kind = "done" /\ Done("error").parts = {}
        /\ Progress("error").kind = "progress"
        /\ Done("error") # Done("ok") /\ Progress("error") # Done("ok")
    BY DEF Done, Progress, Message
  <2>3. Done("ok") \notin Elems(WorkerErrorScript)
    BY <2>1, <2>2 DEF Elems
  <2>4. QED
    BY <2>1, <2>2, <2>3 DEF Shape, DoneIsLast
<1>6. QED
  BY <1>3, <1>4, <1>5 DEF Scripts

\* What the child has left to send, and what its drain may still get.
Todo(e) == child[e].todo
Held(e) == Elems(queue[e]) \cup {drain[e].msg}

\* A message that was sent: "done" was the last, the graph file all but the
\* last, and it holds everything the child merged.
Sent(m, e) ==
    /\ m.parts \subseteq child[e].built
    /\ m.kind = "done" => Todo(e) = <<>>
    /\ m.kind = "graph_file" => m.parts = child[e].built /\ Len(Todo(e)) <= 1

Joined == {"joining", "finished"}

LineOf(e) ==
    /\ drain[e].at = "none" =>
          /\ queue[e] = <<>> /\ e \notin alive
          /\ child[e] = NotStarted /\ drain[e].msg = NoMessage
    /\ e \notin alive => Todo(e) = <<>>
    /\ Shape(Todo(e))
    /\ DoneIsLast(queue[e])
    /\ \A m \in Held(e) : Sent(m, e)
    /\ drain[e].msg = Done("ok") => queue[e] = <<>>
    /\ drain[e].at = "publish" => drain[e].msg.kind = "phase_ready"
    /\ drain[e].at \in Joined => drain[e].msg.kind = "done" \/ <<"getError", e>> \in faults

Line == \A e \in Epochs : LineOf(e)

LEMMA LineInit == Init => Line
<1> SUFFICES ASSUME Init, NEW e \in Epochs PROVE LineOf(e)
  BY DEF Line
<1>1. /\ queue[e] = <<>> /\ alive = {} /\ child[e] = NotStarted
      /\ drain[e].at = "none" /\ drain[e].msg = NoMessage
  BY DEF Init
<1>2. Todo(e) = <<>> /\ NoMessage.parts = {} /\ NoMessage.kind = "none"
  BY <1>1 DEF Todo, NotStarted, NoMessage, Message
<1>3. Shape(<<>>) /\ DoneIsLast(<<>>)
  BY ElemsEmpty DEF Shape, DoneIsLast
<1>4. NoMessage # Done("ok")
  BY DEF NoMessage, Done, Message
<1>5. \A m \in Held(e) : Sent(m, e)
  BY <1>1, <1>2, ElemsEmpty DEF Held, Sent
<1>6. QED
  BY <1>1, <1>2, <1>3, <1>4, <1>5 DEF LineOf, Joined

\* A step that leaves the line of an epoch alone.
SameLine(e) ==
    /\ child'[e] = child[e] /\ queue'[e] = queue[e] /\ drain'[e] = drain[e]
    /\ e \in alive' <=> e \in alive
    /\ faults \subseteq faults'

LEMMA LineKept ==
    ASSUME NEW e \in Epochs, LineOf(e), SameLine(e)
    PROVE  LineOf(e)'
<1>1. Todo(e)' = Todo(e) /\ Held(e)' = Held(e)
  BY DEF SameLine, Todo, Held
<1>2. \A m \in Held(e)' : Sent(m, e)'
  BY <1>1 DEF LineOf, SameLine, Sent
<1>3. QED
  BY <1>1, <1>2 DEF LineOf, SameLine

\* A child that dies leaves a prefix of its queue.
LEMMA LineDie ==
    ASSUME TypeOK, Line, NEW e \in Epochs, e \in alive, Die(e),
           drain' = drain, faults \subseteq faults'
    PROVE  Line'
<1>0. /\ child \in [Epochs -> [todo : Seq(Messages), built : SUBSET Parts]]
      /\ queue \in [Epochs -> Seq(Messages)]
  BY DEF TypeOK, ChildType
<1> USE DEF Line
<1>1. PICK n \in 0..Len(queue[e]) : queue' = [queue EXCEPT ![e] = SubSeq(@, 1, n)]
  BY DEF Die
<1>2. ASSUME NEW d \in Epochs, d # e PROVE LineOf(d)'
  <2>1. SameLine(d)
    BY <1>0, <1>1, <1>2 DEF SameLine, Die
  <2>2. QED
    BY <2>1, LineKept
<1> DEFINE q == queue[e]
           p == SubSeq(q, 1, n)
<1>3. /\ queue'[e] = p /\ e \notin alive'
      /\ child'[e].todo = <<>> /\ child'[e].built = child[e].built
  BY <1>0, <1>1 DEF Die
<1>4. /\ Elems(p) \subseteq Elems(q) /\ Len(p) = n
      /\ \A i \in 1..n : p[i] = q[i]
  BY <1>0, ElemsPrefix
<1>5. n \in Nat /\ Len(q) \in Nat /\ n <= Len(q)
  BY <1>0
<1> HIDE DEF q, p
<1>6. DoneIsLast(p)
  <2>1. DoneIsLast(q)
    BY DEF LineOf, q
  <2>2. ASSUME NEW i \in 1..Len(p), p[i].kind = "done" PROVE i = Len(p)
    <3>1. i \in 1..Len(q) /\ q[i].kind = "done"
      BY <1>4, <1>5, <2>2
    <3>2. i = Len(q)
      BY <2>1, <3>1 DEF DoneIsLast
    <3>3. QED
      BY <1>4, <1>5, <3>2
  <2>3. QED
    BY <2>2 DEF DoneIsLast
<1>7. q = <<>> => p = <<>>
  <2>1. SUFFICES ASSUME q = <<>> PROVE p = <<>>
    OBVIOUS
  <2>2. n = 0
    BY <1>5, <2>1
  <2>3. p \in Seq(Messages)
    BY <1>0, SubSeqProperties DEF p, q
  <2>4. QED
    BY <1>4, <2>2, <2>3
<1>8. \A m \in Held(e)' : Sent(m, e)'
  <2>1. Held(e)' \subseteq Held(e)
    BY <1>3, <1>4 DEF Held, q
  <2>2. Todo(e)' = <<>> /\ Len(<<>>) <= 1
    BY <1>3 DEF Todo
  <2>3. QED
    BY <1>3, <2>1, <2>2 DEF LineOf, Sent
<1>9. Shape(<<>>)
  BY ElemsEmpty DEF Shape, DoneIsLast
<1>10. drain[e].at # "none" /\ drain'[e] = drain[e]
  BY DEF LineOf
<1>11. LineOf(e)'
  BY <1>3, <1>6, <1>7, <1>8, <1>9, <1>10 DEF LineOf, Todo, q
<1>12. QED
  BY <1>2, <1>11

\* A worker that raises has more than its verdict left to send.
LEMMA WorkerRaises ==
    ASSUME NEW e \in Epochs, WorkerError(e)
    PROVE  Len(Todo(e)) > 1 /\ Todo(e) # <<>>
<1>1. CASE Todo(e) \in Scripts
  BY <1>1, ScriptsShape
<1>2. CASE Todo(e) = Tail(FinalScript)
  <2>1. Tail(FinalScript) = <<GraphFile, Done("ok")>>
    BY DEF FinalScript
  <2>2. QED
    BY <1>2, <2>1
<1>3. QED
  BY <1>1, <1>2 DEF WorkerError, Todo

\* The child sends, fails or exits.
LEMMA LineChild ==
    ASSUME TypeOK, Line, NEW e \in Epochs, Build(e) \/ BuildError(e) \/ WorkerError(e)
    PROVE  Line'
<1>0. /\ child \in [Epochs -> [todo : Seq(Messages), built : SUBSET Parts]]
      /\ queue \in [Epochs -> Seq(Messages)]
      /\ Todo(e) \in Seq(Messages) /\ queue[e] \in Seq(Messages)
  BY DEF TypeOK, ChildType, Todo
<1> USE DEF Line
<1>1. ASSUME NEW d \in Epochs, d # e PROVE LineOf(d)'
  <2>1. SameLine(d)
    BY <1>0, <1>1 DEF SameLine, Build, Send, Exit, BuildError, WorkerError, Fault, OnlyChild
  <2>2. QED
    BY <2>1, LineKept
<1>2. LineOf(e) /\ drain' = drain /\ faults \subseteq faults' /\ e \in alive
  BY DEF Build, Send, Exit, BuildError, WorkerError, Fault, OnlyChild
<1>3. drain[e].at # "none"
  BY <1>2 DEF LineOf
<1>4. CASE Send(e)
  <2> DEFINE t == Todo(e)
             q == queue[e]
             m == Head(t)
             built == child[e].built \cup m.parts
             full == IF m.kind = "graph_file" THEN [m EXCEPT !.parts = built] ELSE m
  <2>1. t # <<>> /\ t \in Seq(Messages) /\ m \in Messages /\ m \in Elems(t)
    BY <1>0, <1>4, ElemsTail DEF Send, Todo
  <2>2. /\ child' = [child EXCEPT ![e].todo = Tail(@), ![e].built = built]
        /\ queue' = [queue EXCEPT ![e] = Append(@, full)]
        /\ alive' = alive /\ faults' = faults
    BY <1>4 DEF Send, Todo
  <2>20. PICK sent \in Messages : sent = full
    BY <1>0, <2>1 DEF Messages
  <2>3. /\ Todo(e)' = Tail(t) /\ child'[e].built = built /\ queue'[e] = Append(q, sent)
    BY <1>0, <2>2, <2>20 DEF Todo
  <2>4. /\ sent.kind = m.kind
        /\ sent.parts = IF m.kind = "graph_file" THEN built ELSE m.parts
    BY <1>0, <2>1, <2>20 DEF Messages
  <2>5. /\ Shape(t) /\ Shape(Tail(t))
        /\ m.kind = "done" => Tail(t) = <<>> /\ m.parts = {}
        /\ m.kind = "graph_file" => Len(Tail(t)) <= 1
        /\ Len(t) <= 1 => m.kind = "done" /\ Len(Tail(t)) <= 1
    BY <1>2, <2>1, ShapeTail DEF LineOf
  <2>60. q \in Seq(Messages)
    BY <1>0
  <2> HIDE DEF t, q, m, built, full
  <2>6. Elems(Append(q, sent)) = Elems(q) \cup {sent}
    BY <2>60, ElemsAppend
  <2>8. \A x \in Held(e) : Sent(x, e) /\ x.kind # "done"
    BY <1>2, <2>1 DEF LineOf, Sent, t
  <2>9. DoneIsLast(Append(q, sent))
    <3>1. \A i \in 1..Len(q) : q[i] \in Held(e) /\ q[i].kind # "done"
      BY <2>8 DEF Held, Elems, q
    <3>2. /\ Len(Append(q, sent)) = Len(q) + 1 /\ Len(q) \in Nat
          /\ \A i \in 1..Len(q) : Append(q, sent)[i] = q[i]
      BY <2>60
    <3>3. ASSUME NEW i \in 1..Len(Append(q, sent)), Append(q, sent)[i].kind = "done"
          PROVE  i = Len(Append(q, sent))
      <4>1. i \notin 1..Len(q)
        BY <3>1, <3>2, <3>3
      <4>2. QED
        BY <3>2, <4>1
    <3>4. QED
      BY <3>3 DEF DoneIsLast
  <2>10. Held(e)' = Held(e) \cup {sent}
    BY <1>2, <2>3, <2>6 DEF Held, q
  <2>11. Sent(sent, e)'
    <3>1. sent.parts \subseteq built
      BY <2>4 DEF built
    <3>2. QED
      BY <2>3, <2>4, <2>5, <3>1 DEF Sent
  <2>12. ASSUME NEW x \in Held(e) PROVE Sent(x, e)'
    <3>1. x.parts \subseteq built
      BY <2>8 DEF Sent, built
    <3>2. x.kind # "done"
      BY <2>8
    <3>3. x.kind = "graph_file" => x.parts = built /\ Len(Tail(t)) <= 1
      <4>1. SUFFICES ASSUME x.kind = "graph_file" PROVE x.parts = built /\ Len(Tail(t)) <= 1
        OBVIOUS
      <4>2. x.parts = child[e].built /\ Len(t) <= 1
        BY <2>8, <4>1 DEF Sent, t
      <4>3. built = child[e].built /\ Len(Tail(t)) <= 1
        BY <2>5, <4>2 DEF built
      <4>4. QED
        BY <4>2, <4>3
    <3>4. QED
      BY <2>3, <3>1, <3>2, <3>3 DEF Sent
  <2>13. drain'[e].msg # Done("ok")
    BY <1>2, <2>8 DEF Held, Done, Message
  <2>14. LineOf(e)'
    BY <1>2, <1>3, <2>2, <2>3, <2>5, <2>9, <2>10, <2>11, <2>12, <2>13 DEF LineOf
  <2>15. QED
    BY <1>1, <2>14
<1>5. CASE BuildError(e) \/ WorkerError(e)
  <2>1. PICK s : /\ s \in {BuildErrorScript, WorkerErrorScript}
                 /\ child' = [child EXCEPT ![e].todo = s]
                 /\ alive' = alive /\ queue' = queue
    BY <1>5 DEF BuildError, WorkerError
  <2>2. Shape(s) /\ s # <<>>
    BY <2>1, ScriptsShape
  <2>3. Todo(e)' = s /\ child'[e].built = child[e].built /\ queue'[e] = queue[e]
    BY <1>0, <2>1 DEF Todo
  <2>4. BuildError(e) => Len(Todo(e)) > 1
    <3>1. Len(FinalScript) = 3
      BY DEF FinalScript
    <3>2. QED
      BY <1>0, <3>1 DEF BuildError, Todo
  <2>5. WorkerError(e) => Len(Todo(e)) > 1
    BY WorkerRaises
  <2>6. \A x \in Held(e) : Sent(x, e) /\ x.kind \notin {"done", "graph_file"}
    BY <1>0, <1>2, <1>5, <2>4, <2>5 DEF LineOf, Sent
  <2>7. \A x \in Held(e)' : Sent(x, e)'
    <3>1. Held(e)' = Held(e)
      BY <1>2, <2>3 DEF Held
    <3>2. QED
      BY <2>3, <2>6, <3>1 DEF Sent
  <2>8. drain'[e].msg # Done("ok")
    BY <1>2, <2>6 DEF Held, Done, Message
  <2>9. LineOf(e)'
    BY <1>2, <1>3, <2>1, <2>2, <2>3, <2>7, <2>8 DEF LineOf
  <2>10. QED
    BY <1>1, <2>9
<1>6. CASE Exit(e)
  <2>1. child' = child /\ queue' = queue /\ Todo(e) = <<>> /\ alive' = alive \ {e}
    BY <1>6 DEF Exit, Todo
  <2>2. Todo(e)' = <<>> /\ Held(e)' = Held(e)
    BY <1>2, <2>1 DEF Todo, Held
  <2>3. \A x \in Held(e)' : Sent(x, e)'
    BY <1>2, <2>1, <2>2 DEF LineOf, Sent
  <2>4. LineOf(e)'
    BY <1>2, <1>3, <2>1, <2>2, <2>3 DEF LineOf
  <2>5. QED
    BY <1>1, <2>4
<1>7. QED
  BY <1>4, <1>5, <1>6 DEF Build

\* A request starts the child of the newest epoch on an empty line.
LEMMA LineSpawn ==
    ASSUME TypeOK, Line, NEW r \in Requests, Spawn(r),
           epoch \in Epochs => drain[epoch].at = "none"
    PROVE  Line'
<1>0. /\ child \in [Epochs -> [todo : Seq(Messages), built : SUBSET Parts]]
      /\ drain \in [Epochs -> [at : DrainPlaces, msg : Messages]]
  BY DEF TypeOK, ChildType, ServerType
<1> USE DEF Line
<1>1. PICK s \in Scripts : child' = [child EXCEPT ![epoch] = [todo |-> s, built |-> {}]]
  BY DEF Spawn
<1>2. /\ drain' = [drain EXCEPT ![epoch].at = "waiting"]
      /\ alive' = alive \cup {epoch} /\ queue' = queue /\ faults' = faults
  BY DEF Spawn
<1>3. ASSUME NEW d \in Epochs, d # epoch PROVE LineOf(d)'
  <2>1. SameLine(d)
    BY <1>0, <1>1, <1>2, <1>3 DEF SameLine
  <2>2. QED
    BY <2>1, LineKept
<1>4. ASSUME NEW e \in Epochs, e = epoch PROVE LineOf(e)'
  <2>1. /\ queue[e] = <<>> /\ drain[e].msg = NoMessage /\ drain[e].at = "none"
    BY <1>4 DEF LineOf
  <2>2. drain'[e].at = "waiting" /\ drain'[e].msg = NoMessage
    BY <1>0, <1>2, <1>4, <2>1
  <2>3. child'[e] = [todo |-> s, built |-> {}] /\ queue'[e] = <<>> /\ e \in alive'
    BY <1>0, <1>1, <1>2, <1>4, <2>1
  <2>4. Shape(s)
    BY ScriptsShape
  <2>5. NoMessage.parts = {} /\ NoMessage.kind = "none" /\ NoMessage # Done("ok")
    BY DEF NoMessage, Done, Message
  <2>6. child'[e].todo = s /\ child'[e].built = {}
    BY <2>3
  <2>8. QED
    BY <2>2, <2>3, <2>4, <2>5, <2>6, ElemsEmpty DEF LineOf, Held, Sent, Todo, DoneIsLast, Joined
<1>5. QED
  BY <1>3, <1>4

\* A drain gets the messages in order, and ends with the last one.
LEMMA LineDrain ==
    ASSUME TypeOK, Line, NEW e \in Epochs, Drain(e) \/ DrainFault(e)
    PROVE  Line'
<1>0. /\ drain \in [Epochs -> [at : DrainPlaces, msg : Messages]]
      /\ queue \in [Epochs -> Seq(Messages)] /\ queue[e] \in Seq(Messages)
  BY DEF TypeOK, ChildType, ServerType
<1> USE DEF Line, DrainAt, Applies
<1>1. child' = child /\ alive' = alive /\ faults \subseteq faults'
  BY DEF Drain, DrainFault, Get, Timeout, Watchdog, CheckEpoch, Apply, ApplyProgress,
         ApplyDelta, ApplyReady, PublishReady, ApplyGraph, ApplyDone, Clear, GetError,
         FileError, Fault, Applied, OnlyDrain, childVars
<1>2. /\ LineOf(e) /\ Todo(e)' = Todo(e)
      /\ \A m \in Held(e) : Sent(m, e)'
  BY <1>1 DEF LineOf, Todo, Sent
<1>3. ASSUME \A d \in Epochs \ {e} : queue'[d] = queue[d] /\ drain'[d] = drain[d],
             LineOf(e)'
      PROVE  Line'
  <2>1. ASSUME NEW d \in Epochs \ {e} PROVE LineOf(d)'
    <3>1. SameLine(d)
      BY <1>1, <1>3 DEF SameLine
    <3>2. QED
      BY <3>1, LineKept
  <2>2. QED
    BY <1>3, <2>1
<1>4. ASSUME queue' = queue,
             NEW place \in DrainPlaces \ {"none"},
             drain' = [drain EXCEPT ![e].at = place],
             drain[e].at # "none",
             place \in Joined => drain[e].msg.kind = "done" \/ drain[e].at \in Joined,
             place = "publish" => drain[e].msg.kind = "phase_ready"
      PROVE  Line'
  <2>1. /\ drain'[e].at = place /\ drain'[e].msg = drain[e].msg
        /\ \A d \in Epochs \ {e} : drain'[d] = drain[d]
    BY <1>0, <1>4
  <2>2. Held(e)' = Held(e)
    BY <1>4, <2>1 DEF Held
  <2>3. LineOf(e)'
    BY <1>1, <1>2, <1>4, <2>1, <2>2 DEF LineOf
  <2>4. QED
    BY <1>3, <1>4, <2>1, <2>3
<1>5. CASE Get(e)
  <2> DEFINE q == queue[e]
             u == Tail(q)
  <2>1. /\ q # <<>> /\ drain'[e] = [at |-> "check", msg |-> Head(q)] /\ queue'[e] = u
        /\ \A d \in Epochs \ {e} : queue'[d] = queue[d] /\ drain'[d] = drain[d]
    BY <1>0, <1>5 DEF Get
  <2>2. /\ Elems(q) = {Head(q)} \cup Elems(u) /\ q \in Seq(Messages)
        /\ Len(u) = Len(q) - 1 /\ Len(q) \in Nat \ {0} /\ Head(q) = q[1]
        /\ \A i \in 1..Len(u) : u[i] = q[i + 1]
        /\ u \in Seq(Messages)
    BY <1>0, <2>1, ElemsTail
  <2>3. DoneIsLast(q)
    BY <1>2 DEF LineOf
  <2> HIDE DEF q, u
  <2>4. DoneIsLast(u)
    <3>1. ASSUME NEW i \in 1..Len(u), u[i].kind = "done" PROVE i = Len(u)
      <4>1. i + 1 \in 1..Len(q) /\ q[i + 1].kind = "done"
        BY <2>2, <3>1
      <4>2. i + 1 = Len(q)
        BY <2>3, <4>1 DEF DoneIsLast
      <4>3. QED
        BY <2>2, <4>2
    <3>2. QED
      BY <3>1 DEF DoneIsLast
  <2>5. Head(q) = Done("ok") => u = <<>>
    <3>1. SUFFICES ASSUME Head(q) = Done("ok") PROVE u = <<>>
      OBVIOUS
    <3>2. q[1].kind = "done"
      BY <2>2, <3>1 DEF Done, Message
    <3>3. 1 \in 1..Len(q)
      BY <2>2
    <3>4. Len(q) = 1
      BY <2>3, <3>2, <3>3 DEF DoneIsLast
    <3>5. QED
      BY <2>2, <3>4
  <2>6. Held(e)' \subseteq Held(e)
    BY <2>1, <2>2 DEF Held, q
  <2>7. drain'[e].at = "check" /\ drain'[e].msg = Head(q) /\ drain[e].at # "none"
    BY <1>5, <2>1 DEF Get
  <2>8. LineOf(e)'
    BY <1>1, <1>2, <2>1, <2>4, <2>5, <2>6, <2>7 DEF LineOf, Joined
  <2>9. QED
    BY <1>3, <2>1, <2>8
<1>6. ASSUME NEW place \in {"waiting", "check", "joining"}, NEW m,
             drain' = [drain EXCEPT ![e] = [at |-> place, msg |-> m]],
             queue' = queue, drain[e].at # "none",
             m = NoMessage \/ (m = Done("killed") /\ e \notin alive),
             place = "joining" => <<"getError", e>> \in faults'
      PROVE  Line'
  <2>1. /\ drain'[e].at = place /\ drain'[e].msg = m
        /\ \A d \in Epochs \ {e} : drain'[d] = drain[d]
    BY <1>0, <1>6
  <2>2. /\ NoMessage.kind = "none" /\ NoMessage.parts = {} /\ NoMessage # Done("ok")
        /\ Done("killed").kind = "done" /\ Done("killed").parts = {}
        /\ Done("killed") # Done("ok")
    BY DEF NoMessage, Done, Message
  <2>3. Sent(m, e)'
    <3>1. CASE m = NoMessage
      BY <2>2, <3>1 DEF Sent
    <3>2. CASE m = Done("killed") /\ e \notin alive
      <4>1. Todo(e)' = <<>>
        BY <1>2, <3>2 DEF LineOf
      <4>2. QED
        BY <2>2, <3>2, <4>1 DEF Sent
    <3>3. QED
      BY <1>6, <3>1, <3>2
  <2>4. \A x \in Held(e)' : Sent(x, e)'
    BY <1>2, <1>6, <2>1, <2>3 DEF Held
  <2>5. m # Done("ok")
    BY <1>6, <2>2
  <2>6. LineOf(e)'
    BY <1>1, <1>2, <1>6, <2>1, <2>4, <2>5 DEF LineOf, Joined
  <2>7. QED
    BY <1>3, <1>6, <2>1, <2>6
<1>7. CASE Watchdog(e)
  <2>1. queue' = queue /\ drain[e].at # "none"
    BY <1>7 DEF Watchdog
  <2>2. CASE e \in alive
    BY <1>6, <1>7, <2>1, <2>2 DEF Watchdog
  <2>3. CASE e \notin alive
    BY <1>6, <1>7, <2>1, <2>3 DEF Watchdog
  <2>4. QED
    BY <2>2, <2>3
<1>8. CASE GetError(e)
  <2>1. /\ queue' = queue /\ drain[e].at # "none" /\ <<"getError", e>> \in faults'
        /\ drain' = [drain EXCEPT ![e] = [at |-> "joining", msg |-> NoMessage]]
    BY <1>8 DEF GetError, Fault
  <2>2. QED
    BY <1>6, <2>1
<1>9. AfterMessage(e) \in {"waiting", "joining"} /\ (AfterMessage(e) \in Joined => drain[e].msg.kind = "done")
  BY DEF AfterMessage, Joined
<1>10. CASE Timeout(e) \/ FileError(e)
  <2>1. \E place \in {"timed_out", "waiting"} : drain' = [drain EXCEPT ![e].at = place]
    BY <1>10 DEF Timeout, FileError
  <2>2. queue' = queue /\ drain[e].at # "none"
    BY <1>10 DEF Timeout, FileError
  <2>3. QED
    BY <1>4, <2>1, <2>2 DEF DrainPlaces, Joined
<1>11. CASE CheckEpoch(e)
  <2>1. /\ drain' = [drain EXCEPT ![e].at = IF e = serverEpoch THEN "apply" ELSE AfterMessage(e)]
        /\ queue' = queue /\ drain[e].at # "none"
    BY <1>11 DEF CheckEpoch
  <2>2. QED
    BY <1>4, <1>9, <2>1 DEF DrainPlaces, Joined
<1>12. CASE ApplyReady(e)
  <2>1. /\ drain' = [drain EXCEPT ![e].at = "publish"]
        /\ queue' = queue /\ drain[e].at # "none" /\ drain[e].msg.kind = "phase_ready"
    BY <1>12 DEF ApplyReady
  <2>2. QED
    BY <1>4, <2>1 DEF DrainPlaces, Joined
<1>13. CASE \/ ApplyProgress(e) \/ ApplyDelta(e) \/ PublishReady(e)
            \/ ApplyGraph(e) \/ ApplyDone(e)
  <2>1. /\ drain' = [drain EXCEPT ![e].at = AfterMessage(e)]
        /\ queue' = queue /\ drain[e].at # "none"
    BY <1>13 DEF ApplyProgress, ApplyDelta, PublishReady, ApplyGraph, ApplyDone, Applied
  <2>2. QED
    BY <1>4, <1>9, <2>1 DEF DrainPlaces, Joined
<1>14. CASE Clear(e)
  <2>1. /\ drain' = [drain EXCEPT ![e].at = "finished"]
        /\ queue' = queue /\ drain[e].at \in Joined
    BY <1>14 DEF Clear, Joined
  <2>2. QED
    BY <1>4, <2>1 DEF DrainPlaces, Joined
<1>15. QED
  BY <1>5, <1>7, <1>8, <1>10, <1>11, <1>12, <1>13, <1>14 DEF Drain, DrainFault, Apply

-----------------------------------------------------------------------------
(* One builder                                                             *)

\* No drain stands in an epoch that has not begun, nor in the one that is
\* being started.
Begun ==
    \A e \in Epochs : drain[e].at # "none" =>
        /\ e <= epoch
        /\ \A r \in Requests : req[r].at \in Starting => e < epoch

\* The server keeps the handle of a child that still has messages to send,
\* unless a queue error ended its drain.
HandleIsKept ==
    \A e \in Epochs : Todo(e) # <<>> => proc = e \/ <<"getError", e>> \in faults

\* Whoever starts a build found no child alive, and the handle is the newest
\* child's as soon as nobody is starting one.
HandleIsNewest ==
    /\ \A r \in Requests : req[r].at \in Starting => proc \notin alive
    /\ proc # 0 /\ (\A r \in Requests : req[r].at \notin Starting) => proc = epoch

\* What a request kills has begun, and is dead when its handle is dropped.
Killing == {"terminate", "reap"}
VictimsDie ==
    \A r \in Requests : req[r].at \in Killing =>
        /\ req[r].victim \in Epochs
        /\ drain[req[r].victim].at # "none"
        /\ req[r].at = "reap" => Todo(req[r].victim) = <<>>

BuilderInv == Begun /\ HandleIsKept /\ HandleIsNewest /\ VictimsDie

LEMMA BuilderInit == Init => BuilderInv
<1> SUFFICES ASSUME Init PROVE BuilderInv
  OBVIOUS
<1>1. /\ \A e \in Epochs : drain[e].at = "none" /\ Todo(e) = <<>>
      /\ \A r \in Requests : req[r].at = "idle"
      /\ proc = 0
  BY DEF Init, Idle, Todo, NotStarted
<1>2. QED
  BY <1>1 DEF BuilderInv, Begun, HandleIsKept, HandleIsNewest, VictimsDie, Starting, Killing

\* The requests and the handle stay; children only send, or die.
LEMMA BuilderKept ==
    ASSUME TypeOK, BuilderInv, UNCHANGED <<req, epoch, proc>>,
           alive' \subseteq alive, faults \subseteq faults',
           \A e \in Epochs : /\ Todo(e) = <<>> => Todo(e)' = <<>>
                             /\ drain'[e].at = "none" <=> drain[e].at = "none"
    PROVE  BuilderInv'
<1> USE DEF BuilderInv
<1>1. Begun'
  BY DEF Begun
<1>2. HandleIsKept'
  BY DEF HandleIsKept
<1>3. HandleIsNewest'
  BY DEF HandleIsNewest
<1>4. VictimsDie'
  <2>1. ASSUME NEW r \in Requests, req[r].at \in Killing
        PROVE  /\ req[r].victim \in Epochs
               /\ drain'[req[r].victim].at # "none"
               /\ req[r].at = "reap" => Todo(req[r].victim)' = <<>>
    BY <2>1 DEF VictimsDie
  <2>2. QED
    BY <2>1 DEF VictimsDie, Todo
<1>5. QED
  BY <1>1, <1>2, <1>3, <1>4

\* A request moves outside start_build and the killing of a child.
LEMMA BuilderMove ==
    ASSUME TypeOK, BuilderInv, NEW r \in Requests,
           req[r].at \notin Starting, req'[r].at \notin Starting \cup Killing,
           \A s \in Requests \ {r} : req'[s] = req[s],
           UNCHANGED <<epoch, child, alive, drain, faults>>,
           proc' = proc \/ (proc' = 0 /\ \A e \in Epochs : Todo(e) # <<>> => proc # e),
           0 \notin alive
    PROVE  BuilderInv'
<1> USE DEF BuilderInv
<1>0. \A e \in Epochs : Todo(e)' = Todo(e)
  BY DEF Todo
<1>1. Begun'
  BY DEF Begun
<1>2. HandleIsKept'
  BY <1>0 DEF HandleIsKept
<1>3. HandleIsNewest'
  BY DEF HandleIsNewest
<1>4. VictimsDie'
  <2>1. ASSUME NEW s \in Requests, req'[s].at \in Killing
        PROVE  /\ req'[s].victim \in Epochs
               /\ drain'[req'[s].victim].at # "none"
               /\ req'[s].at = "reap" => child'[req'[s].victim].todo = <<>>
    BY <2>1 DEF VictimsDie, Todo
  <2>2. QED
    BY <2>1 DEF VictimsDie, Todo
<1>5. QED
  BY <1>1, <1>2, <1>3, <1>4

LEMMA BuilderAnswer ==
    ASSUME TypeOK, Line, BuilderInv, NEW r \in Requests,
           \/ ReadRoster(r) \/ Ensure(r)
           \/ LookAtProc(r) \/ ProbeProc(r) \/ AnswerError(r)
           \/ ServeCurrent(r) \/ Rebuild(r) \/ PickVictim(r)
           \/ Terminate(r) \/ Reap(r) \/ Refuse(r)
    PROVE  BuilderInv'
<1> DEFINE Moved == /\ req[r].at \notin Starting
                    /\ req'[r].at \notin Starting \cup Killing
                    /\ \A s \in Requests \ {r} : req'[s] = req[s]
<1> USE DEF At, Goto, Starting, Killing, Idle
<1>0. /\ req \in [Requests -> [at : Places, seen : Nat, changed : BOOLEAN, victim : Nat]]
      /\ alive \subseteq Epochs /\ 0 \notin alive
      /\ proc \in Nat
  BY BuildAssumption DEF TypeOK, RequestType, ChildType, Epochs
<1>1. CASE ReadRoster(r)
  <2>1. Moved
    BY <1>0, <1>1 DEF ReadRoster
  <2>2. QED
    BY <1>0, <1>1, <2>1, BuilderMove DEF ReadRoster, OnlyRequest, childVars
<1>2. CASE Ensure(r)
  <2>1. Moved
    BY <1>0, <1>2 DEF Ensure
  <2>2. QED
    BY <1>0, <1>2, <2>1, BuilderMove DEF Ensure, OnlyRequest, childVars
<1>3. CASE LookAtProc(r)
  <2>1. Moved
    BY <1>0, <1>3 DEF LookAtProc
  <2>2. QED
    BY <1>0, <1>3, <2>1, BuilderMove DEF LookAtProc, OnlyRequest, childVars
<1>4. CASE ProbeProc(r)
  <2>1. Moved
    BY <1>0, <1>4 DEF ProbeProc
  <2>2. QED
    BY <1>0, <1>4, <2>1, BuilderMove DEF ProbeProc, OnlyRequest, childVars
<1>5. CASE AnswerError(r) \/ ServeCurrent(r) \/ Refuse(r)
  <2>1. Moved
    BY <1>0, <1>5 DEF AnswerError, ServeCurrent, Refuse
  <2>2. QED
    BY <1>0, <1>5, <2>1, BuilderMove DEF AnswerError, ServeCurrent, Refuse, OnlyRequest, childVars
<1>6. CASE Rebuild(r)
  <2>1. Moved
    BY <1>0, <1>6 DEF Rebuild
  <2>2. QED
    BY <1>0, <1>6, <2>1, BuilderMove DEF Rebuild, OnlyRequest, childVars
<1>7. CASE PickVictim(r) /\ proc \notin alive
  <2>1. Moved
    BY <1>0, <1>7 DEF PickVictim
  <2>2. \A e \in Epochs : Todo(e) # <<>> => e \in alive
    BY DEF Line, LineOf
  <2>3. QED
    BY <1>0, <1>7, <2>1, <2>2, BuilderMove DEF PickVictim, OnlyRequest, childVars
<1>8. CASE PickVictim(r) /\ proc \in alive
  <2>1. /\ req'[r].at = "terminate" /\ req'[r].victim = proc /\ req[r].at = "kill"
        /\ \A s \in Requests \ {r} : req'[s] = req[s]
        /\ UNCHANGED <<epoch, proc, child, alive, drain, faults>>
    BY <1>0, <1>8 DEF PickVictim, OnlyRequest, childVars
  <2>2. proc \in Epochs /\ drain[proc].at # "none"
    BY <1>0, <1>8 DEF Line, LineOf
  <2>3. Begun' /\ HandleIsKept' /\ HandleIsNewest'
    BY <2>1 DEF BuilderInv, Begun, HandleIsKept, HandleIsNewest, Todo
  <2>4. VictimsDie'
    <3>1. ASSUME NEW s \in Requests, req'[s].at \in Killing
          PROVE  /\ req'[s].victim \in Epochs
                 /\ drain'[req'[s].victim].at # "none"
                 /\ req'[s].at = "reap" => child'[req'[s].victim].todo = <<>>
      BY <2>1, <2>2, <3>1 DEF BuilderInv, VictimsDie, Todo
    <3>2. QED
      BY <3>1 DEF VictimsDie, Todo
  <2>5. QED
    BY <2>3, <2>4 DEF BuilderInv
<1>9. CASE Terminate(r)
  <2> DEFINE v == req[r].victim
  <2>1. /\ req'[r].at = "reap" /\ req'[r].victim = v /\ req[r].at = "terminate"
        /\ \A s \in Requests \ {r} : req'[s] = req[s]
        /\ UNCHANGED <<epoch, proc, drain, faults>>
    BY <1>0, <1>9 DEF Terminate
  <2>2. v \in Epochs /\ drain[v].at # "none"
    BY <2>1 DEF BuilderInv, VictimsDie
  <2>3. /\ alive' \subseteq alive /\ child'[v].todo = <<>>
        /\ \A e \in Epochs : Todo(e) = <<>> => child'[e].todo = <<>>
    <3>1. child \in [Epochs -> [todo : Seq(Messages), built : SUBSET Parts]]
      BY DEF TypeOK, ChildType
    <3>2. CASE v \in alive
      BY <1>9, <2>2, <3>1, <3>2 DEF Terminate, Die, Todo
    <3>3. CASE v \notin alive
      BY <1>9, <2>2, <3>3 DEF Terminate, childVars, Line, LineOf, Todo
    <3>4. QED
      BY <3>2, <3>3
  <2> HIDE DEF v
  <2>4. Begun' /\ HandleIsKept' /\ HandleIsNewest'
    BY <2>1, <2>3 DEF BuilderInv, Begun, HandleIsKept, HandleIsNewest, Todo
  <2>5. VictimsDie'
    <3>1. ASSUME NEW s \in Requests, req'[s].at \in Killing
          PROVE  /\ req'[s].victim \in Epochs
                 /\ drain'[req'[s].victim].at # "none"
                 /\ req'[s].at = "reap" => child'[req'[s].victim].todo = <<>>
      BY <2>1, <2>2, <2>3, <3>1 DEF BuilderInv, VictimsDie
    <3>2. QED
      BY <3>1 DEF VictimsDie, Todo
  <2>6. QED
    BY <2>4, <2>5 DEF BuilderInv
<1>10. CASE Reap(r)
  <2>1. Moved
    BY <1>0, <1>10 DEF Reap
  <2>2. Todo(req[r].victim) = <<>>
    BY <1>10 DEF Reap, BuilderInv, VictimsDie
  <2>3. proc' = proc \/ (proc' = 0 /\ \A e \in Epochs : Todo(e) # <<>> => proc # e)
    BY <1>10, <2>2 DEF Reap
  <2>4. QED
    BY <1>0, <1>10, <2>1, <2>3, BuilderMove DEF Reap, OnlyRequest, childVars
<1>11. QED
  BY <1>1, <1>2, <1>3, <1>4, <1>5, <1>6, <1>7, <1>8, <1>9, <1>10

LEMMA BuilderStart ==
    ASSUME TypeOK, GateInv, Line, BuilderInv, NEW r \in Requests,
           NewEpoch(r) \/ BeginCache(r) \/ BeginProgress(r) \/ Spawn(r)
    PROVE  BuilderInv'
<1> USE DEF At, Goto
<1>0. /\ req \in [Requests -> [at : Places, seen : Nat, changed : BOOLEAN, victim : Nat]]
      /\ drain \in [Epochs -> [at : DrainPlaces, msg : Messages]]
      /\ child \in [Epochs -> [todo : Seq(Messages), built : SUBSET Parts]]
      /\ epoch \in Nat /\ Epochs \subseteq Nat
      /\ NoRequest \notin Requests
  BY BuildAssumption DEF TypeOK, RequestType, ChildType, ServerType, Epochs
<1>1. CASE NewEpoch(r)
  <2>1. \A s \in Requests : req[s].at \notin Starting
    BY <1>0, <1>1 DEF NewEpoch, GateInv, OneStarter
  <2>2. /\ req'[r].at = "begin_cache"
        /\ \A s \in Requests \ {r} : req'[s] = req[s]
        /\ epoch' = epoch + 1 /\ proc \notin alive
        /\ UNCHANGED <<proc, child, alive, drain, faults>>
    BY <1>0, <1>1 DEF NewEpoch, OnlyRequest, childVars
  <2>3. Begun'
    <3>1. ASSUME NEW e \in Epochs, drain[e].at # "none" PROVE e < epoch'
      <4>1. e <= epoch /\ e \in Nat
        BY <1>0, <3>1 DEF BuilderInv, Begun
      <4>2. QED
        BY <1>0, <2>2, <4>1
    <3>2. \A e \in Epochs : e < epoch' => e <= epoch'
      BY <1>0, <2>2
    <3>3. QED
      BY <2>2, <3>1, <3>2 DEF Begun
  <2>4. HandleIsKept'
    BY <2>2 DEF BuilderInv, HandleIsKept, Todo
  <2>5. HandleIsNewest'
    BY <2>1, <2>2 DEF BuilderInv, HandleIsNewest, Starting
  <2>6. VictimsDie'
    <3>1. ASSUME NEW s \in Requests, req'[s].at \in Killing
          PROVE  /\ req'[s].victim \in Epochs
                 /\ drain'[req'[s].victim].at # "none"
                 /\ req'[s].at = "reap" => child'[req'[s].victim].todo = <<>>
      BY <2>2, <3>1 DEF BuilderInv, VictimsDie, Todo, Killing
    <3>2. QED
      BY <3>1 DEF VictimsDie, Todo
  <2>7. QED
    BY <2>3, <2>4, <2>5, <2>6 DEF BuilderInv
<1>2. CASE BeginCache(r) \/ BeginProgress(r)
  <2>1. /\ req[r].at \in Starting /\ req'[r].at \in Starting
        /\ \A s \in Requests \ {r} : req'[s] = req[s]
        /\ UNCHANGED <<epoch, proc, child, alive, drain, faults>>
    BY <1>0, <1>2 DEF BeginCache, BeginProgress, childVars, Starting
  <2>2. \A s \in Requests : req'[s].at \in Starting <=> req[s].at \in Starting
    BY <2>1
  <2>3. Begun' /\ HandleIsKept' /\ HandleIsNewest'
    BY <2>1, <2>2 DEF BuilderInv, Begun, HandleIsKept, HandleIsNewest, Todo
  <2>4. VictimsDie'
    <3>1. ASSUME NEW s \in Requests, req'[s].at \in Killing
          PROVE  /\ req'[s].victim \in Epochs
                 /\ drain'[req'[s].victim].at # "none"
                 /\ req'[s].at = "reap" => child'[req'[s].victim].todo = <<>>
      BY <2>1, <3>1 DEF BuilderInv, VictimsDie, Todo, Killing, Starting
    <3>2. QED
      BY <3>1 DEF VictimsDie, Todo
  <2>5. QED
    BY <2>3, <2>4 DEF BuilderInv
<1>3. CASE Spawn(r)
  <2>1. /\ req[r].at = "spawn" /\ req'[r].at = "idle"
        /\ \A s \in Requests \ {r} : req'[s] = req[s] /\ req[s].at \notin Starting
        /\ proc' = epoch /\ epoch' = epoch /\ faults' = faults
        /\ alive' = alive \cup {epoch}
    BY <1>0, <1>3 DEF Spawn, Idle, GateInv, OneStarter, Starting
  <2>2. /\ \A e \in Epochs : e # epoch => Todo(e)' = Todo(e) /\ drain'[e] = drain[e]
        /\ \A e \in Epochs : drain[e].at # "none" => e < epoch
    BY <1>0, <1>3, <2>1 DEF Spawn, Todo, BuilderInv, Begun, Starting
  <2>3. \A s \in Requests : req'[s].at \notin Starting
    BY <2>1 DEF Starting
  <2>4. Begun'
    BY <1>0, <2>1, <2>2, <2>3 DEF Begun
  <2>5. \A e \in Epochs : Todo(e) # <<>> => e \in alive /\ (proc = e \/ <<"getError", e>> \in faults)
    BY DEF Line, LineOf, BuilderInv, HandleIsKept
  <2>6. proc \notin alive
    BY <2>1 DEF BuilderInv, HandleIsNewest, Starting
  <2>7. HandleIsKept'
    BY <2>1, <2>2, <2>5, <2>6 DEF HandleIsKept
  <2>8. HandleIsNewest'
    BY <2>1, <2>3 DEF HandleIsNewest
  <2>9. VictimsDie'
    <3>1. ASSUME NEW s \in Requests, req'[s].at \in Killing
          PROVE  /\ req'[s].victim \in Epochs
                 /\ drain'[req'[s].victim].at # "none"
                 /\ req'[s].at = "reap" => child'[req'[s].victim].todo = <<>>
      <4>1. s # r /\ req'[s] = req[s]
        BY <2>1, <3>1 DEF Killing
      <4>2. /\ req[s].victim \in Epochs /\ drain[req[s].victim].at # "none"
            /\ req[s].at = "reap" => Todo(req[s].victim) = <<>>
        BY <3>1, <4>1 DEF BuilderInv, VictimsDie
      <4>3. req[s].victim # epoch
        BY <1>0, <2>2, <4>2
      <4>4. QED
        BY <2>2, <4>1, <4>2, <4>3 DEF Todo
    <3>2. QED
      BY <3>1 DEF VictimsDie, Todo
  <2>10. QED
    BY <2>4, <2>7, <2>8, <2>9 DEF BuilderInv
<1>4. QED
  BY <1>1, <1>2, <1>3

\* A drain drops the handle of its child when the child has nothing to send.
LEMMA BuilderClear ==
    ASSUME TypeOK, Line, BuilderInv, NEW e \in Epochs, Clear(e)
    PROVE  BuilderInv'
<1>0. /\ drain \in [Epochs -> [at : DrainPlaces, msg : Messages]]
      /\ 0 \notin alive
  BY BuildAssumption DEF TypeOK, ServerType, ChildType, Epochs
<1>1. /\ proc' = IF proc = e THEN 0 ELSE proc
      /\ \A d \in Epochs : drain'[d].at = "none" <=> drain[d].at = "none"
      /\ UNCHANGED <<req, epoch, child, alive, faults>>
      /\ drain[e].at = "joining"
  BY <1>0 DEF Clear, DrainAt, childVars
<1>2. \A d \in Epochs : Todo(d)' = Todo(d)
  BY <1>1 DEF Todo
<1>3. Todo(e) = <<>> \/ <<"getError", e>> \in faults
  <2>1. drain[e].msg.kind = "done" \/ <<"getError", e>> \in faults
    BY <1>1 DEF Line, LineOf, Joined
  <2>2. drain[e].msg.kind = "done" => Todo(e) = <<>>
    BY DEF Line, LineOf, Held, Sent
  <2>3. QED
    BY <2>1, <2>2
<1>4. Begun'
  BY <1>1 DEF BuilderInv, Begun
<1>5. HandleIsKept'
  BY <1>1, <1>2, <1>3 DEF BuilderInv, HandleIsKept
<1>6. HandleIsNewest'
  BY <1>0, <1>1 DEF BuilderInv, HandleIsNewest
<1>7. VictimsDie'
  <2>1. ASSUME NEW s \in Requests, req[s].at \in Killing
        PROVE  /\ req[s].victim \in Epochs
               /\ drain'[req[s].victim].at # "none"
               /\ req[s].at = "reap" => Todo(req[s].victim)' = <<>>
    BY <1>1, <1>2, <2>1 DEF BuilderInv, VictimsDie
  <2>2. QED
    BY <1>1, <2>1 DEF VictimsDie, Todo
<1>8. QED
  BY <1>4, <1>5, <1>6, <1>7 DEF BuilderInv

\* The line and the handle under one step of anybody.
LEMMA BuilderStep ==
    ASSUME TypeOK, GateInv, Line, BuilderInv, [Next]_vars
    PROVE  Line' /\ BuilderInv'
<1>0. child \in [Epochs -> [todo : Seq(Messages), built : SUBSET Parts]]
  BY DEF TypeOK, ChildType
<1>1. ASSUME UNCHANGED <<childVars, queue, drain, faults>>
      PROVE  Line'
  <2>1. ASSUME NEW d \in Epochs PROVE LineOf(d)'
    <3>1. SameLine(d)
      BY <1>1 DEF SameLine, childVars
    <3>2. QED
      BY <3>1, LineKept DEF Line
  <2>2. QED
    BY <2>1 DEF Line
<1>2. CASE UNCHANGED vars \/ RosterChanges
  <2>1. UNCHANGED <<childVars, queue, drain, faults, req, epoch, proc>>
    BY <1>2 DEF vars, RosterChanges, requestVars
  <2>2. BuilderInv'
    BY <2>1, BuilderKept DEF childVars, Todo
  <2>3. QED
    BY <1>1, <2>1, <2>2
<1>3. ASSUME NEW r \in Requests, Request(r) PROVE Line' /\ BuilderInv'
  <2>1. CASE \/ ReadRoster(r) \/ Ensure(r)
             \/ LookAtProc(r) \/ ProbeProc(r) \/ AnswerError(r)
             \/ ServeCurrent(r) \/ Rebuild(r) \/ PickVictim(r)
             \/ Reap(r) \/ Refuse(r)
    <3>1. OnlyRequest
      BY <2>1 DEF ReadRoster, Ensure, LookAtProc, ProbeProc, AnswerError, ServeCurrent,
                  Rebuild, PickVictim, Reap, Refuse
    <3>2. QED
      BY <1>1, <2>1, <3>1, BuilderAnswer DEF OnlyRequest
  <2>2. CASE Terminate(r)
    <3>1. Line'
      <4>1. CASE req[r].victim \in alive
        <5>1. req[r].victim \in Epochs
          BY <4>1 DEF TypeOK, ChildType
        <5>2. QED
          BY <2>2, <4>1, <5>1, LineDie DEF Terminate
      <4>2. CASE req[r].victim \notin alive
        BY <1>1, <2>2, <4>2 DEF Terminate
      <4>3. QED
        BY <4>1, <4>2
    <3>2. QED
      BY <2>2, <3>1, BuilderAnswer
  <2>3. CASE NewEpoch(r) \/ BeginCache(r) \/ BeginProgress(r)
    <3>1. UNCHANGED <<childVars, queue, drain, faults>>
      BY <2>3 DEF NewEpoch, BeginCache, BeginProgress, OnlyRequest
    <3>2. QED
      BY <1>1, <2>3, <3>1, BuilderStart
  <2>4. CASE Spawn(r)
    <3>1. epoch \in Epochs => drain[epoch].at = "none"
      <4>1. req[r].at \in Starting /\ epoch \in Nat
        BY <2>4 DEF Spawn, At, Starting, TypeOK, RequestType
      <4>2. ~(epoch < epoch)
        BY <4>1
      <4>3. QED
        BY <4>1, <4>2 DEF BuilderInv, Begun
    <3>2. QED
      BY <2>4, <3>1, LineSpawn, BuilderStart
  <2>5. QED
    BY <1>3, <2>1, <2>2, <2>3, <2>4 DEF Request, Answer
<1>4. ASSUME NEW e \in Epochs, Build(e) \/ ChildFault(e) PROVE Line' /\ BuilderInv'
  <2>1. /\ UNCHANGED <<req, epoch, proc, drain>> /\ alive' \subseteq alive
        /\ faults \subseteq faults'
    BY <1>4 DEF Build, ChildFault, Send, Exit, BuildError, WorkerError, Crash, Die, Fault,
                OnlyChild, requestVars
  <2>2. \A d \in Epochs : Todo(d) = <<>> => Todo(d)' = <<>>
    <3>1. CASE Send(e)
      BY <1>0, <3>1 DEF Send, Todo
    <3>2. CASE BuildError(e)
      <4>1. Todo(e) # <<>>
        BY <3>2 DEF BuildError, Todo, FinalScript
      <4>2. QED
        BY <1>0, <3>2, <4>1 DEF BuildError, Todo
    <3>3. CASE WorkerError(e)
      <4>1. Todo(e) # <<>>
        BY <3>3, WorkerRaises
      <4>2. QED
        BY <1>0, <3>3, <4>1 DEF WorkerError, Todo
    <3>4. CASE Exit(e)
      BY <3>4 DEF Exit, Todo
    <3>5. CASE Crash(e)
      BY <1>0, <3>5 DEF Crash, Die, Todo
    <3>6. QED
      BY <1>4, <3>1, <3>2, <3>3, <3>4, <3>5 DEF Build, ChildFault
  <2>3. BuilderInv'
    BY <2>1, <2>2, BuilderKept
  <2>4. CASE Crash(e)
    BY <2>1, <2>3, <2>4, LineDie DEF Crash
  <2>5. QED
    BY <1>4, <2>3, <2>4, LineChild DEF ChildFault
<1>5. ASSUME NEW e \in Epochs, Drain(e) \/ DrainFault(e) PROVE Line' /\ BuilderInv'
  <2>1. Line'
    BY <1>5, LineDrain
  <2>2. CASE Clear(e)
    BY <2>1, <2>2, BuilderClear
  <2>3. CASE ~Clear(e)
    <3>1. drain \in [Epochs -> [at : DrainPlaces, msg : Messages]]
      BY DEF TypeOK, ServerType
    <3>2. /\ UNCHANGED <<req, epoch, proc, child, alive>> /\ faults \subseteq faults'
          /\ drain[e].at # "none"
      BY <1>5, <2>3 DEF Drain, DrainFault, Get, Timeout, Watchdog, CheckEpoch, Apply,
         ApplyProgress, ApplyDelta, ApplyReady, PublishReady, ApplyGraph, ApplyDone,
         GetError, FileError, Fault, Applied, OnlyDrain, childVars, requestVars, DrainAt,
         Applies
    <3>3. /\ drain'[e].at # "none"
          /\ \A d \in Epochs \ {e} : drain'[d] = drain[d]
      BY <1>5, <2>3, <3>1 DEF Drain, DrainFault, Get, Timeout, Watchdog, CheckEpoch, Apply,
         ApplyProgress, ApplyDelta, ApplyReady, PublishReady, ApplyGraph, ApplyDone,
         GetError, FileError, Applied, AfterMessage
    <3>4. \A d \in Epochs : drain'[d].at = "none" <=> drain[d].at = "none"
      BY <3>2, <3>3
    <3>5. QED
      BY <2>1, <3>2, <3>4, BuilderKept DEF Todo
  <2>4. QED
    BY <2>2, <2>3
<1>6. QED
  BY <1>2, <1>3, <1>4, <1>5 DEF Next

\* The epoch gate, the lines and the handle are invariants together.
LEMMA BuildInvariant == Spec => [](TypeOK /\ GateInv /\ Line /\ BuilderInv)
<1>1. GateInv /\ TypeOK /\ [Next]_vars => GateInv'
  BY GateStep
<1>2. TypeOK /\ GateInv /\ Line /\ BuilderInv /\ [Next]_vars => Line' /\ BuilderInv'
  BY BuilderStep
<1>3. QED
  BY GateInit, LineInit, BuilderInit, <1>1, <1>2, BuildTypeCorrect, PTL DEF Spec

\* At most one child builds at a time, for any number of requests that start
\* and kill builds: a child with messages to send is the newest epoch's,
\* unless a queue error made its drain drop the handle.
THEOREM OneBuilderAtATime == Spec => []OneBuilder
<1>1. TypeOK /\ Line /\ BuilderInv => OneBuilder
  <2> SUFFICES ASSUME TypeOK, Line, BuilderInv, NEW e \in Epochs,
                      e \in alive, child[e].todo # <<>>
               PROVE  e = epoch \/ <<"getError", e>> \in faults
    BY DEF OneBuilder
  <2>1. proc = e \/ <<"getError", e>> \in faults
    BY DEF BuilderInv, HandleIsKept, Todo
  <2>2. proc = e => proc # 0 /\ \A r \in Requests : req[r].at \notin Starting
    BY DEF BuilderInv, HandleIsNewest, Epochs
  <2>3. QED
    BY <2>1, <2>2 DEF BuilderInv, HandleIsNewest
<1>2. QED
  BY BuildInvariant, <1>1, PTL

-----------------------------------------------------------------------------
(* The graph a build leaves behind                                         *)

\* The messages of an epoch that are not applied yet.
Flying(e) ==
    Elems(Todo(e)) \cup Elems(queue[e])
        \cup (IF drain[e].at \in {"check", "apply"} THEN {drain[e].msg} ELSE {})

\* A build that ends well, unless it dies before its last message is sent.
Complete(e) == Done("ok") \in Flying(e) \cup {drain[e].msg}
Filing(e) == \E m \in Flying(e) : m.kind = "graph_file"
Publishing(ph, e) == \E m \in Flying(e) : Published(ph, m)
BuiltNodes(e) == {[part |-> p, epoch |-> e] : p \in child[e].built}

\* No message of another epoch has touched what the server holds.
OwnState(e) == serverEpoch = e /\ \A d \in Epochs : late[d] = 0

WholeOf(e) ==
    /\ payload \subseteq BuiltNodes(e)
    /\ Ended(e, "ok") => "full_ready" \in prog.flags
    /\ Complete(e) /\ <<"fileError", e>> \notin faults =>
          Filing(e) \/ cache = BuiltNodes(e)
    /\ Complete(e) /\ <<"buildError", e>> \notin faults =>
          \A ph \in {"L0", "L3"} : Publishing(ph, e) \/ ph \in ready

Whole == \A e \in Epochs : OwnState(e) => WholeOf(e)

LEMMA WholeInit == Init => Whole
BY DEF Init, Whole, OwnState, Epochs

\* What keeps the graph whole while messages move.
LEMMA WholeMove ==
    ASSUME NEW e \in Epochs, WholeOf(e),
           child'[e].built = child[e].built, payload' = payload, cache' = cache,
           ready \subseteq ready', faults \subseteq faults',
           Ended(e, "ok")' => "full_ready" \in prog'.flags,
           Complete(e)' => Complete(e),
           Complete(e)' /\ Filing(e) => Filing(e)' \/ <<"fileError", e>> \in faults',
           Complete(e)' => \A ph \in {"L0", "L3"} :
                              Publishing(ph, e) => Publishing(ph, e)' \/ ph \in ready'
    PROVE  WholeOf(e)'
<1>1. BuiltNodes(e)' = BuiltNodes(e)
  BY DEF BuiltNodes
<1>2. QED
  BY <1>1 DEF WholeOf

LEMMA WholeSame ==
    ASSUME NEW e \in Epochs, WholeOf(e), SameLine(e),
           payload' = payload, cache' = cache, ready \subseteq ready', prog' = prog
    PROVE  WholeOf(e)'
<1>1. Todo(e)' = Todo(e) /\ Flying(e)' = Flying(e)
  BY DEF Todo, Flying, SameLine
<1>2. Complete(e)' <=> Complete(e)
  BY <1>1 DEF Complete, SameLine
<1>3. Filing(e)' <=> Filing(e)
  BY <1>1 DEF Filing
<1>4. \A ph : Publishing(ph, e)' <=> Publishing(ph, e)
  BY <1>1 DEF Publishing
<1>5. Ended(e, "ok")' <=> Ended(e, "ok")
  BY DEF Ended, SameLine
<1>6. Ended(e, "ok") => "full_ready" \in prog.flags
  BY DEF WholeOf
<1>7. QED
  BY <1>2, <1>3, <1>4, <1>5, <1>6, WholeMove DEF SameLine

LEMMA DoneOk ==
    /\ Done("ok").kind = "done" /\ Done("ok").key = "ok" /\ Done("ok").parts = {}
    /\ Done("ok") # Done("killed") /\ Done("ok") # NoMessage
BY DEF Done, NoMessage, Message

\* An epoch that has not begun has nothing in flight.
LEMMA NothingFlies ==
    ASSUME NEW e \in Epochs, LineOf(e), drain[e].at = "none"
    PROVE  ~Complete(e) /\ child[e].built = {} /\ ~Ended(e, "ok")
<1>1. queue[e] = <<>> /\ Todo(e) = <<>> /\ child[e].built = {} /\ drain[e].msg = NoMessage
  BY DEF LineOf, Todo, NotStarted
<1>2. Flying(e) = {}
  BY <1>1, ElemsEmpty DEF Flying
<1>3. QED
  BY <1>1, <1>2, DoneOk DEF Complete, Ended

\* start_build: the state of the server is the new epoch's, and empty.
LEMMA WholeStart ==
    ASSUME TypeOK, GateInv, Line, BuilderInv, Whole, NEW r \in Requests,
           BeginCache(r) \/ BeginProgress(r) \/ Spawn(r)
    PROVE  Whole'
<1> SUFFICES ASSUME NEW e \in Epochs, OwnState(e)' PROVE WholeOf(e)'
  BY DEF Whole
<1>0. /\ child \in [Epochs -> [todo : Seq(Messages), built : SUBSET Parts]]
      /\ drain \in [Epochs -> [at : DrainPlaces, msg : Messages]]
      /\ e \in Nat /\ LineOf(e)
  BY BuildAssumption DEF TypeOK, ChildType, ServerType, Line, Epochs
<1>1. req[r].at \in Starting /\ (drain[e].at # "none" => e < epoch)
  BY DEF BeginCache, BeginProgress, Spawn, At, Starting, BuilderInv, Begun
<1>2. e = epoch
  <2>1. CASE BeginCache(r)
    BY <2>1 DEF BeginCache, OwnState
  <2>2. CASE BeginProgress(r) \/ Spawn(r)
    <3>1. \A s \in Requests : req[s].at # "begin_cache"
      BY <2>2 DEF BeginProgress, Spawn, At, GateInv, OneStarter, Starting
    <3>2. serverEpoch = epoch /\ serverEpoch' = serverEpoch
      BY <2>2, <3>1 DEF GateInv, EpochsAgree, BeginProgress, Spawn, serverVars
    <3>3. QED
      BY <3>2 DEF OwnState
  <2>3. QED
    BY <2>1, <2>2
<1>3. drain[e].at = "none"
  BY <1>0, <1>1, <1>2
<1>4. ~Complete(e) /\ child[e].built = {} /\ ~Ended(e, "ok") /\ queue[e] = <<>>
  BY <1>0, <1>3, NothingFlies DEF LineOf
<1>5. BuiltNodes(e) = {}
  BY <1>4 DEF BuiltNodes
<1>6. CASE BeginCache(r)
  <2>1. /\ payload' = {}
        /\ UNCHANGED <<child, queue, drain>>
    BY <1>6 DEF BeginCache, childVars
  <2>2. ~Complete(e)' /\ ~Ended(e, "ok")'
    BY <1>4, <2>1 DEF Complete, Flying, Todo, Ended
  <2>3. QED
    BY <2>1, <2>2 DEF WholeOf
<1>7. CASE BeginProgress(r)
  <2>1. /\ UNCHANGED <<child, queue, drain, payload, late, serverEpoch>>
    BY <1>7 DEF BeginProgress, childVars
  <2>2. ~Complete(e)' /\ ~Ended(e, "ok")' /\ BuiltNodes(e)' = BuiltNodes(e)
    BY <1>4, <2>1 DEF Complete, Flying, Todo, Ended, BuiltNodes
  <2>3. OwnState(e)
    BY <2>1 DEF OwnState
  <2>4. QED
    BY <2>1, <2>2, <2>3 DEF WholeOf, Whole
<1>8. CASE Spawn(r)
  <2>1. PICK s \in Scripts : child' = [child EXCEPT ![epoch] = [todo |-> s, built |-> {}]]
    BY <1>8 DEF Spawn
  <2>2. /\ UNCHANGED <<payload, cache, ready, late, serverEpoch, queue, faults>>
        /\ drain'[e].at = "waiting" /\ drain'[e].msg = drain[e].msg
    BY <1>0, <1>2, <1>8 DEF Spawn, serverVars
  <2>3. child'[e] = [todo |-> s, built |-> {}]
    BY <1>0, <1>2, <2>1
  <2>4. child'[e].todo = s /\ child'[e].built = {}
    BY <2>3
  <2>5. Flying(e)' = Elems(s)
    BY <1>4, <2>2, <2>4, ElemsEmpty DEF Flying, Todo
  <2>6. payload = {} /\ BuiltNodes(e)' = {}
    <3>1. OwnState(e)
      BY <2>2 DEF OwnState
    <3>2. QED
      BY <1>5, <2>4, <3>1 DEF Whole, WholeOf, BuiltNodes
  <2>7. Shape(s) /\ Len(s) > 1 /\ \A ph \in {"L0", "L3"} : \E m \in Elems(s) : Published(ph, m)
    BY ScriptsShape
  <2>8. drain'[e].msg # Done("ok")
    BY <1>0, <1>3, <2>2, DoneOk DEF LineOf
  <2>9. Complete(e)' => Filing(e)'
    BY <2>5, <2>7, <2>8 DEF Complete, Filing, Shape
  <2>10. \A ph \in {"L0", "L3"} : Publishing(ph, e)'
    BY <2>5, <2>7 DEF Publishing
  <2>11. ~Ended(e, "ok")'
    BY <2>2 DEF Ended
  <2>12. QED
    BY <2>2, <2>6, <2>9, <2>10, <2>11 DEF WholeOf
<1>9. QED
  BY <1>6, <1>7, <1>8

\* A child that dies loses messages only if its last one was not among them.
LEMMA WholeDie ==
    ASSUME TypeOK, Line, Whole, NEW v \in Epochs, Die(v),
           UNCHANGED <<drain, serverVars, late>>, faults \subseteq faults'
    PROVE  Whole'
<1> SUFFICES ASSUME NEW e \in Epochs, OwnState(e)' PROVE WholeOf(e)'
  BY DEF Whole
<1>0. /\ child \in [Epochs -> [todo : Seq(Messages), built : SUBSET Parts]]
      /\ queue \in [Epochs -> Seq(Messages)] /\ queue[v] \in Seq(Messages)
  BY DEF TypeOK, ChildType
<1>1. OwnState(e) /\ WholeOf(e) /\ LineOf(e)
  BY DEF OwnState, serverVars, Whole, Line
<1>2. PICK n \in 0..Len(queue[v]) : queue' = [queue EXCEPT ![v] = SubSeq(@, 1, n)]
  BY DEF Die
<1>3. CASE e # v
  <2>1. SameLine(e)
    BY <1>0, <1>2, <1>3 DEF Die, SameLine
  <2>2. QED
    BY <1>1, <2>1, WholeSame DEF serverVars
<1>4. CASE e = v
  <2> DEFINE q == queue[e]
             p == SubSeq(q, 1, n)
  <2>1. /\ queue'[e] = p /\ child'[e].todo = <<>> /\ child'[e].built = child[e].built
        /\ drain'[e] = drain[e]
    BY <1>0, <1>2, <1>4 DEF Die
  <2>2. /\ Elems(p) \subseteq Elems(q) /\ Len(p) = n
        /\ \A i \in 1..n : p[i] = q[i]
        /\ n \in Nat /\ Len(q) \in Nat /\ n <= Len(q)
    BY <1>0, <1>4, ElemsPrefix
  <2> HIDE DEF p, q
  <2>3. ASSUME Done("ok") \in Elems(p) PROVE Elems(p) = Elems(q) /\ Todo(e) = <<>>
    <3>1. PICK i \in 1..n : q[i] = Done("ok")
      BY <2>2, <2>3 DEF Elems
    <3>2. DoneIsLast(q)
      BY <1>1 DEF LineOf, q
    <3>3. i = Len(q)
      BY <2>2, <3>1, <3>2, DoneOk DEF DoneIsLast
    <3>4. n = Len(q)
      BY <2>2, <3>3
    <3>5. Elems(p) = Elems(q)
      BY <2>2, <3>4 DEF Elems
    <3>6. Done("ok") \in Held(e)
      BY <2>2, <2>3 DEF Held, q
    <3>7. QED
      BY <1>1, <3>5, <3>6, DoneOk DEF LineOf, Sent
  <2>4. ASSUME drain[e].msg = Done("ok") PROVE Elems(p) = Elems(q) /\ Todo(e) = <<>>
    <3>1. q = <<>> /\ Todo(e) = <<>>
      BY <1>1, <2>4, DoneOk DEF LineOf, Held, Sent, q
    <3>2. Elems(p) = {} /\ Elems(q) = {}
      BY <2>2, <3>1, ElemsEmpty
    <3>3. QED
      BY <3>1, <3>2
  <2>5. Flying(e)' = Elems(p) \cup (IF drain[e].at \in {"check", "apply"} THEN {drain[e].msg} ELSE {})
    BY <2>1, ElemsEmpty DEF Flying, Todo
  <2>6. Complete(e)' => Done("ok") \in Elems(p) \/ drain[e].msg = Done("ok")
    BY <2>1, <2>5 DEF Complete
  <2>7. Complete(e)' => Flying(e)' = Flying(e)
    BY <2>3, <2>4, <2>5, <2>6, ElemsEmpty DEF Flying, q
  <2>8. Complete(e)' => Complete(e)
    BY <2>1, <2>7 DEF Complete
  <2>9. Ended(e, "ok")' => "full_ready" \in prog'.flags
    BY <1>1, <2>1 DEF Ended, WholeOf, serverVars
  <2>10. Complete(e)' /\ Filing(e) => Filing(e)'
    BY <2>7 DEF Filing
  <2>11. Complete(e)' => \A ph \in {"L0", "L3"} : Publishing(ph, e) => Publishing(ph, e)'
    BY <2>7 DEF Publishing
  <2>12. QED
    BY <1>1, <2>1, <2>8, <2>9, <2>10, <2>11, WholeMove DEF serverVars
<1>5. QED
  BY <1>3, <1>4

\* The child sends, fails or exits.
LEMMA WholeChild ==
    ASSUME TypeOK, Line, Whole, NEW c \in Epochs, Build(c) \/ BuildError(c) \/ WorkerError(c)
    PROVE  Whole'
<1> SUFFICES ASSUME NEW e \in Epochs, OwnState(e)' PROVE WholeOf(e)'
  BY DEF Whole
<1>0. /\ child \in [Epochs -> [todo : Seq(Messages), built : SUBSET Parts]]
      /\ queue \in [Epochs -> Seq(Messages)] /\ queue[e] \in Seq(Messages)
      /\ Todo(e) \in Seq(Messages)
  BY DEF TypeOK, ChildType, Todo
<1>1. /\ UNCHANGED <<drain, serverVars, late>> /\ faults \subseteq faults'
  BY DEF Build, Send, Exit, BuildError, WorkerError, Fault, OnlyChild
<1>2. OwnState(e) /\ WholeOf(e) /\ LineOf(e)
  BY <1>1 DEF OwnState, serverVars, Whole, Line
<1>3. CASE e # c
  <2>1. SameLine(e)
    BY <1>0, <1>1, <1>3 DEF SameLine, Build, Send, Exit, BuildError, WorkerError
  <2>2. QED
    BY <1>1, <1>2, <2>1, WholeSame DEF serverVars
<1>4. Ended(e, "ok")' => "full_ready" \in prog'.flags
  BY <1>1, <1>2 DEF Ended, WholeOf, serverVars
<1>5. CASE Exit(e)
  <2>1. child' = child /\ queue' = queue
    BY <1>5 DEF Exit
  <2>2. Flying(e)' = Flying(e)
    BY <1>1, <2>1 DEF Flying, Todo
  <2>3. /\ Complete(e)' = Complete(e) /\ Filing(e)' = Filing(e)
        /\ \A ph : Publishing(ph, e)' = Publishing(ph, e)
    BY <1>1, <2>2 DEF Complete, Filing, Publishing
  <2>4. QED
    BY <1>1, <1>2, <1>4, <2>1, <2>3, WholeMove DEF serverVars
<1>6. CASE BuildError(e)
  <2>1. /\ child'[e].todo = BuildErrorScript /\ child'[e].built = child[e].built
        /\ <<"buildError", e>> \in faults'
    BY <1>0, <1>6 DEF BuildError, Fault
  <2>2. Filing(e)'
    <3>1. GraphFile \in Elems(BuildErrorScript) /\ GraphFile.kind = "graph_file"
      <4>1. Len(BuildErrorScript) = 3 /\ BuildErrorScript[2] = GraphFile
        BY DEF BuildErrorScript
      <4>2. QED
        BY <4>1 DEF Elems, GraphFile, Message
    <3>2. QED
      BY <2>1, <3>1 DEF Filing, Flying, Todo
  <2>3. BuiltNodes(e)' = BuiltNodes(e)
    BY <2>1 DEF BuiltNodes
  <2>4. QED
    BY <1>1, <1>2, <1>4, <2>1, <2>2, <2>3 DEF WholeOf, serverVars
<1>7. CASE WorkerError(e)
  <2>1. /\ child'[e].todo = WorkerErrorScript /\ child'[e].built = child[e].built
        /\ queue'[e] = queue[e]
    BY <1>0, <1>7 DEF WorkerError
  <2>2. Todo(e) # <<>>
    BY <1>7, WorkerRaises
  <2>3. Done("ok") \notin Held(e)
    BY <1>2, <2>2, DoneOk DEF LineOf, Sent
  <2>4. ~Complete(e)'
    BY <1>1, <2>1, <2>3, ScriptsShape DEF Complete, Flying, Todo, Held
  <2>5. BuiltNodes(e)' = BuiltNodes(e)
    BY <2>1 DEF BuiltNodes
  <2>6. QED
    BY <1>1, <1>2, <1>4, <2>4, <2>5 DEF WholeOf, serverVars
<1>8. CASE Send(e)
  <2> DEFINE t == Todo(e)
             q == queue[e]
             m == Head(t)
             built == child[e].built \cup m.parts
             full == IF m.kind = "graph_file" THEN [m EXCEPT !.parts = built] ELSE m
  <2>1. t # <<>> /\ m \in Messages /\ Elems(t) = {m} \cup Elems(Tail(t))
    BY <1>0, <1>8, ElemsTail DEF Send, Todo
  <2>2. /\ child' = [child EXCEPT ![e].todo = Tail(@), ![e].built = built]
        /\ queue' = [queue EXCEPT ![e] = Append(@, full)]
        /\ alive' = alive /\ faults' = faults
    BY <1>8 DEF Send, Todo
  <2>3. PICK sent \in Messages : sent = full
    BY <1>0, <2>1 DEF Messages
  <2>4. /\ Todo(e)' = Tail(t) /\ child'[e].built = built /\ queue'[e] = Append(q, sent)
    BY <1>0, <2>2, <2>3 DEF Todo
  <2>5. /\ sent.kind = m.kind /\ sent.key = m.key
        /\ m.kind # "graph_file" => sent = m
    BY <1>0, <2>1, <2>3 DEF Messages
  <2>6. /\ Shape(t)
        /\ m.kind = "done" => m.parts = {}
        /\ Len(t) <= 1 => m.kind = "done"
    BY <1>0, <1>2, <2>1, ShapeTail DEF LineOf
  <2>7. q \in Seq(Messages)
    BY <1>0
  <2> HIDE DEF t, q, m, built, full
  <2>8. Elems(Append(q, sent)) = Elems(q) \cup {sent}
    BY <2>7, ElemsAppend
  <2>9. drain' = drain
    BY <1>1
  <2>10. /\ Flying(e)' \subseteq Flying(e) \cup {sent}
         /\ Flying(e) \ {m} \subseteq Flying(e)' /\ sent \in Flying(e)' /\ m \in Flying(e)
    BY <2>1, <2>4, <2>8, <2>9 DEF Flying, q, t
  <2>11. Complete(e)' => Complete(e)
    BY <2>5, <2>9, <2>10, DoneOk DEF Complete
  <2>12. Filing(e) => Filing(e)'
    BY <2>5, <2>10 DEF Filing
  <2>13. \A ph : Publishing(ph, e) => Publishing(ph, e)'
    BY <2>5, <2>10 DEF Publishing, Published
  <2>14. Complete(e) /\ ~Filing(e) => BuiltNodes(e)' = BuiltNodes(e)
    <3>1. SUFFICES ASSUME Complete(e), ~Filing(e) PROVE BuiltNodes(e)' = BuiltNodes(e)
      OBVIOUS
    <3>2. Done("ok") \notin Held(e)
      BY <1>2, <2>1, DoneOk DEF LineOf, Sent, t
    <3>3. Done("ok") \in Elems(t)
      BY <3>1, <3>2 DEF Complete, Flying, Held, t
    <3>4. \A x \in Elems(t) : x.kind # "graph_file"
      BY <3>1 DEF Filing, Flying, t
    <3>5. Len(t) \in Nat /\ ~(Len(t) > 1)
      BY <1>0, <2>6, <3>3, <3>4 DEF Shape, t
    <3>6. Len(t) <= 1
      BY <3>5
    <3>7. built = child[e].built
      BY <2>6, <3>6 DEF built
    <3>8. QED
      BY <2>4, <3>7 DEF BuiltNodes
  <2>15. BuiltNodes(e) \subseteq BuiltNodes(e)'
    BY <2>4 DEF BuiltNodes, built
  <2>16. QED
    BY <1>1, <1>2, <1>4, <2>2, <2>11, <2>12, <2>13, <2>14, <2>15 DEF WholeOf, serverVars
<1>9. QED
  BY <1>3, <1>5, <1>6, <1>7, <1>8 DEF Build

\* The drain takes the messages in their order and applies its own.
LEMMA WholeDrain ==
    ASSUME TypeOK, Line, Whole, NEW c \in Epochs, Drain(c) \/ DrainFault(c)
    PROVE  Whole'
<1> USE DEF DrainAt, Applies
<1> SUFFICES ASSUME NEW e \in Epochs, OwnState(e)' PROVE WholeOf(e)'
  BY DEF Whole
<1>0. /\ drain \in [Epochs -> [at : DrainPlaces, msg : Messages]]
      /\ queue \in [Epochs -> Seq(Messages)] /\ queue[e] \in Seq(Messages)
      /\ late \in [Epochs -> Nat]
  BY DEF TypeOK, ChildType, ServerType
<1>1. child' = child /\ alive' = alive /\ faults \subseteq faults' /\ serverEpoch' = serverEpoch
  BY DEF Drain, DrainFault, Get, Timeout, Watchdog, CheckEpoch, Apply, ApplyProgress,
         ApplyDelta, ApplyReady, PublishReady, ApplyGraph, ApplyDone, Clear, GetError,
         FileError, Fault, Applied, OnlyDrain, childVars, serverVars
<1> DEFINE Applies5(d) == \/ ApplyProgress(d) \/ ApplyDelta(d) \/ PublishReady(d)
                          \/ ApplyGraph(d) \/ ApplyDone(d)
<1>2. Applies5(c) => Applied(c)
  BY DEF ApplyProgress, ApplyDelta, PublishReady, ApplyGraph, ApplyDone
<1>3. ~Applies5(c) => /\ UNCHANGED <<cache, payload, prog, late>> /\ ready \subseteq ready'
  BY DEF Drain, DrainFault, Get, Timeout, Watchdog, CheckEpoch, Apply, ApplyReady, Clear,
         GetError, FileError, serverVars
<1>4. Applied(c) => c = serverEpoch /\ late' = late
  <2>1. SUFFICES ASSUME Applied(c) PROVE c = serverEpoch /\ late' = late
    OBVIOUS
  <2>2. late' = [late EXCEPT ![c] = IF c = serverEpoch THEN @ ELSE @ + 1]
    BY <2>1 DEF Applied
  <2>3. late'[c] = 0
    BY DEF OwnState
  <2>4. QED
    BY <1>0, <2>2, <2>3
<1>5. OwnState(e)
  BY <1>1, <1>2, <1>3, <1>4 DEF OwnState
<1>6. WholeOf(e) /\ LineOf(e)
  BY <1>5 DEF Whole, Line
<1>7. BuiltNodes(e)' = BuiltNodes(e) /\ Todo(e)' = Todo(e) /\ child'[e].built = child[e].built
  BY <1>1 DEF BuiltNodes, Todo
<1>8. CASE e # c
  <2>1. ~Applies5(c)
    BY <1>2, <1>4, <1>5, <1>8 DEF OwnState
  <2>2. drain'[e] = drain[e] /\ queue'[e] = queue[e]
    BY <1>0, <1>8, <2>1 DEF Drain, DrainFault, Get, Timeout, Watchdog, CheckEpoch, Apply,
       ApplyReady, Clear, GetError, FileError
  <2>3. SameLine(e)
    BY <1>1, <2>2 DEF SameLine
  <2>4. QED
    BY <1>3, <1>6, <2>1, <2>3, WholeSame
\* Messages move and nothing is applied.
<1>9. ASSUME UNCHANGED <<payload, cache, prog>>, ready \subseteq ready',
             drain'[e].msg = Done("ok") => Complete(e),
             Flying(e)' \subseteq Flying(e) \cup {Done("killed")},
             \A m \in Flying(e) :
                \/ m \in Flying(e)'
                \/ m.kind = "phase_ready" /\ m.key \in ready'
                \/ m.kind = "graph_file" /\ <<"fileError", e>> \in faults'
                \/ m.kind \notin {"phase_ready", "graph_file"},
             Ended(e, "ok")' => Ended(e, "ok")
      PROVE  WholeOf(e)'
  <2>1. Complete(e)' => Complete(e)
    BY <1>9, DoneOk DEF Complete
  <2>2. Filing(e) => Filing(e)' \/ <<"fileError", e>> \in faults'
    BY <1>9 DEF Filing
  <2>3. \A ph : Publishing(ph, e) => Publishing(ph, e)' \/ ph \in ready'
    BY <1>9 DEF Publishing, Published
  <2>4. Ended(e, "ok")' => "full_ready" \in prog'.flags
    BY <1>6, <1>9 DEF WholeOf
  <2>5. QED
    BY <1>1, <1>6, <1>7, <1>9, <2>1, <2>2, <2>3, <2>4, WholeMove
<1>10. CASE Get(e)
  <2> DEFINE q == queue[e]
  <2>1. /\ q # <<>> /\ drain'[e] = [at |-> "check", msg |-> Head(q)] /\ queue'[e] = Tail(q)
        /\ drain[e].at = "waiting"
    BY <1>0, <1>10 DEF Get
  <2>2. drain'[e].at = "check" /\ drain'[e].msg = Head(q)
    BY <2>1
  <2>3. Elems(q) = {Head(q)} \cup Elems(Tail(q))
    BY <1>0, <2>1, ElemsTail
  <2>4. Flying(e)' = Flying(e) /\ Head(q) \in Flying(e)
    BY <1>7, <2>1, <2>2, <2>3 DEF Flying
  <2>5. UNCHANGED <<payload, cache, prog, ready>> /\ ~Ended(e, "ok")'
    BY <1>10, <2>2 DEF Get, serverVars, Ended
  <2>6. QED
    BY <1>9, <2>2, <2>4, <2>5 DEF Complete
<1>11. CASE Timeout(e) \/ Clear(e)
  <2>1. /\ queue' = queue /\ drain'[e].msg = drain[e].msg
        /\ drain[e].at \notin {"check", "apply"} /\ drain'[e].at \notin {"check", "apply"}
        /\ UNCHANGED <<payload, cache, prog, ready>>
    BY <1>0, <1>11 DEF Timeout, Clear, serverVars
  <2>2. Flying(e)' = Flying(e)
    BY <1>7, <2>1 DEF Flying
  <2>3. Ended(e, "ok")' => Ended(e, "ok")
    BY <1>0, <1>11 DEF Timeout, Clear, Ended
  <2>4. QED
    BY <1>9, <2>1, <2>2, <2>3 DEF Complete
<1>12. CASE Watchdog(e) \/ GetError(e)
  <2>1. /\ queue' = queue /\ drain[e].at \notin {"check", "apply"}
        /\ \/ drain'[e] = [at |-> "waiting", msg |-> NoMessage]
           \/ drain'[e] = [at |-> "joining", msg |-> NoMessage]
           \/ drain'[e] = [at |-> "check", msg |-> Done("killed")]
        /\ UNCHANGED <<payload, cache, prog, ready>>
    BY <1>0, <1>12 DEF Watchdog, GetError, serverVars
  <2>2. \/ drain'[e].at \in {"waiting", "joining"} /\ drain'[e].msg = NoMessage
        \/ drain'[e].at = "check" /\ drain'[e].msg = Done("killed")
    BY <2>1
  <2>3. Flying(e) \subseteq Flying(e)' /\ Flying(e)' \subseteq Flying(e) \cup {Done("killed")}
    BY <1>7, <2>1, <2>2 DEF Flying
  <2>4. drain'[e].msg # Done("ok") /\ ~Ended(e, "ok")'
    BY <2>2, DoneOk DEF Ended
  <2>5. QED
    BY <1>9, <2>1, <2>3, <2>4
<1>13. CASE FileError(e)
  <2>1. /\ queue' = queue /\ drain[e].at = "check" /\ drain[e].msg.kind = "graph_file"
        /\ drain'[e].at = "waiting" /\ drain'[e].msg = drain[e].msg
        /\ UNCHANGED <<payload, cache, prog, ready>>
        /\ <<"fileError", e>> \in faults'
    BY <1>0, <1>13 DEF FileError, Fault, serverVars
  <2>2. Flying(e)' \cup {drain[e].msg} = Flying(e)
    BY <1>7, <2>1 DEF Flying
  <2>3. ~Ended(e, "ok")'
    BY <2>1 DEF Ended
  <2>4. QED
    BY <1>9, <2>1, <2>2, <2>3 DEF Complete
<1>14. CASE CheckEpoch(e)
  <2>1. /\ queue' = queue /\ drain[e].at = "check" /\ drain'[e].at = "apply"
        /\ drain'[e].msg = drain[e].msg
        /\ UNCHANGED <<payload, cache, prog, ready>>
    BY <1>0, <1>5, <1>14 DEF CheckEpoch, OwnState, serverVars
  <2>2. Flying(e)' = Flying(e)
    BY <1>7, <2>1 DEF Flying
  <2>3. ~Ended(e, "ok")'
    BY <2>1 DEF Ended
  <2>4. QED
    BY <1>9, <2>1, <2>2, <2>3 DEF Complete
<1>15. CASE ApplyReady(e)
  <2>1. /\ queue' = queue /\ drain[e].at = "apply" /\ drain[e].msg.kind = "phase_ready"
        /\ drain'[e].at = "publish" /\ drain'[e].msg = drain[e].msg
        /\ UNCHANGED <<payload, cache, prog>> /\ ready' = ready \cup {drain[e].msg.key}
    BY <1>0, <1>15 DEF ApplyReady
  <2>2. Flying(e)' \cup {drain[e].msg} = Flying(e)
    BY <1>7, <2>1 DEF Flying
  <2>3. ~Ended(e, "ok")'
    BY <2>1 DEF Ended
  <2>4. QED
    BY <1>9, <2>1, <2>2, <2>3 DEF Complete
\* A message of the epoch is applied.
<1>16. ASSUME Applied(e)
       PROVE  /\ queue' = queue /\ drain'[e].msg = drain[e].msg
              /\ drain'[e].at \in {"waiting", "joining"}
              /\ drain'[e].at = "joining" => drain[e].msg.kind = "done"
              /\ faults' = faults
              /\ \A m \in Flying(e) : m \in Flying(e)' \/ (m = drain[e].msg /\ drain[e].at # "publish")
              /\ Flying(e)' \subseteq Flying(e)
              /\ Complete(e)' => Complete(e)
              /\ Ended(e, "ok")' => drain[e].msg = Done("ok")
  <2>1. drain' = [drain EXCEPT ![e].at = AfterMessage(e)] /\ queue' = queue /\ faults' = faults
    BY <1>16 DEF Applied
  <2>2. drain'[e].at = AfterMessage(e) /\ drain'[e].msg = drain[e].msg
    BY <1>0, <2>1
  <2>3. /\ drain'[e].at \in {"waiting", "joining"}
        /\ drain'[e].at = "joining" => drain[e].msg.kind = "done"
    BY <2>2 DEF AfterMessage
  <2>4. /\ Flying(e)' \subseteq Flying(e)
        /\ \A m \in Flying(e) : m \in Flying(e)' \/ (m = drain[e].msg /\ drain[e].at # "publish")
    BY <1>7, <2>1, <2>3 DEF Flying
  <2>5. Complete(e)' => Complete(e)
    BY <2>2, <2>4 DEF Complete
  <2>6. QED
    BY <2>1, <2>2, <2>3, <2>4, <2>5 DEF Ended
<1>17. CASE ApplyProgress(e) \/ PublishReady(e)
  <2>1. Applied(e) /\ UNCHANGED <<cache, payload, ready>>
    BY <1>17 DEF ApplyProgress, PublishReady
  <2>2. /\ drain[e].msg.kind \notin {"graph_file", "done"}
        /\ drain[e].at = "publish" \/ drain[e].msg.kind # "phase_ready"
    BY <1>6, <1>17 DEF ApplyProgress, PublishReady, LineOf
  <2>3. ~Ended(e, "ok")'
    BY <1>16, <2>1, <2>2, DoneOk
  <2>4. Filing(e) => Filing(e)'
    BY <1>16, <2>1, <2>2 DEF Filing
  <2>5. \A ph : Publishing(ph, e) => Publishing(ph, e)'
    BY <1>16, <2>1, <2>2 DEF Publishing, Published
  <2>6. QED
    BY <1>1, <1>6, <1>7, <1>16, <2>1, <2>3, <2>4, <2>5, WholeMove
<1>18. CASE ApplyDelta(e)
  <2> DEFINE held == {n.part : n \in cache}
             fresh == {[part |-> p, epoch |-> e] : p \in drain[e].msg.parts \ held}
  <2>1. /\ Applied(e) /\ UNCHANGED <<prog, ready>>
        /\ cache' = cache \cup fresh
        /\ payload' = IF drain[e].msg.key = NoPhase THEN payload ELSE payload \cup fresh
    BY <1>18 DEF ApplyDelta
  <2>2. drain[e].msg.parts \subseteq child[e].built
    BY <1>6 DEF LineOf, Held, Sent
  <2>3. fresh \subseteq BuiltNodes(e)
    BY <2>2 DEF BuiltNodes
  <2>4. cache = BuiltNodes(e) => fresh = {}
    <3>1. SUFFICES ASSUME cache = BuiltNodes(e) PROVE drain[e].msg.parts \ held = {}
      OBVIOUS
    <3>2. \A p \in child[e].built : [part |-> p, epoch |-> e] \in cache
      BY <3>1 DEF BuiltNodes
    <3>3. ASSUME NEW p \in child[e].built PROVE p \in held
      <4>1. PICK n \in cache : n = [part |-> p, epoch |-> e]
        BY <3>2
      <4>2. n.part = p
        BY <4>1
      <4>3. QED
        BY <4>1, <4>2
    <3>4. QED
      BY <2>2, <3>3
  <2> HIDE DEF fresh, held
  <2>5. payload' \subseteq BuiltNodes(e)
    BY <1>6, <2>1, <2>3 DEF WholeOf
  <2>6. cache = BuiltNodes(e) => cache' = BuiltNodes(e)
    BY <2>1, <2>4
  <2>7. drain[e].msg.kind = "delta"
    BY <1>18 DEF ApplyDelta
  <2>8. ~Ended(e, "ok")'
    BY <1>16, <2>1, <2>7, DoneOk
  <2>9. Filing(e) => Filing(e)'
    BY <1>16, <2>1, <2>7 DEF Filing
  <2>10. \A ph : Publishing(ph, e) => Publishing(ph, e)'
    BY <1>16, <2>1, <2>7 DEF Publishing, Published
  <2>11. QED
    BY <1>6, <1>7, <1>16, <2>1, <2>5, <2>6, <2>8, <2>9, <2>10 DEF WholeOf
<1>19. CASE ApplyGraph(e)
  <2>1. /\ Applied(e) /\ UNCHANGED <<prog, ready, payload>>
        /\ drain[e].msg.kind = "graph_file"
        /\ cache' = {[part |-> p, epoch |-> e] : p \in drain[e].msg.parts}
    BY <1>19 DEF ApplyGraph
  <2>2. drain[e].msg.parts = child[e].built
    BY <1>6, <2>1 DEF LineOf, Held, Sent
  <2>3. cache' = BuiltNodes(e)
    BY <2>1, <2>2 DEF BuiltNodes
  <2>4. ~Ended(e, "ok")'
    BY <1>16, <2>1, DoneOk
  <2>5. \A ph : Publishing(ph, e) => Publishing(ph, e)'
    BY <1>16, <2>1 DEF Publishing, Published
  <2>6. QED
    BY <1>6, <1>7, <1>16, <2>1, <2>3, <2>4, <2>5 DEF WholeOf
<1>20. CASE ApplyDone(e)
  <2>1. /\ Applied(e) /\ UNCHANGED <<cache, ready, payload>>
        /\ drain[e].msg.kind = "done"
    BY <1>20 DEF ApplyDone
  <2>2. drain[e].msg = Done("ok") => "full_ready" \in prog'.flags
    <3>1. prog \in [phase : Keys, seq : Nat, flags : SUBSET Keys]
      BY DEF TypeOK, ServerType
    <3>2. QED
      BY <1>20, <3>1, DoneOk DEF ApplyDone
  <2>3. Filing(e) => Filing(e)'
    BY <1>16, <2>1 DEF Filing
  <2>4. \A ph : Publishing(ph, e) => Publishing(ph, e)'
    BY <1>16, <2>1 DEF Publishing, Published
  <2>5. QED
    BY <1>1, <1>6, <1>7, <1>16, <2>1, <2>2, <2>3, <2>4, WholeMove
<1>21. QED
  BY <1>8, <1>10, <1>11, <1>12, <1>13, <1>14, <1>15, <1>17, <1>18, <1>19, <1>20
     DEF Drain, DrainFault, Apply

LEMMA WholeStep ==
    ASSUME TypeOK, GateInv, Line, BuilderInv, Whole, [Next]_vars
    PROVE  Whole'
<1>1. ASSUME UNCHANGED <<childVars, queue, drain, serverVars, late, faults>>
      PROVE  Whole'
  <2>1. SUFFICES ASSUME NEW e \in Epochs, OwnState(e)' PROVE WholeOf(e)'
    BY DEF Whole
  <2>2. SameLine(e) /\ WholeOf(e)
    BY <1>1, <2>1 DEF SameLine, childVars, serverVars, Whole, OwnState
  <2>3. QED
    BY <1>1, <2>2, WholeSame DEF serverVars
<1>2. CASE UNCHANGED vars \/ RosterChanges
  BY <1>1, <1>2 DEF vars, RosterChanges
<1>3. ASSUME NEW r \in Requests, Request(r) PROVE Whole'
  <2>1. CASE \/ ReadRoster(r) \/ Ensure(r)
             \/ LookAtProc(r) \/ ProbeProc(r) \/ AnswerError(r)
             \/ ServeCurrent(r) \/ Rebuild(r) \/ PickVictim(r)
             \/ Reap(r) \/ Refuse(r) \/ NewEpoch(r)
    <3>1. OnlyRequest
      BY <2>1 DEF ReadRoster, Ensure, LookAtProc, ProbeProc, AnswerError, ServeCurrent,
                  Rebuild, PickVictim, Reap, Refuse, NewEpoch
    <3>2. QED
      BY <1>1, <3>1 DEF OnlyRequest
  <2>2. CASE Terminate(r)
    <3>1. CASE req[r].victim \in alive
      <4>1. req[r].victim \in Epochs
        BY <3>1 DEF TypeOK, ChildType
      <4>2. QED
        BY <2>2, <3>1, <4>1, WholeDie DEF Terminate
    <3>2. CASE req[r].victim \notin alive
      BY <1>1, <2>2, <3>2 DEF Terminate
    <3>3. QED
      BY <3>1, <3>2
  <2>3. QED
    BY <1>3, <2>1, <2>2, WholeStart DEF Request, Answer
<1>4. ASSUME NEW e \in Epochs, Build(e) \/ ChildFault(e) PROVE Whole'
  <2>1. CASE Crash(e)
    <3>1. faults \subseteq faults'
      BY <2>1 DEF Crash, Fault
    <3>2. QED
      BY <2>1, <3>1, WholeDie DEF Crash, OnlyChild
  <2>2. QED
    BY <1>4, <2>1, WholeChild DEF ChildFault
<1>5. ASSUME NEW e \in Epochs, Drain(e) \/ DrainFault(e) PROVE Whole'
  BY <1>5, WholeDrain
<1>6. QED
  BY <1>2, <1>3, <1>4, <1>5 DEF Next

\* When a build ended well and no retired build interfered, the server holds
\* exactly what its child merged and has published its phases, for any number
\* of builds, requests, crashes, kills and queue errors.
THEOREM EndedBuildIsWhole == Spec => []EndedGraphIsWhole
<1>1. Line /\ Whole => EndedGraphIsWhole
  <2> SUFFICES ASSUME Line, Whole, NEW e \in Epochs, serverEpoch = e, Ended(e, "ok"),
                      \A d \in Epochs : late[d] = 0, <<"fileError", e>> \notin faults
               PROVE  /\ cache = {[part |-> p, epoch |-> e] : p \in child[e].built}
                      /\ "full_ready" \in prog.flags
                      /\ payload \subseteq cache
                      /\ <<"buildError", e>> \in faults \/ {"L0", "L3"} \subseteq ready
    BY DEF EndedGraphIsWhole
  <2>1. WholeOf(e) /\ LineOf(e)
    BY DEF Whole, OwnState, Line
  <2>2. drain[e].at \in {"joining", "finished"} /\ drain[e].msg = Done("ok")
    BY DEF Ended
  <2>3. queue[e] = <<>> /\ Todo(e) = <<>>
    BY <2>1, <2>2, DoneOk DEF LineOf, Held, Sent
  <2>4. Flying(e) = {} /\ Complete(e)
    BY <2>2, <2>3, ElemsEmpty DEF Flying, Complete
  <2>5. ~Filing(e) /\ \A ph : ~Publishing(ph, e)
    BY <2>4 DEF Filing, Publishing
  <2>6. cache = BuiltNodes(e)
    BY <2>1, <2>4, <2>5 DEF WholeOf
  <2>7. QED
    BY <2>1, <2>4, <2>5, <2>6 DEF WholeOf, BuiltNodes
<1>2. TypeOK /\ GateInv /\ Line /\ BuilderInv /\ Whole /\ [Next]_vars => Whole'
  BY WholeStep
<1>3. QED
  BY WholeInit, BuildInvariant, <1>1, <1>2, PTL DEF Spec
=============================================================================
