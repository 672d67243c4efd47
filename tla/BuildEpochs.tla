---------------------------- MODULE BuildEpochs ----------------------------
(***************************************************************************)
(* The background graph build of the standalone server.                    *)
(*                                                                         *)
(* HTTP threads (get_graph_response, ensure_build_started) start, refuse   *)
(* or kill a build.  A build is an epoch: begin_epoch resets the server's  *)
(* state, a child process runs run_build and puts its messages on a        *)
(* bounded queue, and a drain thread of the server takes them off and      *)
(* applies them, each applier comparing the epoch of the message with the  *)
(* server's before it takes its lock.                                      *)
(*                                                                         *)
(* The graph is three parts: the skeleton and the AST symbols, which the   *)
(* child streams, and the baseline, which it does not: the baseline        *)
(* reaches the server with the pickled graph file at the end of the build. *)
(* L0 stands for the phases L0 and L1, L3 for L2 to L5, L6 for the phases  *)
(* of the AST sweep.                                                       *)
(***************************************************************************)
EXTENDS Naturals, Sequences, FiniteSets

CONSTANTS
    Requests,   \* HTTP threads
    NoRequest,  \* nobody holds _proc_lock
    MaxEpoch,   \* bound on the builds started
    MaxRoster,  \* bound on the changes of the indexed projects
    QueueCap,   \* ctx.Queue(maxsize=...)
    Bridge,     \* may the AST bridge be enabled (TRUE), disabled (FALSE)?
    Faults,     \* the kinds of fault that may happen
    MaxFaults   \* bound on the faults

FaultKinds == {"crash", "buildError", "workerError", "getError", "fileError"}

ASSUME BuildAssumption ==
    /\ NoRequest \notin Requests
    /\ MaxEpoch \in Nat
    /\ MaxRoster \in Nat
    /\ QueueCap \in Nat \ {0}
    /\ Bridge \subseteq BOOLEAN
    /\ Faults \subseteq FaultKinds
    /\ MaxFaults \in Nat

VARIABLES
    roster,      \* what _roster_fingerprint() would compute
    fp,          \* _graph_roster_fingerprint
    req,         \* [Requests -> where the HTTP thread stands]
    lock,        \* who holds _proc_lock over several steps
    epoch,       \* build_process._epoch
    proc,        \* build_process._proc: the epoch of its child, 0 for None
    child,       \* [epoch -> what the child has left to send, and has built]
    alive,       \* the epochs whose child process runs
    queue,       \* [epoch -> its multiprocessing queue]
    drain,       \* [epoch -> where its drain thread stands, and its message]
    serverEpoch, \* _SERVER_EPOCH
    cache,       \* _graph_cache: the parts of the graph, each with its epoch
    payload,     \* _phase_payloads of the AST phase
    ready,       \* the phases whose flag is set in PHASES
    prog,        \* _build_progress: phase, phase_seq, and the *_ready flags
    late,        \* history: [epoch -> messages applied after it was retired]
    faults       \* history: the faults so far, as <<kind, epoch>>

requestVars == <<roster, fp, req, lock, epoch, proc>>
childVars == <<child, alive>>
serverVars == <<serverEpoch, cache, payload, ready, prog>>
vars == <<requestVars, childVars, queue, drain, serverVars, late, faults>>

Epochs == 1..MaxEpoch
Parts == {"skeleton", "baseline", "ast"}

-----------------------------------------------------------------------------
(* The messages of the child.                                              *)

NoPhase == "none"

Message(kind, key, parts, seq) ==
    [kind |-> kind, key |-> key, parts |-> parts, seq |-> seq]

Delta(part, phase) == Message("delta", phase, {part}, 0)
Progress(phase) == Message("progress", phase, {}, 0)
Ready(phase, seq) == Message("phase_ready", phase, {}, seq)
GraphFile == Message("graph_file", NoPhase, {}, 0)
Done(status) == Message("done", status, {}, 0)
NoMessage == Message("none", NoPhase, {}, 0)

\* run_build up to the AST sweep.  The merge of the baseline forwards its
\* progress and none of its nodes.  The many progress messages in between
\* (loading, layout, AST batches) only rename the phase and are left out.
BaselineScript ==
    << Progress("starting"),
       Delta("skeleton", NoPhase), Progress("skeleton"), Ready("L0", 1),
       [Progress("baseline") EXCEPT !.parts = {"baseline"}],
       Ready("L3", 2), Progress("baseline_ready") >>

\* run_l6, when the AST bridge is enabled.
AstScript == << Delta("ast", "L6"), Ready("L6", 3) >>

\* full_ready, then what _worker adds once the build thread is joined.
FinalScript == << Progress("full_ready"), GraphFile, Done("ok") >>

\* An exception in run_build stays in run_build: _worker goes on.
BuildErrorScript == << Progress("error"), GraphFile, Done("ok") >>

WorkerErrorScript == << Progress("error"), Done("error") >>

Script(ast) == BaselineScript \o (IF ast THEN AstScript ELSE <<>>) \o FinalScript
Scripts == {Script(ast) : ast \in Bridge}

-----------------------------------------------------------------------------
NotStarted == [todo |-> <<>>, built |-> {}]
Idle == [at |-> "idle", seen |-> 0, changed |-> FALSE, victim |-> 0]

Init ==
    /\ roster = 1
    /\ fp = 0
    /\ req = [r \in Requests |-> Idle]
    /\ lock = NoRequest
    /\ epoch = 0
    /\ proc = 0
    /\ child = [e \in Epochs |-> NotStarted]
    /\ alive = {}
    /\ queue = [e \in Epochs |-> <<>>]
    /\ drain = [e \in Epochs |-> [at |-> "none", msg |-> NoMessage]]
    /\ serverEpoch = 0
    /\ cache = {}
    /\ payload = {}
    /\ ready = {}
    /\ prog = [phase |-> "idle", seq |-> 0, flags |-> {}]
    /\ late = [e \in Epochs |-> 0]
    /\ faults = {}

Fault(kind, e) ==
    /\ kind \in Faults
    /\ Cardinality(faults) < MaxFaults
    /\ <<kind, e>> \notin faults
    /\ faults' = faults \cup {<<kind, e>>}

At(r, place) == req[r].at = place
Goto(r, place) == req' = [req EXCEPT ![r].at = place]

\* A project is indexed.
RosterChanges ==
    /\ roster < MaxRoster
    /\ roster' = roster + 1
    /\ UNCHANGED <<fp, req, lock, epoch, proc>>
    /\ UNCHANGED <<childVars, queue, drain, serverVars, late, faults>>

-----------------------------------------------------------------------------
(* GET /api/graph                                                          *)

OnlyRequest == UNCHANGED <<childVars, queue, drain, serverVars, late, faults>>

\* current_fp and roster_changed.
ReadRoster(r) ==
    /\ At(r, "idle")
    /\ req' = [req EXCEPT ![r] = [Idle EXCEPT !.at = "look", !.seen = roster,
                                              !.changed = (roster # fp)]]
    /\ UNCHANGED <<roster, fp, lock, epoch, proc>>
    /\ OnlyRequest

\* build_process._is_alive(), without the lock: "_proc is not None" ...
LookAtProc(r) ==
    /\ At(r, "look")
    /\ Goto(r, IF proc = 0 THEN "dead" ELSE "probe")
    /\ UNCHANGED <<roster, fp, lock, epoch, proc>>
    /\ OnlyRequest

\* ... "and _proc.is_alive()" reads the global again.
ProbeProc(r) ==
    /\ At(r, "probe")
    /\ Goto(r, IF proc = 0 THEN "raised"
               ELSE IF proc \in alive THEN "idle" ELSE "dead")
    /\ UNCHANGED <<roster, fp, lock, epoch, proc>>
    /\ OnlyRequest

\* The AttributeError becomes an error response.
AnswerError(r) ==
    /\ At(r, "raised")
    /\ req' = [req EXCEPT ![r] = Idle]
    /\ UNCHANGED <<roster, fp, lock, epoch, proc>>
    /\ OnlyRequest

\* No build runs: a cache with nodes and an unchanged roster is current.
ServeCurrent(r) ==
    /\ At(r, "dead")
    /\ cache # {}
    /\ ~req[r].changed
    /\ req' = [req EXCEPT ![r] = Idle]
    /\ UNCHANGED <<roster, fp, lock, epoch, proc>>
    /\ OnlyRequest

Rebuild(r) ==
    /\ At(r, "dead")
    /\ req[r].changed \/ cache = {}
    /\ req' = [req EXCEPT ![r] = [Idle EXCEPT !.at = IF req[r].changed THEN "kill" ELSE "start"]]
    /\ fp' = IF req[r].changed THEN req[r].seen ELSE fp
    /\ UNCHANGED <<roster, lock, epoch, proc>>
    /\ OnlyRequest

\* ensure_build_started, at launch and from the phase poller.
Ensure(r) ==
    /\ At(r, "idle")
    /\ cache = {}
    /\ fp' = roster
    /\ Goto(r, "start")
    /\ UNCHANGED <<roster, lock, epoch, proc>>
    /\ OnlyRequest

-----------------------------------------------------------------------------
(* kill_current_build                                                      *)

PickVictim(r) ==
    /\ At(r, "kill")
    /\ lock = NoRequest
    /\ IF proc \in alive
       THEN /\ req' = [req EXCEPT ![r].at = "terminate", ![r].victim = proc]
            /\ UNCHANGED proc
       ELSE /\ Goto(r, "start")
            /\ proc' = 0
    /\ UNCHANGED <<roster, fp, lock, epoch>>
    /\ OnlyRequest

\* The process ends where it stands: what its feeder thread had not written
\* to the pipe is lost.
Die(e) ==
    /\ alive' = alive \ {e}
    /\ child' = [child EXCEPT ![e].todo = <<>>]
    /\ \E n \in 0..Len(queue[e]) :
          queue' = [queue EXCEPT ![e] = SubSeq(@, 1, n)]

Terminate(r) ==
    /\ At(r, "terminate")
    /\ IF req[r].victim \in alive
       THEN Die(req[r].victim)
       ELSE UNCHANGED <<childVars, queue>>
    /\ Goto(r, "reap")
    /\ UNCHANGED <<roster, fp, lock, epoch, proc>>
    /\ UNCHANGED <<drain, serverVars, late, faults>>

Reap(r) ==
    /\ At(r, "reap")
    /\ lock = NoRequest
    /\ proc' = IF proc = req[r].victim THEN 0 ELSE proc
    /\ req' = [req EXCEPT ![r] = [Idle EXCEPT !.at = "start"]]
    /\ UNCHANGED <<roster, fp, lock, epoch>>
    /\ OnlyRequest

-----------------------------------------------------------------------------
(* start_build                                                             *)

Refuse(r) ==
    /\ At(r, "start")
    /\ lock = NoRequest
    /\ proc \in alive
    /\ req' = [req EXCEPT ![r] = Idle]
    /\ UNCHANGED <<roster, fp, lock, epoch, proc>>
    /\ OnlyRequest

\* Seeded fault: a build starts beside the one that runs.
NewEpochUnchecked(r) ==
    /\ At(r, "start")
    /\ lock = NoRequest
    /\ epoch < MaxEpoch
    /\ lock' = r
    /\ epoch' = epoch + 1
    /\ Goto(r, "begin_cache")
    /\ UNCHANGED <<roster, fp, proc>>
    /\ OnlyRequest

NewEpoch(r) ==
    /\ At(r, "start")
    /\ lock = NoRequest
    /\ proc \notin alive
    /\ epoch < MaxEpoch
    /\ lock' = r
    /\ epoch' = epoch + 1
    /\ Goto(r, "begin_cache")
    /\ UNCHANGED <<roster, fp, proc>>
    /\ OnlyRequest

\* Seeded fault: the buffers of the phases are not emptied.
BeginCacheOnly(r) ==
    /\ At(r, "begin_cache")
    /\ serverEpoch' = epoch
    /\ cache' = {}
    /\ ready' = {}
    /\ Goto(r, "begin_progress")
    /\ UNCHANGED <<roster, fp, lock, epoch, proc, prog, payload>>
    /\ UNCHANGED <<childVars, queue, drain, late, faults>>

\* begin_epoch under _apply_lock ...
BeginCache(r) ==
    /\ At(r, "begin_cache")
    /\ serverEpoch' = epoch
    /\ cache' = {}
    /\ payload' = {}
    /\ ready' = {}
    /\ Goto(r, "begin_progress")
    /\ UNCHANGED <<roster, fp, lock, epoch, proc, prog>>
    /\ UNCHANGED <<childVars, queue, drain, late, faults>>

\* ... and under _build_progress_lock.
BeginProgress(r) ==
    /\ At(r, "begin_progress")
    /\ prog' = [phase |-> "starting", seq |-> 0, flags |-> {}]
    /\ Goto(r, "spawn")
    /\ UNCHANGED <<roster, fp, lock, epoch, proc>>
    /\ UNCHANGED <<serverEpoch, cache, payload, ready>>
    /\ UNCHANGED <<childVars, queue, drain, late, faults>>

\* The child and its drain thread start; the child resolves the AST bridge.
Spawn(r) ==
    /\ At(r, "spawn")
    /\ proc' = epoch
    /\ alive' = alive \cup {epoch}
    /\ \E script \in Scripts :
          child' = [child EXCEPT ![epoch] = [todo |-> script, built |-> {}]]
    /\ drain' = [drain EXCEPT ![epoch].at = "waiting"]
    /\ lock' = NoRequest
    /\ req' = [req EXCEPT ![r] = Idle]
    /\ UNCHANGED <<roster, fp, epoch, queue, serverVars, late, faults>>

-----------------------------------------------------------------------------
(* The child process                                                       *)

OnlyChild == UNCHANGED <<requestVars, drain, serverVars, late>>

\* q.put blocks while the queue is full.  The graph file holds what the
\* child has merged.
Send(e) ==
    /\ e \in alive
    /\ child[e].todo # <<>>
    /\ Len(queue[e]) < QueueCap
    /\ LET m == Head(child[e].todo)
           built == child[e].built \cup m.parts
       IN  /\ queue' = [queue EXCEPT ![e] = Append(@,
                          IF m.kind = "graph_file" THEN [m EXCEPT !.parts = built] ELSE m)]
           /\ child' = [child EXCEPT ![e].todo = Tail(@), ![e].built = built]
    /\ UNCHANGED <<alive, faults>>
    /\ OnlyChild

\* run_build raises, at any point before its last message.
BuildError(e) ==
    /\ e \in alive
    /\ Len(child[e].todo) >= Len(FinalScript)
    /\ Fault("buildError", e)
    /\ child' = [child EXCEPT ![e].todo = BuildErrorScript]
    /\ UNCHANGED <<alive, queue>>
    /\ OnlyChild

\* _worker raises, before it starts the build or, the build thread joined,
\* while it writes the graph file.
WorkerError(e) ==
    /\ e \in alive
    /\ child[e].todo \in Scripts \cup {Tail(FinalScript)}
    /\ Fault("workerError", e)
    /\ child' = [child EXCEPT ![e].todo = WorkerErrorScript]
    /\ UNCHANGED <<alive, queue>>
    /\ OnlyChild

Exit(e) ==
    /\ e \in alive
    /\ child[e].todo = <<>>
    /\ alive' = alive \ {e}
    /\ UNCHANGED <<child, queue, faults>>
    /\ OnlyChild

Crash(e) ==
    /\ e \in alive
    /\ Fault("crash", e)
    /\ Die(e)
    /\ OnlyChild

-----------------------------------------------------------------------------
(* The drain thread                                                        *)

OnlyDrain == UNCHANGED <<requestVars, childVars>>

DrainAt(e, place) == drain[e].at = place

Get(e) ==
    /\ DrainAt(e, "waiting")
    /\ queue[e] # <<>>
    /\ drain' = [drain EXCEPT ![e] = [at |-> "check", msg |-> Head(queue[e])]]
    /\ queue' = [queue EXCEPT ![e] = Tail(@)]
    /\ UNCHANGED <<serverVars, late, faults>>
    /\ OnlyDrain

\* Fifteen seconds without a message ...
Timeout(e) ==
    /\ DrainAt(e, "waiting")
    /\ queue[e] = <<>>
    /\ drain' = [drain EXCEPT ![e].at = "timed_out"]
    /\ UNCHANGED <<queue, serverVars, late, faults>>
    /\ OnlyDrain

\* Seeded fault: an empty queue is always waited on again.
WatchdogAsleep(e) ==
    /\ DrainAt(e, "timed_out")
    /\ drain' = [drain EXCEPT ![e] = [at |-> "waiting", msg |-> NoMessage]]
    /\ UNCHANGED <<queue, serverVars, late, faults>>
    /\ OnlyDrain

\* ... and the watchdog looks at the process.
Watchdog(e) ==
    /\ DrainAt(e, "timed_out")
    /\ drain' = [drain EXCEPT ![e] =
                   IF e \in alive THEN [at |-> "waiting", msg |-> NoMessage]
                                  ELSE [at |-> "check", msg |-> Done("killed")]]
    /\ UNCHANGED <<queue, serverVars, late, faults>>
    /\ OnlyDrain

\* q.get raises EOFError or OSError: the drain ends without a verdict.
GetError(e) ==
    /\ DrainAt(e, "waiting")
    /\ Fault("getError", e)
    /\ drain' = [drain EXCEPT ![e] = [at |-> "joining", msg |-> NoMessage]]
    /\ UNCHANGED <<queue, serverVars, late>>
    /\ OnlyDrain

\* The pickle cannot be read back: the message is skipped.
FileError(e) ==
    /\ DrainAt(e, "check")
    /\ drain[e].msg.kind = "graph_file"
    /\ Fault("fileError", e)
    /\ drain' = [drain EXCEPT ![e].at = "waiting"]
    /\ UNCHANGED <<queue, serverVars, late>>
    /\ OnlyDrain

\* Where the drain goes after its message: "done" is the last one.
AfterMessage(e) == IF drain[e].msg.kind = "done" THEN "joining" ELSE "waiting"

\* Seeded fault: nobody compares epochs.
CheckNothing(e) ==
    /\ DrainAt(e, "check")
    /\ drain' = [drain EXCEPT ![e].at = "apply"]
    /\ UNCHANGED <<queue, serverVars, late, faults>>
    /\ OnlyDrain

\* The first line of every applier, before its lock.
CheckEpoch(e) ==
    /\ DrainAt(e, "check")
    /\ drain' = [drain EXCEPT ![e].at =
                   IF e = serverEpoch THEN "apply" ELSE AfterMessage(e)]
    /\ UNCHANGED <<queue, serverVars, late, faults>>
    /\ OnlyDrain

\* The message is applied; history counts it when its epoch is over.
Applied(e) ==
    /\ drain' = [drain EXCEPT ![e].at = AfterMessage(e)]
    /\ late' = [late EXCEPT ![e] = IF e = serverEpoch THEN @ ELSE @ + 1]
    /\ UNCHANGED <<queue, faults>>
    /\ OnlyDrain

Applies(e, kind) == DrainAt(e, "apply") /\ drain[e].msg.kind = kind

ApplyProgress(e) ==
    /\ Applies(e, "progress")
    /\ LET key == drain[e].msg.key
       IN  prog' = [prog EXCEPT
                      !.phase = key,
                      !.flags = CASE key = "starting" -> {}
                                  [] key \in {"skeleton", "baseline_ready"} ->
                                       @ \cup {"baseline_ready"}
                                  [] key = "full_ready" -> @ \cup {"full_ready"}
                                  [] OTHER -> @]
    /\ Applied(e)
    /\ UNCHANGED <<serverEpoch, cache, payload, ready>>

\* Seeded fault: the slim projection is stored, not the full records.
ApplySlimDelta(e) ==
    /\ Applies(e, "delta")
    /\ LET held == {n.part : n \in cache}
           fresh == {[part |-> p] : p \in drain[e].msg.parts \ held}
       IN  /\ cache' = cache \cup fresh
           /\ payload' = IF drain[e].msg.key = NoPhase THEN payload ELSE payload \cup fresh
    /\ Applied(e)
    /\ UNCHANGED <<serverEpoch, ready, prog>>

\* Only ids the cache does not hold are added, to the cache and to the
\* payload of the phase.
ApplyDelta(e) ==
    /\ Applies(e, "delta")
    /\ LET held == {n.part : n \in cache}
           fresh == {[part |-> p, epoch |-> e] : p \in drain[e].msg.parts \ held}
       IN  /\ cache' = cache \cup fresh
           /\ payload' = IF drain[e].msg.key = NoPhase THEN payload ELSE payload \cup fresh
    /\ Applied(e)
    /\ UNCHANGED <<serverEpoch, ready, prog>>

\* apply_phase_ready sets the flag without a lock ...
ApplyReady(e) ==
    /\ Applies(e, "phase_ready")
    /\ ready' = ready \cup {drain[e].msg.key}
    /\ drain' = [drain EXCEPT ![e].at = "publish"]
    /\ UNCHANGED <<queue, serverEpoch, cache, payload, prog, late, faults>>
    /\ OnlyDrain

\* ... and the sequence number under the progress lock.
PublishReady(e) ==
    /\ DrainAt(e, "publish")
    /\ prog' = [prog EXCEPT !.seq = IF drain[e].msg.seq > @ THEN drain[e].msg.seq ELSE @]
    /\ Applied(e)
    /\ UNCHANGED <<serverEpoch, cache, payload, ready>>

ApplyGraph(e) ==
    /\ Applies(e, "graph_file")
    /\ cache' = {[part |-> p, epoch |-> e] : p \in drain[e].msg.parts}
    /\ Applied(e)
    /\ UNCHANGED <<serverEpoch, payload, ready, prog>>

ApplyDone(e) ==
    /\ Applies(e, "done")
    /\ LET status == drain[e].msg.key
       IN  prog' = [prog EXCEPT !.phase = IF status = "ok" THEN "full_ready" ELSE status,
                                !.flags = IF status = "ok" THEN @ \cup {"full_ready"}
                                                             ELSE @ \ {"full_ready"}]
    /\ Applied(e)
    /\ UNCHANGED <<serverEpoch, cache, payload, ready>>

\* proc.join(timeout=5) may time out; the handle is dropped if it is still
\* this child's.
Clear(e) ==
    /\ DrainAt(e, "joining")
    /\ lock = NoRequest
    /\ proc' = IF proc = e THEN 0 ELSE proc
    /\ drain' = [drain EXCEPT ![e].at = "finished"]
    /\ UNCHANGED <<roster, fp, req, lock, epoch>>
    /\ UNCHANGED <<childVars, queue, serverVars, late, faults>>

-----------------------------------------------------------------------------
Answer(r) ==
    \/ LookAtProc(r) \/ ProbeProc(r) \/ AnswerError(r)
    \/ ServeCurrent(r) \/ Rebuild(r)
    \/ PickVictim(r) \/ Terminate(r) \/ Reap(r)
    \/ Refuse(r) \/ NewEpoch(r) \/ BeginCache(r) \/ BeginProgress(r) \/ Spawn(r)

Request(r) == ReadRoster(r) \/ Ensure(r) \/ Answer(r)

Build(e) == Send(e) \/ Exit(e)
ChildFault(e) == BuildError(e) \/ WorkerError(e) \/ Crash(e)

Apply(e) ==
    \/ ApplyProgress(e) \/ ApplyDelta(e) \/ ApplyReady(e) \/ PublishReady(e)
    \/ ApplyGraph(e) \/ ApplyDone(e)

Drain(e) ==
    \/ Get(e) \/ Timeout(e) \/ Watchdog(e)
    \/ CheckEpoch(e) \/ Apply(e) \/ Clear(e)

DrainFault(e) == GetError(e) \/ FileError(e)

Next ==
    \/ RosterChanges
    \/ \E r \in Requests : Request(r)
    \/ \E e \in Epochs : Build(e) \/ ChildFault(e) \/ Drain(e) \/ DrainFault(e)

Spec == Init /\ [][Next]_vars

\* The server's threads run: a request that was begun goes on, and so does
\* every drain.  Nobody has to ask for a graph and no fault has to happen.
ServerFairness ==
    /\ \A r \in Requests : WF_vars(Answer(r))
    /\ \A e \in Epochs : WF_vars(Drain(e))

\* The child makes progress too.
ChildFairness == \A e \in Epochs : WF_vars(Build(e))

FairSpec == Spec /\ ServerFairness /\ ChildFairness
HangSpec == Spec /\ ServerFairness

-----------------------------------------------------------------------------
(* Properties                                                              *)

Places == {"idle", "look", "probe", "raised", "dead", "kill", "terminate", "reap",
           "start", "begin_cache", "begin_progress", "spawn"}
Phases == {"L0", "L3", "L6"}
Stages == {"idle", "starting", "skeleton", "baseline", "baseline_ready", "full_ready",
           "error", "killed"}
Keys == Phases \cup Stages \cup {NoPhase, "ok"}
DrainPlaces == {"none", "waiting", "timed_out", "check", "apply", "publish",
                "joining", "finished"}
Messages ==
    [kind : {"delta", "progress", "phase_ready", "graph_file", "done", "none"},
     key : Keys, parts : SUBSET Parts, seq : Nat]
Nodes == [part : Parts, epoch : Epochs]

RequestType ==
    /\ roster \in Nat
    /\ fp \in Nat
    /\ req \in [Requests -> [at : Places, seen : Nat, changed : BOOLEAN, victim : Nat]]
    /\ lock \in Requests \cup {NoRequest}
    /\ epoch \in 0..MaxEpoch
    /\ proc \in 0..MaxEpoch

ChildType ==
    /\ child \in [Epochs -> [todo : Seq(Messages), built : SUBSET Parts]]
    /\ alive \subseteq Epochs
    /\ queue \in [Epochs -> Seq(Messages)]

ServerType ==
    /\ drain \in [Epochs -> [at : DrainPlaces, msg : Messages]]
    /\ serverEpoch \in 0..MaxEpoch
    /\ cache \subseteq Nodes
    /\ payload \subseteq Nodes
    /\ ready \subseteq Keys
    /\ prog \in [phase : Keys, seq : Nat, flags : SUBSET Keys]

TypeOK ==
    /\ RequestType
    /\ ChildType
    /\ ServerType
    /\ late \in [Epochs -> Nat]
    /\ faults \subseteq FaultKinds \X Epochs

\* The epoch gate bounds what a retired build can still do: a message that
\* had passed the check when the next epoch began is applied to it, and the
\* next one is dropped, however long the backlog and however many epochs
\* follow (the appliers of graph_appliers, _drain).
StaleAtMostOnce == \A e \in Epochs : late[e] <= 1

\* A child that still has messages to send is the one of the newest epoch:
\* two builds never run side by side, whatever requests overlap ("start_build
\* refuses only while a LIVE child exists"), unless a queue error ended its
\* drain, which then dropped the handle of a child that still runs.
OneBuilder ==
    \A e \in Epochs :
        e \in alive /\ child[e].todo # <<>> =>
            e = epoch \/ <<"getError", e>> \in faults

\* The drain of epoch e ended with this verdict of the child or watchdog.
Ended(e, status) ==
    /\ drain[e].at \in {"joining", "finished"}
    /\ drain[e].msg = Done(status)

\* A build that ended well, its graph file read and no message of another
\* epoch applied late, left exactly what its child merged, the baseline the
\* queue never carried included; its last progress is full_ready and its page
\* shows nothing else. The streamed levels are flagged by what comes with the
\* first and the last of them, L0 and L3, and both are ready unless the build
\* raised half-way: full_ready does not tell that apart. L6, which has a flag
\* of its own only with the AST bridge, is not compared.
EndedGraphIsWhole ==
    \A e \in Epochs :
        /\ serverEpoch = e
        /\ Ended(e, "ok")
        /\ \A d \in Epochs : late[d] = 0
        /\ <<"fileError", e>> \notin faults
        => /\ cache = {[part |-> p, epoch |-> e] : p \in child[e].built}
           /\ "full_ready" \in prog.flags
           /\ payload \subseteq cache
           /\ <<"buildError", e>> \in faults \/ {"L0", "L3"} \subseteq ready

\* Whatever the child does short of hanging, the server's progress reaches a
\* final phase or the epoch is over ("progress always reaches
\* done-or-killed").
EveryBuildEnds ==
    \A e \in Epochs :
        (drain[e].at # "none") ~>
            (serverEpoch # e \/ prog.phase \in {"full_ready", "error", "killed"})

\* What the documents say and the code does not keep.  No run checks the
\* definitions below; README, section 4, tells how each of them fails.

\* A stale child "can never corrupt the new build's state"
\* (graph_cache_state): every part the server holds is of its own epoch.
EpochIsolation == \A n \in cache : n.epoch = serverEpoch

\* "error"/"killed" set the phase so the UI shows the build ended
\* (apply_done): a build that failed is not reported as ready.
FailedBuildIsReported ==
    \A e \in Epochs :
        /\ serverEpoch = e
        /\ drain[e].at = "finished"
        /\ <<"buildError", e>> \in faults
        => prog.phase # "full_ready"

\* What /api/graph/phase returns for a phase: the streamed payload, or the
\* cache filtered by kind for the phases of the baseline.
PhasePayload(ph) ==
    CASE ph = "L0" -> {n \in cache : n.part = "skeleton"}
      [] ph = "L3" -> {n \in cache : n.part = "baseline"}
      [] ph = "L6" -> payload

\* "Once a phase is READY its payload is immutable" (graph_cache_state).
ReadyPhaseIsImmutable ==
    [][\A ph \in ready :
          serverEpoch' = serverEpoch => PhasePayload(ph)' = PhasePayload(ph)]_vars
=============================================================================
