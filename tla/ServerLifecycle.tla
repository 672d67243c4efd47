-------------------------- MODULE ServerLifecycle ---------------------------
(***************************************************************************)
(* How open_visualization finds a server or starts one.  A server that has *)
(* bound its socket writes its pid and port into one registry file; each   *)
(* launch reads that file, probes what it names, and kills or spawns       *)
(* without any lock, from a process of its own.  A launch sees a dev source *)
(* (Devs), a directory with mcp_server/ and ui/unified-viz.html, and then  *)
(* replaces servers older than its last edit, or it sees none (Installs).  *)
(* The script visualize_bootstrap.py is looked for under mcp_server/, where *)
(* this repository has none: the handler then sweeps the port and goes on. *)
(*                                                                         *)
(* SIGTERM ends a server at once, and SIGKILL after it ends everything: a  *)
(* process that was signalled is "stopping" until it is gone, and holds    *)
(* its socket until then, as one that serve_forever has returned to does.  *)
(***************************************************************************)
EXTENDS Naturals, FiniteSets

CONSTANTS
  Installs,     \* launchers without a dev source
  Devs,         \* launchers with one
  MaxPid,       \* bound: server processes, numbered as they start
  MaxLaunches,  \* bound: calls of open_visualization
  MaxEdits,     \* bound: edits of the dev source
  MaxFaults     \* bound: slow probes, failed writes, crashes, recycled pids

ASSUME LaunchersAreOneKind == Installs \cap Devs = {}
ASSUME LifecycleBounds ==
  MaxPid \in Nat /\ MaxLaunches \in Nat /\ MaxEdits \in Nat /\ MaxFaults \in Nat

Launchers == Installs \cup Devs
Pids == 1..MaxPid
NoPid == 0
Browser == MaxPid + 1

VARIABLES
  proc,      \* the state of each pid
  port,      \* the port it holds: the well-known one, one of its own, none
  fresh,     \* pids with a request in the last IDLE_TIMEOUT
  tabs,      \* pids the browser holds a stream to
  announced, \* pids whose URL is in the pipe to their launcher
  entry,     \* the registry file
  edits,     \* mtime of the newest source file, in edits
  at,        \* where each launch stands
  mem,       \* what it knows
  launches,
  faults,
  born,      \* history: the edits a server has seen when it registered
  slain,     \* history: bystanders that a launch has killed
  missed,    \* history: a live server was not seen, or not registered
  overlap    \* history: two launches at once

procs == <<proc, port, fresh, tabs, announced>>
history == <<born, slain, missed, overlap>>
vars == <<procs, entry, edits, at, mem, launches, faults, history>>

Alive == {"starting", "bound", "registered", "serving", "stopping", "other"}
Listening == {"bound", "registered", "serving", "stopping"}

NoEntry == [pid |-> NoPid, port |-> "none", born |-> 0]
NewMem(e) ==
  [inst |-> NoEntry, kills |-> {}, child |-> NoPid, url |-> NoPid, since |-> e]

Init ==
  /\ proc = [p \in Pids |-> "free"]
  /\ port = [p \in Pids |-> "none"]
  /\ fresh = {}
  /\ tabs = {}
  /\ announced = {}
  /\ entry = NoEntry
  /\ edits = 0
  /\ at = [l \in Launchers |-> "idle"]
  /\ mem = [l \in Launchers |-> NewMem(0)]
  /\ launches = 0
  /\ faults = 0
  /\ born = [p \in Pids |-> 0]
  /\ slain = {}
  /\ missed = FALSE
  /\ overlap = FALSE

-----------------------------------------------------------------------------
(* What a launcher can see.                                                *)

Holders(o) == {p \in Pids : proc[p] \in Listening /\ port[p] = o}
Serving == {p \in Pids : proc[p] = "serving"}

\* Who answers behind registry entry e.
Behind(e) == IF e.port = "main" THEN Holders("main") ELSE {e.pid} \cap Holders("own")

\* lsof -t -i :3458, all processes with a socket on the port, not only the
\* one that listens.
OnPort ==
  Holders("main")
    \cup (IF tabs \cap Holders("main") # {} THEN {Browser} ELSE {})

Fault == faults < MaxFaults /\ faults' = faults + 1

Quiet == \A l \in Launchers : at[l] = "idle"

Go(l, step) == at' = [at EXCEPT ![l] = step]

\* A probe of the processes P, of which at most one is there: it is answered
\* by p, or nobody answers.  A server that has its socket and does not serve
\* yet keeps the prober waiting; one that is slow is a fault.
Answers(P, p) ==
  /\ p \in P \cap Serving
  /\ fresh' = fresh \cup {p}
  /\ UNCHANGED <<faults, missed>>

Silence(P) ==
  /\ UNCHANGED fresh
  /\ \/ /\ \A p \in P : proc[p] = "stopping"
        /\ UNCHANGED <<faults, missed>>
     \/ /\ \E p \in P : proc[p] # "stopping"
        /\ Fault
        /\ missed' = TRUE

Take(l, p) ==
  /\ at' = [at EXCEPT ![l] = "done"]
  /\ mem' = [mem EXCEPT ![l].url = p]

-----------------------------------------------------------------------------
(* The launch.                                                             *)

Call(l) ==
  /\ at[l] = "idle"
  /\ launches < MaxLaunches
  /\ launches' = launches + 1
  /\ Go(l, IF l \in Devs THEN "sweep" ELSE "read")
  /\ mem' = [mem EXCEPT ![l] = NewMem(edits)]
  /\ overlap' = (overlap \/ \E k \in Launchers : at[k] # "idle")
  /\ UNCHANGED <<procs, entry, edits, faults, born, slain, missed>>

\* SIGTERM for the processes K.
Ended(state) ==
  IF state \in Listening THEN "stopping" ELSE IF state \in Alive THEN "dead" ELSE state

Signal(K) ==
  /\ proc' = [p \in Pids |-> IF p \in K THEN Ended(proc[p]) ELSE proc[p]]
  /\ tabs' = IF Browser \in K THEN {} ELSE tabs
  /\ slain' = slain \cup (K \cap {Browser}) \cup {p \in K \cap Pids : proc[p] = "other"}

\* open_visualization._kill_port, which does not wait.
Sweep(l) ==
  /\ at[l] = "sweep"
  /\ Signal(OnPort)
  /\ Go(l, "read")
  /\ UNCHANGED <<port, fresh, announced, entry, edits, mem, launches, faults, born,
                 missed, overlap>>

\* read_instance: an entry counts while its pid is alive.
Registered ==
  IF entry.pid \in Pids /\ proc[entry.pid] \in Alive THEN entry ELSE NoEntry

Unusable(l) == IF l \in Devs THEN "reread" ELSE "main"

Read(l) ==
  /\ at[l] = "read"
  /\ mem' = [mem EXCEPT ![l].inst = Registered]
  /\ Go(l, IF Registered = NoEntry THEN Unusable(l) ELSE "probe")
  /\ UNCHANGED <<procs, entry, edits, launches, faults, history>>

\* Seeded fault: any server that answers will do.
AnyVersion(l) == mem[l].inst # NoEntry

Current(l) == l \in Installs \/ mem[l].inst.born = edits

\* reusable_instance: the probe, and is_current.
Probe(l) ==
  LET P == Behind(mem[l].inst)
  IN  /\ at[l] = "probe"
      /\ \/ \E p \in P :
              /\ Answers(P, p)
              /\ IF Current(l) THEN Take(l, p) ELSE Go(l, "reread") /\ UNCHANGED mem
         \/ Silence(P) /\ Go(l, Unusable(l)) /\ UNCHANGED mem
      /\ UNCHANGED <<proc, port, tabs, announced, entry, edits, launches, born, slain,
                     overlap>>

\* A second read_instance names the process to be killed.
Reread(l) ==
  /\ at[l] = "reread"
  /\ IF Registered = NoEntry
       THEN Go(l, "list") /\ UNCHANGED mem
       ELSE /\ Go(l, "killEntry")
            /\ mem' = [mem EXCEPT ![l].kills = {Registered.pid}]
  /\ UNCHANGED <<procs, entry, edits, launches, faults, history>>

\* http_launcher._kill_port
ListPort(l) ==
  /\ at[l] = "list"
  /\ mem' = [mem EXCEPT ![l].kills = OnPort]
  /\ Go(l, IF OnPort = {} THEN "main" ELSE "killPort")
  /\ UNCHANGED <<procs, entry, edits, launches, faults, history>>

\* kill_and_wait, one process after the other.
Kill(l) ==
  /\ at[l] \in {"killEntry", "killPort"}
  /\ \E k \in mem[l].kills :
       /\ Signal({k})
       /\ mem' = [mem EXCEPT ![l].kills = @ \ {k}, ![l].child = k]
  /\ Go(l, IF at[l] = "killEntry" THEN "waitEntry" ELSE "waitPort")
  /\ UNCHANGED <<port, fresh, announced, entry, edits, launches, faults, born, missed,
                 overlap>>

Wait(l) ==
  /\ at[l] \in {"waitEntry", "waitPort"}
  /\ mem[l].child \in Pids => proc[mem[l].child] \notin Alive
  /\ Go(l, IF at[l] = "waitEntry" THEN "list"
           ELSE IF mem[l].kills = {} THEN "main" ELSE "killPort")
  /\ mem' = [mem EXCEPT ![l].child = NoPid]
  /\ UNCHANGED <<procs, entry, edits, launches, faults, history>>

\* _probe_port: whoever answers on the well-known port is taken.
ProbeMain(l) ==
  LET P == Holders("main")
  IN  /\ at[l] = "main"
      /\ \/ \E p \in P : Answers(P, p) /\ Take(l, p)
         \/ Silence(P) /\ Go(l, "spawn") /\ UNCHANGED mem
      /\ UNCHANGED <<proc, port, tabs, announced, entry, edits, launches, born, slain,
                     overlap>>

Spawn(l) ==
  /\ at[l] = "spawn"
  /\ \E p \in Pids :
       /\ proc[p] = "free" /\ \A q \in 1..(p - 1) : proc[q] # "free"
       /\ proc' = [proc EXCEPT ![p] = "starting"]
       /\ mem' = [mem EXCEPT ![l].child = p]
  /\ Go(l, "announce")
  /\ UNCHANGED <<port, fresh, tabs, announced, entry, edits, launches, faults, history>>

\* The line that the child prints, also if it has died since.
ReadAnnouncement(l) ==
  /\ at[l] = "announce"
  /\ mem[l].child \in announced
  /\ Take(l, mem[l].child)
  /\ UNCHANGED <<procs, entry, edits, launches, faults, history>>

\* Seeded fault: the well-known port is tried until somebody answers there.
NoAnnouncementRetried(l) ==
  LET P == Holders("main")
  IN  /\ at[l] = "announce"
      /\ mem[l].child \notin announced
      /\ proc[mem[l].child] \notin Alive
      /\ \E p \in P : Answers(P, p) /\ Take(l, p)
      /\ UNCHANGED <<proc, port, tabs, announced, entry, edits, launches, born, slain,
                     overlap>>

\* The pipe ends without a line: the well-known port is tried once more.
NoAnnouncement(l) ==
  LET P == Holders("main")
  IN  /\ at[l] = "announce"
      /\ mem[l].child \notin announced
      /\ proc[mem[l].child] \notin Alive
      /\ \/ \E p \in P : Answers(P, p) /\ Take(l, p)
         \/ Silence(P) /\ Go(l, "idle") /\ mem' = [mem EXCEPT ![l] = NewMem(0)]
      /\ UNCHANGED <<proc, port, tabs, announced, entry, edits, launches, born, slain,
                     overlap>>

\* open_in_browser: the page opens its stream.
Return(l) ==
  /\ at[l] = "done"
  /\ Go(l, "idle")
  /\ mem' = [mem EXCEPT ![l] = NewMem(0)]
  /\ tabs' = tabs \cup ({mem[l].url} \cap Serving)
  /\ fresh' = fresh \cup ({mem[l].url} \cap Serving)
  /\ UNCHANGED <<proc, port, announced, entry, edits, launches, faults, history>>

-----------------------------------------------------------------------------
(* The server process.                                                     *)

\* _bind_server: the well-known port, or one of the system's choice.
Bind(p) ==
  /\ proc[p] = "starting"
  /\ proc' = [proc EXCEPT ![p] = "bound"]
  /\ port' = [port EXCEPT ![p] = IF Holders("main") = {} THEN "main" ELSE "own"]
  /\ UNCHANGED <<fresh, tabs, announced, entry, edits, at, mem, launches, faults,
                 history>>

\* Seeded fault: the file is written before the socket is bound.
RegisterFirst(p) ==
  /\ proc[p] \in {"starting", "bound"}
  /\ proc' = [proc EXCEPT ![p] = "registered"]
  /\ born' = [born EXCEPT ![p] = edits]
  /\ entry' = [pid |-> p, port |-> port[p], born |-> edits]
  /\ UNCHANGED <<port, fresh, tabs, announced, edits, at, mem, launches, faults, slain,
                 missed, overlap>>

\* Seeded fault: the file names the port that was asked for.
RegisterAskedPort(p) ==
  /\ proc[p] = "bound"
  /\ proc' = [proc EXCEPT ![p] = "registered"]
  /\ born' = [born EXCEPT ![p] = edits]
  /\ entry' = [pid |-> p, port |-> "main", born |-> edits]
  /\ UNCHANGED <<port, fresh, tabs, announced, edits, at, mem, launches, faults, slain,
                 missed, overlap>>

\* write_instance, which is best effort; the file is replaced whole.
Register(p) ==
  /\ proc[p] = "bound"
  /\ proc' = [proc EXCEPT ![p] = "registered"]
  /\ born' = [born EXCEPT ![p] = edits]
  /\ \/ /\ entry' = [pid |-> p, port |-> port[p], born |-> edits]
        /\ UNCHANGED <<faults, missed>>
     \/ /\ Fault
        /\ missed' = TRUE
        /\ UNCHANGED entry
  /\ UNCHANGED <<port, fresh, tabs, announced, edits, at, mem, launches, slain,
                 overlap>>

\* _announce and serve_forever; the request clock starts with the process.
Serve(p) ==
  /\ proc[p] = "registered"
  /\ proc' = [proc EXCEPT ![p] = "serving"]
  /\ announced' = announced \cup {p}
  /\ fresh' = fresh \cup {p}
  /\ UNCHANGED <<port, tabs, entry, edits, at, mem, launches, faults, history>>

\* IDLE_TIMEOUT without a request: longer than a launch takes.
Ages(p) ==
  /\ p \in fresh
  /\ \A l \in Launchers : at[l] # "idle" => p \notin {mem[l].child, mem[l].url}
  /\ fresh' = fresh \ {p}
  /\ UNCHANGED <<proc, port, tabs, announced, entry, edits, at, mem, launches, faults,
                 history>>

\* _idle_watchdog: an open stream is a live client.
IdleStop(p) ==
  /\ p \in Serving \ (fresh \cup tabs)
  /\ proc' = [proc EXCEPT ![p] = "stopping"]
  /\ UNCHANGED <<port, fresh, tabs, announced, entry, edits, at, mem, launches, faults,
                 history>>

Vanish(p) ==
  /\ proc' = [proc EXCEPT ![p] = "dead"]
  /\ port' = [port EXCEPT ![p] = "none"]
  /\ tabs' = tabs \ {p}
  /\ fresh' = fresh \ {p}

\* The process ends and its socket with it.
Gone(p) ==
  /\ proc[p] = "stopping"
  /\ Vanish(p)
  /\ UNCHANGED <<announced, entry, edits, at, mem, launches, faults, history>>

Crash(p) ==
  /\ proc[p] \in {"starting", "bound", "registered", "serving"}
  /\ Fault
  /\ Vanish(p)
  /\ UNCHANGED <<announced, entry, edits, at, mem, launches, history>>

\* The pid of a server that is gone names another program, much later.
Recycle(p) ==
  /\ proc[p] = "dead"
  /\ Quiet
  /\ Fault
  /\ proc' = [proc EXCEPT ![p] = "other"]
  /\ UNCHANGED <<port, fresh, tabs, announced, entry, edits, at, mem, launches, history>>

-----------------------------------------------------------------------------
(* The user.                                                               *)

OpenTab(p) ==
  /\ p \in Serving \ tabs
  /\ tabs' = tabs \cup {p}
  /\ fresh' = fresh \cup {p}
  /\ UNCHANGED <<proc, port, announced, entry, edits, at, mem, launches, faults, history>>

CloseTab(p) ==
  /\ p \in tabs
  /\ tabs' = tabs \ {p}
  /\ UNCHANGED <<proc, port, fresh, announced, entry, edits, at, mem, launches, faults,
                 history>>

\* A file under mcp_server/ or ui/ of the dev source changes.
Edit ==
  /\ edits < MaxEdits
  /\ edits' = edits + 1
  /\ UNCHANGED <<procs, entry, at, mem, launches, faults, history>>

-----------------------------------------------------------------------------
Launch(l) ==
  Sweep(l) \/ Read(l) \/ Probe(l) \/ Reread(l) \/ ListPort(l) \/ Kill(l) \/ Wait(l)
    \/ ProbeMain(l) \/ Spawn(l) \/ ReadAnnouncement(l) \/ NoAnnouncement(l) \/ Return(l)

Start(p) == Bind(p) \/ Register(p) \/ Serve(p)

Next ==
  \/ \E l \in Launchers : Call(l) \/ Launch(l)
  \/ \E p \in Pids :
       \/ Start(p)
       \/ Ages(p)
       \/ IdleStop(p)
       \/ Gone(p)
       \/ Crash(p)
       \/ Recycle(p)
       \/ OpenTab(p)
       \/ CloseTab(p)
  \/ Edit

Spec == Init /\ [][Next]_vars

\* A launch runs on, a server that was spawned comes up or dies, and a
\* process that was told to end is gone in the end.
FairSpec ==
  /\ Spec
  /\ \A l \in Launchers : WF_vars(Launch(l))
  /\ \A p \in Pids : WF_vars(Start(p)) /\ WF_vars(Gone(p))

-----------------------------------------------------------------------------
EntryType == [pid : Pids, port : {"main", "own"}, born : 0..MaxEdits] \cup {NoEntry}
MemType ==
  [inst : EntryType, kills : SUBSET (Pids \cup {Browser}),
   child : Pids \cup {Browser, NoPid}, url : Pids \cup {NoPid}, since : 0..MaxEdits]
StepType ==
  {"idle", "sweep", "read", "probe", "reread", "killEntry", "waitEntry", "list",
   "killPort", "waitPort", "main", "spawn", "announce", "done"}

TypeOK ==
  /\ proc \in [Pids -> Alive \cup {"free", "dead"}]
  /\ port \in [Pids -> {"main", "own", "none"}]
  /\ fresh \subseteq Pids
  /\ tabs \subseteq Pids
  /\ announced \subseteq Pids
  /\ entry \in EntryType
  /\ edits \in 0..MaxEdits
  /\ at \in [Launchers -> StepType]
  /\ mem \in [Launchers -> MemType]
  /\ launches \in 0..MaxLaunches
  /\ faults \in 0..MaxFaults
  /\ born \in [Pids -> 0..MaxEdits]
  /\ slain \subseteq Pids \cup {Browser}
  /\ missed \in BOOLEAN
  /\ overlap \in BOOLEAN

\* Whatever crashed and whoever launches beside it, a launch that sees a dev
\* source hands over a server that registered after the last edit before the
\* call.
DevGetsCurrentServer ==
  \A l \in Devs : at[l] = "done" => born[mem[l].url] >= mem[l].since

\* Launches that follow one another, and see what is there, keep to one
\* server, although servers crash, idle out, take long to die and leave the
\* registry behind.
OneServer == (~overlap /\ ~missed) => \A p, q \in Serving : p = q

\* No launch waits for ever: not for a process that is to die, nor for a
\* child that never says its URL.
EveryLaunchEnds == \A l \in Launchers : at[l] # "idle" ~> at[l] = "idle"

\* What the documents say and the code does not keep.  No run checks the
\* definitions below; README, section 4, tells how each of them fails.

\* "A running server is killed ONLY when the source actually changed since it
\* started" (http_launcher.py:280-281).
CurrentServersStay ==
  [][\A l \in Launchers, p \in Pids :
       ((Sweep(l) \/ Kill(l)) /\ proc[p] = "serving" /\ proc'[p] = "stopping")
         => born[p] < edits]_vars

\* "discover the live instance whatever port it actually bound"
\* (viz_instance.py:15): a server that serves on a port of its own is the one
\* the registry names, once no launch is under way and if each server could
\* be registered.
ServersAreFound ==
  (Quiet /\ ~missed) =>
    \A p \in Serving : port[p] = "main" \/ entry.pid = p

\* "Kill any process listening on port" (http_launcher.py:30), and the server
\* that the registry names: nothing else is killed.
OnlyServersAreKilled == slain = {}
=============================================================================
