----------------------- MODULE ServerLifecycle_proofs -----------------------
(***************************************************************************)
(* For any numbers of launchers, launches, servers, edits and faults: a    *)
(* launch that sees a dev source hands over a server that is not older     *)
(* than the last edit before the call, and launches that follow one        *)
(* another keep to one server.                                             *)
(***************************************************************************)
EXTENDS ServerLifecycle, TLAPS

Registrants == {"registered", "serving", "stopping"}

\* The sockets: a listener holds a port, and the well-known one is held once.
PortsAreHeld ==
  /\ \A p \in Pids : proc[p] \in Listening => port[p] \in {"main", "own"}
  /\ \A p, q \in Holders("main") : p = q

\* Nothing has registered after the newest edit.
EditsAreNewest ==
  /\ \A p \in Pids : born[p] <= edits
  /\ \A l \in Launchers : mem[l].since <= edits

AnnouncedHaveServed ==
  \A p \in announced : proc[p] \in {"serving", "stopping", "dead", "other"}

\* What an entry of the registry says of the server that wrote it, and of
\* those that hold the well-known port after it.
Sound(e) ==
  (e.pid \in Pids) =>
    /\ proc[e.pid] \notin {"free", "starting", "bound"}
    /\ e.born = born[e.pid]
    /\ e.port = "main" =>
         \A p \in Holders("main") : proc[p] \in Registrants \ {"stopping"} => e.born <= born[p]

\* The same of the next state, for an entry given by its value.
SoundNext(e) ==
  (e.pid \in Pids) =>
    /\ proc'[e.pid] \notin {"free", "starting", "bound"}
    /\ e.born = born'[e.pid]
    /\ e.port = "main" =>
         \A p \in Holders("main")' : proc'[p] \in Registrants \ {"stopping"} => e.born <= born'[p]

EntriesAreSound == Sound(entry) /\ \A l \in Launchers : Sound(mem[l].inst)

\* The registry never names an edit that is still to come.
EntriesAreOld == entry.born <= edits /\ \A l \in Launchers : mem[l].inst.born <= edits

\* Once a launch has listed the port, a registered server that holds it is
\* about to be killed or is new.
PortIsCleared ==
  \A l \in Devs :
    at[l] \in {"killPort", "waitPort", "main", "spawn", "announce"} =>
      /\ at[l] \in {"main", "spawn", "announce"} => mem[l].kills = {}
      /\ \A p \in Holders("main") :
           proc[p] \in {"registered", "serving"} =>
             mem[l].since <= born[p] \/ p \in mem[l].kills

\* The child of a launch registers after the call.
ChildIsNew ==
  \A l \in Devs :
    at[l] = "announce" =>
      /\ mem[l].child \in Pids
      /\ (proc[mem[l].child] \in {"registered", "serving"} \/ mem[l].child \in announced)
           => mem[l].since <= born[mem[l].child]
      /\ proc[mem[l].child] # "free"

UrlIsNew ==
  \A l \in Devs : at[l] = "done" => mem[l].url \in Pids /\ mem[l].since <= born[mem[l].url]

LaunchInv ==
  /\ TypeOK
  /\ PortsAreHeld
  /\ EditsAreNewest
  /\ AnnouncedHaveServed
  /\ EntriesAreSound
  /\ EntriesAreOld
  /\ PortIsCleared
  /\ ChildIsNew
  /\ UrlIsNew

-----------------------------------------------------------------------------
(* Types.                                                                  *)

LEMMA Kinds ==
  /\ "idle" \in StepType /\ "sweep" \in StepType /\ "read" \in StepType
  /\ "probe" \in StepType /\ "reread" \in StepType /\ "killEntry" \in StepType
  /\ "waitEntry" \in StepType /\ "list" \in StepType /\ "killPort" \in StepType
  /\ "waitPort" \in StepType /\ "main" \in StepType /\ "spawn" \in StepType
  /\ "announce" \in StepType /\ "done" \in StepType
BY DEF StepType

LEMMA NewMemType == \A e \in 0..MaxEdits : NewMem(e) \in MemType
BY DEF NewMem, MemType, EntryType

LEMMA MemUpdates ==
  ASSUME NEW m \in MemType
  PROVE  /\ \A e \in EntryType : [m EXCEPT !.inst = e] \in MemType
         /\ \A K \in SUBSET (Pids \cup {Browser}) : [m EXCEPT !.kills = K] \in MemType
         /\ \A p \in Pids \cup {Browser, NoPid} : [m EXCEPT !.child = p] \in MemType
         /\ \A p \in Pids \cup {NoPid} : [m EXCEPT !.url = p] \in MemType
BY DEF MemType

LEMMA RegisteredType ==
  ASSUME TypeOK
  PROVE  Registered \in EntryType
BY DEF TypeOK, Registered, EntryType

LEMMA OnPortType == OnPort \subseteq Pids \cup {Browser}
BY DEF OnPort, Holders

LEMMA SignalType ==
  ASSUME TypeOK, NEW K, Signal(K)
  PROVE  /\ proc' \in [Pids -> Alive \cup {"free", "dead"}]
         /\ tabs' \subseteq Pids
         /\ slain' \subseteq Pids \cup {Browser}
BY DEF TypeOK, Signal, Ended, Alive, Listening

LEMMA TakeType ==
  ASSUME TypeOK, NEW l \in Launchers, NEW p \in Pids, Take(l, p)
  PROVE  mem' \in [Launchers -> MemType] /\ at' \in [Launchers -> StepType]
<1>1. mem[l] \in MemType
  BY DEF TypeOK
<1>2. [mem[l] EXCEPT !.url = p] \in MemType
  BY <1>1, MemUpdates
<1>3. mem' \in [Launchers -> MemType]
  BY <1>2 DEF Take, TypeOK
<1>4. QED
  BY <1>3, Kinds DEF Take, TypeOK

LEMMA FaultType ==
  ASSUME TypeOK, Fault
  PROVE  faults' \in 0..MaxFaults
BY LifecycleBounds DEF TypeOK, Fault

LEMMA ProbeType ==
  ASSUME TypeOK, NEW P,
         (\E p \in P : Answers(P, p)) \/ Silence(P)
  PROVE  fresh' \subseteq Pids /\ faults' \in 0..MaxFaults /\ missed' \in BOOLEAN
<1>1. ASSUME NEW p \in P, Answers(P, p)
      PROVE  fresh' \subseteq Pids /\ faults' \in 0..MaxFaults /\ missed' \in BOOLEAN
  BY <1>1 DEF Answers, Serving, TypeOK
<1>2. CASE Silence(P)
  <2>1. faults' \in 0..MaxFaults
    BY <1>2, FaultType DEF Silence, TypeOK
  <2>2. missed' \in BOOLEAN /\ fresh' = fresh
    BY <1>2 DEF Silence, TypeOK
  <2>3. QED
    BY <2>1, <2>2 DEF TypeOK
<1>3. QED
  BY <1>1, <1>2

LEMMA TypeInitial == Init => TypeOK
<1> SUFFICES ASSUME Init PROVE TypeOK
  OBVIOUS
<1>1. 0 \in 0..MaxEdits /\ 0 \in 0..MaxLaunches /\ 0 \in 0..MaxFaults
  BY LifecycleBounds
<1>2. mem \in [Launchers -> MemType]
  BY <1>1, NewMemType DEF Init
<1>3. QED
  BY <1>1, <1>2, Kinds DEF Init, TypeOK, EntryType

LEMMA TypeStep ==
  ASSUME TypeOK, PortsAreHeld, [Next]_vars
  PROVE  TypeOK'
<1>1. ASSUME NEW l \in Launchers, Call(l) PROVE TypeOK'
  <2>1. mem' \in [Launchers -> MemType]
    BY <1>1, NewMemType DEF Call, TypeOK
  <2>2. at' \in [Launchers -> StepType] /\ launches' \in 0..MaxLaunches
    BY <1>1, Kinds, LifecycleBounds DEF Call, Go, TypeOK
  <2>3. QED
    BY <1>1, <2>1, <2>2 DEF Call, TypeOK, procs
<1>2. ASSUME NEW l \in Launchers, Sweep(l) PROVE TypeOK'
  BY <1>2, Kinds, SignalType DEF Sweep, Go, TypeOK
<1>3. ASSUME NEW l \in Launchers, Read(l) PROVE TypeOK'
  <2>1. mem' \in [Launchers -> MemType]
    BY <1>3, RegisteredType, MemUpdates DEF Read, TypeOK
  <2>2. at' \in [Launchers -> StepType]
    BY <1>3, Kinds DEF Read, Go, Unusable, TypeOK
  <2>3. QED
    BY <1>3, <2>1, <2>2 DEF Read, TypeOK, procs, history
<1>4. ASSUME NEW l \in Launchers, Probe(l) PROVE TypeOK'
  <2>1. mem' \in [Launchers -> MemType]
    BY <1>4, TakeType DEF Probe, Answers, Serving, TypeOK
  <2>2. at' \in [Launchers -> StepType]
    BY <1>4, Kinds DEF Probe, Take, Go, Unusable, TypeOK
  <2>3. fresh' \subseteq Pids /\ faults' \in 0..MaxFaults /\ missed' \in BOOLEAN
    BY <1>4, ProbeType DEF Probe
  <2>4. QED
    BY <1>4, <2>1, <2>2, <2>3 DEF Probe, TypeOK
<1>5. ASSUME NEW l \in Launchers, Reread(l) PROVE TypeOK'
  <2>1. Registered # NoEntry => Registered.pid \in Pids
    BY DEF Registered, NoEntry
  <2>2. mem' \in [Launchers -> MemType]
    <3>1. CASE Registered = NoEntry
      BY <1>5, <3>1 DEF Reread, TypeOK
    <3>2. CASE Registered # NoEntry
      <4>1. mem[l] \in MemType /\ {Registered.pid} \in SUBSET (Pids \cup {Browser})
        BY <2>1, <3>2 DEF TypeOK
      <4>2. [mem[l] EXCEPT !.kills = {Registered.pid}] \in MemType
        BY <4>1, MemUpdates
      <4>3. QED
        BY <1>5, <3>2, <4>2 DEF Reread, TypeOK
    <3>3. QED
      BY <3>1, <3>2
  <2>3. at' \in [Launchers -> StepType]
    BY <1>5, Kinds DEF Reread, Go, TypeOK
  <2>4. QED
    BY <1>5, <2>2, <2>3 DEF Reread, TypeOK, procs, history
<1>6. ASSUME NEW l \in Launchers, ListPort(l) PROVE TypeOK'
  <2>1. mem' \in [Launchers -> MemType]
    BY <1>6, OnPortType, MemUpdates DEF ListPort, TypeOK
  <2>2. at' \in [Launchers -> StepType]
    BY <1>6, Kinds DEF ListPort, Go, TypeOK
  <2>3. QED
    BY <1>6, <2>1, <2>2 DEF ListPort, TypeOK, procs, history
<1>7. ASSUME NEW l \in Launchers, Kill(l) PROVE TypeOK'
  <2>1. PICK k \in mem[l].kills :
          /\ Signal({k})
          /\ mem' = [mem EXCEPT ![l].kills = @ \ {k}, ![l].child = k]
    BY <1>7 DEF Kill
  <2>2. mem[l] \in MemType /\ k \in Pids \cup {Browser}
    BY <2>1 DEF TypeOK, MemType
  <2>3. mem' \in [Launchers -> MemType]
    BY <2>1, <2>2 DEF TypeOK, MemType
  <2>4. at' \in [Launchers -> StepType]
    BY <1>7, Kinds DEF Kill, Go, TypeOK
  <2>5. QED
    BY <1>7, <2>1, <2>3, <2>4, SignalType DEF Kill, TypeOK
<1>8. ASSUME NEW l \in Launchers, Wait(l) PROVE TypeOK'
  <2>1. mem' \in [Launchers -> MemType]
    BY <1>8, MemUpdates DEF Wait, TypeOK
  <2>2. at' \in [Launchers -> StepType]
    BY <1>8, Kinds DEF Wait, Go, TypeOK
  <2>3. QED
    BY <1>8, <2>1, <2>2 DEF Wait, TypeOK, procs, history
<1>9. ASSUME NEW l \in Launchers, ProbeMain(l) PROVE TypeOK'
  <2>1. mem' \in [Launchers -> MemType]
    BY <1>9, TakeType DEF ProbeMain, Answers, Serving, TypeOK
  <2>2. at' \in [Launchers -> StepType]
    BY <1>9, Kinds DEF ProbeMain, Take, Go, TypeOK
  <2>3. fresh' \subseteq Pids /\ faults' \in 0..MaxFaults /\ missed' \in BOOLEAN
    BY <1>9, ProbeType DEF ProbeMain
  <2>4. QED
    BY <1>9, <2>1, <2>2, <2>3 DEF ProbeMain, TypeOK
<1>10. ASSUME NEW l \in Launchers, Spawn(l) PROVE TypeOK'
  <2>1. mem' \in [Launchers -> MemType]
    BY <1>10, MemUpdates DEF Spawn, TypeOK
  <2>2. at' \in [Launchers -> StepType] /\ proc' \in [Pids -> Alive \cup {"free", "dead"}]
    BY <1>10, Kinds DEF Spawn, Go, TypeOK, Alive
  <2>3. QED
    BY <1>10, <2>1, <2>2 DEF Spawn, TypeOK, history
<1>11. ASSUME NEW l \in Launchers, ReadAnnouncement(l) PROVE TypeOK'
  <2>1. mem' \in [Launchers -> MemType]
    BY <1>11, MemUpdates DEF ReadAnnouncement, Take, TypeOK
  <2>2. at' \in [Launchers -> StepType]
    BY <1>11, Kinds DEF ReadAnnouncement, Take, TypeOK
  <2>3. QED
    BY <1>11, <2>1, <2>2 DEF ReadAnnouncement, TypeOK, procs, history
<1>12. ASSUME NEW l \in Launchers, NoAnnouncement(l) PROVE TypeOK'
  <2>1. mem' \in [Launchers -> MemType]
    BY <1>12, TakeType, NewMemType, LifecycleBounds
    DEF NoAnnouncement, Answers, Serving, TypeOK
  <2>2. at' \in [Launchers -> StepType]
    BY <1>12, Kinds DEF NoAnnouncement, Take, Go, TypeOK
  <2>3. fresh' \subseteq Pids /\ faults' \in 0..MaxFaults /\ missed' \in BOOLEAN
    BY <1>12, ProbeType DEF NoAnnouncement
  <2>4. QED
    BY <1>12, <2>1, <2>2, <2>3 DEF NoAnnouncement, TypeOK
<1>13. ASSUME NEW l \in Launchers, Return(l) PROVE TypeOK'
  <2>1. mem' \in [Launchers -> MemType]
    BY <1>13, NewMemType, LifecycleBounds DEF Return, TypeOK
  <2>2. at' \in [Launchers -> StepType]
    BY <1>13, Kinds DEF Return, Go, TypeOK
  <2>3. QED
    BY <1>13, <2>1, <2>2 DEF Return, Serving, TypeOK, history
<1>14. ASSUME NEW p \in Pids, Bind(p) PROVE TypeOK'
  BY <1>14 DEF Bind, TypeOK, Alive, history
<1>15. ASSUME NEW p \in Pids, Register(p) PROVE TypeOK'
  <2>1. port[p] \in {"main", "own"}
    BY <1>15 DEF Register, PortsAreHeld, Listening
  <2>2. faults' \in 0..MaxFaults /\ missed' \in BOOLEAN
    BY <1>15, FaultType DEF Register, TypeOK
  <2>3. entry' \in EntryType
    <3>1. [pid |-> p, port |-> port[p], born |-> edits] \in EntryType
      BY <2>1 DEF EntryType, TypeOK
    <3>2. QED
      BY <1>15, <3>1 DEF Register, TypeOK
  <2>4. QED
    BY <1>15, <2>2, <2>3 DEF Register, TypeOK, Alive
<1>16. ASSUME NEW p \in Pids, Serve(p) PROVE TypeOK'
  BY <1>16 DEF Serve, TypeOK, Alive, history
<1>17. ASSUME NEW p \in Pids, Ages(p) PROVE TypeOK'
  BY <1>17 DEF Ages, TypeOK, history
<1>18. ASSUME NEW p \in Pids, IdleStop(p) PROVE TypeOK'
  BY <1>18 DEF IdleStop, TypeOK, Alive, history
<1>19. ASSUME NEW p \in Pids, Gone(p) PROVE TypeOK'
  BY <1>19 DEF Gone, Vanish, TypeOK, history
<1>20. ASSUME NEW p \in Pids, Crash(p) PROVE TypeOK'
  BY <1>20, LifecycleBounds DEF Crash, Vanish, Fault, TypeOK, history
<1>21. ASSUME NEW p \in Pids, Recycle(p) PROVE TypeOK'
  BY <1>21, LifecycleBounds DEF Recycle, Fault, TypeOK, Alive, history
<1>22. ASSUME NEW p \in Pids, OpenTab(p) PROVE TypeOK'
  BY <1>22 DEF OpenTab, TypeOK, history
<1>23. ASSUME NEW p \in Pids, CloseTab(p) PROVE TypeOK'
  BY <1>23 DEF CloseTab, TypeOK, history
<1>24. CASE Edit
  BY <1>24, LifecycleBounds DEF Edit, TypeOK, procs, history
<1>25. CASE UNCHANGED vars
  BY <1>25 DEF vars, procs, history, TypeOK
<1>26. QED
  BY <1>1, <1>2, <1>3, <1>4, <1>5, <1>6, <1>7, <1>8, <1>9, <1>10, <1>11, <1>12, <1>13,
     <1>14, <1>15, <1>16, <1>17, <1>18, <1>19, <1>20, <1>21, <1>22, <1>23, <1>24, <1>25
  DEF Next, Launch, Start

-----------------------------------------------------------------------------
(* What the steps leave alone.                                             *)

\* A launch that only looks moves nobody but itself.
Looks(l) ==
  Call(l) \/ Read(l) \/ Probe(l) \/ Reread(l) \/ ListPort(l) \/ Wait(l) \/ ProbeMain(l)
    \/ ReadAnnouncement(l) \/ NoAnnouncement(l) \/ Return(l)

Signals(l) == Sweep(l) \/ Kill(l)

\* Steps that move one process on, none of which is a registration.
Moves(p) == Bind(p) \/ Serve(p) \/ IdleStop(p) \/ Gone(p) \/ Crash(p) \/ Recycle(p)

Tabs(p) == Ages(p) \/ OpenTab(p) \/ CloseTab(p)

LEMMA StepsAreKnown ==
  ASSUME [Next]_vars
  PROVE  \/ \E l \in Launchers : Looks(l) \/ Signals(l) \/ Spawn(l)
         \/ \E p \in Pids : Moves(p) \/ Register(p) \/ Tabs(p)
         \/ Edit
         \/ UNCHANGED vars
BY DEF Next, Launch, Start, Looks, Signals, Moves, Tabs

LEMMA LooksAlone ==
  ASSUME NEW l \in Launchers, Looks(l), TypeOK
  PROVE  /\ UNCHANGED <<proc, port, announced, entry, edits, born>>
         /\ \A k \in Launchers \ {l} : at'[k] = at[k] /\ mem'[k] = mem[k]
<1>1. UNCHANGED <<proc, port, announced, entry, edits, born>>
  BY DEF Looks, Call, Read, Probe, Reread, ListPort, Wait, ProbeMain, ReadAnnouncement,
         NoAnnouncement, Return, procs, history
<1>2. \A k \in Launchers \ {l} : at'[k] = at[k]
  BY DEF Looks, Call, Read, Probe, Reread, ListPort, Wait, ProbeMain, ReadAnnouncement,
         NoAnnouncement, Return, Take, Go, TypeOK
<1>3. \A k \in Launchers \ {l} : mem'[k] = mem[k]
  BY DEF Looks, Call, Read, Probe, Reread, ListPort, Wait, ProbeMain, ReadAnnouncement,
         NoAnnouncement, Return, Take, TypeOK
<1>4. QED
  BY <1>1, <1>2, <1>3

LEMMA SignalsAlone ==
  ASSUME NEW l \in Launchers, Signals(l), TypeOK
  PROVE  /\ UNCHANGED <<port, announced, entry, edits, born>>
         /\ \A p \in Pids : proc'[p] \in {proc[p], Ended(proc[p])}
         /\ \A k \in Launchers \ {l} : at'[k] = at[k] /\ mem'[k] = mem[k]
<1>1. UNCHANGED <<port, announced, entry, edits, born>>
  BY DEF Signals, Sweep, Kill
<1>2. \A p \in Pids : proc'[p] \in {proc[p], Ended(proc[p])}
  BY DEF Signals, Sweep, Kill, Signal
<1>3. \A k \in Launchers \ {l} : at'[k] = at[k] /\ mem'[k] = mem[k]
  BY DEF Signals, Sweep, Kill, Go, TypeOK
<1>4. QED
  BY <1>1, <1>2, <1>3

LEMMA ServersAlone ==
  ASSUME NEW p \in Pids, Moves(p) \/ Tabs(p)
  PROVE  UNCHANGED <<entry, edits, at, mem, born>>
BY DEF Moves, Tabs, Bind, Serve, IdleStop, Gone, Crash, Recycle, Ages, OpenTab, CloseTab,
       history

-----------------------------------------------------------------------------
(* The sockets.                                                            *)

LEMMA PortsSame ==
  ASSUME PortsAreHeld, AnnouncedHaveServed, UNCHANGED <<proc, port, announced>>
  PROVE  PortsAreHeld' /\ AnnouncedHaveServed'
BY DEF PortsAreHeld, AnnouncedHaveServed, Holders

\* Processes that end, and one that starts, bind nothing.
LEMMA PortsShrink ==
  ASSUME PortsAreHeld, UNCHANGED port,
         \A p \in Pids : proc'[p] \in Listening => proc[p] \in Listening
  PROVE  PortsAreHeld' /\ \A o : Holders(o)' \subseteq Holders(o)
BY DEF PortsAreHeld, Holders

LEMMA PortsStep ==
  ASSUME TypeOK, PortsAreHeld, AnnouncedHaveServed, [Next]_vars
  PROVE  PortsAreHeld' /\ AnnouncedHaveServed'
<1>1. ASSUME NEW l \in Launchers, Looks(l)
      PROVE  PortsAreHeld' /\ AnnouncedHaveServed'
  BY <1>1, LooksAlone, PortsSame
<1>2. ASSUME NEW l \in Launchers, Signals(l)
      PROVE  PortsAreHeld' /\ AnnouncedHaveServed'
  <2>1. \A p \in Pids : proc'[p] \in Listening => proc[p] \in Listening
    BY <1>2, SignalsAlone DEF Ended, Listening
  <2>2. AnnouncedHaveServed'
    BY <1>2, SignalsAlone DEF AnnouncedHaveServed, Ended, Listening, Alive, TypeOK
  <2>3. QED
    BY <1>2, <2>1, <2>2, SignalsAlone, PortsShrink
<1>3. ASSUME NEW l \in Launchers, Spawn(l)
      PROVE  PortsAreHeld' /\ AnnouncedHaveServed'
  <2>1. \A p \in Pids : proc'[p] \in Listening => proc[p] \in Listening
    BY <1>3 DEF Spawn, Listening, TypeOK
  <2>2. AnnouncedHaveServed'
    BY <1>3 DEF Spawn, AnnouncedHaveServed, TypeOK
  <2>3. QED
    BY <1>3, <2>1, <2>2, PortsShrink DEF Spawn
<1>4. ASSUME NEW p \in Pids, Moves(p)
      PROVE  PortsAreHeld' /\ AnnouncedHaveServed'
  <2>1. CASE Bind(p)
    BY <2>1 DEF Bind, PortsAreHeld, AnnouncedHaveServed, Holders, Listening, TypeOK
  <2>2. CASE Serve(p) \/ IdleStop(p)
    <3>1. \A q \in Pids : proc'[q] \in Listening => proc[q] \in Listening
      BY <2>2 DEF Serve, IdleStop, Serving, Listening, TypeOK
    <3>2. AnnouncedHaveServed'
      BY <2>2 DEF Serve, IdleStop, Serving, AnnouncedHaveServed, TypeOK
    <3>3. QED
      BY <2>2, <3>1, <3>2, PortsShrink DEF Serve, IdleStop
  <2>3. CASE Gone(p) \/ Crash(p)
    BY <2>3 DEF Gone, Crash, Vanish, PortsAreHeld, AnnouncedHaveServed, Holders,
                Listening, TypeOK
  <2>4. CASE Recycle(p)
    <3>1. \A q \in Pids : proc'[q] \in Listening => proc[q] \in Listening
      BY <2>4 DEF Recycle, Listening, TypeOK
    <3>2. AnnouncedHaveServed'
      BY <2>4 DEF Recycle, AnnouncedHaveServed, TypeOK
    <3>3. QED
      BY <2>4, <3>1, <3>2, PortsShrink DEF Recycle
  <2>5. QED
    BY <1>4, <2>1, <2>2, <2>3, <2>4 DEF Moves
<1>5. ASSUME NEW p \in Pids, Register(p)
      PROVE  PortsAreHeld' /\ AnnouncedHaveServed'
  <2>1. \A q \in Pids : proc'[q] \in Listening => proc[q] \in Listening
    BY <1>5 DEF Register, Listening, TypeOK
  <2>2. AnnouncedHaveServed'
    BY <1>5 DEF Register, AnnouncedHaveServed, TypeOK
  <2>3. QED
    BY <1>5, <2>1, <2>2, PortsShrink DEF Register
<1>6. ASSUME NEW p \in Pids, Tabs(p)
      PROVE  PortsAreHeld' /\ AnnouncedHaveServed'
  BY <1>6, PortsSame DEF Tabs, Ages, OpenTab, CloseTab
<1>7. CASE Edit \/ UNCHANGED vars
  BY <1>7, PortsSame DEF Edit, vars, procs
<1>8. QED
  BY <1>1, <1>2, <1>3, <1>4, <1>5, <1>6, <1>7, StepsAreKnown

-----------------------------------------------------------------------------
(* The registry.                                                           *)

LEMMA EditsStep ==
  ASSUME TypeOK, EditsAreNewest, [Next]_vars
  PROVE  EditsAreNewest'
<1>1. ASSUME NEW l \in Launchers, Looks(l)
      PROVE  EditsAreNewest'
  <2>1. mem'[l].since \in {edits, mem[l].since} \/ mem'[l].since = 0
    BY <1>1 DEF Looks, Call, Read, Probe, Reread, ListPort, Wait, ProbeMain,
                ReadAnnouncement, NoAnnouncement, Return, Take, NewMem, TypeOK, MemType
  <2>2. QED
    BY <1>1, <2>1, LooksAlone DEF EditsAreNewest, TypeOK
<1>2. ASSUME NEW l \in Launchers, Signals(l)
      PROVE  EditsAreNewest'
  <2>1. mem'[l].since = mem[l].since
    BY <1>2 DEF Signals, Sweep, Kill, TypeOK, MemType
  <2>2. QED
    BY <1>2, <2>1, SignalsAlone DEF EditsAreNewest
<1>3. ASSUME NEW l \in Launchers, Spawn(l)
      PROVE  EditsAreNewest'
  BY <1>3 DEF Spawn, EditsAreNewest, history, TypeOK, MemType
<1>4. ASSUME NEW p \in Pids, Moves(p) \/ Tabs(p)
      PROVE  EditsAreNewest'
  BY <1>4, ServersAlone DEF EditsAreNewest
<1>5. ASSUME NEW p \in Pids, Register(p)
      PROVE  EditsAreNewest'
  BY <1>5 DEF Register, EditsAreNewest, TypeOK
<1>6. CASE Edit
  BY <1>6 DEF Edit, EditsAreNewest, history, TypeOK, MemType
<1>7. CASE UNCHANGED vars
  BY <1>7 DEF vars, history, EditsAreNewest
<1>8. QED
  BY <1>1, <1>2, <1>3, <1>4, <1>5, <1>6, <1>7, StepsAreKnown

\* The steps other than registrations: processes end, and the well-known port
\* changes hands only to one that has not registered.
Keeps ==
  /\ UNCHANGED <<entry, born>>
  /\ edits <= edits'
  /\ \A p \in Pids : proc[p] \notin {"free", "starting", "bound"}
                       => proc'[p] \notin {"free", "starting", "bound"}
  /\ \A p \in Pids : (p \in Holders("main")' /\ proc'[p] \in {"registered", "serving"})
                       => p \in Holders("main") /\ proc[p] \in {"registered", "serving"}

LEMMA StepsKeep ==
  ASSUME TypeOK
  PROVE  /\ \A l \in Launchers : Looks(l) \/ Signals(l) \/ Spawn(l) => Keeps
         /\ \A p \in Pids : Moves(p) \/ Tabs(p) => Keeps
         /\ Edit \/ UNCHANGED vars => Keeps
<1> edits \in Nat
  BY LifecycleBounds DEF TypeOK
<1>1. ASSUME NEW l \in Launchers, Looks(l) PROVE Keeps
  BY <1>1, LooksAlone DEF Keeps, Holders
<1>2. ASSUME NEW l \in Launchers, Signals(l) PROVE Keeps
  BY <1>2, SignalsAlone DEF Keeps, Holders, Ended, Listening, Alive
<1>3. ASSUME NEW l \in Launchers, Spawn(l) PROVE Keeps
  BY <1>3 DEF Spawn, Keeps, Holders, Listening, history, TypeOK
<1>4. ASSUME NEW p \in Pids, Bind(p) PROVE Keeps
  BY <1>4 DEF Bind, Keeps, Holders, Listening, history, TypeOK
<1>5. ASSUME NEW p \in Pids, Serve(p) PROVE Keeps
  BY <1>5 DEF Serve, Keeps, Holders, Listening, history, TypeOK
<1>6. ASSUME NEW p \in Pids, IdleStop(p) PROVE Keeps
  BY <1>6 DEF IdleStop, Serving, Keeps, Holders, Listening, history, TypeOK
<1>7. ASSUME NEW p \in Pids, Gone(p) \/ Crash(p) PROVE Keeps
  BY <1>7 DEF Gone, Crash, Vanish, Keeps, Holders, Listening, history, TypeOK
<1>8. ASSUME NEW p \in Pids, Recycle(p) PROVE Keeps
  BY <1>8 DEF Recycle, Keeps, Holders, Listening, history, TypeOK
<1>9. ASSUME NEW p \in Pids, Tabs(p) PROVE Keeps
  BY <1>9 DEF Tabs, Ages, OpenTab, CloseTab, Keeps, Holders, history
<1>10. CASE Edit \/ UNCHANGED vars
  BY <1>10 DEF Edit, vars, procs, history, Keeps, Holders
<1>11. QED
  BY <1>1, <1>2, <1>3, <1>4, <1>5, <1>6, <1>7, <1>8, <1>9, <1>10 DEF Moves

\* Under these steps an entry stays sound.
LEMMA SoundStays ==
  ASSUME NEW e, Sound(e), Keeps
  PROVE  SoundNext(e)
BY DEF Sound, SoundNext, Keeps, Registrants, Holders

LEMMA NoEntryIsSound == SoundNext(NoEntry)
BY DEF SoundNext, NoEntry, NoPid, Pids

\* A registration is newer than every entry.
LEMMA RegisterIsSound ==
  ASSUME TypeOK, NEW p \in Pids, Register(p), NEW e \in EntryType, Sound(e), e.born <= edits
  PROVE  SoundNext(e)
<1>1. e.pid \in Pids => e.pid # p
  BY DEF Sound, Register
<1>2. \A q \in Pids \ {p} : proc'[q] = proc[q] /\ born'[q] = born[q]
  BY DEF Register, TypeOK
<1>3. proc'[p] = "registered" /\ born'[p] = edits /\ port' = port
  BY DEF Register, TypeOK
<1>4. \A q \in Pids : q \in Holders("main")' => q \in Holders("main")
  BY <1>2, <1>3 DEF Holders, Listening, Register
<1>5. ASSUME e.pid \in Pids, e.port = "main", NEW q \in Holders("main")',
             proc'[q] \in Registrants \ {"stopping"}
      PROVE  e.born <= born'[q]
  <2>1. q \in Pids /\ q \in Holders("main")
    BY <1>4, <1>5 DEF Holders
  <2>2. CASE q = p
    BY <1>3, <2>2
  <2>3. CASE q # p
    BY <1>2, <1>5, <2>1, <2>3 DEF Sound
  <2>4. QED
    BY <2>2, <2>3
<1>6. ASSUME e.pid \in Pids
      PROVE  proc'[e.pid] \notin {"free", "starting", "bound"} /\ e.born = born'[e.pid]
  BY <1>1, <1>2, <1>6 DEF Sound
<1>7. QED
  BY <1>5, <1>6 DEF SoundNext

\* The entry that it writes is sound: it is the only holder of its port.
LEMMA RegistersSound ==
  ASSUME TypeOK, PortsAreHeld, NEW p \in Pids, Register(p), entry' # entry
  PROVE  SoundNext(entry') /\ entry'.born <= edits
<1>1. entry' = [pid |-> p, port |-> port[p], born |-> edits] /\ edits \in Nat
  BY LifecycleBounds DEF Register, TypeOK
<1>2. proc'[p] = "registered" /\ born'[p] = edits /\ port' = port
  BY DEF Register, TypeOK
<1>3. \A q \in Pids \ {p} : proc'[q] = proc[q]
  BY DEF Register, TypeOK
<1>4. ASSUME NEW q \in Holders("main")', port[p] = "main" PROVE q = p
  <2>1. q \in Holders("main") /\ p \in Holders("main")
    BY <1>2, <1>3, <1>4 DEF Holders, Listening, Register
  <2>2. QED
    BY <2>1 DEF PortsAreHeld
<1>5. entry'.pid = p /\ entry'.port = port[p] /\ entry'.born = edits
  BY <1>1
<1>6. \A q \in Holders("main")' : port[p] = "main" => born'[q] = edits
  BY <1>2, <1>4
<1>7. edits <= edits
  BY <1>1
<1>8. QED
  BY <1>2, <1>5, <1>6, <1>7 DEF SoundNext

LEMMA InstStep ==
  ASSUME TypeOK, [Next]_vars, NEW k \in Launchers
  PROVE  mem'[k].inst \in {mem[k].inst, entry, NoEntry}
<1>1. ASSUME NEW l \in Launchers, Looks(l)
      PROVE  mem'[l].inst \in {mem[l].inst, entry, NoEntry}
  BY <1>1 DEF Looks, Call, Read, Probe, Reread, ListPort, Wait, ProbeMain,
         ReadAnnouncement, NoAnnouncement, Return, Take, NewMem, Registered, TypeOK, MemType
<1>2. ASSUME NEW l \in Launchers, Signals(l) PROVE mem'[l].inst = mem[l].inst
  BY <1>2 DEF Signals, Sweep, Kill, TypeOK, MemType
<1>3. ASSUME NEW l \in Launchers, Spawn(l) PROVE mem'[k].inst = mem[k].inst
  BY <1>3 DEF Spawn, TypeOK, MemType
<1>4. ASSUME NEW p \in Pids, Moves(p) \/ Tabs(p) \/ Register(p) PROVE mem'[k] = mem[k]
  BY <1>4, ServersAlone DEF Register
<1>5. CASE Edit \/ UNCHANGED vars
  BY <1>5 DEF Edit, vars
<1>6. QED
  BY <1>1, <1>2, <1>3, <1>4, <1>5, StepsAreKnown, LooksAlone, SignalsAlone

LEMMA EntriesStep ==
  ASSUME TypeOK, PortsAreHeld, EntriesAreSound, EntriesAreOld, [Next]_vars
  PROVE  EntriesAreSound' /\ EntriesAreOld'
<1>1. edits \in Nat /\ 0 <= edits /\ entry \in EntryType /\ NoEntry.born = 0
  BY LifecycleBounds DEF TypeOK, NoEntry
<1>2. \A k \in Launchers : mem[k].inst \in EntryType
  BY DEF TypeOK, MemType
<1>3. /\ edits <= edits' /\ edits' \in Nat
      /\ \A e \in EntryType : Sound(e) /\ e.born <= edits => SoundNext(e)
      /\ entry' # entry => SoundNext(entry') /\ entry'.born <= edits
  <2>1. CASE Keeps
    <3>1. edits' \in Nat
      <4>1. TypeOK'
        BY TypeStep
      <4>2. QED
        BY <4>1, LifecycleBounds DEF TypeOK
    <3>2. QED
      BY <2>1, <3>1, SoundStays DEF Keeps
  <2>2. ASSUME NEW p \in Pids, Register(p)
        PROVE  /\ edits <= edits' /\ edits' \in Nat
               /\ \A e \in EntryType : Sound(e) /\ e.born <= edits => SoundNext(e)
               /\ entry' # entry => SoundNext(entry') /\ entry'.born <= edits
    <3>1. edits' = edits
      BY <2>2 DEF Register
    <3>2. QED
      BY <1>1, <2>2, <3>1, RegisterIsSound, RegistersSound
  <2>3. QED
    BY <2>1, <2>2, StepsKeep, StepsAreKnown
<1>4. SoundNext(entry') /\ entry'.born <= edits
  BY <1>1, <1>3 DEF EntriesAreSound, EntriesAreOld
<1>5. ASSUME NEW k \in Launchers
      PROVE  SoundNext(mem'[k].inst) /\ mem'[k].inst.born <= edits
  BY <1>1, <1>2, <1>3, InstStep, NoEntryIsSound DEF EntriesAreSound, EntriesAreOld
<1>6. EntriesAreSound'
  BY <1>4, <1>5 DEF EntriesAreSound, Sound, SoundNext
<1>7. EntriesAreOld'
  <2>1. \A x \in Nat : x <= edits => x <= edits'
    BY <1>1, <1>3
  <2>2. TypeOK'
    BY TypeStep
  <2>3. entry'.born \in Nat /\ \A k \in Launchers : mem'[k].inst.born \in Nat
    BY <2>2, LifecycleBounds DEF TypeOK, MemType, EntryType, NoEntry
  <2>4. QED
    BY <1>4, <1>5, <2>1, <2>3 DEF EntriesAreOld
<1>8. QED
  BY <1>6, <1>7

-----------------------------------------------------------------------------
(* What a step means to a launch that does not make it.                    *)

LEMMA Unmoved ==
  ASSUME TypeOK, [Next]_vars, NEW d \in Launchers
  PROVE  (at'[d] = at[d] /\ mem'[d] = mem[d]) \/ Looks(d) \/ Signals(d) \/ Spawn(d)
<1>1. ASSUME NEW l \in Launchers \ {d}, Spawn(l) PROVE at'[d] = at[d] /\ mem'[d] = mem[d]
  BY <1>1 DEF Spawn, Go, TypeOK
<1>2. ASSUME NEW p \in Pids, Moves(p) \/ Tabs(p) \/ Register(p)
      PROVE  at'[d] = at[d] /\ mem'[d] = mem[d]
  BY <1>2, ServersAlone DEF Register
<1>3. CASE Edit \/ UNCHANGED vars
  BY <1>3 DEF Edit, vars
<1>4. QED
  BY <1>1, <1>2, <1>3, StepsAreKnown, LooksAlone, SignalsAlone

\* A server on the well-known port was there before, or has just registered.
LEMMA HoldersStep ==
  ASSUME TypeOK, [Next]_vars, NEW p \in Holders("main")',
         proc'[p] \in {"registered", "serving"}
  PROVE  \/ /\ p \in Holders("main")
            /\ proc[p] \in {"registered", "serving"}
            /\ born'[p] = born[p]
         \/ born'[p] = edits
<1>1. p \in Pids
  BY DEF Holders
<1>2. CASE Keeps
  BY <1>1, <1>2 DEF Keeps
<1>3. ASSUME NEW q \in Pids, Register(q), q # p
      PROVE  p \in Holders("main") /\ proc'[p] = proc[p] /\ born'[p] = born[p]
  BY <1>1, <1>3 DEF Register, Holders, TypeOK
<1>4. ASSUME Register(p)
      PROVE  born'[p] = edits
  BY <1>1, <1>4 DEF Register, TypeOK
<1>5. QED
  BY <1>1, <1>2, <1>3, <1>4, StepsKeep, StepsAreKnown

\* A server that has registered or announced itself had done so before, or
\* registers now.
LEMMA ChildStep ==
  ASSUME TypeOK, [Next]_vars, NEW p \in Pids
  PROVE  /\ born'[p] \in {born[p], edits}
         /\ proc[p] # "free" => proc'[p] # "free"
         /\ (proc'[p] \in {"registered", "serving"} \/ p \in announced') =>
              \/ (proc[p] \in {"registered", "serving"} \/ p \in announced) /\ born'[p] = born[p]
              \/ born'[p] = edits
<1> DEFINE Good ==
      /\ born'[p] \in {born[p], edits}
      /\ proc[p] # "free" => proc'[p] # "free"
      /\ (proc'[p] \in {"registered", "serving"} \/ p \in announced') =>
           \/ (proc[p] \in {"registered", "serving"} \/ p \in announced) /\ born'[p] = born[p]
           \/ born'[p] = edits
<1>1. ASSUME NEW l \in Launchers, Looks(l) PROVE Good
  BY <1>1, LooksAlone
<1>2. ASSUME NEW l \in Launchers, Signals(l) PROVE Good
  BY <1>2, SignalsAlone DEF Ended, Listening, Alive
<1>3. ASSUME NEW l \in Launchers, Spawn(l) PROVE Good
  BY <1>3 DEF Spawn, history, TypeOK
<1>4. ASSUME NEW q \in Pids, Register(q) PROVE Good
  BY <1>4 DEF Register, TypeOK
<1>5. ASSUME NEW q \in Pids, Bind(q) \/ Serve(q) \/ IdleStop(q) PROVE Good
  BY <1>5 DEF Bind, Serve, IdleStop, Serving, history, TypeOK
<1>6. ASSUME NEW q \in Pids, Gone(q) \/ Crash(q) \/ Recycle(q) PROVE Good
  BY <1>6 DEF Gone, Crash, Recycle, Vanish, history, TypeOK
<1>7. ASSUME NEW q \in Pids, Tabs(q) PROVE Good
  BY <1>7 DEF Tabs, Ages, OpenTab, CloseTab, history
<1>8. CASE Edit \/ UNCHANGED vars
  BY <1>8 DEF Edit, vars, procs, history
<1>9. QED
  BY <1>1, <1>2, <1>3, <1>4, <1>5, <1>6, <1>7, <1>8, StepsAreKnown DEF Moves

-----------------------------------------------------------------------------
(* The launch of a developer.                                              *)

Cleared(d) ==
  at[d] \in {"killPort", "waitPort", "main", "spawn", "announce"} =>
    /\ at[d] \in {"main", "spawn", "announce"} => mem[d].kills = {}
    /\ \A p \in Holders("main") :
         proc[p] \in {"registered", "serving"} =>
           mem[d].since <= born[p] \/ p \in mem[d].kills

LEMMA ClearedStep ==
  ASSUME TypeOK, EditsAreNewest, [Next]_vars, NEW d \in Devs, Cleared(d)
  PROVE  Cleared(d)'
<1>1. d \in Launchers /\ mem[d].since <= edits
  BY DEF Launchers, EditsAreNewest
<1>2. ASSUME at'[d] = at[d], mem'[d] = mem[d] PROVE Cleared(d)'
  BY <1>1, <1>2, HoldersStep DEF Cleared
<1>3. ASSUME Looks(d) PROVE Cleared(d)'
  <2>1. CASE ListPort(d)
    <3>1. mem'[d].kills = OnPort /\ at'[d] = IF OnPort = {} THEN "main" ELSE "killPort"
      BY <1>1, <2>1 DEF ListPort, Go, TypeOK, MemType
    <3>2. Holders("main") \subseteq OnPort /\ UNCHANGED <<proc, port, born>>
      BY <2>1 DEF ListPort, OnPort, procs, history
    <3>3. QED
      BY <3>1, <3>2 DEF Cleared, Holders
  <2>2. CASE Wait(d) /\ at[d] = "waitPort"
    <3>1. /\ mem'[d].kills = mem[d].kills /\ mem'[d].since = mem[d].since
          /\ at'[d] = IF mem[d].kills = {} THEN "main" ELSE "killPort"
      BY <1>1, <2>2 DEF Wait, Go, TypeOK, MemType
    <3>2. UNCHANGED <<proc, port, born>>
      BY <2>2 DEF Wait, procs, history
    <3>3. QED
      BY <2>2, <3>1, <3>2 DEF Cleared, Holders
  <2>3. CASE ProbeMain(d) /\ at'[d] = "spawn"
    <3>1. at[d] = "main" /\ mem'[d] = mem[d]
      BY <1>1, <2>3 DEF ProbeMain, Take, TypeOK
    <3>2. UNCHANGED <<proc, port, born>>
      BY <2>3 DEF ProbeMain
    <3>3. QED
      BY <2>3, <3>1, <3>2 DEF Cleared, Holders
  <2>4. CASE ~ListPort(d) /\ ~(Wait(d) /\ at[d] = "waitPort")
               /\ ~(ProbeMain(d) /\ at'[d] = "spawn")
    <3>1. at'[d] \notin {"killPort", "waitPort", "main", "spawn", "announce"}
      BY <1>1, <1>3, <2>4 DEF Looks, Call, Read, Probe, Reread, Wait, ProbeMain,
         ReadAnnouncement, NoAnnouncement, Return, Take, Go, Unusable, TypeOK
    <3>2. QED
      BY <3>1 DEF Cleared
  <2>5. QED
    BY <2>1, <2>2, <2>3, <2>4
<1>4. ASSUME Sweep(d) PROVE Cleared(d)'
  <2>1. at'[d] = "read"
    BY <1>1, <1>4 DEF Sweep, Go, TypeOK
  <2>2. QED
    BY <2>1 DEF Cleared
<1>5. ASSUME Kill(d) PROVE Cleared(d)'
  <2>1. PICK k \in mem[d].kills :
          /\ Signal({k})
          /\ mem' = [mem EXCEPT ![d].kills = @ \ {k}, ![d].child = k]
    BY <1>5 DEF Kill
  <2>2. CASE at[d] = "killEntry"
    <3>1. at'[d] = "waitEntry"
      BY <1>1, <1>5, <2>2 DEF Kill, Go, TypeOK
    <3>2. QED
      BY <3>1 DEF Cleared
  <2>3. CASE at[d] = "killPort"
    <3>1. at'[d] = "waitPort"
      BY <1>1, <1>5, <2>3 DEF Kill, Go, TypeOK
    <3>2. mem'[d].kills = mem[d].kills \ {k} /\ mem'[d].since = mem[d].since
      BY <1>1, <2>1 DEF TypeOK, MemType
    <3>3. k \in Pids => proc'[k] \notin {"registered", "serving"}
      BY <2>1 DEF Signal, Ended, Listening, Alive
    <3>4. QED
      BY <1>1, <2>3, <3>1, <3>2, <3>3, HoldersStep DEF Cleared, Holders
  <2>4. QED
    BY <1>5, <2>2, <2>3 DEF Kill
<1>6. ASSUME Spawn(d) PROVE Cleared(d)'
  <2>1. /\ at[d] = "spawn" /\ at'[d] = "announce"
        /\ mem'[d].kills = mem[d].kills /\ mem'[d].since = mem[d].since
    BY <1>1, <1>6 DEF Spawn, Go, TypeOK, MemType
  <2>2. QED
    BY <1>1, <2>1, HoldersStep DEF Cleared
<1>7. QED
  BY <1>1, <1>2, <1>3, <1>4, <1>5, <1>6, Unmoved DEF Signals

NewChild(d) ==
  at[d] = "announce" =>
    /\ mem[d].child \in Pids
    /\ (proc[mem[d].child] \in {"registered", "serving"} \/ mem[d].child \in announced)
         => mem[d].since <= born[mem[d].child]
    /\ proc[mem[d].child] # "free"

LEMMA NewChildStep ==
  ASSUME TypeOK, EditsAreNewest, AnnouncedHaveServed, [Next]_vars, NEW d \in Devs, NewChild(d)
  PROVE  NewChild(d)'
<1>1. d \in Launchers /\ mem[d].since <= edits
  BY DEF Launchers, EditsAreNewest
<1>2. ASSUME at'[d] = at[d], mem'[d] = mem[d] PROVE NewChild(d)'
  <2>1. CASE at[d] = "announce"
    <3> DEFINE c == mem[d].child
    <3>1. c \in Pids
      BY <2>1 DEF NewChild
    <3>2. /\ proc[c] # "free" => proc'[c] # "free"
          /\ (proc'[c] \in {"registered", "serving"} \/ c \in announced') =>
               \/ (proc[c] \in {"registered", "serving"} \/ c \in announced) /\ born'[c] = born[c]
               \/ born'[c] = edits
      BY <3>1, ChildStep
    <3>3. QED
      BY <1>1, <1>2, <2>1, <3>1, <3>2 DEF NewChild
  <2>2. QED
    BY <1>2, <2>1 DEF NewChild
<1>3. ASSUME Looks(d) \/ Signals(d) PROVE NewChild(d)'
  <2>1. at'[d] # "announce"
    BY <1>1, <1>3 DEF Looks, Signals, Call, Sweep, Read, Probe, Reread, ListPort, Kill, Wait,
       ProbeMain, ReadAnnouncement, NoAnnouncement, Return, Take, Go, Unusable, TypeOK
  <2>2. QED
    BY <2>1 DEF NewChild
<1>4. ASSUME Spawn(d) PROVE NewChild(d)'
  <2>1. PICK p \in Pids :
          /\ proc[p] = "free"
          /\ proc' = [proc EXCEPT ![p] = "starting"]
          /\ mem' = [mem EXCEPT ![d].child = p]
    BY <1>4 DEF Spawn
  <2>2. mem'[d].child = p /\ proc'[p] = "starting" /\ announced' = announced
    BY <1>1, <1>4, <2>1 DEF Spawn, TypeOK, MemType
  <2>3. p \notin announced
    BY <2>1 DEF AnnouncedHaveServed
  <2>4. QED
    BY <2>2, <2>3 DEF NewChild
<1>5. QED
  BY <1>1, <1>2, <1>3, <1>4, Unmoved

NewUrl(d) == at[d] = "done" => mem[d].url \in Pids /\ mem[d].since <= born[mem[d].url]

\* A current entry leads to a server that is not older.
LEMMA CurrentIsNew ==
  ASSUME TypeOK, EntriesAreSound, NEW d \in Devs, Current(d),
         NEW p \in Behind(mem[d].inst) \cap Serving
  PROVE  edits <= born[p]
<1>1. /\ d \in Launchers
      /\ mem[d].inst \in EntryType
      /\ mem[d].inst.born = edits
      /\ Sound(mem[d].inst)
      /\ edits \in Nat
  BY LaunchersAreOneKind, LifecycleBounds
  DEF Current, Launchers, TypeOK, MemType, EntriesAreSound
<1>2. CASE mem[d].inst.port = "main"
  <2>1. mem[d].inst.pid \in Pids
    BY <1>1, <1>2 DEF EntryType, NoEntry
  <2>2. p \in Holders("main") /\ proc[p] \in Registrants \ {"stopping"}
    BY <1>2 DEF Behind, Serving, Registrants
  <2>3. QED
    BY <1>1, <1>2, <2>1, <2>2 DEF Sound
<1>3. CASE mem[d].inst.port # "main"
  <2>1. p = mem[d].inst.pid /\ p \in Pids
    BY <1>3 DEF Behind, Serving
  <2>2. QED
    BY <1>1, <2>1 DEF Sound
<1>4. QED
  BY <1>2, <1>3

LEMMA NewUrlStep ==
  ASSUME TypeOK, EditsAreNewest, EntriesAreSound, [Next]_vars, NEW d \in Devs,
         Cleared(d), NewChild(d), NewUrl(d)
  PROVE  NewUrl(d)'
<1>1. /\ d \in Launchers /\ mem[d].since <= edits
      /\ mem[d].since \in Nat /\ edits \in Nat /\ \A p \in Pids : born[p] \in Nat
  BY LifecycleBounds DEF Launchers, EditsAreNewest, TypeOK, MemType
<1>2. ASSUME at'[d] = at[d], mem'[d] = mem[d] PROVE NewUrl(d)'
  <2>1. \A p \in Pids : born'[p] \in {born[p], edits}
    BY ChildStep
  <2>2. QED
    BY <1>1, <1>2, <2>1 DEF NewUrl
<1>3. ASSUME NEW p \in Pids, Take(d, p), UNCHANGED born, mem[d].since <= born[p]
      PROVE  NewUrl(d)'
  <2>1. mem'[d].url = p /\ mem'[d].since = mem[d].since
    BY <1>1, <1>3 DEF Take, TypeOK, MemType
  <2>2. QED
    BY <1>3, <2>1 DEF NewUrl
<1>4. ASSUME at'[d] # "done" PROVE NewUrl(d)'
  BY <1>4 DEF NewUrl
<1>5. ASSUME Probe(d), at'[d] = "done" PROVE NewUrl(d)'
  <2>1. PICK p \in Behind(mem[d].inst) : Answers(Behind(mem[d].inst), p) /\ Current(d) /\ Take(d, p)
    BY <1>1, <1>5 DEF Probe, Go, Unusable, TypeOK
  <2>2. p \in Pids /\ p \in Serving
    BY <2>1 DEF Answers, Serving
  <2>3. edits <= born[p]
    BY <2>1, <2>2, CurrentIsNew
  <2>4. mem[d].since <= born[p]
    BY <1>1, <2>2, <2>3
  <2>5. UNCHANGED born
    BY <1>5 DEF Probe
  <2>6. QED
    BY <1>3, <2>1, <2>2, <2>4, <2>5
<1>6. ASSUME ProbeMain(d) \/ NoAnnouncement(d), at'[d] = "done" PROVE NewUrl(d)'
  <2>1. PICK p \in Holders("main") : Answers(Holders("main"), p) /\ Take(d, p)
    BY <1>1, <1>6 DEF ProbeMain, NoAnnouncement, Go, TypeOK
  <2>2. p \in Pids /\ proc[p] = "serving"
    BY <2>1 DEF Answers, Serving
  <2>3. at[d] \in {"main", "announce"} /\ UNCHANGED born
    BY <1>6 DEF ProbeMain, NoAnnouncement
  <2>4. mem[d].since <= born[p]
    BY <2>1, <2>2, <2>3 DEF Cleared
  <2>5. QED
    BY <1>3, <2>1, <2>2, <2>3, <2>4
<1>7. ASSUME ReadAnnouncement(d) PROVE NewUrl(d)'
  <2>1. /\ at[d] = "announce" /\ mem[d].child \in announced
        /\ Take(d, mem[d].child) /\ UNCHANGED born
    BY <1>7 DEF ReadAnnouncement, history
  <2>2. mem[d].child \in Pids /\ mem[d].since <= born[mem[d].child]
    BY <2>1 DEF NewChild
  <2>3. QED
    BY <1>3, <2>1, <2>2
<1>8. ASSUME \/ Call(d) \/ Sweep(d) \/ Read(d) \/ Reread(d) \/ ListPort(d) \/ Kill(d)
             \/ Wait(d) \/ Spawn(d) \/ Return(d)
      PROVE  at'[d] # "done"
  BY <1>1, <1>8 DEF Call, Sweep, Read, Reread, ListPort, Kill, Wait, Spawn, Return, Go,
     Unusable, TypeOK
<1>9. QED
  BY <1>1, <1>2, <1>4, <1>5, <1>6, <1>7, <1>8, Unmoved DEF Looks, Signals

-----------------------------------------------------------------------------
(* The invariant.                                                          *)

LEMMA LaunchInitial == Init => LaunchInv
<1> SUFFICES ASSUME Init PROVE LaunchInv
  OBVIOUS
<1>1. TypeOK
  BY TypeInitial
<1>2. \A p \in Pids : proc[p] = "free" /\ born[p] = 0
  BY DEF Init
<1>3. \A l \in Launchers : at[l] = "idle" /\ mem[l].inst = NoEntry /\ mem[l].since = 0
  BY DEF Init, NewMem
<1>4. edits = 0 /\ entry = NoEntry /\ announced = {}
  BY DEF Init
<1>5. PortsAreHeld /\ AnnouncedHaveServed
  BY <1>2, <1>4 DEF PortsAreHeld, AnnouncedHaveServed, Holders, Listening
<1>6. EditsAreNewest
  BY <1>2, <1>3, <1>4 DEF EditsAreNewest
<1>7. Sound(NoEntry) /\ NoEntry.born = 0
  BY DEF Sound, NoEntry, NoPid, Pids
<1>8. EntriesAreSound
  BY <1>3, <1>4, <1>7 DEF EntriesAreSound
<1>9. EntriesAreOld
  BY <1>3, <1>4, <1>7 DEF EntriesAreOld
<1>10. PortIsCleared /\ ChildIsNew /\ UrlIsNew
  BY <1>3 DEF PortIsCleared, ChildIsNew, UrlIsNew, Launchers
<1>11. QED
  BY <1>1, <1>5, <1>6, <1>8, <1>9, <1>10 DEF LaunchInv

LEMMA LaunchStep == LaunchInv /\ [Next]_vars => LaunchInv'
<1> SUFFICES ASSUME LaunchInv, [Next]_vars PROVE LaunchInv'
  OBVIOUS
<1>1. TypeOK'
  BY TypeStep DEF LaunchInv
<1>2. PortsAreHeld' /\ AnnouncedHaveServed'
  BY PortsStep DEF LaunchInv
<1>3. EditsAreNewest'
  BY EditsStep DEF LaunchInv
<1>4. EntriesAreSound' /\ EntriesAreOld'
  BY EntriesStep DEF LaunchInv
<1>5. ASSUME NEW d \in Devs PROVE Cleared(d) /\ NewChild(d) /\ NewUrl(d)
  BY DEF LaunchInv, PortIsCleared, ChildIsNew, UrlIsNew, Cleared, NewChild, NewUrl
<1>6. ASSUME NEW d \in Devs PROVE Cleared(d)' /\ NewChild(d)' /\ NewUrl(d)'
  BY <1>5, ClearedStep, NewChildStep, NewUrlStep DEF LaunchInv
<1>7. PortIsCleared' /\ ChildIsNew' /\ UrlIsNew'
  BY <1>6 DEF PortIsCleared, ChildIsNew, UrlIsNew, Cleared, NewChild, NewUrl
<1>8. QED
  BY <1>1, <1>2, <1>3, <1>4, <1>7 DEF LaunchInv

\* The inductive invariant of launches and servers.
THEOREM LaunchInvariant == Spec => []LaunchInv
BY LaunchInitial, LaunchStep, PTL DEF Spec

\* Every variable keeps its type.
THEOREM LaunchTypeCorrect == Spec => []TypeOK
<1>1. LaunchInv => TypeOK
  BY DEF LaunchInv
<1>2. QED
  BY <1>1, LaunchInvariant, PTL

\* A developer's launch never hands over a server that registered before the
\* last edit it knew of, however many launches, edits, crashes and recycled
\* pids there were (reusable_instance, launch_server).
THEOREM DevServerIsCurrent == Spec => []DevGetsCurrentServer
<1>1. LaunchInv => DevGetsCurrentServer
  <2> SUFFICES ASSUME LaunchInv, NEW l \in Devs, at[l] = "done"
               PROVE  born[mem[l].url] >= mem[l].since
    BY DEF DevGetsCurrentServer
  <2>1. mem[l].url \in Pids /\ mem[l].since <= born[mem[l].url]
    BY DEF LaunchInv, UrlIsNew
  <2>2. QED
    BY <2>1
<1>2. QED
  BY <1>1, LaunchInvariant, PTL

-----------------------------------------------------------------------------
(* One server.                                                             *)

Booting == {p \in Pids : proc[p] \in {"starting", "bound", "registered"}}
Registering == {p \in Pids : proc[p] \in {"registered", "serving"}}

\* The steps of a launch that has found that nobody serves.
Emptied == {"waitEntry", "list", "killPort", "waitPort", "main", "spawn"}

OneByOne == \A l, m \in Launchers : at[l] # "idle" /\ at[m] # "idle" => l = m

\* A server that has registered is the one the registry names.
Written == \A p \in Registering : entry.pid = p /\ entry.port = port[p]

\* A server that comes up is awaited by the launch that has spawned it.
Awaited == \A p \in Booting : \E l \in Launchers : at[l] = "announce" /\ mem[l].child = p

\* What a launch knows of the servers there are, where it stands.
Sees(l) ==
  /\ at[l] = "announce" => Booting \cup Serving \subseteq {mem[l].child}
  /\ at[l] = "probe" => Serving = {} \/ mem[l].inst = entry
  /\ at[l] = "killEntry" => \E p \in Pids : mem[l].kills = {p} /\ Serving \subseteq {p}
  /\ at[l] \in Emptied => Serving = {}

Orderly == OneByOne /\ Written /\ Awaited /\ \A l \in Launchers : Sees(l)
Solo == ~overlap /\ ~missed => Orderly

LEMMA SoloInitial == Init => Solo
<1> SUFFICES ASSUME Init PROVE Orderly
  BY DEF Solo
<1>1. /\ \A l \in Launchers : at[l] = "idle"
      /\ \A p \in Pids : proc[p] = "free"
  BY DEF Init
<1>2. QED
  BY <1>1 DEF Orderly, OneByOne, Written, Awaited, Sees, Booting, Registering, Serving, Emptied

\* Two launches at once, and a server that was not seen, stay in the history.
LEMMA HistoryStays == ASSUME [Next]_vars PROVE overlap \/ missed => overlap' \/ missed'
<1>1. ASSUME NEW P, (\E p \in P : Answers(P, p)) \/ Silence(P), missed PROVE missed'
  BY <1>1 DEF Answers, Silence
<1>2. ASSUME NEW l \in Launchers, Looks(l) PROVE overlap \/ missed => overlap' \/ missed'
  <2>1. CASE Probe(l)
    BY <2>1, <1>1 DEF Probe
  <2>2. CASE ProbeMain(l)
    BY <2>2, <1>1 DEF ProbeMain
  <2>3. CASE NoAnnouncement(l)
    BY <2>3, <1>1 DEF NoAnnouncement
  <2>4. CASE Call(l) \/ Read(l) \/ Reread(l) \/ ListPort(l) \/ Wait(l)
               \/ ReadAnnouncement(l) \/ Return(l)
    BY <2>4 DEF Call, Read, Reread, ListPort, Wait, ReadAnnouncement, Return, history
  <2>5. QED
    BY <1>2, <2>1, <2>2, <2>3, <2>4 DEF Looks
<1>3. ASSUME NEW l \in Launchers, Signals(l) \/ Spawn(l) PROVE overlap' = overlap /\ missed' = missed
  BY <1>3 DEF Signals, Sweep, Kill, Spawn, history
<1>4. ASSUME NEW p \in Pids, Moves(p) \/ Tabs(p) PROVE overlap' = overlap /\ missed' = missed
  BY <1>4 DEF Moves, Tabs, Bind, Serve, IdleStop, Gone, Crash, Recycle, Ages, OpenTab, CloseTab,
              history
<1>5. ASSUME NEW p \in Pids, Register(p) PROVE overlap \/ missed => overlap' \/ missed'
  BY <1>5 DEF Register
<1>6. CASE Edit \/ UNCHANGED vars
  BY <1>6 DEF Edit, vars, history
<1>7. QED
  BY <1>2, <1>3, <1>4, <1>5, <1>6, StepsAreKnown

\* Processes end, or move on before they register.
LEMMA OrderlyShrinks ==
  ASSUME Orderly, UNCHANGED <<at, mem, entry>>,
         Booting' \subseteq Booting, Serving' \subseteq Serving,
         Registering' \subseteq Registering, \A p \in Registering' : port'[p] = port[p]
  PROVE  Orderly'
<1>1. OneByOne' /\ Written' /\ Awaited'
  BY DEF Orderly, OneByOne, Written, Awaited
<1>2. \A l \in Launchers : Sees(l)'
  BY DEF Orderly, Sees
<1>3. QED
  BY <1>1, <1>2 DEF Orderly

\* The only launch goes on.
LEMMA OrderlyLaunch ==
  ASSUME Orderly, NEW l \in Launchers, at[l] # "idle",
         \A k \in Launchers \ {l} : at'[k] = at[k],
         UNCHANGED <<entry, port>>, Registering' \subseteq Registering,
         Booting' # {} => at'[l] = "announce", Sees(l)'
  PROVE  Orderly'
<1>1. \A k \in Launchers \ {l} : at'[k] = "idle"
  BY DEF Orderly, OneByOne
<1>2. OneByOne' /\ Written'
  BY <1>1 DEF Orderly, OneByOne, Written
<1>3. Awaited'
  BY DEF Awaited, Sees
<1>4. \A k \in Launchers : Sees(k)'
  BY <1>1 DEF Sees, Emptied
<1>5. QED
  BY <1>2, <1>3, <1>4 DEF Orderly

\* Nobody comes up while the only launch is not waiting for it.
LEMMA NobodyBoots ==
  ASSUME Orderly, NEW l \in Launchers, at[l] \notin {"idle", "announce"}
  PROVE  Booting = {}
BY DEF Orderly, OneByOne, Awaited

\* Who serves is alive, holds its port, and is what read_instance returns.
LEMMA ServersAreRegistered ==
  ASSUME TypeOK, Orderly
  PROVE  Serving # {} => /\ Registered = entry /\ entry # NoEntry
                         /\ \E p \in Pids : /\ Serving = {p} /\ entry.pid = p
                                            /\ entry.port = port[p] /\ proc[p] = "serving"
<1> SUFFICES ASSUME NEW p \in Serving
             PROVE  /\ Registered = entry /\ entry # NoEntry
                    /\ \E q \in Pids : /\ Serving = {q} /\ entry.pid = q
                                       /\ entry.port = port[q] /\ proc[q] = "serving"
  OBVIOUS
<1>1. \A q \in Serving : q \in Pids /\ entry.pid = q /\ entry.port = port[q] /\ proc[q] = "serving"
  BY DEF Orderly, Written, Registering, Serving
<1>2. Serving = {p}
  BY <1>1
<1>3. entry # NoEntry
  <2>1. NoPid \notin Pids
    BY DEF NoPid, Pids
  <2>2. QED
    BY <1>1, <2>1 DEF NoEntry
<1>4. Registered = entry
  BY <1>1 DEF Registered, Alive
<1>5. QED
  BY <1>1, <1>2, <1>3, <1>4

\* Who has been signalled neither serves nor comes up.
LEMMA SignalEnds ==
  ASSUME TypeOK, NEW K, Signal(K)
  PROVE  /\ Booting' \subseteq Booting \ K /\ Serving' \subseteq Serving \ K
         /\ Registering' \subseteq Registering
<1>1. \A p \in Pids : proc'[p] = IF p \in K THEN Ended(proc[p]) ELSE proc[p]
  BY DEF Signal
<1>2. \A p \in Pids : proc'[p] \in {"starting", "bound", "registered", "serving"}
                        => p \notin K /\ proc'[p] = proc[p]
  BY <1>1 DEF Ended, Listening, Alive
<1>3. QED
  BY <1>2 DEF Booting, Serving, Registering

LEMMA CallOrderly ==
  ASSUME TypeOK, Orderly, ~overlap', NEW l \in Launchers, Call(l)
  PROVE  Orderly'
<1>1. \A k \in Launchers : at[k] = "idle"
  BY DEF Call
<1>2. /\ UNCHANGED <<proc, port, entry>>
      /\ at' \in [Launchers -> {"idle", "sweep", "read"}]
      /\ \A k \in Launchers \ {l} : at'[k] = "idle"
  BY <1>1 DEF Call, procs, Go, TypeOK
<1>3. Booting = {}
  BY <1>1 DEF Orderly, Awaited
<1>4. /\ Booting' = {} /\ Serving' = Serving /\ Registering' = Registering
  BY <1>2, <1>3 DEF Booting, Serving, Registering
<1>5. QED
  BY <1>2, <1>4 DEF Orderly, OneByOne, Written, Awaited, Sees, Emptied

\* The steps of a launch that look or signal.
LEMMA LaunchOrderly ==
  ASSUME LaunchInv, Orderly, ~missed', NEW l \in Launchers,
         Launch(l)
  PROVE  Orderly'
<1> DEFINE Fine == /\ at[l] # "idle"
                   /\ UNCHANGED <<entry, port>> /\ Registering' \subseteq Registering
                   /\ Booting' # {} => at'[l] = "announce"
                   /\ Sees(l)'
<1>a. TypeOK
  BY DEF LaunchInv
<1>b. mem[l] \in MemType /\ mem \in [Launchers -> MemType] /\ at \in [Launchers -> StepType]
  BY <1>a DEF TypeOK
<1>c. Sees(l)
  BY DEF Orderly
<1>d. UNCHANGED proc => Booting' = Booting /\ Serving' = Serving /\ Registering' = Registering
  BY DEF Booting, Serving, Registering
<1>1. CASE Sweep(l)
  <2>1. at[l] = "sweep" /\ at'[l] = "read" /\ UNCHANGED <<entry, port>> /\ Signal(OnPort)
    BY <1>1, <1>b DEF Sweep, Go
  <2>2. Booting' = {} /\ Registering' \subseteq Registering
    BY <1>a, <2>1, NobodyBoots, SignalEnds
  <2>3. Fine
    BY <2>1, <2>2 DEF Sees, Emptied
  <2>4. QED
    BY <1>1, <1>a, <2>3, SignalsAlone, OrderlyLaunch DEF Signals
<1>2. CASE Read(l)
  <2>1. /\ at[l] = "read" /\ mem'[l].inst = Registered
        /\ at'[l] = IF Registered = NoEntry THEN Unusable(l) ELSE "probe"
        /\ UNCHANGED <<proc, entry, port>>
    BY <1>2, <1>b DEF Read, Go, procs, MemType
  <2>2. Booting' = {}
    BY <1>d, <2>1, NobodyBoots
  <2>3. Sees(l)'
    BY <1>a, <1>d, <2>1, ServersAreRegistered DEF Sees, Emptied, Unusable
  <2>4. QED
    BY <1>2, <1>a, <1>d, <2>1, <2>2, <2>3, LooksAlone, OrderlyLaunch DEF Looks
<1>3. CASE Probe(l)
  <2> DEFINE P == Behind(mem[l].inst)
  <2>1. at[l] = "probe" /\ UNCHANGED <<proc, entry, port>>
    BY <1>3 DEF Probe
  <2>2. Booting' = {}
    BY <1>d, <2>1, NobodyBoots
  <2>3. at'[l] \in {"done", "reread"} \/ (Silence(P) /\ at'[l] = Unusable(l))
    BY <1>3, <1>b DEF Probe, Take, Go
  <2>4. ASSUME Silence(P)
        PROVE  Serving = {}
    <3>1. \A p \in P : proc[p] = "stopping"
      BY <2>4 DEF Silence
    <3> SUFFICES ASSUME Serving # {} PROVE FALSE
      OBVIOUS
    <3>2. PICK p \in Pids : /\ Serving = {p} /\ entry.pid = p
                            /\ entry.port = port[p] /\ proc[p] = "serving"
      BY <1>a, ServersAreRegistered
    <3>3. mem[l].inst = entry
      BY <1>c, <2>1 DEF Sees
    <3>4. port[p] \in {"main", "own"}
      BY <3>2 DEF LaunchInv, PortsAreHeld, Listening
    <3>5. p \in P
      BY <3>2, <3>3, <3>4 DEF Behind, Holders, Listening
    <3>6. QED
      BY <3>1, <3>2, <3>5
  <2>5. Sees(l)'
    BY <1>d, <2>1, <2>3, <2>4 DEF Sees, Emptied, Unusable
  <2>6. QED
    BY <1>3, <1>a, <1>d, <2>1, <2>2, <2>5, LooksAlone, OrderlyLaunch DEF Looks
<1>4. CASE Reread(l)
  <2>1. /\ at[l] = "reread" /\ UNCHANGED <<proc, entry, port>>
        /\ \/ Registered = NoEntry /\ at'[l] = "list"
           \/ /\ Registered # NoEntry /\ at'[l] = "killEntry"
              /\ mem'[l].kills = {Registered.pid}
    BY <1>4, <1>b DEF Reread, Go, procs, MemType
  <2>2. Booting' = {}
    BY <1>d, <2>1, NobodyBoots
  <2>3. Registered # NoEntry => Registered.pid \in Pids
    BY <1>a DEF Registered
  <2>4. Serving # {} => Registered # NoEntry /\ Serving = {Registered.pid}
    BY <1>a, ServersAreRegistered
  <2>5. Sees(l)'
    BY <1>d, <2>1, <2>3, <2>4 DEF Sees, Emptied
  <2>6. QED
    BY <1>4, <1>a, <1>d, <2>1, <2>2, <2>5, LooksAlone, OrderlyLaunch DEF Looks
<1>5. CASE ListPort(l) \/ Wait(l)
  <2>1. /\ at[l] \in Emptied /\ at'[l] \in Emptied \ {"spawn"}
        /\ UNCHANGED <<proc, entry, port>>
    BY <1>5, <1>b DEF ListPort, Wait, Go, procs, Emptied
  <2>2. Booting' = {}
    BY <1>d, <2>1, NobodyBoots DEF Emptied
  <2>3. Serving' = {}
    BY <1>c, <1>d, <2>1 DEF Sees
  <2>4. Sees(l)'
    BY <2>1, <2>3 DEF Sees, Emptied
  <2>5. QED
    BY <1>5, <1>a, <1>d, <2>1, <2>2, <2>4, LooksAlone, OrderlyLaunch DEF Looks, Emptied
<1>6. CASE Kill(l)
  <2>1. /\ at[l] \in {"killEntry", "killPort"} /\ UNCHANGED <<entry, port>>
        /\ at'[l] \in {"waitEntry", "waitPort"}
    BY <1>6, <1>b DEF Kill, Go
  <2>2. PICK k \in mem[l].kills : Signal({k})
    BY <1>6 DEF Kill
  <2>3. /\ Booting' = {} /\ Registering' \subseteq Registering
        /\ Serving' \subseteq Serving \ {k}
    BY <1>a, <2>1, <2>2, NobodyBoots, SignalEnds
  <2>4. Serving' = {}
    BY <1>c, <2>1, <2>2, <2>3 DEF Sees, Emptied
  <2>5. Sees(l)'
    BY <2>1, <2>4 DEF Sees, Emptied
  <2>6. QED
    BY <1>6, <1>a, <2>1, <2>3, <2>5, SignalsAlone, OrderlyLaunch DEF Signals
<1>7. CASE ProbeMain(l)
  <2>1. /\ at[l] = "main" /\ at'[l] \in {"done", "spawn"}
        /\ UNCHANGED <<proc, entry, port>>
    BY <1>7, <1>b DEF ProbeMain, Take, Go
  <2>2. Booting' = {}
    BY <1>d, <2>1, NobodyBoots
  <2>3. Serving' = {}
    BY <1>c, <1>d, <2>1 DEF Sees, Emptied
  <2>4. Sees(l)'
    BY <2>1, <2>3 DEF Sees, Emptied
  <2>5. QED
    BY <1>7, <1>a, <1>d, <2>1, <2>2, <2>4, LooksAlone, OrderlyLaunch DEF Looks
<1>8. CASE Spawn(l)
  <2>1. at[l] = "spawn" /\ at'[l] = "announce" /\ UNCHANGED <<entry, port>>
    BY <1>8, <1>b DEF Spawn, Go
  <2>2. PICK p \in Pids : /\ proc[p] = "free" /\ proc' = [proc EXCEPT ![p] = "starting"]
                          /\ mem'[l].child = p
    BY <1>8, <1>b DEF Spawn, MemType
  <2>3. Booting = {} /\ Serving = {}
    BY <1>c, <2>1, NobodyBoots DEF Sees, Emptied
  <2>4. Booting' = {p} /\ Serving' = {} /\ Registering' \subseteq Registering
    BY <1>a, <2>2, <2>3 DEF Booting, Serving, Registering, TypeOK
  <2>5. Sees(l)'
    BY <2>1, <2>2, <2>4 DEF Sees, Emptied
  <2>6. \A k \in Launchers \ {l} : at'[k] = at[k]
    BY <1>8, <1>b DEF Spawn, Go
  <2>7. QED
    BY <2>1, <2>4, <2>5, <2>6, OrderlyLaunch
<1>9. CASE ReadAnnouncement(l) \/ NoAnnouncement(l)
  <2>1. /\ at[l] = "announce" /\ at'[l] \in {"done", "idle"}
        /\ UNCHANGED <<proc, entry, port>>
        /\ mem[l].child \in announced \/ proc[mem[l].child] \notin Alive
    BY <1>9, <1>b DEF ReadAnnouncement, NoAnnouncement, Take, Go, procs
  <2>2. mem[l].child \notin Booting
    BY <2>1 DEF LaunchInv, AnnouncedHaveServed, Booting, Alive
  <2>3. Booting = {}
    BY <1>c, <2>1, <2>2 DEF Sees
  <2>4. Sees(l)'
    BY <2>1 DEF Sees, Emptied
  <2>5. QED
    BY <1>9, <1>a, <1>d, <2>1, <2>3, <2>4, LooksAlone, OrderlyLaunch DEF Looks
<1>10. CASE Return(l)
  <2>1. at[l] = "done" /\ at'[l] = "idle" /\ UNCHANGED <<proc, entry, port>>
    BY <1>10, <1>b DEF Return, Go
  <2>2. Booting' = {}
    BY <1>d, <2>1, NobodyBoots
  <2>3. Sees(l)'
    BY <2>1 DEF Sees, Emptied
  <2>4. QED
    BY <1>10, <1>a, <1>d, <2>1, <2>2, <2>3, LooksAlone, OrderlyLaunch DEF Looks
<1>11. QED
  BY <1>1, <1>2, <1>3, <1>4, <1>5, <1>6, <1>7, <1>8, <1>9, <1>10 DEF Launch

\* The server that comes up is the only one, and its launch waits for it.
LEMMA OnlyChild ==
  ASSUME Orderly, NEW p \in Booting
  PROVE  /\ Booting = {p} /\ Serving \subseteq {p}
         /\ \A m \in Launchers : at[m] = "idle" \/ (at[m] = "announce" /\ mem[m].child = p)
<1>1. PICK l \in Launchers : at[l] = "announce" /\ mem[l].child = p
  BY DEF Orderly, Awaited
<1>2. Booting \cup Serving \subseteq {p}
  BY <1>1 DEF Orderly, Sees
<1>3. \A m \in Launchers : at[m] # "idle" => m = l
  BY <1>1 DEF Orderly, OneByOne
<1>4. QED
  BY <1>1, <1>2, <1>3

\* A server comes up.
LEMMA StartOrderly ==
  ASSUME LaunchInv, Orderly, ~missed', NEW p \in Pids, Register(p) \/ Serve(p)
  PROVE  Orderly'
<1>1. p \in Booting /\ Booting = {p} /\ Serving \subseteq {p}
  BY OnlyChild DEF Booting, Register, Serve
<1>2. \A m \in Launchers : at[m] = "idle" \/ (at[m] = "announce" /\ mem[m].child = p)
  BY <1>1, OnlyChild
<1>3. UNCHANGED <<at, mem, port>> /\ proc' = [proc EXCEPT ![p] = proc'[p]]
      /\ proc'[p] \in {"registered", "serving"}
  BY DEF Register, Serve, LaunchInv, TypeOK
<1>4. \A q \in Pids \ {p} : proc'[q] = proc[q]
  BY <1>3 DEF LaunchInv, TypeOK
<1>5. Booting' \subseteq {p} /\ Serving' \subseteq {p} /\ Registering' = {p}
  BY <1>1, <1>3, <1>4 DEF Booting, Serving, Registering
<1>6. entry'.pid = p /\ entry'.port = port'[p]
  <2>1. CASE Register(p)
    BY <2>1 DEF Register
  <2>2. CASE Serve(p)
    BY <2>2 DEF Serve, Orderly, Written, Registering
  <2>3. QED
    BY <2>1, <2>2
<1>7. OneByOne' /\ Written'
  BY <1>3, <1>5, <1>6 DEF Orderly, OneByOne, Written
<1>8. Awaited'
  BY <1>1, <1>3, <1>5 DEF Orderly, Awaited
<1>9. \A l \in Launchers : Sees(l)'
  BY <1>2, <1>3, <1>5 DEF Sees, Emptied
<1>10. QED
  BY <1>7, <1>8, <1>9 DEF Orderly

\* A server binds its socket, ages, stops or dies; tabs and files change.
LEMMA LifeOrderly ==
  ASSUME LaunchInv, Orderly,
         (\E p \in Pids : \/ Bind(p) \/ IdleStop(p) \/ Gone(p) \/ Crash(p)
                          \/ Recycle(p) \/ Tabs(p))
           \/ Edit \/ UNCHANGED vars
  PROVE  Orderly'
<1>1. ASSUME NEW p \in Pids,
             Bind(p) \/ IdleStop(p) \/ Gone(p) \/ Crash(p) \/ Recycle(p)
      PROVE  Orderly'
  <2>1. UNCHANGED <<at, mem, entry>> /\ proc' = [proc EXCEPT ![p] = proc'[p]]
        /\ port' = [port EXCEPT ![p] = port'[p]]
        /\ \/ proc[p] = "starting" /\ proc'[p] = "bound"
           \/ proc'[p] \in {"stopping", "dead", "other"}
    BY <1>1 DEF Bind, IdleStop, Gone, Crash, Recycle, Vanish, LaunchInv, TypeOK
  <2>2. \A q \in Pids \ {p} : proc'[q] = proc[q] /\ port'[q] = port[q]
    BY <2>1 DEF LaunchInv, TypeOK
  <2>3. /\ Booting' \subseteq Booting /\ Serving' \subseteq Serving
        /\ Registering' \subseteq Registering \ {p}
    BY <2>1, <2>2 DEF Booting, Serving, Registering
  <2>4. \A q \in Registering' : port'[q] = port[q]
    BY <2>2, <2>3 DEF Registering
  <2>5. QED
    BY <2>1, <2>3, <2>4, OrderlyShrinks
<1>2. ASSUME UNCHANGED <<at, mem, entry, proc, port>>
      PROVE  Orderly'
  <2>1. Booting' = Booting /\ Serving' = Serving /\ Registering' = Registering
    BY <1>2 DEF Booting, Serving, Registering
  <2>2. QED
    BY <1>2, <2>1, OrderlyShrinks
<1>3. ASSUME NEW p \in Pids, Tabs(p)
      PROVE  UNCHANGED <<at, mem, entry, proc, port>>
  BY <1>3 DEF Tabs, Ages, OpenTab, CloseTab, history
<1>4. CASE Edit \/ UNCHANGED vars
  BY <1>2, <1>4 DEF Edit, vars, procs
<1>5. QED
  BY <1>1, <1>2, <1>3, <1>4

LEMMA SoloStep == LaunchInv /\ Solo /\ [Next]_vars => Solo'
<1> SUFFICES ASSUME LaunchInv, Solo, [Next]_vars, ~overlap', ~missed' PROVE Orderly'
  BY DEF Solo
<1>1. Orderly
  BY HistoryStays DEF Solo
<1>2. ASSUME NEW l \in Launchers, Call(l) PROVE Orderly'
  BY <1>1, <1>2, CallOrderly DEF LaunchInv
<1>3. ASSUME NEW l \in Launchers, Launch(l) PROVE Orderly'
  BY <1>1, <1>3, LaunchOrderly
<1>4. ASSUME NEW p \in Pids, Register(p) \/ Serve(p) PROVE Orderly'
  BY <1>1, <1>4, StartOrderly
<1>5. ASSUME NEW p \in Pids,
             Bind(p) \/ IdleStop(p) \/ Gone(p) \/ Crash(p) \/ Recycle(p) \/ Tabs(p)
      PROVE  Orderly'
  BY <1>1, <1>5, LifeOrderly
<1>6. CASE Edit \/ UNCHANGED vars
  BY <1>1, <1>6, LifeOrderly
<1>7. QED
  BY <1>2, <1>3, <1>4, <1>5, <1>6 DEF Next, Start, Tabs

\* Launches that follow one another, each with an answer from every server
\* there is, keep to one server through crashes, idle stops, slow deaths and
\* a stale registry (open_visualization, http_launcher, viz_instance).
THEOREM OneServerAtATime == Spec => []OneServer
<1>1. Init => Solo
  BY SoloInitial
<1>2. LaunchInv /\ Solo /\ [Next]_vars => Solo'
  BY SoloStep
<1>3. Solo => OneServer
  BY DEF Solo, Orderly, Written, Registering, Serving, OneServer
<1>4. QED
  BY <1>1, <1>2, <1>3, LaunchInvariant, PTL DEF Spec
=============================================================================
