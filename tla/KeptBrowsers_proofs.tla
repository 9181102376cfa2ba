------------------------ MODULE KeptBrowsers_proofs ------------------------
(***************************************************************************)
(* Proofs about KeptBrowsers, for all flows, viewers and bounds.             *)
(*                                                                          *)
(*   KeptTypes          the type invariant;                                 *)
(*   OnlyOrphansKilled  no launch kills a window of this server;             *)
(*   EveryWindowOwned   every window of this server has exactly one owner.   *)
(*                                                                          *)
(* The last two are about flows that hold the lock for the whole of their    *)
(* work in a window (Naver's), while that work outlasts the reaper's two      *)
(* statements before it takes the lock.                                      *)
(***************************************************************************)
EXTENDS KeptBrowsers, FiniteSetTheorems, TLAPS

-----------------------------------------------------------------------------
\* The type invariant.

LEMMA NoneType == None \notin Chromes /\ None \in Nat
BY DEF None, Chromes

LEMMA FlowAtType ==
  ASSUME flow \in [Flows -> FlowState], NEW f \in Flows, NEW pc \in FlowSteps,
         NEW d \in Chromes \cup {None}, FlowAt(f, pc, d)
  PROVE  flow' \in [Flows -> FlowState]
BY DEF FlowAt, FlowState

LEMMA ReapType ==
  ASSUME reaper \in ReaperState, NEW pc \in ReaperSteps, NEW d \in Chromes \cup {None}, Reap(pc, d)
  PROVE  reaper' \in ReaperState
BY DEF Reap, ReaperState

LEMMA QuitType ==
  ASSUME chrome \in [Chromes -> ChromeStates], NEW d
  PROVE  Quit(d) \in [Chromes -> ChromeStates]
BY DEF Quit, ChromeStates

LEMMA InitType == Init => TypeOK
BY KeptAssumption DEF Init, TypeOK, Resting, Asleep, FlowState, FlowSteps, ReaperState, ReaperSteps,
     Bounds, Ages, ChromeStates, None

LEMMA RunType ==
  ASSUME TypeOK, NEW f \in Flows, Run(f)
  PROVE  TypeOK'
<1> USE DEF TypeOK
<1>1. flow[f] \in FlowState /\ flow[f].drv \in Chromes \cup {None}
  BY DEF FlowState
<1>2. CASE Acquire(f)
  BY <1>2, FlowAtType DEF Acquire, FlowSteps
<1>3. CASE Release(f)
  BY <1>3, FlowAtType DEF Release, FlowSteps
<1>4. CASE FlowUnregisters(f)
  BY <1>1, <1>4, FlowAtType DEF FlowUnregisters, FlowSteps, Unregistered
<1>5. CASE FlowQuits(f)
  <2>1. PICK pc \in FlowSteps : FlowAt(f, pc, None)
    BY <1>5 DEF FlowQuits, FlowSteps
  <2>2. flow' \in [Flows -> FlowState]
    BY <2>1, FlowAtType
  <2> QED  BY <1>5, <2>2, QuitType DEF FlowQuits
<1>6. CASE Launch(f)
  <2>1. CASE Running = {} \/ CanKill
    <3>1. used.chromes + 1 \in Chromes /\ used' \in Bounds
      BY <1>6, <2>1, KeptAssumption DEF Launch, Bounds, Chromes
    <3>2. chrome' \in [Chromes -> ChromeStates]
      BY <1>6, <2>1 DEF Launch, ChromeStates
    <3>3. FlowAt(f, "register", used.chromes + 1)
      BY <1>6, <2>1 DEF Launch
    <3>4. flow' \in [Flows -> FlowState]
      BY <3>1, <3>3, FlowAtType DEF FlowSteps
    <3> QED  BY <1>6, <2>1, <3>1, <3>2, <3>4 DEF Launch
  <2>2. CASE ~(Running = {} \/ CanKill)
    <3>1. flow' \in [Flows -> FlowState]
      BY <1>6, <2>2, FlowAtType DEF Launch, FlowSteps
    <3> QED  BY <1>6, <2>2, <3>1 DEF Launch
  <2> QED  BY <2>1, <2>2
<1>7. CASE LaunchFails(f)
  BY <1>7, FlowAtType DEF LaunchFails, FlowSteps
<1>8. CASE Register(f)
  BY <1>1, <1>8, FlowAtType DEF Register, FlowSteps
<1>9. CASE Work(f)
  BY <1>1, <1>9, FlowAtType DEF Work, FlowSteps
<1>10. CASE Keep(f)
  BY <1>1, <1>10, FlowAtType DEF Keep, FlowSteps
<1>11. CASE Track(f)
  <2>1. flow' \in [Flows -> FlowState]
    BY <1>11, FlowAtType DEF Track, FlowSteps, Ending
  <2> QED  BY <1>11, <2>1 DEF Track, Ages
<1>12. CASE Unlock(f)
  BY <1>12, FlowAtType DEF Unlock, FlowSteps
<1> QED  BY <1>2, <1>3, <1>4, <1>5, <1>6, <1>7, <1>8, <1>9, <1>10, <1>11, <1>12 DEF Run

LEMMA SweepType ==
  ASSUME TypeOK, Sweep
  PROVE  TypeOK'
<1> USE DEF TypeOK
<1>1. reaper.drv \in Chromes \cup {None}
  BY DEF ReaperState
<1>2. CASE Wake
  BY <1>2 DEF Wake, ReaperState, ReaperSteps
<1>3. CASE Doze
  BY <1>3 DEF Doze, Asleep, ReaperState, ReaperSteps
<1>4. CASE LookForWatchers
  <2>1. reaper' \in ReaperState
    BY <1>1, <1>4, ReapType DEF LookForWatchers, GoOn, ReaperSteps
  <2> QED  BY <1>4, <2>1 DEF LookForWatchers, Ages
<1>5. CASE TryLock
  <2>1. reaper' \in ReaperState
    BY <1>1, <1>5, ReapType DEF TryLock, GoOn, ReaperSteps
  <2> QED  BY <1>5, <2>1 DEF TryLock
<1>6. CASE Pop
  <2>1. reaper' \in ReaperState
    BY <1>1, <1>6, ReapType DEF Pop, ReaperSteps
  <2> QED  BY <1>6, <2>1 DEF Pop, Forget, Ages
<1>7. CASE ReaperUnregisters
  <2>1. reaper' \in ReaperState
    BY <1>1, <1>7, ReapType DEF ReaperUnregisters, ReaperSteps
  <2> QED  BY <1>7, <2>1 DEF ReaperUnregisters, Unregistered
<1>8. CASE ReaperQuits
  <2>1. reaper' \in ReaperState
    BY <1>8, ReapType DEF ReaperQuits, ReaperSteps
  <2> QED  BY <1>8, <2>1, QuitType DEF ReaperQuits
<1>9. CASE ReaperUnlocks
  <2>1. reaper' \in ReaperState
    BY <1>9, ReapType DEF ReaperUnlocks, GoOn, ReaperSteps
  <2> QED  BY <1>9, <2>1 DEF ReaperUnlocks
<1>10. ASSUME NEW d \in Chromes, Look(d) PROVE TypeOK'
  <2>1. reaper' \in ReaperState
    BY <1>10 DEF Look, ReaperState, ReaperSteps
  <2>2. tracked' \in [Chromes -> Ages]
    BY <1>10 DEF Look, Forget, Ages
  <2> QED  BY <1>10, <2>1, <2>2 DEF Look
<1> QED  BY <1>2, <1>3, <1>4, <1>5, <1>6, <1>7, <1>8, <1>9, <1>10 DEF Sweep

LEMMA NextType ==
  ASSUME TypeOK, [Next]_vars
  PROVE  TypeOK'
<1> USE DEF TypeOK
<1>1. ASSUME NEW f \in Flows, Ask(f) \/ Busy(f) PROVE TypeOK'
  BY <1>1, FlowAtType DEF Ask, Busy, FlowSteps
<1>2. ASSUME NEW d \in Chromes, Ripen(d) PROVE TypeOK'
  BY <1>2 DEF Ripen, Ages
<1>3. ASSUME NEW v \in Viewers, Watch(v) PROVE TypeOK'
  BY <1>3, KeptAssumption DEF Watch, Bounds
<1>4. ASSUME NEW v \in Viewers, Leave(v) PROVE TypeOK'
  BY <1>4 DEF Leave
<1>5. CASE UserCloses
  BY <1>5, QuitType DEF UserCloses
<1>6. CASE Crash
  <2>1. flow' \in [Flows -> FlowState] /\ reaper' \in ReaperState
    BY <1>6 DEF Crash, Resting, Asleep, FlowState, FlowSteps, ReaperState, ReaperSteps
  <2>2. used' \in Bounds
    BY <1>6, KeptAssumption DEF Crash, Bounds
  <2> QED  BY <1>6, <2>1, <2>2 DEF Crash, Running, Ages
<1>7. CASE UNCHANGED vars
  BY <1>7 DEF vars
<1> QED  BY <1>1, <1>2, <1>3, <1>4, <1>5, <1>6, <1>7, RunType, SweepType DEF Next

\* Threads, the reaper, viewers and crashes keep every variable in its type,
\* whoever holds the profile for how long.
THEOREM KeptTypes == Spec => []TypeOK
<1>1. Init => TypeOK
  BY InitType
<1>2. TypeOK /\ [Next]_vars => TypeOK'
  BY NextType
<1> QED  BY <1>1, <1>2, PTL DEF Spec

-----------------------------------------------------------------------------
\* Who holds the lock, and what the store may hold under whom.

Holding == FlowSteps \ {"idle", "wait"}
HasWindow == {"unregister", "quit", "register", "work", "keep", "close unregister", "close quit"}
Reaping == {"pop", "unregister", "quit", "unlock"}

\* A flow between two windows, with one, or with one it has just stored.
FlowSound(f) ==
  /\ flow[f].pc \in Holding => lock = f
  /\ flow[f].pc \notin HasWindow \cup {"track"} => flow[f].drv = None
  /\ flow[f].pc \in HasWindow \cup {"launch"} => store = None
  /\ flow[f].pc = "track" => store = flow[f].drv

\* The reaper, from its look at the store to its own unlock.
ReaperSound ==
  /\ reaper.pc \in Reaping => lock = "reaper"
  /\ reaper.pc \in {"look", "lock", "pop"} => store \in {reaper.drv, None}
  /\ reaper.pc \in {"unregister", "quit", "unlock"} => store = None
  /\ reaper.pc \in {"look", "lock"} => \A f \in Flows : flow[f].pc # "keep"

Owned(d) ==
  \/ store = d
  \/ \E f \in Flows : flow[f].drv = d /\ flow[f].pc # "track"
  \/ reaper.drv = d /\ reaper.pc \in Closing

Sound ==
  /\ TypeOK
  /\ \A f \in Flows : FlowSound(f)
  /\ ReaperSound
  /\ \A d \in Running \ orphans : Owned(d)
  /\ KilledWasOrphaned

LEMMA InitSound == Init => Sound
<1> SUFFICES ASSUME Init PROVE Sound
  OBVIOUS
<1>1. \A f \in Flows : FlowSound(f)
  BY DEF Init, FlowSound, Resting, Holding, HasWindow
<1>2. ReaperSound
  BY DEF Init, ReaperSound, Asleep, Reaping
<1>3. Running = {} /\ KilledWasOrphaned
  BY DEF Init, Running, KilledWasOrphaned
<1> QED  BY <1>1, <1>2, <1>3, InitType DEF Sound

\* A flow that holds the lock is the only one, and the reaper has not got it.
LEMMA Alone ==
  ASSUME Sound, NEW f \in Flows, flow[f].pc \in Holding
  PROVE  /\ \A g \in Flows \ {f} : flow[g].pc \in {"idle", "wait"} /\ flow[g].drv = None
         /\ reaper.pc \notin Reaping
<1>1. f # "reaper"
  BY KeptAssumption
<1>2. \A g \in Flows : flow[g].pc \in FlowSteps
  BY DEF Sound, TypeOK, FlowState
<1> QED  BY <1>1, <1>2 DEF Sound, FlowSound, ReaperSound, Holding, HasWindow

\* While the reaper holds it, no flow has a window.
LEMMA ReaperAlone ==
  ASSUME Sound, reaper.pc \in Reaping
  PROVE  \A g \in Flows : flow[g].pc \in {"idle", "wait"} /\ flow[g].drv = None
<1>1. "reaper" \notin Flows
  BY KeptAssumption
<1>2. \A g \in Flows : flow[g].pc \in FlowSteps
  BY DEF Sound, TypeOK, FlowState
<1> QED  BY <1>1, <1>2 DEF Sound, FlowSound, ReaperSound, Holding, HasWindow

\* A step of the flow that holds the lock, given what it leaves of the rest.
LEMMA FlowStep ==
  ASSUME Sound, TypeOK', NEW f \in Flows, flow[f].pc \in Holding,
         NEW pc \in FlowSteps, NEW d, FlowAt(f, pc, d), UNCHANGED reaper,
         pc \in Holding => lock' = f,
         pc \notin HasWindow \cup {"track"} => d = None,
         pc \in HasWindow \cup {"launch"} => store' = None,
         pc = "track" => store' = d,
         store' = store \/ reaper.pc \notin {"look", "lock"} \/ store' = None,
         pc # "keep" \/ reaper.pc \notin {"look", "lock"}
  PROVE  /\ \A g \in Flows : FlowSound(g)'
         /\ ReaperSound'
<1>1. flow'[f] = [pc |-> pc, drv |-> d] /\ \A g \in Flows \ {f} : flow'[g] = flow[g]
  BY DEF FlowAt, Sound, TypeOK
<1>2. FlowSound(f)'
  BY <1>1 DEF FlowSound
<1>3. ASSUME NEW g \in Flows \ {f} PROVE FlowSound(g)'
  BY <1>1, <1>3, Alone DEF FlowSound, Holding, HasWindow
<1>4. ReaperSound'
  BY <1>1, Alone DEF ReaperSound, Sound, Reaping
<1> QED  BY <1>2, <1>3, <1>4

LEMMA RunSound ==
  ASSUME WholeFlow, SlowWork, Sound, TypeOK', NEW f \in Flows, Run(f)
  PROVE  Sound'
<1> USE NoneType
<1>1. \A g \in Flows : flow[g] \in FlowState /\ flow[g].pc \in FlowSteps
  BY DEF Sound, TypeOK, FlowState
<1>2. CASE Acquire(f)
  <2>1. flow'[f] = [pc |-> "release", drv |-> None] /\ \A g \in Flows \ {f} : flow'[g] = flow[g]
    BY <1>2 DEF Acquire, FlowAt, Sound, TypeOK
  <2>2. \A g \in Flows : flow[g].pc \in {"idle", "wait"}
    BY <1>1, <1>2, KeptAssumption DEF Acquire, Sound, FlowSound, Holding
  <2>3. ReaperSound'
    BY <1>2, <2>1, KeptAssumption DEF Acquire, Sound, ReaperSound
  <2>4. ASSUME NEW g \in Flows PROVE FlowSound(g)'
    <3>1. CASE g = f
      <4>1. flow'[g].pc = "release" /\ flow'[g].drv = None /\ lock' = g
        BY <1>2, <2>1, <3>1 DEF Acquire
      <4> QED  BY <4>1 DEF FlowSound, HasWindow
    <3>2. CASE g # f
      <4>1. flow[g].pc \in {"idle", "wait"} /\ flow'[g] = flow[g] /\ FlowSound(g)
        BY <2>1, <2>2, <3>2 DEF Sound
      <4> QED  BY <4>1 DEF FlowSound, Holding, HasWindow
    <3> QED  BY <3>1, <3>2
  <2>5. flow[f].drv = None
    BY <2>2 DEF Sound, FlowSound, HasWindow
  <2>6. \A d \in Running \ orphans : Owned(d)'
    BY <1>2, <2>1, <2>5 DEF Acquire, Sound, Owned, Running
  <2> QED  BY <1>2, <2>3, <2>4, <2>6 DEF Acquire, Sound, Running, KilledWasOrphaned
<1>3. CASE Release(f)
  <2> DEFINE pc == IF store = None THEN "launch" ELSE "unregister"
  <2>1. flow[f].pc \in Holding /\ pc \in FlowSteps /\ FlowAt(f, pc, store)
    BY <1>3 DEF Release, Holding, FlowSteps
  <2>2. lock = f
    BY <2>1 DEF Sound, FlowSound
  <2>3. (\A g \in Flows : FlowSound(g)') /\ ReaperSound'
    BY <1>3, <2>1, <2>2, FlowStep DEF Release, HasWindow
  <2>4. flow'[f] = [pc |-> pc, drv |-> store] /\ \A g \in Flows \ {f} : flow'[g] = flow[g]
    BY <2>1 DEF FlowAt, Sound, TypeOK
  <2>5. flow[f].drv = None
    BY <1>3 DEF Release, Sound, FlowSound, HasWindow
  <2>6. \A d \in Running \ orphans : Owned(d)'
    BY <1>3, <2>4, <2>5 DEF Release, Sound, Owned, Running
  <2> QED  BY <1>3, <2>3, <2>6 DEF Release, Sound, Running, KilledWasOrphaned
<1>4. CASE FlowUnregisters(f)
  <2> DEFINE pc == IF flow[f].pc = "unregister" THEN "quit" ELSE "close quit"
  <2>1. flow[f].pc \in Holding /\ pc \in FlowSteps /\ FlowAt(f, pc, flow[f].drv)
    BY <1>4 DEF FlowUnregisters, Holding, FlowSteps
  <2>2. lock = f /\ store = None
    BY <1>4, <2>1 DEF FlowUnregisters, Sound, FlowSound, HasWindow
  <2>3. (\A g \in Flows : FlowSound(g)') /\ ReaperSound'
    BY <1>4, <2>1, <2>2, FlowStep DEF FlowUnregisters, HasWindow
  <2>4. flow'[f] = [pc |-> pc, drv |-> flow[f].drv] /\ \A g \in Flows \ {f} : flow'[g] = flow[g]
    BY <2>1 DEF FlowAt, Sound, TypeOK
  <2>5. flow'[f].drv = flow[f].drv /\ flow'[f].pc = pc
    BY <2>1 DEF FlowAt, Sound, TypeOK
  <2>6. ASSUME NEW d \in Running \ orphans PROVE Owned(d)'
    <3>1. Owned(d)
      BY DEF Sound
    <3>2. store' = store /\ reaper' = reaper /\ pc # "track"
      BY <1>4 DEF FlowUnregisters
    <3>3. flow'[f].drv = flow[f].drv /\ flow'[f].pc # "track"
      BY <2>5, <3>2
    <3>4. CASE \E g \in Flows : flow[g].drv = d /\ flow[g].pc # "track"
      <4>1. PICK g \in Flows : flow[g].drv = d /\ flow[g].pc # "track"
        BY <3>4
      <4>2. flow'[g].drv = d /\ flow'[g].pc # "track"
        BY <2>4, <3>3, <4>1
      <4> QED  BY <4>2 DEF Owned
    <3> QED  BY <3>1, <3>2, <3>4 DEF Owned
  <2> QED  BY <1>4, <2>3, <2>6 DEF FlowUnregisters, Sound, Running, KilledWasOrphaned
<1>5. CASE FlowQuits(f)
  <2>1. PICK pc \in {"launch", "unlock"} : FlowAt(f, pc, None)
    BY <1>5 DEF FlowQuits
  <2>2. flow[f].pc \in Holding /\ pc \in FlowSteps
    BY <1>5 DEF FlowQuits, Holding, FlowSteps
  <2>3. lock = f /\ store = None
    BY <1>5, <2>2 DEF FlowQuits, Sound, FlowSound, HasWindow
  <2>4. (\A g \in Flows : FlowSound(g)') /\ ReaperSound'
    BY <1>5, <2>1, <2>2, <2>3, FlowStep DEF FlowQuits, HasWindow
  <2>5. flow'[f] = [pc |-> pc, drv |-> None] /\ \A g \in Flows \ {f} : flow'[g] = flow[g]
    BY <2>1 DEF FlowAt, Sound, TypeOK
  <2>6. Running' = Running \ {flow[f].drv} /\ orphans' = orphans /\ KilledWasOrphaned'
    BY <1>5 DEF FlowQuits, Quit, Running, KilledWasOrphaned, Sound, TypeOK
  <2>7. ASSUME NEW d \in Running' \ orphans PROVE Owned(d)'
    <3>1. Owned(d) /\ store' = store /\ reaper' = reaper /\ flow[f].drv # d
      BY <1>5, <2>6 DEF FlowQuits, Sound
    <3> QED  BY <2>5, <3>1 DEF Owned
  <2> QED  BY <2>4, <2>6, <2>7 DEF Sound
<1>6. CASE Launch(f)
  <2>1. flow[f].pc = "launch" /\ flow[f].pc \in Holding
    BY <1>6 DEF Launch, Holding, FlowSteps
  <2>2. lock = f /\ store = None /\ flow[f].drv = None /\ lock' = lock /\ store' = store
    BY <1>6, <2>1 DEF Launch, Sound, FlowSound, HasWindow
  <2>3. Running \subseteq orphans
    BY <2>1, <2>2, Alone DEF Sound, Owned, Running, Reaping, Closing
  <2>4. CASE Running = {} \/ CanKill
    <3> DEFINE d == used.chromes + 1
    <3>1. FlowAt(f, "register", d) /\ UNCHANGED <<orphans, reaper>>
      BY <1>6, <2>4 DEF Launch
    <3>2. (\A g \in Flows : FlowSound(g)') /\ ReaperSound'
      BY <2>1, <2>2, <3>1, FlowStep DEF FlowSteps, HasWindow
    <3>3. flow'[f].drv = d /\ flow'[f].pc = "register"
      BY <3>1 DEF FlowAt, Sound, TypeOK
    <3>4. Running' \subseteq {d} /\ KilledWasOrphaned'
      BY <1>6, <2>3, <2>4, <3>1 DEF Launch, Running, KilledWasOrphaned, Sound, TypeOK
    <3>5. \A c \in Running' \ orphans : Owned(c)'
      BY <3>3, <3>4 DEF Owned
    <3> QED  BY <3>1, <3>2, <3>4, <3>5 DEF Sound
  <2>5. CASE ~(Running = {} \/ CanKill)
    <3>1. FlowAt(f, "unlock", None) /\ UNCHANGED <<orphans, reaper, chrome>>
      BY <1>6, <2>5 DEF Launch
    <3>2. (\A g \in Flows : FlowSound(g)') /\ ReaperSound'
      BY <2>1, <2>2, <3>1, FlowStep DEF FlowSteps, HasWindow
    <3> QED  BY <2>3, <3>1, <3>2 DEF Sound, Running, KilledWasOrphaned
  <2> QED  BY <2>4, <2>5
<1>7. CASE LaunchFails(f)
  <2>1. flow[f].pc \in Holding /\ FlowAt(f, "unlock", None)
    BY <1>7 DEF LaunchFails, Holding, FlowSteps
  <2>2. lock = f /\ flow[f].drv = None
    BY <1>7, <2>1 DEF LaunchFails, Sound, FlowSound, HasWindow
  <2>3. (\A g \in Flows : FlowSound(g)') /\ ReaperSound'
    BY <1>7, <2>1, <2>2, FlowStep DEF LaunchFails, FlowSteps, HasWindow
  <2>4. flow'[f] = [pc |-> "unlock", drv |-> None] /\ \A g \in Flows \ {f} : flow'[g] = flow[g]
    BY <2>1 DEF FlowAt, Sound, TypeOK
  <2>5. \A d \in Running \ orphans : Owned(d)'
    BY <1>7, <2>2, <2>4 DEF LaunchFails, Sound, Owned, Running
  <2> QED  BY <1>7, <2>3, <2>5 DEF LaunchFails, Sound, Running, KilledWasOrphaned
<1>8. CASE Register(f) \/ Work(f)
  <2>1. PICK pc \in {"work", "keep", "close unregister"} :
          FlowAt(f, pc, flow[f].drv) /\ (pc = "keep" => reaper.pc \notin {"look", "lock"})
    BY <1>8 DEF Register, Work
  <2>2. flow[f].pc \in Holding /\ flow[f].pc \in HasWindow /\ pc \in FlowSteps
        /\ UNCHANGED <<chrome, orphans, lock, store, reaper>>
    BY <1>8 DEF Register, Work, Holding, FlowSteps, HasWindow
  <2>3. lock = f /\ store = None
    BY <2>2 DEF Sound, FlowSound
  <2>4. (\A g \in Flows : FlowSound(g)') /\ ReaperSound'
    BY <2>1, <2>2, <2>3, FlowStep DEF HasWindow
  <2>5. flow'[f] = [pc |-> pc, drv |-> flow[f].drv] /\ \A g \in Flows \ {f} : flow'[g] = flow[g]
    BY <2>1 DEF FlowAt, Sound, TypeOK
  <2>6. flow'[f].drv = flow[f].drv /\ flow'[f].pc = pc
    BY <2>1 DEF FlowAt, Sound, TypeOK
  <2>7. ASSUME NEW d \in Running \ orphans PROVE Owned(d)'
    <3>1. Owned(d)
      BY DEF Sound
    <3>2. store' = store /\ reaper' = reaper /\ pc # "track"
      BY <2>2
    <3>3. flow'[f].drv = flow[f].drv /\ flow'[f].pc # "track"
      BY <2>6, <3>2
    <3>4. CASE \E g \in Flows : flow[g].drv = d /\ flow[g].pc # "track"
      <4>1. PICK g \in Flows : flow[g].drv = d /\ flow[g].pc # "track"
        BY <3>4
      <4>2. flow'[g].drv = d /\ flow'[g].pc # "track"
        BY <2>5, <3>3, <4>1
      <4> QED  BY <4>2 DEF Owned
    <3> QED  BY <3>1, <3>2, <3>4 DEF Owned
  <2> QED  BY <2>2, <2>4, <2>7 DEF Sound, Running, KilledWasOrphaned
<1>9. CASE Keep(f)
  <2>1. flow[f].pc = "keep" /\ flow[f].pc \in Holding /\ FlowAt(f, "track", flow[f].drv)
        /\ store' = flow[f].drv /\ UNCHANGED <<chrome, orphans, lock, reaper>>
    BY <1>9 DEF Keep, Holding, FlowSteps
  <2>2. lock = f /\ store = None
    BY <2>1 DEF Sound, FlowSound, HasWindow
  <2>3. reaper.pc \notin {"look", "lock"}
    BY <2>1 DEF Sound, ReaperSound
  <2>4. (\A g \in Flows : FlowSound(g)') /\ ReaperSound'
    BY <2>1, <2>2, <2>3, FlowStep DEF FlowSteps, HasWindow
  <2>5. flow'[f] = [pc |-> "track", drv |-> flow[f].drv] /\ \A g \in Flows \ {f} : flow'[g] = flow[g]
    BY <2>1 DEF FlowAt, Sound, TypeOK
  <2>6. \A d \in Running \ orphans : Owned(d)'
    BY <2>1, <2>2, <2>5 DEF Sound, Owned, Running
  <2> QED  BY <2>1, <2>4, <2>6 DEF Sound, Running, KilledWasOrphaned
<1>10. CASE Track(f)
  <2>1. flow[f].pc = "track" /\ flow[f].pc \in Holding /\ FlowAt(f, "unlock", None)
        /\ UNCHANGED <<chrome, orphans, lock, store, reaper>>
    BY <1>10 DEF Track, Holding, FlowSteps, Ending
  <2>2. lock = f /\ store = flow[f].drv
    BY <2>1 DEF Sound, FlowSound
  <2>3. (\A g \in Flows : FlowSound(g)') /\ ReaperSound'
    BY <2>1, <2>2, FlowStep DEF FlowSteps, HasWindow
  <2>4. flow'[f] = [pc |-> "unlock", drv |-> None] /\ \A g \in Flows \ {f} : flow'[g] = flow[g]
    BY <2>1 DEF FlowAt, Sound, TypeOK
  <2>5. \A d \in Running \ orphans : Owned(d)'
    BY <2>1, <2>2, <2>4 DEF Sound, Owned, Running
  <2> QED  BY <2>1, <2>3, <2>5 DEF Sound, Running, KilledWasOrphaned
<1>11. CASE Unlock(f)
  <2>1. flow[f].pc = "unlock" /\ flow[f].pc \in Holding /\ FlowAt(f, "idle", None)
        /\ UNCHANGED <<chrome, orphans, store, reaper>>
    BY <1>11 DEF Unlock, Holding, FlowSteps
  <2>2. flow[f].drv = None
    BY <2>1 DEF Sound, FlowSound, HasWindow
  <2>3. (\A g \in Flows : FlowSound(g)') /\ ReaperSound'
    BY <2>1, FlowStep DEF FlowSteps, HasWindow, Holding
  <2>4. flow'[f] = [pc |-> "idle", drv |-> None] /\ \A g \in Flows \ {f} : flow'[g] = flow[g]
    BY <2>1 DEF FlowAt, Sound, TypeOK
  <2>5. \A d \in Running \ orphans : Owned(d)'
    BY <2>1, <2>2, <2>4 DEF Sound, Owned, Running
  <2> QED  BY <2>1, <2>3, <2>5 DEF Sound, Running, KilledWasOrphaned
<1> QED  BY <1>2, <1>3, <1>4, <1>5, <1>6, <1>7, <1>8, <1>9, <1>10, <1>11 DEF Run

LEMMA SweepSound ==
  ASSUME Sound, TypeOK', Sweep
  PROVE  Sound'
<1> USE NoneType
<1>1. flow' = flow /\ orphans' = orphans
  BY DEF Sweep, Wake, Doze, LookForWatchers, TryLock, Pop, ReaperUnregisters, ReaperQuits,
       ReaperUnlocks, Look
<1>2. CASE Wake \/ Doze \/ LookForWatchers \/ ReaperUnregisters
  <2>1. UNCHANGED <<chrome, lock, store>>
    BY <1>2 DEF Wake, Doze, LookForWatchers, ReaperUnregisters
  <2>2. ReaperSound' /\ \A d \in Running \ orphans : Owned(d)'
    <3>1. CASE Wake \/ Doze
      BY <1>1, <2>1, <3>1 DEF Wake, Doze, Asleep, Sound, ReaperSound, Owned, Reaping, Closing
    <3>2. CASE LookForWatchers
      <4>1. reaper.pc = "look" /\ ReaperSound
        BY <3>2 DEF LookForWatchers, Sound
      <4>2. reaper'.pc = "next" \/ (reaper'.pc = "lock" /\ reaper'.drv = reaper.drv)
        BY <3>2 DEF LookForWatchers, GoOn, Reap, Sound, TypeOK, ReaperState
      <4>3. ReaperSound'
        BY <1>1, <2>1, <4>1, <4>2 DEF ReaperSound, Reaping
      <4> QED  BY <1>1, <2>1, <4>1, <4>3 DEF Sound, Owned, Closing
    <3>3. CASE ReaperUnregisters
      BY <1>1, <2>1, <3>3 DEF ReaperUnregisters, Reap, Sound, TypeOK, ReaperState, ReaperSound,
                              Owned, Reaping, Closing
    <3> QED  BY <1>2, <3>1, <3>2, <3>3
  <2> QED  BY <1>1, <2>1, <2>2 DEF Sound, FlowSound, Running, KilledWasOrphaned
<1>3. ASSUME NEW d \in Chromes, Look(d) PROVE Sound'
  <2>1. UNCHANGED <<chrome, lock, store>> /\ reaper.pc = "next"
    BY <1>3 DEF Look
  <2>2. reaper'.pc \in {"look", "next"} /\ (reaper'.pc = "look" => reaper'.drv = d /\ store = d)
    BY <1>3 DEF Look
  <2>3. reaper'.pc = "look" => \A f \in Flows : flow[f].pc # "keep"
    BY <2>2 DEF Sound, FlowSound, HasWindow
  <2>4. ReaperSound'
    BY <1>1, <2>1, <2>2, <2>3 DEF ReaperSound, Reaping
  <2> QED  BY <1>1, <2>1, <2>2, <2>4 DEF Sound, FlowSound, Owned, Closing, Running, KilledWasOrphaned
<1>4. CASE TryLock
  <2>1. UNCHANGED <<chrome, store>> /\ reaper.pc = "lock"
    BY <1>4 DEF TryLock
  <2>2. CASE lock = "nobody"
    <3>1. reaper'.pc = "pop" /\ reaper'.drv = reaper.drv /\ lock' = "reaper"
      BY <1>4, <2>2 DEF TryLock, Reap, Sound, TypeOK, ReaperState
    <3>2. \A f \in Flows : flow[f].pc \notin Holding
      BY <2>2, KeptAssumption DEF Sound, FlowSound
    <3>3. ReaperSound' /\ \A f \in Flows : FlowSound(f)'
      BY <1>1, <2>1, <3>1, <3>2 DEF Sound, ReaperSound, FlowSound, Reaping
    <3> QED  BY <1>1, <2>1, <3>1, <3>3 DEF Sound, Owned, Closing, Running, KilledWasOrphaned
  <2>3. CASE lock # "nobody"
    <3>1. reaper'.pc = "next" /\ lock' = lock
      BY <1>4, <2>3 DEF TryLock, GoOn, Reap, Sound, TypeOK, ReaperState
    <3> QED  BY <1>1, <2>1, <3>1 DEF Sound, ReaperSound, Reaping, FlowSound, Owned, Closing, Running,
                                     KilledWasOrphaned
  <2> QED  BY <2>2, <2>3
<1>5. CASE Pop
  <2>1. UNCHANGED <<chrome, lock>> /\ store' = None /\ reaper.pc = "pop" /\ lock = "reaper"
    BY <1>5 DEF Pop, Sound, ReaperSound, Reaping
  <2>2. \A f \in Flows : flow[f].pc \in {"idle", "wait"} /\ flow[f].drv = None
    BY <2>1, ReaperAlone DEF Reaping
  <2>3. \/ store = reaper.drv /\ reaper'.pc = "unregister" /\ reaper'.drv = reaper.drv
        \/ store = None /\ reaper'.pc = "unlock"
    BY <1>5 DEF Pop, Reap, Sound, TypeOK, ReaperState, ReaperSound
  <2>4. ReaperSound' /\ \A f \in Flows : FlowSound(f)'
    BY <1>1, <2>1, <2>2, <2>3 DEF ReaperSound, FlowSound, Reaping, Holding, HasWindow
  <2>5. \A d \in Running \ orphans : Owned(d)'
    BY <1>1, <2>1, <2>2, <2>3 DEF Sound, Owned, Closing, Running
  <2> QED  BY <1>1, <2>1, <2>4, <2>5 DEF Sound, Running, KilledWasOrphaned
<1>6. CASE ReaperQuits
  <2>1. UNCHANGED <<lock, store>> /\ reaper.pc = "quit" /\ chrome' = Quit(reaper.drv)
        /\ reaper'.pc = "unlock"
    BY <1>6 DEF ReaperQuits, Reap, Sound, TypeOK, ReaperState
  <2>2. Running' = Running \ {reaper.drv} /\ KilledWasOrphaned'
    BY <1>1, <2>1 DEF Quit, Running, KilledWasOrphaned, Sound, TypeOK
  <2>3. ReaperSound' /\ \A f \in Flows : FlowSound(f)'
    BY <1>1, <2>1 DEF Sound, ReaperSound, FlowSound, Reaping
  <2>4. \A d \in Running' \ orphans : Owned(d)'
    BY <1>1, <2>1, <2>2 DEF Sound, Owned, Closing
  <2> QED  BY <1>1, <2>2, <2>3, <2>4 DEF Sound
<1>7. CASE ReaperUnlocks
  <2>1. UNCHANGED <<chrome, store>> /\ lock' = "nobody" /\ reaper.pc = "unlock"
        /\ reaper'.pc = "next"
    BY <1>7 DEF ReaperUnlocks, GoOn, Reap, Sound, TypeOK, ReaperState
  <2>2. \A f \in Flows : flow[f].pc \in {"idle", "wait"} /\ flow[f].drv = None
    BY <2>1, ReaperAlone DEF Reaping
  <2>3. ReaperSound' /\ \A f \in Flows : FlowSound(f)'
    BY <1>1, <2>1, <2>2 DEF ReaperSound, FlowSound, Reaping, Holding, HasWindow
  <2> QED  BY <1>1, <2>1, <2>3 DEF Sound, Owned, Closing, Running, KilledWasOrphaned
<1> QED  BY <1>2, <1>3, <1>4, <1>5, <1>6, <1>7 DEF Sweep

LEMMA NextSound ==
  ASSUME WholeFlow, SlowWork, Sound, [Next]_vars
  PROVE  Sound'
<1> USE NoneType
<1>1. TypeOK'
  BY NextType DEF Sound
<1>2. ASSUME NEW f \in Flows, Ask(f) \/ Busy(f) PROVE Sound'
  <2>1. UNCHANGED <<chrome, orphans, lock, store, reaper>> /\ flow[f].pc \in {"idle", "wait"}
        /\ flow'[f].pc \in {"idle", "wait"} /\ flow'[f].drv = None
        /\ \A g \in Flows \ {f} : flow'[g] = flow[g]
    BY <1>2 DEF Ask, Busy, FlowAt, Sound, TypeOK
  <2>2. flow[f].drv = None
    BY <2>1 DEF Sound, FlowSound, HasWindow
  <2>3. ReaperSound' /\ \A g \in Flows : FlowSound(g)'
    BY <2>1 DEF Sound, ReaperSound, FlowSound, Holding, HasWindow
  <2> QED  BY <1>1, <2>1, <2>2, <2>3 DEF Sound, Owned, Running, KilledWasOrphaned
<1>3. CASE Crash
  <2>1. flow' = [f \in Flows |-> Resting] /\ reaper' = Asleep /\ chrome' = chrome
        /\ orphans' = orphans \cup Running
    BY <1>3 DEF Crash
  <2>2. ReaperSound' /\ \A g \in Flows : FlowSound(g)'
    BY <2>1 DEF ReaperSound, FlowSound, Resting, Asleep, Holding, HasWindow, Reaping
  <2> QED  BY <1>1, <2>1, <2>2 DEF Sound, Running, KilledWasOrphaned
<1>4. CASE UserCloses
  <2>1. UNCHANGED <<orphans, lock, store, flow, reaper>> /\ chrome' = Quit(store)
    BY <1>4 DEF UserCloses
  <2>2. Running' \subseteq Running /\ KilledWasOrphaned'
    BY <2>1 DEF Quit, Running, KilledWasOrphaned, Sound, TypeOK
  <2> QED  BY <1>1, <2>1, <2>2 DEF Sound, ReaperSound, FlowSound, Owned
<1>5. CASE UNCHANGED <<chrome, orphans, lock, store, flow, reaper>>
  BY <1>1, <1>5 DEF Sound, ReaperSound, FlowSound, Owned, Running, KilledWasOrphaned
<1> QED  BY <1>1, <1>2, <1>3, <1>4, <1>5, RunSound, SweepSound
         DEF Next, Ripen, Watch, Leave, vars

\* Whatever flows, reaper, viewers and crashes do: a Chrome that a launch kills
\* belonged to a server that died.
THEOREM OnlyOrphansKilled ==
  ASSUME WholeFlow, SlowWork PROVE Spec => []KilledWasOrphaned
<1>1. Init => Sound
  BY InitSound
<1>2. Sound /\ [Next]_vars => Sound'
  BY NextSound
<1>3. Sound => KilledWasOrphaned
  BY DEF Sound
<1> QED  BY <1>1, <1>2, <1>3, PTL DEF Spec

LEMMA OwnedByOne ==
  ASSUME Sound, NEW d \in Running \ orphans
  PROVE  \E o : Owners(d) = {o}
<1> USE NoneType
<1>1. d \in Chromes /\ d # None /\ Owned(d)
  BY DEF Running, Sound
<1>2. \A f \in Flows : flow[f].pc \in FlowSteps
  BY DEF Sound, TypeOK, FlowState
<1>3. CASE store = d
  <2>1. \A f \in Flows : flow[f].drv = d => flow[f].pc = "track"
    BY <1>1, <1>3 DEF Sound, FlowSound
  <2>2. reaper.pc \notin Closing
    BY <1>1, <1>3 DEF Sound, ReaperSound, Closing
  <2>3. Owners(d) = {"store"}
    BY <1>3, <2>1, <2>2 DEF Owners
  <2> QED  BY <2>3
<1>4. ASSUME NEW f \in Flows, flow[f].drv = d, flow[f].pc # "track" PROVE \E o : Owners(d) = {o}
  <2>1. flow[f].pc \in HasWindow /\ store = None /\ flow[f].pc \in Holding
    BY <1>1, <1>4 DEF Sound, FlowSound, HasWindow, Holding, FlowSteps
  <2>2. reaper.pc \notin Closing
    BY <2>1, Alone DEF Reaping, Closing
  <2>3. \A g \in Flows \ {f} : flow[g].drv # d
    BY <1>1, <2>1, Alone
  <2>4. Owners(d) = {f}
    BY <1>1, <1>4, <2>1, <2>2, <2>3 DEF Owners
  <2> QED  BY <2>4
<1>5. CASE reaper.drv = d /\ reaper.pc \in Closing
  <2>1. store = None
    BY <1>5 DEF Sound, ReaperSound, Closing
  <2>2. \A f \in Flows : flow[f].drv # d
    BY <1>1, <1>5, ReaperAlone DEF Reaping, Closing
  <2>3. Owners(d) = {"reaper"}
    BY <1>1, <1>5, <2>1, <2>2 DEF Owners
  <2> QED  BY <2>3
<1> QED  BY <1>1, <1>3, <1>4, <1>5 DEF Owned

\* Likewise, every window of this server has exactly one owner: it is neither
\* leaked nor closed by two threads.
THEOREM EveryWindowOwned ==
  ASSUME WholeFlow, SlowWork PROVE Spec => []OneOwner
<1>1. Init => Sound
  BY InitSound
<1>2. Sound /\ [Next]_vars => Sound'
  BY NextSound
<1>3. Sound => OneOwner
  <2> SUFFICES ASSUME Sound, NEW d \in Running \ orphans PROVE Cardinality(Owners(d)) = 1
    BY DEF OneOwner
  <2>1. PICK o : Owners(d) = {o}
    BY OwnedByOne
  <2> QED  BY <2>1, FS_Singleton
<1> QED  BY <1>1, <1>2, <1>3, PTL DEF Spec
=============================================================================
