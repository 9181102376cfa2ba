---------------------------- MODULE KeptBrowsers ----------------------------
(***************************************************************************)
(* The Chromes of one profile: the flows (publishing, login, preview) that    *)
(* open one, the window a flow leaves open for its user, the reaper that      *)
(* closes it later, and the people who watch it over the live view.           *)
(*                                                                          *)
(* Flows and the reaper are threads: one action per step between two uses of  *)
(* what they share.  Chrome itself, its driver and the web socket of the live *)
(* view are external.  A Chrome is known by the number of its launch.         *)
(***************************************************************************)
EXTENDS Naturals, FiniteSets

CONSTANTS
  Flows,      \* threads that may need the profile at the same time
  Viewers,    \* streams that may watch
  WholeFlow,  \* is the profile lock held for the flow (Naver), or only while
              \* its window is opened (Threads)?
  CanKill,    \* can the Chromes of a profile be found and killed (Windows)?
  SlowWork,   \* does the work in a window take longer than the reaper needs
              \* between its look at the store and its lock?
  MaxChromes, \* bound on launches
  MaxWatches, \* bound on streams
  MaxCrashes  \* bound on deaths of the server

ASSUME KeptAssumption ==
  /\ WholeFlow \in BOOLEAN /\ CanKill \in BOOLEAN /\ SlowWork \in BOOLEAN
  /\ MaxChromes \in Nat /\ MaxWatches \in Nat /\ MaxCrashes \in Nat
  /\ {"reaper", "nobody", "store"} \cap Flows = {}

VARIABLES
  chrome,  \* the state of each Chrome
  orphans, \* the Chromes of a server that died
  lock,    \* _profile_lock: a flow, the reaper or nobody
  store,   \* _KEPT_OPEN_BROWSERS of this profile
  tracked, \* _tracked: how long each window has been kept, against the TTL
  session, \* the live view session the hub has for the profile, by its Chrome
  watch,   \* what each viewer streams
  flow,    \* the flows: where they are and the Chrome they hold
  reaper,  \* the sweep: where it is, what it has left, the Chrome it looks at
  used     \* what the bounds count

vars == <<chrome, orphans, lock, store, tracked, session, watch, flow, reaper, used>>

None == 0
Chromes == 1 .. MaxChromes
Ages == {"no", "young", "ripe"}

FlowSteps == {"idle", "wait", "release", "unregister", "quit", "launch", "register", "work",
              "keep", "track", "close unregister", "close quit", "unlock"}
ReaperSteps == {"asleep", "next", "look", "lock", "pop", "unregister", "quit", "unlock"}
Closing == {"unregister", "quit"}
Resting == [pc |-> "idle", drv |-> None]
Asleep == [pc |-> "asleep", todo |-> {}, ripe |-> {}, drv |-> None]

Running == {d \in Chromes : chrome[d] = "running"}
Watched(d) == session = d /\ chrome[d] = "running" /\ \E v \in Viewers : watch[v] = d

Init ==
  /\ chrome = [d \in Chromes |-> "unborn"]
  /\ orphans = {}
  /\ lock = "nobody"
  /\ store = None
  /\ tracked = [d \in Chromes |-> "no"]
  /\ session = None
  /\ watch = [v \in Viewers |-> None]
  /\ flow = [f \in Flows |-> Resting]
  /\ reaper = Asleep
  /\ used = [chromes |-> 0, watches |-> 0, crashes |-> 0]

-----------------------------------------------------------------------------
FlowAt(f, pc, drv) == flow' = [flow EXCEPT ![f] = [pc |-> pc, drv |-> drv]]

Ask(f) ==
  /\ flow[f].pc = "idle" /\ used.chromes < MaxChromes
  /\ FlowAt(f, "wait", None)
  /\ UNCHANGED <<chrome, orphans, lock, store, tracked, session, watch, reaper, used>>

Acquire(f) ==
  /\ flow[f].pc = "wait" /\ lock = "nobody"
  /\ lock' = f
  /\ FlowAt(f, "release", None)
  /\ UNCHANGED <<chrome, orphans, store, tracked, session, watch, reaper, used>>

\* ProfileBusy: only Naver's flows stop waiting.
Busy(f) ==
  /\ WholeFlow
  /\ flow[f].pc = "wait" /\ lock # "nobody"
  /\ FlowAt(f, "idle", None)
  /\ UNCHANGED <<chrome, orphans, lock, store, tracked, session, watch, reaper, used>>

\* Mutant: the window stays in the store while it is closed.
Release_Keeps(f) ==
  /\ flow[f].pc = "release"
  /\ FlowAt(f, IF store = None THEN "launch" ELSE "unregister", store)
  /\ UNCHANGED <<chrome, orphans, lock, store, tracked, session, watch, reaper, used>>

\* _release_kept_open_browser: what the store holds is this flow's to close.
Release(f) ==
  /\ flow[f].pc = "release"
  /\ store' = None
  /\ FlowAt(f, IF store = None THEN "launch" ELSE "unregister", store)
  /\ UNCHANGED <<chrome, orphans, lock, tracked, session, watch, reaper, used>>

\* close_browser: the live view session goes, then Chrome writes its cookies
\* and leaves.
Unregistered(d) == IF session = d THEN None ELSE session
Quit(d) == [chrome EXCEPT ![d] = IF @ = "running" THEN "gone" ELSE @]

FlowUnregisters(f) ==
  /\ flow[f].pc \in {"unregister", "close unregister"}
  /\ session' = Unregistered(flow[f].drv)
  /\ FlowAt(f, IF flow[f].pc = "unregister" THEN "quit" ELSE "close quit", flow[f].drv)
  /\ UNCHANGED <<chrome, orphans, lock, store, tracked, watch, reaper, used>>

FlowQuits(f) ==
  /\ flow[f].pc \in {"quit", "close quit"}
  /\ chrome' = Quit(flow[f].drv)
  /\ FlowAt(f, CASE flow[f].pc = "quit" -> "launch"
                 [] flow[f].pc = "close quit" /\ WholeFlow -> "unlock"
                 [] OTHER -> "idle", None)
  /\ UNCHANGED <<orphans, lock, store, tracked, session, watch, reaper, used>>

\* _create_driver: a profile in use is taken for an orphan's, and every Chrome
\* that has it is killed; where none can be found the flow asks for a human.
\* The lock is released here by the flows that hold it only to open a window.
Launch(f) ==
  /\ flow[f].pc = "launch" /\ used.chromes < MaxChromes
  /\ LET d == used.chromes + 1 IN
       IF Running = {} \/ CanKill
       THEN /\ chrome' = [c \in Chromes |-> CASE c = d -> "running"
                                              [] c \in Running -> "killed"
                                              [] OTHER -> chrome[c]]
            /\ used' = [used EXCEPT !.chromes = d]
            /\ FlowAt(f, "register", d)
            /\ lock' = IF WholeFlow THEN lock ELSE "nobody"
       ELSE /\ FlowAt(f, "unlock", None)
            /\ UNCHANGED <<chrome, used, lock>>
  /\ UNCHANGED <<orphans, store, tracked, session, watch, reaper>>

\* Chrome does not start, for whatever other reason (or the bound is reached).
LaunchFails(f) ==
  /\ flow[f].pc = "launch"
  /\ FlowAt(f, "unlock", None)
  /\ UNCHANGED <<chrome, orphans, lock, store, tracked, session, watch, reaper, used>>

\* LiveViewHub.register: the new session replaces the old one, or is not had.
Register(f) ==
  /\ flow[f].pc = "register"
  /\ session' \in {flow[f].drv, session}
  /\ FlowAt(f, "work", flow[f].drv)
  /\ UNCHANGED <<chrome, orphans, lock, store, tracked, watch, reaper, used>>

\* Whatever becomes of the work (external), the window is kept, or closed by
\* headless flows and previews.  With SlowWork it does not end while the reaper
\* is between two of its statements.
Work(f) ==
  /\ flow[f].pc = "work"
  /\ SlowWork => reaper.pc \notin {"look", "lock"}
  /\ \E next \in {"keep", "close unregister"} : FlowAt(f, next, flow[f].drv)
  /\ UNCHANGED <<chrome, orphans, lock, store, tracked, session, watch, reaper, used>>

Ending == IF WholeFlow THEN "unlock" ELSE "idle"

\* mark_kept_open: the window is stored ...
Keep(f) ==
  /\ flow[f].pc = "keep"
  /\ store' = flow[f].drv
  /\ FlowAt(f, "track", flow[f].drv)
  /\ UNCHANGED <<chrome, orphans, lock, tracked, session, watch, reaper, used>>

\* Mutant: tracked as kept, without the time of it.
Track_Undated(f) ==
  /\ flow[f].pc = "track"
  /\ tracked' = [tracked EXCEPT ![flow[f].drv] = "kept"]
  /\ FlowAt(f, Ending, None)
  /\ UNCHANGED <<chrome, orphans, lock, store, session, watch, reaper, used>>

\* ... and tracked.
Track(f) ==
  /\ flow[f].pc = "track"
  /\ tracked' = [tracked EXCEPT ![flow[f].drv] = "young"]
  /\ FlowAt(f, Ending, None)
  /\ UNCHANGED <<chrome, orphans, lock, store, session, watch, reaper, used>>

Unlock(f) ==
  /\ flow[f].pc = "unlock"
  /\ lock' = "nobody"
  /\ FlowAt(f, "idle", None)
  /\ UNCHANGED <<chrome, orphans, store, tracked, session, watch, reaper, used>>
-----------------------------------------------------------------------------
Reap(pc, drv) == reaper' = [reaper EXCEPT !.pc = pc, !.drv = drv]
GoOn == Reap("next", None)
Forget(d) == tracked' = [tracked EXCEPT ![d] = "no"]

\* A sweep works on a copy of what was tracked when it began.
Wake ==
  /\ reaper.pc = "asleep" /\ \E d \in Chromes : tracked[d] # "no"
  /\ reaper' = [pc |-> "next", drv |-> None,
                todo |-> {d \in Chromes : tracked[d] # "no"},
                ripe |-> {d \in Chromes : tracked[d] = "ripe"}]
  /\ UNCHANGED <<chrome, orphans, lock, store, tracked, session, watch, flow, used>>

Doze ==
  /\ reaper.pc = "next" /\ reaper.todo = {}
  /\ reaper' = Asleep
  /\ UNCHANGED <<chrome, orphans, lock, store, tracked, session, watch, flow, used>>

\* The window is still in the store, and its time is up.
Look(d) ==
  /\ reaper.pc = "next" /\ d \in reaper.todo
  /\ LET due == store = d /\ d \in reaper.ripe IN
       reaper' = [pc |-> IF due THEN "look" ELSE "next", drv |-> IF due THEN d ELSE None,
                  todo |-> reaper.todo \ {d}, ripe |-> reaper.ripe \ {d}]
  /\ IF store # d THEN Forget(d) ELSE UNCHANGED tracked
  /\ UNCHANGED <<chrome, orphans, lock, store, session, watch, flow, used>>

\* Mutant: a watched window is left to whoever watches it.
LookForWatchers_Forgets ==
  /\ reaper.pc = "look"
  /\ IF Watched(reaper.drv)
     THEN tracked' = [tracked EXCEPT ![reaper.drv] = "no"] /\ GoOn
     ELSE Reap("lock", reaper.drv) /\ UNCHANGED tracked
  /\ UNCHANGED <<chrome, orphans, lock, store, session, watch, flow, used>>

\* has_watchers: a watched window gets its time once more.
LookForWatchers ==
  /\ reaper.pc = "look"
  /\ IF Watched(reaper.drv)
     THEN tracked' = [tracked EXCEPT ![reaper.drv] = "young"] /\ GoOn
     ELSE Reap("lock", reaper.drv) /\ UNCHANGED tracked
  /\ UNCHANGED <<chrome, orphans, lock, store, session, watch, flow, used>>

\* Mutant: the window is closed without the lock of its profile.
TryLock_Ignored ==
  /\ reaper.pc = "lock"
  /\ Reap("pop", reaper.drv)
  /\ UNCHANGED <<chrome, orphans, lock, store, tracked, session, watch, flow, used>>

\* A profile in use is skipped: its flow closes the window.
TryLock ==
  /\ reaper.pc = "lock"
  /\ IF lock = "nobody" THEN lock' = "reaper" /\ Reap("pop", reaper.drv)
     ELSE GoOn /\ UNCHANGED lock
  /\ UNCHANGED <<chrome, orphans, store, tracked, session, watch, flow, used>>

\* The pop is the ownership; whatever else it took is dropped.
Pop ==
  /\ reaper.pc = "pop"
  /\ store' = None
  /\ Forget(reaper.drv)
  /\ IF store = reaper.drv THEN Reap("unregister", reaper.drv) ELSE Reap("unlock", None)
  /\ UNCHANGED <<chrome, orphans, lock, session, watch, flow, used>>

ReaperUnregisters ==
  /\ reaper.pc = "unregister"
  /\ session' = Unregistered(reaper.drv)
  /\ Reap("quit", reaper.drv)
  /\ UNCHANGED <<chrome, orphans, lock, store, tracked, watch, flow, used>>

ReaperQuits ==
  /\ reaper.pc = "quit"
  /\ chrome' = Quit(reaper.drv)
  /\ Reap("unlock", None)
  /\ UNCHANGED <<orphans, lock, store, tracked, session, watch, flow, used>>

ReaperUnlocks ==
  /\ reaper.pc = "unlock"
  /\ lock' = "nobody"
  /\ GoOn
  /\ UNCHANGED <<chrome, orphans, store, tracked, session, watch, flow, used>>

-----------------------------------------------------------------------------
\* KEEP_OPEN_BROWSER_TTL_MINUTES have passed.
Ripen(d) ==
  /\ tracked[d] = "young"
  /\ tracked' = [tracked EXCEPT ![d] = "ripe"]
  /\ UNCHANGED <<chrome, orphans, lock, store, session, watch, flow, reaper, used>>

\* frame_stream of the session the hub has, and its end.
Watch(v) ==
  /\ watch[v] = None /\ session # None /\ chrome[session] = "running"
  /\ used.watches < MaxWatches
  /\ watch' = [watch EXCEPT ![v] = session]
  /\ used' = [used EXCEPT !.watches = @ + 1]
  /\ UNCHANGED <<chrome, orphans, lock, store, tracked, session, flow, reaper>>

Leave(v) ==
  /\ watch[v] # None
  /\ watch' = [watch EXCEPT ![v] = None]
  /\ UNCHANGED <<chrome, orphans, lock, store, tracked, session, flow, reaper, used>>

\* The user closes a window that was kept for him.
UserCloses ==
  /\ store # None /\ chrome[store] = "running"
  /\ chrome' = Quit(store)
  /\ UNCHANGED <<orphans, lock, store, tracked, session, watch, flow, reaper, used>>

\* The server dies and starts again: its threads and tables go, its Chromes stay.
Crash ==
  /\ used.crashes < MaxCrashes
  /\ orphans' = orphans \cup Running
  /\ lock' = "nobody"
  /\ store' = None
  /\ tracked' = [d \in Chromes |-> "no"]
  /\ session' = None
  /\ watch' = [v \in Viewers |-> None]
  /\ flow' = [f \in Flows |-> Resting]
  /\ reaper' = Asleep
  /\ used' = [used EXCEPT !.crashes = @ + 1]
  /\ UNCHANGED chrome

-----------------------------------------------------------------------------
Run(f) ==
  \/ Acquire(f) \/ Release(f) \/ FlowUnregisters(f) \/ FlowQuits(f) \/ Launch(f)
  \/ LaunchFails(f) \/ Register(f) \/ Work(f) \/ Keep(f) \/ Track(f) \/ Unlock(f)

Sweep ==
  \/ Wake \/ Doze \/ LookForWatchers \/ TryLock \/ Pop
  \/ ReaperUnregisters \/ ReaperQuits \/ ReaperUnlocks
  \/ \E d \in Chromes : Look(d)

Next ==
  \/ \E f \in Flows : Ask(f) \/ Busy(f) \/ Run(f)
  \/ Sweep
  \/ \E d \in Chromes : Ripen(d)
  \/ \E v \in Viewers : Watch(v) \/ Leave(v)
  \/ UserCloses \/ Crash

Spec == Init /\ [][Next]_vars

\* Threads run on and time passes; nobody has to watch, to leave or to publish.
FairSpec ==
  /\ Spec
  /\ \A f \in Flows : WF_vars(Run(f))
  /\ WF_vars(Sweep)
  /\ \A d \in Chromes : WF_vars(Ripen(d))

-----------------------------------------------------------------------------
ChromeStates == {"unborn", "running", "gone", "killed"}
FlowState == [pc : FlowSteps, drv : Chromes \cup {None}]
ReaperState == [pc : ReaperSteps, todo : SUBSET Chromes, ripe : SUBSET Chromes,
                drv : Chromes \cup {None}]
Bounds == [chromes : 0 .. MaxChromes, watches : 0 .. MaxWatches, crashes : 0 .. MaxCrashes]

TypeOK ==
  /\ chrome \in [Chromes -> ChromeStates]
  /\ orphans \subseteq Chromes
  /\ lock \in Flows \cup {"reaper", "nobody"}
  /\ store \in Chromes \cup {None}
  /\ tracked \in [Chromes -> Ages]
  /\ session \in Chromes \cup {None}
  /\ watch \in [Viewers -> Chromes \cup {None}]
  /\ flow \in [Flows -> FlowState]
  /\ reaper \in ReaperState
  /\ used \in Bounds

\* A Chrome that is killed was an orphan of a server that died: no launch meets
\* the live window of another flow, or one that is being closed.
KilledWasOrphaned ==
  \A d \in Chromes : chrome[d] = "killed" => d \in orphans

\* Who will close a window: the flow that has it, the store, or the reaper.
Owners(d) ==
  {f \in Flows : flow[f].drv = d /\ flow[f].pc # "track"}
    \cup {o \in {"store"} : store = d}
    \cup {o \in {"reaper"} : reaper.drv = d /\ reaper.pc \in Closing}

\* Every window of this server has exactly one owner: none is left open for
\* ever, and none is closed by two threads, which would cost its cookies.
OneOwner ==
  \A d \in Running \ orphans : Cardinality(Owners(d)) = 1

\* A window that was left open and that nobody watches is closed in the end.
UnwatchedIsClosed ==
  \A d \in Chromes : store = d ~>
    chrome[d] # "running" \/ d \in orphans \/ Watched(d)
=============================================================================
