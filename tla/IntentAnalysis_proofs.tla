------------------------ MODULE IntentAnalysis_proofs ------------------------
(***************************************************************************)
(* Proofs about IntentAnalysis, for all servers, titles and bounds.          *)
(*                                                                          *)
(*   AnalysisTypes           the type invariant;                            *)
(*   NoMarkOutlivesItsJob    an in-flight mark has its job;                  *)
(*   ResultsAreOfTheirTitle  a stale result needs the gap before the save.   *)
(***************************************************************************)
EXTENDS IntentAnalysis, TLAPS

-----------------------------------------------------------------------------
\* The values a step may leave a job, a server or the post with.

LEMMA NotAskedType == NotAsked \in JobState
<1>1. (CHOOSE s \in Servers : TRUE) \in Servers
  BY AnalysisAssumption
<1> QED  BY <1>1 DEF NotAsked, JobState, JobSteps, Ends, NotRead

LEMMA OverType ==
  ASSUME NEW why \in Ends
  PROVE  Over(why) \in JobState
BY NotAskedType DEF Over, NotAsked, JobState, JobSteps, Ends

LEMMA UpType ==
  /\ Up \in BootState
  /\ \A pc \in {"up", "down", "young", "old", "recover"}, late \in BOOLEAN :
       [Up EXCEPT !.pc = pc, !.late = late] \in BootState /\ [Up EXCEPT !.pc = pc] \in BootState
  /\ \A d \in BOOLEAN : [Up EXCEPT !.deferred = d] \in BootState
BY DEF Up, BootState, NotRead

LEMMA JobSet ==
  ASSUME job \in [Jobs -> JobState], NEW j \in Jobs, NEW x \in JobState
  PROVE  [job EXCEPT ![j] = x] \in [Jobs -> JobState]
OBVIOUS

LEMMA StepType ==
  ASSUME job \in [Jobs -> JobState], NEW j \in Jobs, NEW pc \in JobSteps, Step(j, pc)
  PROVE  job' \in [Jobs -> JobState]
<1>1. [job[j] EXCEPT !.pc = pc] \in JobState
  BY DEF JobState
<1> QED  BY <1>1, JobSet DEF Step

LEMMA EndType ==
  ASSUME job \in [Jobs -> JobState], NEW j \in Jobs, NEW pc \in JobSteps, NEW why \in Ends,
         End(j, pc, why)
  PROVE  job' \in [Jobs -> JobState]
<1>1. [job[j] EXCEPT !.pc = pc, !.end = why, !.seen = NotRead, !.ok = FALSE] \in JobState
  BY DEF JobState, NotRead
<1> QED  BY <1>1, JobSet DEF End

LEMMA BootType ==
  ASSUME boot \in [Servers -> BootState], NEW s \in Servers, NEW next \in BootState,
         BootStep(s, next)
  PROVE  boot' \in [Servers -> BootState]
BY DEF BootStep

\* A guarded write: one version on, and what it says of the rest.
LEMMA PostType ==
  ASSUME post \in PostState
  PROVE  /\ NoResult \in Result
         /\ \A t \in Titles : [post EXCEPT !.version = @ + 1, !.title = t, !.result = NoResult]
                                \in PostState
         /\ \A r \in Result : [post EXCEPT !.version = @ + 1, !.result = r] \in PostState
         /\ [post EXCEPT !.version = @ + 1, !.decided = TRUE] \in PostState
<1>1. NoResult \in Result
  BY DEF NoResult, Result
<1>2. post.version + 1 \in Nat
  BY DEF PostState
<1> QED  BY <1>1, <1>2 DEF PostState

LEMMA InitType == Init => TypeOK
<1> SUFFICES ASSUME Init PROVE TypeOK
  OBVIOUS
<1>1. post \in PostState
  <2>1. (CHOOSE t \in Titles : TRUE) \in Titles
    BY AnalysisAssumption
  <2> QED  BY <2>1 DEF Init, PostState, Result, NoResult
<1>2. used \in Bounds
  BY AnalysisAssumption DEF Init, Bounds
<1> QED  BY <1>1, <1>2, NotAskedType, UpType DEF Init, TypeOK

LEMMA NextType ==
  ASSUME TypeOK, [Next]_vars
  PROVE  TypeOK'
<1> USE DEF TypeOK
<1>1. ASSUME NEW s \in Servers, Request(s) PROVE TypeOK'
  <2>1. used.requests + 1 \in 1 .. MaxRequests
    BY <1>1, AnalysisAssumption DEF Request, Bounds
  <2>2. [NotAsked EXCEPT !.pc = "register", !.srv = s, !.key = post.title] \in JobState
    BY NotAskedType DEF JobState, JobSteps, PostState
  <2>3. used' \in Bounds
    BY <1>1, <2>1 DEF Request, Bounds
  <2> QED  BY <1>1, <2>1, <2>2, <2>3, JobSet DEF Request, Jobs
<1>2. ASSUME NEW j \in Jobs, Job(j) PROVE TypeOK'
  <2> USE <1>2
  <2>1. job[j] \in JobState /\ JobSteps = {"unused", "register", "done", "hold", "wait",
                                         "finally", "search", "save", "exit"}
    BY DEF JobSteps, Running, Holding
  <2>2. CASE Register(j)
    <3>1. job' \in [Jobs -> JobState]
      BY <2>1, <2>2, StepType DEF Register
    <3> QED  BY <2>1, <2>2, <3>1 DEF Register, JobState
  <2>3. CASE Hold(j)
    BY <2>1, <2>3, StepType DEF Hold
  <2>4. CASE Poll(j)
    BY <2>1, <2>4, StepType DEF Poll
  <2>5. CASE Check(j)
    <3>1. CASE post.title # job[j].key
      BY <2>1, <2>5, <3>1, StepType DEF Check
    <3>2. ASSUME NEW ok \in BOOLEAN, job' = [job EXCEPT ![j].pc = "save", ![j].ok = ok]
          PROVE  job' \in [Jobs -> JobState]
      <4>1. [job[j] EXCEPT !.pc = "save", !.ok = ok] \in JobState
        BY <2>1 DEF JobState
      <4>2. job' = [job EXCEPT ![j] = [job[j] EXCEPT !.pc = "save", !.ok = ok]]
        BY <3>2
      <4> QED  BY <4>1, <4>2, JobSet
    <3> QED  BY <2>5, <3>1, <3>2 DEF Check
  <2>6. CASE SaveRead(j)
    <3>1. [job[j] EXCEPT !.seen = post.version] \in JobState
      BY <2>1 DEF JobState, PostState
    <3> QED  BY <2>6, <3>1, JobSet DEF SaveRead
  <2>7. CASE Save(j)
    <3>1. job' \in [Jobs -> JobState]
      BY <2>1, <2>7, EndType DEF Save, Ends
    <3>2. post' \in PostState
      <4>1. [title |-> job[j].key, ok |-> job[j].ok] \in Result
        BY <2>1 DEF JobState, Result
      <4> QED  BY <2>7, <4>1, PostType DEF Save
    <3> QED  BY <2>7, <3>1, <3>2 DEF Save
  <2>8. CASE Conflict(j)
    BY <2>1, <2>8, EndType DEF Conflict, Ends
  <2>9. CASE Exit(j)
    BY <2>1, <2>9, StepType DEF Exit
  <2>10. CASE Finally(j)
    <3>1. Over(job[j].end) \in JobState
      BY <2>1, OverType DEF JobState
    <3> QED  BY <2>10, <3>1, JobSet DEF Finally
  <2> QED  BY <2>2, <2>3, <2>4, <2>5, <2>6, <2>7, <2>8, <2>9, <2>10 DEF Job
<1>3. ASSUME NEW j \in Jobs, GiveUp(j) \/ Retake(j) PROVE TypeOK'
  <2>1. CASE GiveUp(j)
    BY <2>1, EndType DEF GiveUp, Ends, JobSteps, Running
  <2>2. CASE Retake(j)
    BY <2>2 DEF Retake
  <2> QED  BY <1>3, <2>1, <2>2
<1>4. ASSUME NEW s \in Servers, Cancel(s) PROVE TypeOK'
  <2>1. used' \in Bounds
    BY <1>4, AnalysisAssumption DEF Cancel, Bounds
  <2>2. handle[s] \in Jobs
    BY <1>4 DEF Cancel
  <2>3. job' \in [Jobs -> JobState]
    <3>1. \/ End(handle[s], "exit", "canceled")
          \/ End(handle[s], "finally", "canceled")
          \/ UNCHANGED job
      BY <1>4 DEF Cancel
    <3> QED  BY <2>2, <3>1, EndType DEF Ends, JobSteps, Running, Holding
  <2> QED  BY <1>4, <2>1, <2>3 DEF Cancel
<1>5. ASSUME NEW t \in Titles, SelectTitle(t) PROVE TypeOK'
  <2>1. used' \in Bounds
    BY <1>5, AnalysisAssumption DEF SelectTitle, Bounds
  <2>2. post' \in PostState
    BY <1>5, PostType DEF SelectTitle
  <2>3. overtaken' \in BOOLEAN
    BY <1>5 DEF SelectTitle
  <2> QED  BY <1>5, <2>1, <2>2, <2>3 DEF SelectTitle
<1>6. CASE SelectIntent \/ Stall \/ Expire \/ GraceEnds
  <2>1. CASE SelectIntent
    <3>1. post' \in PostState
      BY <2>1, PostType DEF SelectIntent
    <3> QED  BY <2>1, <3>1 DEF SelectIntent
  <2>2. CASE Stall
    <3>1. used' \in Bounds
      BY <2>2, AnalysisAssumption DEF Stall, Bounds
    <3> QED  BY <2>2, <3>1 DEF Stall
  <2>3. CASE Expire \/ GraceEnds
    BY <2>3 DEF Expire, GraceEnds
  <2> QED  BY <1>6, <2>1, <2>2, <2>3
<1>7. ASSUME NEW s \in Servers, Crash(s) PROVE TypeOK'
  <2>1. used' \in Bounds
    BY <1>7, AnalysisAssumption DEF Crash, Bounds
  <2>2. job' \in [Jobs -> JobState]
    <3>1. Over("died") \in JobState
      BY OverType DEF Ends
    <3> QED  BY <1>7, <3>1 DEF Crash
  <2>3. boot' \in [Servers -> BootState]
    <3>1. [Up EXCEPT !.pc = "down"] \in BootState
      BY UpType
    <3> QED  BY <1>7, <3>1 DEF Crash
  <2> QED  BY <1>7, <2>1, <2>2, <2>3 DEF Crash
<1>8. ASSUME NEW s \in Servers, Lifespan(s) PROVE TypeOK'
  <2>1. boot[s] \in BootState
    OBVIOUS
  <2>2. PICK next \in BootState : BootStep(s, next)
    <3>1. CASE Sweep(s)
      <4>1. Age \in {"up", "down", "young", "old", "recover"} /\ (boot[s].pc = "up") \in BOOLEAN
        BY DEF Age
      <4>2. (IF Undecided THEN [Up EXCEPT !.pc = Age, !.late = boot[s].pc = "up"] ELSE Up)
              \in BootState
        BY <4>1, UpType
      <4> QED  BY <3>1, <4>2 DEF Sweep
    <3>2. CASE SweepHeld(s)
      <4>1. [Up EXCEPT !.deferred = ~boot[s].late] \in BootState
        BY UpType
      <4>2. [boot[s] EXCEPT !.pc = "recover"] \in BootState
        BY <2>1 DEF BootState
      <4>3. \/ BootStep(s, Up)
            \/ BootStep(s, [Up EXCEPT !.deferred = ~boot[s].late])
            \/ BootStep(s, [boot[s] EXCEPT !.pc = "recover"])
        BY <3>2 DEF SweepHeld
      <4> QED  BY <4>1, <4>2, <4>3, UpType
    <3>3. CASE SweepRead(s)
      <4>1. [boot[s] EXCEPT !.seen = post.version] \in BootState
        BY <2>1 DEF BootState, PostState
      <4> QED  BY <3>3, <4>1 DEF SweepRead
    <3>4. CASE SweepWrite(s) \/ SweepConflict(s)
      BY <3>4, UpType DEF SweepWrite, SweepConflict
    <3> QED  BY <1>8, <3>1, <3>2, <3>3, <3>4 DEF Lifespan
  <2>3. post' \in PostState
    <3>1. [title |-> post.title, ok |-> FALSE] \in Result
      BY DEF PostState, Result
    <3> QED  BY <1>8, <3>1, PostType DEF Lifespan, Sweep, SweepHeld, SweepRead, SweepWrite,
                SweepConflict
  <2> QED  BY <2>2, <2>3, BootType DEF BootStep
<1>9. CASE UNCHANGED vars
  BY <1>9 DEF vars
<1> QED  BY <1>1, <1>2, <1>3, <1>4, <1>5, <1>6, <1>7, <1>8, <1>9 DEF Next

\* Type invariant of the post, the lease, the jobs, the tables of the servers
\* and their sweeps.
THEOREM AnalysisTypes == Spec => []TypeOK
BY InitType, NextType, PTL DEF Spec

-----------------------------------------------------------------------------
\* The in-flight mark.  A request takes a job that nobody has used.
FreshJobs == \A j \in Jobs : j > used.requests => job[j].pc = "unused"

LiveInv == TypeOK /\ FreshJobs /\ InflightIsLive

\* k goes on with the same work.
GoesOn(k) ==
  job[k].pc \in Running =>
    job'[k].pc \in Running /\ job'[k].srv = job[k].srv /\ job'[k].key = job[k].key

\* While jobs go on and nobody marks anything, every mark keeps its job.
LEMMA MarksKept ==
  ASSUME InflightIsLive, inflight' = inflight, \A k \in Jobs : GoesOn(k)
  PROVE  InflightIsLive'
BY DEF InflightIsLive, GoesOn

\* What Step and End leave of a job.
LEMMA Stepped ==
  ASSUME job \in [Jobs -> JobState], NEW j \in Jobs, NEW pc,
         Step(j, pc) \/ \E why : End(j, pc, why)
  PROVE  /\ job'[j].pc = pc /\ job'[j].srv = job[j].srv /\ job'[j].key = job[j].key
         /\ job'[j].seen \in {job[j].seen, NotRead}
         /\ \A k \in Jobs \ {j} : job'[k] = job[k]
<1>1. CASE Step(j, pc)
  BY <1>1 DEF Step, JobState
<1>2. ASSUME NEW why, End(j, pc, why)
      PROVE  /\ job'[j].pc = pc /\ job'[j].srv = job[j].srv /\ job'[j].key = job[j].key
             /\ job'[j].seen = NotRead
             /\ \A k \in Jobs \ {j} : job'[k] = job[k]
  <2>1. job' = [job EXCEPT ![j] = [job[j] EXCEPT !.pc = pc, !.end = why, !.seen = NotRead,
                                                 !.ok = FALSE]]
    BY <1>2 DEF End
  <2>2. job'[j] = [job[j] EXCEPT !.pc = pc, !.end = why, !.seen = NotRead, !.ok = FALSE]
    BY <2>1
  <2>3. job[j] \in JobState
    OBVIOUS
  <2> QED  BY <2>1, <2>2, <2>3 DEF JobState
<1> QED  BY <1>1, <1>2

LEMMA StepGoesOn ==
  ASSUME job \in [Jobs -> JobState], NEW j \in Jobs, NEW pc \in Running,
         Step(j, pc) \/ \E why \in Ends : End(j, pc, why)
  PROVE  \A k \in Jobs : GoesOn(k)
BY Stepped DEF GoesOn

LEMMA FreshNext ==
  ASSUME TypeOK, FreshJobs, [Next]_vars
  PROVE  FreshJobs'
<1>1. ASSUME NEW s \in Servers, Request(s) PROVE FreshJobs'
  <2>1. used.requests \in Nat /\ used'.requests = used.requests + 1
    BY <1>1, AnalysisAssumption DEF Request, TypeOK, Bounds
  <2>2. \A k \in Jobs : k # used.requests + 1 => job'[k] = job[k]
    BY <1>1 DEF Request, TypeOK
  <2> QED  BY <2>1, <2>2 DEF FreshJobs, Jobs
<1>2. CASE used.requests' = used.requests /\ \A k \in Jobs : job[k].pc = "unused" => job'[k].pc = "unused"
  BY <1>2 DEF FreshJobs
<1>3. ASSUME NEW j \in Jobs, Job(j) \/ GiveUp(j) \/ Retake(j) PROVE FreshJobs'
  <2>1. job[j].pc # "unused" /\ used' = used
    BY <1>3 DEF Job, Register, Hold, Poll, Check, SaveRead, Save, Conflict, Exit, Finally,
                GiveUp, Retake, Holding
  <2>2. \A k \in Jobs \ {j} : job'[k] = job[k]
    BY <1>3 DEF Job, Register, Hold, Poll, Check, SaveRead, Save, Conflict, Exit, Finally,
                GiveUp, Retake, Step, End, TypeOK
  <2> QED  BY <2>1, <2>2, <1>2
<1>4. ASSUME NEW s \in Servers, Cancel(s) PROVE FreshJobs'
  <2>1. used.requests' = used.requests
    BY <1>4 DEF Cancel, TypeOK, Bounds
  <2>2. \/ UNCHANGED job
        \/ job[handle[s]].pc # "unused" /\ \E pc \in Running : End(handle[s], pc, "canceled")
    BY <1>4 DEF Cancel, Running, Holding
  <2> QED  BY <2>1, <2>2, <1>2 DEF End, TypeOK
<1>5. ASSUME NEW s \in Servers, Crash(s) PROVE FreshJobs'
  <2>1. used.requests' = used.requests
    BY <1>5 DEF Crash, TypeOK, Bounds
  <2> QED  BY <1>5, <2>1, <1>2 DEF Crash, Running, Holding
<1>6. ASSUME NEW s \in Servers, Lifespan(s) PROVE FreshJobs'
  BY <1>6 DEF Lifespan, Sweep, SweepHeld, SweepRead, SweepWrite, SweepConflict, BootStep, FreshJobs
<1>7. ASSUME NEW t \in Titles, SelectTitle(t) PROVE FreshJobs'
  BY <1>7 DEF SelectTitle, FreshJobs, TypeOK, Bounds
<1>8. CASE SelectIntent \/ Stall \/ Expire \/ GraceEnds \/ UNCHANGED vars
  BY <1>8 DEF SelectIntent, Stall, Expire, GraceEnds, vars, FreshJobs, TypeOK, Bounds
<1> QED  BY <1>1, <1>3, <1>4, <1>5, <1>6, <1>7, <1>8 DEF Next

LEMMA LiveNext ==
  ASSUME LiveInv, [Next]_vars
  PROVE  InflightIsLive'
<1> USE DEF LiveInv
<1>1. ASSUME NEW s \in Servers, Request(s) PROVE InflightIsLive'
  <2>1. used.requests + 1 \in Jobs /\ job[used.requests + 1].pc = "unused"
    <3>1. used.requests \in Nat /\ used.requests < MaxRequests
      BY <1>1, AnalysisAssumption DEF Request, TypeOK, Bounds
    <3> QED  BY <3>1, AnalysisAssumption DEF FreshJobs, Jobs
  <2>2. \A k \in Jobs : GoesOn(k)
    BY <1>1, <2>1 DEF Request, GoesOn, Running, Holding, TypeOK
  <2> QED  BY <1>1, <2>2, MarksKept DEF Request
<1>2. ASSUME NEW j \in Jobs, Register(j) PROVE InflightIsLive'
  <2>1. job[j] \in JobState /\ job' = [job EXCEPT ![j].pc = "hold"]
    BY <1>2 DEF Register, Step, TypeOK
  <2>2. \A k \in Jobs : GoesOn(k)
    BY <1>2, StepGoesOn DEF Register, Running, TypeOK
  <2>3. /\ job'[j].pc \in Running /\ job'[j].srv = job[j].srv /\ job'[j].key = job[j].key
    BY <2>1 DEF Running, TypeOK, JobState
  <2> QED  BY <1>2, <2>2, <2>3 DEF Register, InflightIsLive, GoesOn, TypeOK
<1>3. ASSUME NEW j \in Jobs,
             Hold(j) \/ Poll(j) \/ Conflict(j) \/ Save(j) \/ Exit(j) \/ GiveUp(j)
      PROVE  InflightIsLive'
  <2>1. \E pc \in Running : Step(j, pc) \/ \E why \in Ends : End(j, pc, why)
    BY <1>3 DEF Hold, Poll, Conflict, Save, Exit, GiveUp, Running, Holding, Ends
  <2>2. \A k \in Jobs : GoesOn(k)
    BY <2>1, StepGoesOn DEF TypeOK
  <2> QED  BY <1>3, <2>2, MarksKept DEF Hold, Poll, Conflict, Save, Exit, GiveUp
<1>4. ASSUME NEW j \in Jobs, Check(j) \/ SaveRead(j) PROVE InflightIsLive'
  <2>1. \A k \in Jobs : GoesOn(k)
    <3>1. CASE Check(j)
      BY <3>1 DEF Check, Step, GoesOn, Running, Holding, TypeOK, JobState
    <3>2. CASE SaveRead(j)
      BY <3>2 DEF SaveRead, GoesOn, TypeOK, JobState
    <3> QED  BY <1>4, <3>1, <3>2
  <2> QED  BY <1>4, <2>1, MarksKept DEF Check, SaveRead
<1>5. ASSUME NEW j \in Jobs, Finally(j) PROVE InflightIsLive'
  <2>1. \A k \in Jobs \ {j} : job'[k] = job[k]
    BY <1>5 DEF Finally, TypeOK
  <2>2. \A s \in Servers : inflight'[s] # NoTitle =>
          inflight'[s] = inflight[s] /\ ~(s = job[j].srv /\ inflight[s] = job[j].key)
    BY <1>5 DEF Finally, TypeOK, JobState
  <2> QED  BY <2>1, <2>2 DEF InflightIsLive
<1>6. ASSUME NEW s \in Servers, Cancel(s) PROVE InflightIsLive'
  <2>1. \A k \in Jobs : GoesOn(k)
    <3>1. CASE UNCHANGED job
      BY <3>1 DEF GoesOn
    <3>2. CASE \E pc \in Running : End(handle[s], pc, "canceled")
      <4>1. handle[s] \in Jobs
        BY <1>6 DEF Cancel, TypeOK
      <4> QED  BY <3>2, <4>1, StepGoesOn DEF TypeOK, Ends
    <3> QED  BY <1>6, <3>1, <3>2 DEF Cancel, Running, Holding
  <2> QED  BY <1>6, <2>1 DEF Cancel, GoesOn, InflightIsLive, TypeOK
<1>7. ASSUME NEW s \in Servers, Crash(s) PROVE InflightIsLive'
  <2>1. \A k \in Jobs : job[k].srv # s => job'[k] = job[k]
    BY <1>7 DEF Crash, TypeOK
  <2> QED  BY <1>7, <2>1 DEF Crash, InflightIsLive, TypeOK
<1>8. CASE job' = job /\ inflight' = inflight
  BY <1>8 DEF InflightIsLive
<1>9. ASSUME NEW s \in Servers, Lifespan(s) PROVE InflightIsLive'
  BY <1>8, <1>9 DEF Lifespan, Sweep, SweepHeld, SweepRead, SweepWrite, SweepConflict, BootStep
<1>10. ASSUME NEW t \in Titles, SelectTitle(t) PROVE InflightIsLive'
  BY <1>8, <1>10 DEF SelectTitle
<1>11. ASSUME NEW j \in Jobs, Retake(j) PROVE InflightIsLive'
  BY <1>8, <1>11 DEF Retake
<1>12. CASE SelectIntent \/ Stall \/ Expire \/ GraceEnds \/ UNCHANGED vars
  BY <1>8, <1>12 DEF SelectIntent, Stall, Expire, GraceEnds, vars
<1> QED  BY <1>1, <1>2, <1>3, <1>4, <1>5, <1>6, <1>7, <1>9, <1>10, <1>11, <1>12 DEF Next, Job

\* Whatever the servers, requests, cancels, crashes and choices: a key that is
\* marked as in flight has a live job in that server.
THEOREM NoMarkOutlivesItsJob == Spec => []InflightIsLive
<1>1. Init => LiveInv
  <2>1. Init => \A j \in Jobs : job[j].pc = "unused"
    BY DEF Init, NotAsked
  <2> QED  BY <2>1, InitType DEF Init, LiveInv, FreshJobs, InflightIsLive
<1>2. LiveInv /\ [Next]_vars => LiveInv'
  BY NextType, FreshNext, LiveNext DEF LiveInv
<1>3. LiveInv => InflightIsLive
  BY DEF LiveInv
<1> QED  BY <1>1, <1>2, <1>3, PTL DEF Spec

-----------------------------------------------------------------------------
\* The title of a result.  A job whose save would still succeed works on the
\* title the post has, unless it was overtaken.
SeenPast == \A j \in Jobs : job[j].seen <= post.version

KeyIsTitle ==
  \A j \in Jobs :
    job[j].pc = "save" /\ ~overtaken /\ job[j].seen \in {NotRead, post.version} =>
      job[j].key = post.title

GapInv == TypeOK /\ SeenPast /\ KeyIsTitle /\ StaleOnlyThroughTheGap

\* k is not at its save, or is where it was.
NotAtSave(k) == job'[k].pc # "save" \/ job'[k] = job[k]

\* A step that leaves the document alone and brings nobody to a save.
LEMMA GapKept ==
  ASSUME GapInv, post' = post, overtaken' = overtaken,
         \A k \in Jobs : NotAtSave(k) /\ job'[k].seen \in {job[k].seen, NotRead}
  PROVE  SeenPast' /\ KeyIsTitle' /\ StaleOnlyThroughTheGap'
<1>1. post.version \in Nat /\ \A k \in Jobs : job[k].seen \in Nat
  BY DEF GapInv, TypeOK, PostState, JobState
<1> QED  BY <1>1 DEF GapInv, SeenPast, KeyIsTitle, StaleOnlyThroughTheGap, NotAtSave, NotRead

LEMMA EndLeaves ==
  ASSUME job \in [Jobs -> JobState], NEW j \in Jobs, NEW pc \in JobSteps \ {"save"},
         Step(j, pc) \/ \E why \in Ends : End(j, pc, why)
  PROVE  \A k \in Jobs : NotAtSave(k) /\ job'[k].seen \in {job[k].seen, NotRead}
BY Stepped DEF NotAtSave

\* A step that writes the document: those who have read it are too late.
LEMMA GapWritten ==
  ASSUME GapInv, post'.version = post.version + 1, post'.title = post.title,
         overtaken' = overtaken,
         \A k \in Jobs : NotAtSave(k) /\ job'[k].seen \in {job[k].seen, NotRead}
  PROVE  SeenPast' /\ KeyIsTitle'
<1>1. post.version \in Nat /\ \A k \in Jobs : job[k].seen \in Nat /\ job[k].seen <= post.version
  BY DEF GapInv, SeenPast, TypeOK, PostState, JobState
<1>2. \A k \in Jobs : job'[k].seen <= post.version /\ job'[k].seen # post.version + 1
  BY <1>1 DEF NotRead
<1> QED  BY <1>1, <1>2 DEF GapInv, SeenPast, KeyIsTitle, NotAtSave, NotRead

LEMMA GapNext ==
  ASSUME GapInv, [Next]_vars
  PROVE  SeenPast' /\ KeyIsTitle' /\ StaleOnlyThroughTheGap'
<1>1. post.version \in Nat /\ (\A k \in Jobs : job[k].seen \in Nat /\ job[k].seen <= post.version)
  BY DEF GapInv, SeenPast, TypeOK, PostState, JobState
<1> DEFINE Goal == SeenPast' /\ KeyIsTitle' /\ StaleOnlyThroughTheGap'
<1>2. ASSUME NEW s \in Servers, Request(s) PROVE Goal
  <2>1. \A k \in Jobs : NotAtSave(k) /\ job'[k].seen \in {job[k].seen, NotRead}
    <3>1. [NotAsked EXCEPT !.pc = "register", !.srv = s, !.key = post.title].pc = "register"
      BY DEF NotAsked
    <3>2. [NotAsked EXCEPT !.pc = "register", !.srv = s, !.key = post.title].seen = NotRead
      BY DEF NotAsked
    <3> QED  BY <1>2, <3>1, <3>2 DEF Request, NotAtSave, GapInv, TypeOK
  <2> QED  BY <1>2, <2>1, GapKept DEF Request
<1>3. ASSUME NEW j \in Jobs,
             Register(j) \/ Hold(j) \/ Poll(j) \/ Conflict(j) \/ Exit(j) \/ GiveUp(j)
      PROVE  Goal
  <2>1. \E pc \in JobSteps \ {"save"} : Step(j, pc) \/ \E why \in Ends : End(j, pc, why)
    BY <1>3 DEF Register, Hold, Poll, Conflict, Exit, GiveUp, JobSteps, Running, Holding, Ends
  <2>2. \A k \in Jobs : NotAtSave(k) /\ job'[k].seen \in {job[k].seen, NotRead}
    BY <2>1, EndLeaves DEF GapInv, TypeOK
  <2> QED  BY <1>3, <2>2, GapKept DEF Register, Hold, Poll, Conflict, Exit, GiveUp
<1>4. ASSUME NEW j \in Jobs, Check(j) PROVE Goal
  <2>1. CASE post.title # job[j].key
    <3>1. Step(j, "exit")
      BY <1>4, <2>1 DEF Check
    <3> QED  BY <1>4, <3>1, EndLeaves, GapKept DEF Check, GapInv, TypeOK, JobSteps, Running, Holding
  <2>2. CASE post.title = job[j].key
    <3>1. PICK ok \in BOOLEAN : job' = [job EXCEPT ![j].pc = "save", ![j].ok = ok]
      BY <1>4, <2>2 DEF Check
    <3>2. \A k \in Jobs : job'[k].seen = job[k].seen /\ job'[k].key = job[k].key
                          /\ (k # j => job'[k] = job[k])
      BY <3>1 DEF GapInv, TypeOK, JobState
    <3> QED  BY <1>1, <1>4, <2>2, <3>2
             DEF Check, GapInv, SeenPast, KeyIsTitle, StaleOnlyThroughTheGap
  <2> QED  BY <2>1, <2>2
<1>5. ASSUME NEW j \in Jobs, SaveRead(j) PROVE Goal
  <2>1. \A k \in Jobs : job'[k].key = job[k].key /\ job'[k].pc = job[k].pc
                        /\ (k # j => job'[k] = job[k]) /\ job'[j].seen = post.version
    BY <1>5 DEF SaveRead, GapInv, TypeOK, JobState
  <2> QED  BY <1>1, <1>5, <2>1
           DEF SaveRead, GapInv, SeenPast, KeyIsTitle, StaleOnlyThroughTheGap
<1>6. ASSUME NEW j \in Jobs, Save(j) PROVE Goal
  <2>1. \A k \in Jobs : NotAtSave(k) /\ job'[k].seen \in {job[k].seen, NotRead}
    BY <1>6, EndLeaves DEF Save, GapInv, TypeOK, Ends, JobSteps, Running, Holding
  <2>2. /\ post'.version = post.version + 1 /\ post'.title = post.title
        /\ post'.result = [title |-> job[j].key, ok |-> job[j].ok]
    BY <1>6 DEF Save, GapInv, TypeOK, PostState
  <2>3. overtaken' = overtaken
    BY <1>6 DEF Save
  <2>4. ~overtaken => job[j].key = post.title
    BY <1>6 DEF Save, GapInv, KeyIsTitle
  <2>5. SeenPast' /\ KeyIsTitle'
    BY <2>1, <2>2, <2>3, GapWritten
  <2>6. StaleOnlyThroughTheGap'
    BY <2>2, <2>3, <2>4 DEF StaleOnlyThroughTheGap
  <2> QED  BY <2>5, <2>6
<1>7. ASSUME NEW j \in Jobs, Finally(j) PROVE Goal
  <2>1. \A k \in Jobs : NotAtSave(k) /\ job'[k].seen \in {job[k].seen, NotRead}
    <3>1. Over(job[j].end).pc = "done" /\ Over(job[j].end).seen = NotRead
      BY DEF Over, NotAsked
    <3> QED  BY <1>7, <3>1 DEF Finally, NotAtSave, GapInv, TypeOK
  <2> QED  BY <1>7, <2>1, GapKept DEF Finally
<1>8. ASSUME NEW s \in Servers, Cancel(s) PROVE Goal
  <2>1. \A k \in Jobs : NotAtSave(k) /\ job'[k].seen \in {job[k].seen, NotRead}
    <3>1. handle[s] \in Jobs
      BY <1>8 DEF Cancel, GapInv, TypeOK
    <3>2. \/ UNCHANGED job
          \/ End(handle[s], "exit", "canceled") \/ End(handle[s], "finally", "canceled")
      BY <1>8 DEF Cancel
    <3> QED  BY <3>1, <3>2, EndLeaves
             DEF GapInv, TypeOK, NotAtSave, Ends, JobSteps, Running, Holding
  <2> QED  BY <1>8, <2>1, GapKept DEF Cancel
<1>9. ASSUME NEW t \in Titles, SelectTitle(t) PROVE Goal
  <2>1. /\ post'.version = post.version + 1 /\ post'.title = t
        /\ post'.result = NoResult /\ job' = job
    BY <1>9 DEF SelectTitle, GapInv, TypeOK, PostState
  <2>2. ~overtaken' => ~overtaken /\ \A k \in Jobs :
          job[k].pc = "save" /\ job[k].seen = NotRead => job[k].key = t
    BY <1>9 DEF SelectTitle
  <2>3. \A k \in Jobs : job[k].seen # post.version + 1
    BY <1>1
  <2> QED  BY <1>1, <2>1, <2>2, <2>3 DEF SeenPast, KeyIsTitle, StaleOnlyThroughTheGap
<1>10. CASE SelectIntent
  <2>1. /\ post'.version = post.version + 1 /\ post'.title = post.title
        /\ post'.result = post.result /\ job' = job /\ overtaken' = overtaken
    BY <1>10 DEF SelectIntent, GapInv, TypeOK, PostState
  <2> QED  BY <2>1, GapWritten DEF NotAtSave, GapInv, StaleOnlyThroughTheGap
<1>11. ASSUME NEW s \in Servers, Crash(s) PROVE Goal
  <2>1. \A k \in Jobs : NotAtSave(k) /\ job'[k].seen \in {job[k].seen, NotRead}
    <3>1. Over("died").pc = "done" /\ Over("died").seen = NotRead
      BY DEF Over, NotAsked
    <3> QED  BY <1>11, <3>1 DEF Crash, NotAtSave, GapInv, TypeOK
  <2> QED  BY <1>11, <2>1, GapKept DEF Crash
<1>12. ASSUME NEW s \in Servers, Lifespan(s) PROVE Goal
  <2>1. job' = job /\ overtaken' = overtaken
    BY <1>12 DEF Lifespan, Sweep, SweepHeld, SweepRead, SweepWrite, SweepConflict, BootStep
  <2>2. CASE post' = post
    BY <2>1, <2>2, GapKept DEF NotAtSave
  <2>3. CASE SweepWrite(s)
    <3>1. /\ post'.version = post.version + 1 /\ post'.title = post.title
          /\ post'.result.title = post.title
      BY <2>3 DEF SweepWrite, GapInv, TypeOK, PostState
    <3> QED  BY <2>1, <3>1, GapWritten DEF NotAtSave, StaleOnlyThroughTheGap
  <2> QED  BY <1>12, <2>2, <2>3 DEF Lifespan, Sweep, SweepHeld, SweepRead, SweepConflict
<1>13. CASE post' = post /\ job' = job /\ overtaken' = overtaken
  BY <1>13, GapKept DEF NotAtSave
<1>14. ASSUME NEW j \in Jobs, Retake(j) PROVE Goal
  BY <1>13, <1>14 DEF Retake
<1>15. CASE Stall \/ Expire \/ GraceEnds \/ UNCHANGED vars
  BY <1>13, <1>15 DEF Stall, Expire, GraceEnds, vars
<1> QED  BY <1>2, <1>3, <1>4, <1>5, <1>6, <1>7, <1>8, <1>9, <1>10, <1>11, <1>12, <1>14, <1>15
         DEF Next, Job

\* For any number of titles, requests and servers: a result is of the title the
\* post has, unless a title was chosen between stale() and the read of a save.
THEOREM ResultsAreOfTheirTitle == Spec => []StaleOnlyThroughTheGap
<1>1. Init => GapInv
  <2>1. Init => \A j \in Jobs : job[j].pc = "unused" /\ job[j].seen = NotRead
    BY DEF Init, NotAsked
  <2>2. Init => post.version = 1 /\ post.result = NoResult
    BY DEF Init
  <2> QED  BY <2>1, <2>2, InitType DEF GapInv, SeenPast, KeyIsTitle, StaleOnlyThroughTheGap, NotRead
<1>2. GapInv /\ [Next]_vars => GapInv'
  BY NextType, GapNext DEF GapInv
<1>3. GapInv => StaleOnlyThroughTheGap
  BY DEF GapInv
<1> QED  BY <1>1, <1>2, <1>3, PTL DEF Spec
=============================================================================
