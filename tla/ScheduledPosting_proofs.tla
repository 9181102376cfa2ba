----------------------- MODULE ScheduledPosting_proofs -----------------------
(***************************************************************************)
(* Proofs about ScheduledPosting, for every set of jobs, any requests, stages, *)
(* attempts and crashes:                                                     *)
(*                                                                          *)
(*   ScheduleTypes         the type invariant of the documents and the copies; *)
(*   DeletedStays          a deleted job does not come back;                 *)
(*   CompletedHasAnArticle a job shown as COMPLETED is on Naver;              *)
(*   RunningHasATask       without a crash, a job shown as RUNNING has a task. *)
(***************************************************************************)
EXTENDS ScheduledPosting, TLAPS

-----------------------------------------------------------------------------
(* What an actor carries, by its program counter.  A copy of a job is a job, or *)
(* None when the job is gone for good; it is certainly a job where it is about  *)
(* to be changed and kept.                                                    *)

\* RESCHEDULABLE_JOB_STATUSES: no task is at work, nothing is published.
Reschedulable == JobStatuses \ {"RUNNING", "PUBLISHING", "COMPLETED", "CANCELED"}

CarriesJob(r, docs) ==
  /\ r.pc \in {"load", "run", "fresh", "mark", "check", "post", "create", "link", "stage",
              "generated", "stamp", "publishStage", "begin", "publishing", "start", "click",
              "log", "finish", "failPublish", "endFind", "endSave", "endBatch", "endMark"} =>
       r.job \in Jobs
  /\ r.pc \in {"run", "fresh", "mark", "post", "create", "link", "stamp", "retry", "cancel",
              "reschedule"} =>
       r.mine \in Job
  /\ r.pc = "reschedule" => r.mine.status \in Reschedulable
  /\ r.pc = "check" /\ r.next = "post" => r.mine \in Job
  /\ \/ r.pc \in {"stage", "publishStage", "publishing", "endSave"}
     \/ r.pc = "check" /\ r.next \in {"stage", "publishStage"}
   => r.mine \in Job \/ (r.mine = None /\ docs[r.job] = None)

\* How a task may leave a job.
Outcomes == JobStatuses \ {"RUNNING", "PUBLISHING"}

CarriesGoal(r) ==
  /\ r.pc \in {"check", "stamp"} =>
       /\ r.next \in {"post", "stage", "publishStage", "end"}
       /\ r.next = "end" => r.goal \in Outcomes
       /\ r.pc = "stamp" => r.next \in {"publishStage", "end"}
  /\ r.pc = "stage" => r.next = "stage"
  /\ r.pc \in {"endFind", "endSave"} => r.goal \in Outcomes \cup {"again"}
  /\ r.pc \in {"log", "finish"} => r.goal \in {"posted", "human", "failed"}
  /\ r.pc \in {"finishSave", "finishBatch"} \/ (r.pc = "listSave" /\ r.next = "finishBatch") =>
       r.goal \in BatchStatuses

CarriesBatch(r) ==
  /\ r.pc \in {"run", "fresh", "mark", "endMark", "finishSave", "settle", "pause", "resume", "stop",
              "retryBatch", "rescheduleBatch", "discard", "discardPost", "discardBatch",
              "listSave"} =>
       r.seen \in Batch
  /\ r.pc = "countSave" => r.mine \in Batch
  /\ r.pc \in {"cancelEach", "count", "countSave"} =>
       r.next \in {"settle", "stopFind", "idle"} /\ (r.next = "settle" => r.seen \in Batch)
  /\ r.pc = "listSave" => r.next \in {"idle", "finishBatch", "listSave"}

Carries(r, docs) == r \in Local /\ CarriesJob(r, docs) /\ CarriesGoal(r) /\ CarriesBatch(r)

Documented ==
  /\ jobs \in [Jobs -> Job \cup {None}]
  /\ batch \in Batch \cup {None}
  /\ posts \in [Jobs -> Post]
  /\ due \subseteq Jobs
  /\ requests \in Nat /\ crashes \in Nat

ScheduleInv ==
  Documented /\ proc \in [Procs -> Local] /\ \A p \in Procs : Carries(proc[p], jobs)

Kept == \A j \in Jobs : jobs[j] = None => jobs'[j] = None

-----------------------------------------------------------------------------
LEMMA IdleCarries == Idle \in Local /\ \A docs : Carries(Idle, docs)
<1>1. NoList \in [Jobs -> Job \cup {None}] /\ 0 \in 0..Stages
  BY ScheduleAssumption DEF NoList
<1>2. Idle \in Local
  BY <1>1 DEF Idle, Local, Points, Goals
<1> QED  BY <1>2 DEF Idle, Carries, CarriesJob, CarriesGoal, CarriesBatch

LEMMA InitSchedule == Init => ScheduleInv
<1> SUFFICES ASSUME Init PROVE ScheduleInv
  OBVIOUS
<1>1. [status |-> "WAITING", post |-> FALSE, made |-> FALSE, tries |-> 0] \in Job
  BY DEF Job, JobStatuses
<1>2. [status |-> "READY", stop |-> FALSE, pause |-> FALSE, cur |-> None] \in Batch
  BY DEF Batch, BatchStatuses, ActiveBatch
<1>3. [state |-> "none", logged |-> FALSE, live |-> 0] \in Post
  BY DEF Post
<1>4. Documented
  BY <1>1, <1>2, <1>3 DEF Init, Documented
<1>5. proc \in [Procs -> Local] /\ \A p \in Procs : proc[p] = Idle
  BY IdleCarries DEF Init
<1> QED  BY <1>4, <1>5, IdleCarries DEF ScheduleInv

\* A save from a copy keeps the jobs jobs, and brings none back.
LEMMA SaveJobType ==
  ASSUME ScheduleInv, NEW p \in Procs, NEW r, SaveJob(p, r),
         r \in Job \/ jobs[proc[p].job] = None
  PROVE  jobs' \in [Jobs -> Job \cup {None}] /\ Kept
BY DEF ScheduleInv, Documented, SaveJob, Kept

\* One actor moves: the others' copies stay what they were.
LEMMA BecomeKeeps ==
  ASSUME ScheduleInv, NEW p \in Procs, NEW r, Become(p, r), Carries(r, jobs'),
         Documented', Kept
  PROVE  ScheduleInv'
<1>1. proc' \in [Procs -> Local]
  BY DEF ScheduleInv, Become, Carries
<1>2. ASSUME NEW q \in Procs PROVE Carries(proc'[q], jobs')
  <2>1. CASE q = p
    <3>1. proc'[q] = r
      BY <2>1 DEF ScheduleInv, Become
    <3> QED  BY <3>1
  <2>2. CASE q # p
    <3>1. proc'[q] = proc[q] /\ Carries(proc[q], jobs)
      BY <2>2 DEF ScheduleInv, Become
    <3> QED  BY <3>1 DEF Carries, CarriesJob, CarriesGoal, CarriesBatch, Kept
  <2> QED  BY <2>1, <2>2
<1> QED  BY <1>1, <1>2 DEF ScheduleInv

LEMMA DocumentsKept ==
  ASSUME ScheduleInv, UNCHANGED <<Documents, Counters>>
  PROVE  Documented' /\ Kept
BY DEF ScheduleInv, Documented, Documents, Counters, Kept

LEMMA ReadKeeps ==
  ASSUME ScheduleInv, NEW p \in Procs, NEW pc, NEW r, JobRead(p, pc, r), Carries(r, jobs)
  PROVE  ScheduleInv' /\ Kept
<1>1. Become(p, r) /\ jobs' = jobs /\ Documented' /\ Kept
  BY DocumentsKept DEF JobRead, Documents
<1> QED  BY <1>1, BecomeKeeps

LEMMA SaveKeeps ==
  ASSUME ScheduleInv, NEW p \in Procs, NEW d, SaveJob(p, d), d \in Job \/ jobs[proc[p].job] = None,
         NEW r, Become(p, r), Carries(r, jobs'), posts' \in [Jobs -> Post], due' \in SUBSET Jobs,
         UNCHANGED <<batch, requests, crashes>>
  PROVE  ScheduleInv' /\ Kept
<1>1. jobs' \in [Jobs -> Job \cup {None}] /\ Kept
  BY SaveJobType
<1>2. Documented'
  BY <1>1 DEF ScheduleInv, Documented
<1> QED  BY <1>1, <1>2, BecomeKeeps

LEMMA BatchKeeps ==
  ASSUME ScheduleInv, NEW p \in Procs, NEW b \in Batch \cup {None}, SaveBatch(b),
         NEW r, Become(p, r), Carries(r, jobs), UNCHANGED <<jobs, posts, Counters>>
  PROVE  ScheduleInv' /\ Kept
<1>1. Documented' /\ Kept
  BY DEF ScheduleInv, Documented, Counters, SaveBatch, Kept
<1> QED  BY <1>1, BecomeKeeps

-----------------------------------------------------------------------------
LEMMA RunKeeps ==
  ASSUME ScheduleInv, NEW p \in Procs, Load(p) \/ Run(p) \/ Fresh(p) \/ Mark(p)
  PROVE  ScheduleInv' /\ Kept
<1>1. Carries(proc[p], jobs)
  BY DEF ScheduleInv
<1>2. proc[p].job \in Jobs
  BY <1>1 DEF Carries, CarriesJob, Load, Run, Fresh, Mark, JobRead, At
<1>3. Carries(Over(p), jobs)
  BY IdleCarries DEF Carries, CarriesJob, CarriesGoal, CarriesBatch, Over, Idle, Local, Points
<1>4. CASE Load(p)
  <2>1. CASE \/ jobs[proc[p].job] = None \/ jobs[proc[p].job].status \in {"CANCELED", "COMPLETED"}
             \/ batch = None
    BY <1>3, <1>4, <2>1, ReadKeeps DEF Load
  <2>2. CASE ~(\/ jobs[proc[p].job] = None \/ jobs[proc[p].job].status \in {"CANCELED", "COMPLETED"}
               \/ batch = None)
    <3>1. PICK r : r = [proc[p] EXCEPT !.pc = "run", !.mine = jobs[proc[p].job], !.seen = batch]
      OBVIOUS
    <3>2. jobs[proc[p].job] \in Job /\ batch \in Batch
      BY <1>2, <2>2 DEF ScheduleInv, Documented
    <3>3. "run" \in Points
      BY DEF Points
    <3>4. r \in Local
      BY <1>1, <3>1, <3>2, <3>3 DEF Carries, Local
    <3>5. r.pc = "run" /\ r.job = proc[p].job /\ r.mine \in Job /\ r.seen \in Batch
      BY <1>1, <3>1, <3>2 DEF Carries, Local
    <3>6. Carries(r, jobs)
      BY <1>2, <3>4, <3>5 DEF Carries, CarriesJob, CarriesGoal, CarriesBatch
    <3> QED  BY <1>4, <2>2, <3>1, <3>6, ReadKeeps DEF Load
  <2> QED  BY <2>1, <2>2
<1>5. CASE Run(p)
  <2>1. PICK d : d = [proc[p].mine EXCEPT !.status = "RUNNING"]
    OBVIOUS
  <2>2. PICK r : r = [proc[p] EXCEPT !.pc = "fresh", !.mine = d]
    OBVIOUS
  <2>3. d \in Job /\ proc[p].seen \in Batch
    BY <1>1, <1>5, <2>1 DEF Carries, CarriesJob, CarriesBatch, Run, At, Job, JobStatuses
  <2>4. Carries(r, jobs')
    BY <1>1, <1>2, <2>2, <2>3 DEF Carries, CarriesJob, CarriesGoal, CarriesBatch, Local, Points
  <2>5. SaveJob(p, d) /\ Become(p, r) /\ UNCHANGED <<batch, posts, Counters>>
    BY <1>5, <2>1, <2>2 DEF Run
  <2> QED  BY <2>3, <2>4, <2>5, SaveKeeps DEF ScheduleInv, Documented, Counters
<1>6. CASE Fresh(p)
  <2>1. CASE jobs[proc[p].job] = None
    BY <1>3, <1>6, <2>1, ReadKeeps DEF Fresh
  <2>2. CASE jobs[proc[p].job] # None
    <3>1. proc[p].pc = "fresh" /\ proc[p].seen \in Batch /\ batch \in Batch \cup {None}
      BY <1>1, <1>6 DEF Fresh, JobRead, At, ScheduleInv, Documented, Carries, CarriesBatch
    <3>2. PICK seen : seen = IF batch = None THEN proc[p].seen ELSE batch
      OBVIOUS
    <3>3. PICK r : r = [proc[p] EXCEPT !.pc = "mark", !.seen = seen]
      OBVIOUS
    <3>4. seen \in Batch
      BY <3>1, <3>2
    <3>5. Carries(r, jobs)
      BY <1>1, <1>2, <3>1, <3>3, <3>4 DEF Carries, CarriesJob, CarriesGoal, CarriesBatch, Local, Points
    <3>6. JobRead(p, "fresh", r)
      BY <1>6, <2>2, <3>2, <3>3 DEF Fresh
    <3> QED  BY <3>5, <3>6, ReadKeeps
  <2> QED  BY <2>1, <2>2
<1>7. CASE Mark(p)
  <2>1. PICK b : b = [proc[p].seen EXCEPT !.status = "RUNNING", !.cur = proc[p].job]
    OBVIOUS
  <2>2. PICK r : r = [proc[p] EXCEPT !.pc = "check", !.next = "post", !.seen = None]
    OBVIOUS
  <2>3. b \in Batch
    BY <1>1, <1>2, <1>7, <2>1 DEF Carries, CarriesBatch, Mark, At, Batch, BatchStatuses, ActiveBatch
  <2>4. proc[p].mine \in Job /\ "check" \in Points /\ "post" \in Points \cup {"end"}
    BY <1>1, <1>7 DEF Carries, CarriesJob, Mark, At, Points
  <2>5. /\ r \in Local /\ r.pc = "check" /\ r.next = "post" /\ r.job = proc[p].job
        /\ r.mine = proc[p].mine
    BY <1>1, <2>2, <2>4 DEF Carries, Local
  <2>6. Carries(r, jobs)
    BY <1>2, <2>4, <2>5 DEF Carries, CarriesJob, CarriesGoal, CarriesBatch
  <2> QED  BY <1>7, <2>1, <2>2, <2>3, <2>6, BatchKeeps DEF Mark
<1> QED  BY <1>4, <1>5, <1>6, <1>7

\* Where a task goes when it leaves the pipeline.
LEMMA EndingCarries ==
  ASSUME ScheduleInv, NEW p \in Procs, proc[p].job \in Jobs,
         NEW status \in Outcomes \cup {"again"}
  PROVE  /\ \A docs : Carries(Ending(p, "endFind", status), docs)
         /\ Carries([Ending(p, "endSave", status) EXCEPT !.mine = jobs[proc[p].job]], jobs)
<1>1. NoList \in [Jobs -> Job \cup {None}] /\ 0 \in 0..Stages
  BY ScheduleAssumption DEF NoList
<1>2. jobs[proc[p].job] \in Job \cup {None}
  BY DEF ScheduleInv, Documented
<1>3. \A docs : Carries(Ending(p, "endFind", status), docs)
  BY <1>1 DEF Outcomes, Carries, CarriesJob, CarriesGoal, CarriesBatch, Ending, Idle, Local, Points, Goals
<1>4. Carries([Ending(p, "endSave", status) EXCEPT !.mine = jobs[proc[p].job]], jobs)
  BY <1>1, <1>2 DEF Outcomes, Carries, CarriesJob, CarriesGoal, CarriesBatch, Ending, Idle, Local, Points,
     Goals
<1> QED  BY <1>3, <1>4

LEMMA OverCarries == ASSUME NEW p PROVE \A docs : Carries(Over(p), docs)
BY IdleCarries DEF Carries, CarriesJob, CarriesGoal, CarriesBatch, Over, Idle, Local, Points

LEMMA PostsKeep ==
  ASSUME ScheduleInv, NEW p \in Procs, NEW r, Become(p, r), Carries(r, jobs),
         posts' \in [Jobs -> Post], UNCHANGED <<jobs, batch, Counters>>
  PROVE  ScheduleInv' /\ Kept
<1>1. Documented' /\ Kept
  BY DEF ScheduleInv, Documented, Counters, Kept
<1> QED  BY <1>1, BecomeKeeps

LEMMA DeletePostType ==
  ASSUME ScheduleInv, NEW j, DeletePost(j)
  PROVE  posts' \in [Jobs -> Post]
BY DEF ScheduleInv, Documented, DeletePost, Post

LEMMA CheckKeeps ==
  ASSUME ScheduleInv, NEW p \in Procs, Check(p)
  PROVE  ScheduleInv' /\ Kept
<1>1. Carries(proc[p], jobs) /\ proc[p].pc = "check"
  BY DEF ScheduleInv, Check, At
<1>2. proc[p].job \in Jobs
  BY <1>1 DEF Carries, CarriesJob
<1>3. posts' \in [Jobs -> Post] /\ UNCHANGED <<jobs, batch, Counters>>
  BY DeletePostType DEF Check, ScheduleInv, Documented
<1>4. ASSUME NEW status \in Outcomes, EndNow(p, status) PROVE ScheduleInv' /\ Kept
  BY <1>2, <1>3, <1>4, EndingCarries, PostsKeep DEF EndNow
<1>5. ASSUME Goto(p, proc[p].next), proc[p].next # "end" PROVE ScheduleInv' /\ Kept
  <2>1. PICK r : r = [proc[p] EXCEPT !.pc = proc[p].next]
    OBVIOUS
  <2>2. Carries(r, jobs)
    BY <1>1, <1>2, <1>5, <2>1 DEF Carries, CarriesJob, CarriesGoal, CarriesBatch, Local, Points
  <2> QED  BY <1>3, <1>5, <2>1, <2>2, PostsKeep DEF Goto
<1>6. proc[p].next = "end" => proc[p].goal \in Outcomes
  BY <1>1 DEF Carries, CarriesGoal
<1> QED  BY <1>4, <1>5, <1>6 DEF Check, Outcomes, JobStatuses

LEMMA FinishedCarries ==
  ASSUME ScheduleInv, NEW p \in Procs, proc[p].job \in Jobs
  PROVE  Carries(Finished(p), jobs)
<1> DEFINE job == jobs[proc[p].job]
           publish == Destination(p) = "publish"
           pc == IF job # None /\ ~job.made THEN "stamp" ELSE "check"
           mine == IF job # None /\ (publish \/ ~job.made) THEN job ELSE None
           next == IF publish THEN "publishStage" ELSE "end"
<1>1. proc[p] \in Local
  BY DEF ScheduleInv
<1>2. job \in Job \cup {None}
  BY DEF ScheduleInv, Documented
<1>3. Destination(p) \in {"COMPLETED", "READY_TO_PUBLISH", "publish"}
  BY DEF Destination
<1>4. PICK r : r = [proc[p] EXCEPT !.pc = pc, !.mine = mine, !.goal = Destination(p), !.next = next]
  OBVIOUS
<1>5. r = Finished(p)
  BY <1>4 DEF Finished
<1>6. /\ pc \in {"stamp", "check"} /\ next \in {"publishStage", "end"}
      /\ next = "end" => Destination(p) \in Outcomes
      /\ mine \in Job \cup {None}
      /\ pc = "stamp" => mine \in Job
      /\ next = "publishStage" => mine \in Job \/ (mine = None /\ job = None)
  BY <1>2, <1>3 DEF Outcomes, JobStatuses
<1>7. Destination(p) \in Goals
  BY <1>3 DEF Goals, Outcomes, JobStatuses
<1>8. r.job = proc[p].job /\ r.pc = pc /\ r.mine = mine /\ r.next = next /\ r.goal = Destination(p)
  BY <1>1, <1>4 DEF Local
<1> HIDE DEF job, publish, pc, mine, next
<1>9. pc \in Points /\ next \in Points \cup {"end"} /\ mine \in Job \cup Batch \cup {None}
  BY <1>6 DEF Points
<1>10. r \in Local
  BY <1>1, <1>4, <1>7, <1>9 DEF Local
<1>11. Carries(r, jobs)
  BY <1>6, <1>8, <1>10 DEF job, Carries, CarriesJob, CarriesGoal, CarriesBatch
<1> QED  BY <1>5, <1>11

\* What an actor carries does not depend on its list or on the slow steps it has seen.
Alike(r, t) ==
  /\ r.pc = t.pc /\ r.job = t.job /\ r.mine = t.mine /\ r.seen = t.seen
  /\ r.next = t.next /\ r.goal = t.goal

LEMMA AlikeCarries ==
  ASSUME NEW r \in Local, NEW t, NEW docs, Alike(r, t), Carries(t, docs)
  PROVE  Carries(r, docs)
BY DEF Alike, Carries, CarriesJob, CarriesGoal, CarriesBatch

\* One actor moves, and with it the end of a slow step that a request has seen begin.
LEMMA SlowlyKeeps ==
  ASSUME ScheduleInv, NEW p \in Procs, NEW r, BecomeSlowly(p, r), Carries(r, jobs'),
         Documented', Kept
  PROVE  ScheduleInv'
<1>1. User \in Procs
  BY DEF Procs
<1>2. PICK f : f = [proc EXCEPT ![p] = r]
  OBVIOUS
<1>3. f \in [Procs -> Local] /\ \A q \in Procs : Carries(f[q], jobs')
  <2>1. f \in [Procs -> Local]
    BY <1>2 DEF ScheduleInv, Carries
  <2>2. ASSUME NEW q \in Procs PROVE Carries(f[q], jobs')
    <3>1. CASE q = p
      BY <1>2, <3>1 DEF ScheduleInv
    <3>2. CASE q # p
      <4>1. f[q] = proc[q] /\ Carries(proc[q], jobs)
        BY <1>2, <3>2 DEF ScheduleInv
      <4> QED  BY <4>1 DEF Carries, CarriesJob, CarriesGoal, CarriesBatch, Kept
    <3> QED  BY <3>1, <3>2
  <2> QED  BY <2>1, <2>2
<1>4. PICK S : S = f[User].slow \ {p}
  OBVIOUS
<1>5. proc' = [f EXCEPT ![User].slow = S]
  BY <1>1, <1>2, <1>4 DEF BecomeSlowly, ScheduleInv
<1>6. S \in SUBSET Tasks
  BY <1>1, <1>3, <1>4 DEF Local
<1>7. PICK t : t = [f[User] EXCEPT !.slow = S]
  OBVIOUS
<1>8. t \in Local /\ Alike(t, f[User])
  BY <1>1, <1>3, <1>6, <1>7 DEF Local, Alike
<1>9. Carries(t, jobs')
  BY <1>1, <1>3, <1>8, AlikeCarries
<1>10. proc' = [f EXCEPT ![User] = t]
  BY <1>5, <1>7
<1> QED  BY <1>1, <1>3, <1>8, <1>9, <1>10 DEF ScheduleInv

LEMMA DraftKeeps ==
  ASSUME ScheduleInv, NEW p \in Procs,
         EnsurePost(p) \/ Create(p) \/ Link(p) \/ Generated(p) \/ Stamp(p)
  PROVE  ScheduleInv' /\ Kept
<1>1. Carries(proc[p], jobs)
  BY DEF ScheduleInv
<1>2. proc[p].job \in Jobs
  BY <1>1 DEF Carries, CarriesJob, EnsurePost, Create, Link, Generated, Stamp, JobRead, At
<1>3. jobs[proc[p].job] \in Job \cup {None} /\ posts \in [Jobs -> Post]
  BY <1>2 DEF ScheduleInv, Documented
<1>4. CASE EnsurePost(p)
  <2>1. proc[p].pc = "post" /\ proc[p].mine \in Job
    BY <1>1, <1>4 DEF Carries, CarriesJob, EnsurePost, JobRead, At
  <2>2. PICK r : r = [proc[p] EXCEPT !.pc = "create"]
    OBVIOUS
  <2>3. PICK t : t = [proc[p] EXCEPT !.pc = "check", !.next = "stage", !.mine = jobs[proc[p].job],
                                     !.left = Stages]
    OBVIOUS
  <2>4. Carries(r, jobs)
    BY <1>1, <1>2, <2>1, <2>2 DEF Carries, CarriesJob, CarriesGoal, CarriesBatch, Local, Points
  <2>5. Stages \in 0..Stages /\ "check" \in Points /\ "stage" \in Points
    BY ScheduleAssumption DEF Points
  <2>6. t \in Local
    BY <1>1, <1>3, <2>3, <2>5 DEF Carries, Local
  <2>7. /\ t.pc = "check" /\ t.next = "stage" /\ t.job = proc[p].job
         /\ t.mine = jobs[proc[p].job]
    BY <1>1, <2>3 DEF Carries, Local
  <2>8. Carries(t, jobs)
    BY <1>2, <1>3, <2>6, <2>7 DEF Carries, CarriesJob, CarriesGoal, CarriesBatch
  <2>9. Carries(Finished(p), jobs)
    BY <1>2, FinishedCarries
  <2>10. JobRead(p, "post", r) \/ JobRead(p, "post", t) \/ JobRead(p, "post", Finished(p))
    BY <1>4, <2>2, <2>3 DEF EnsurePost
  <2> QED  BY <2>4, <2>8, <2>9, <2>10, ReadKeeps
<1>5. CASE Create(p)
  <2>1. proc[p].pc = "create" /\ proc[p].mine \in Job
    BY <1>1, <1>5 DEF Carries, CarriesJob, Create, At
  <2>2. PICK r : r = [proc[p] EXCEPT !.pc = "link"]
    OBVIOUS
  <2>3. Carries(r, jobs')
    BY <1>1, <1>2, <2>1, <2>2 DEF Carries, CarriesJob, CarriesGoal, CarriesBatch, Local, Points
  <2>4. Carries(Ending(p, "endFind", "FAILED"), jobs')
    BY <1>2, EndingCarries DEF Outcomes, JobStatuses
  <2>5. posts' \in [Jobs -> Post]
    BY <1>2, <1>3, <1>5 DEF Create, Post
  <2>6. SaveJob(p, proc[p].mine) /\ UNCHANGED <<batch, Counters>>
    BY <1>5 DEF Create
  <2>7. Become(p, r) \/ Become(p, Ending(p, "endFind", "FAILED"))
    BY <1>5, <2>2 DEF Create, Goto, End
  <2> QED  BY <2>1, <2>3, <2>4, <2>5, <2>6, <2>7, SaveKeeps DEF ScheduleInv, Documented, Counters
<1>6. CASE Link(p)
  <2>1. proc[p].pc = "link" /\ proc[p].mine \in Job
    BY <1>1, <1>6 DEF Carries, CarriesJob, Link, At
  <2>2. PICK d : d = [proc[p].mine EXCEPT !.post = TRUE]
    OBVIOUS
  <2>3. PICK r : r = [proc[p] EXCEPT !.pc = "check", !.next = "stage", !.mine = d, !.left = Stages]
    OBVIOUS
  <2>4. d \in Job
    BY <2>1, <2>2 DEF Job
  <2>5. Stages \in 0..Stages
    BY ScheduleAssumption
  <2>6. r \in Local /\ r.pc = "check" /\ r.next = "stage" /\ r.job = proc[p].job /\ r.mine = d
    BY <1>1, <2>3, <2>4, <2>5 DEF Carries, Local, Points
  <2>7. Carries(r, jobs')
    BY <1>2, <2>4, <2>6 DEF Carries, CarriesJob, CarriesGoal, CarriesBatch
  <2>8. SaveJob(p, d) /\ Become(p, r) /\ UNCHANGED <<batch, posts, Counters>>
    BY <1>6, <2>2, <2>3 DEF Link
  <2> QED  BY <1>3, <2>4, <2>7, <2>8, SaveKeeps DEF ScheduleInv, Documented, Counters
<1>7. CASE Generated(p)
  BY <1>2, <1>7, FinishedCarries, ReadKeeps DEF Generated
<1>8. CASE Stamp(p)
  <2>1. proc[p].pc = "stamp" /\ proc[p].mine \in Job
    BY <1>1, <1>8 DEF Carries, CarriesJob, Stamp, At
  <2>2. PICK d : d = [proc[p].mine EXCEPT !.made = TRUE]
    OBVIOUS
  <2>3. PICK m : m = IF proc[p].next = "end" THEN None ELSE d
    OBVIOUS
  <2>4. PICK r : r = [proc[p] EXCEPT !.pc = "check", !.mine = m]
    OBVIOUS
  <2>5. d \in Job
    BY <2>1, <2>2 DEF Job
  <2>6. m \in Job \cup {None} /\ (proc[p].next # "end" => m \in Job)
    BY <2>3, <2>5
  <2>7. /\ r \in Local /\ r.pc = "check" /\ r.next = proc[p].next /\ r.job = proc[p].job
        /\ r.mine = m /\ r.goal = proc[p].goal
    BY <1>1, <2>4, <2>6 DEF Carries, Local, Points
  <2>8. Carries(r, jobs')
    BY <1>1, <1>2, <2>1, <2>6, <2>7 DEF Carries, CarriesJob, CarriesGoal, CarriesBatch
  <2>9. SaveJob(p, d) /\ Become(p, r) /\ UNCHANGED <<batch, posts, Counters>>
    BY <1>8, <2>2, <2>3, <2>4 DEF Stamp
  <2> QED  BY <1>3, <2>5, <2>8, <2>9, SaveKeeps DEF ScheduleInv, Documented, Counters
<1> QED  BY <1>4, <1>5, <1>6, <1>7, <1>8

LEMMA StageKeeps ==
  ASSUME ScheduleInv, NEW p \in Procs, Stage(p)
  PROVE  ScheduleInv' /\ Kept
<1>1. Carries(proc[p], jobs) /\ proc[p].pc = "stage"
  BY DEF ScheduleInv, Stage, At
<1>2. proc[p].job \in Jobs /\ (proc[p].mine \in Job \/ jobs[proc[p].job] = None)
  BY <1>1 DEF Carries, CarriesJob
<1>3. jobs' \in [Jobs -> Job \cup {None}] /\ Kept
  BY <1>2, SaveJobType DEF Stage
<1>4. posts' \in [Jobs -> Post]
  BY <1>2 DEF Stage, ScheduleInv, Documented, Post
<1>5. Documented'
  BY <1>3, <1>4 DEF Stage, ScheduleInv, Documented, Counters
<1>6. ASSUME NEW pc \in {"stage", "check"}, proc[p].left > 1,
             BecomeSlowly(p, [proc[p] EXCEPT !.pc = pc, !.left = proc[p].left - 1])
      PROVE  ScheduleInv'
  <2>1. PICK r : r = [proc[p] EXCEPT !.pc = pc, !.left = proc[p].left - 1]
    OBVIOUS
  <2>2. proc[p].left - 1 \in 0..Stages /\ proc[p].next = "stage"
    BY <1>1, <1>6, ScheduleAssumption DEF Carries, CarriesGoal, Local
  <2>3. /\ r \in Local /\ r.pc = pc /\ r.next = "stage"
        /\ r.job = proc[p].job /\ r.mine = proc[p].mine
    BY <1>1, <2>1, <2>2 DEF Carries, Local, Points
  <2>4. r.mine \in Job \/ (r.mine = None /\ jobs'[r.job] = None)
    BY <1>1, <1>2, <1>3, <2>3 DEF Carries, CarriesJob, Kept
  <2>5. Carries(r, jobs')
    BY <1>2, <2>3, <2>4 DEF Carries, CarriesJob, CarriesGoal, CarriesBatch
  <2> QED  BY <1>3, <1>5, <1>6, <2>1, <2>5, SlowlyKeeps
<1>7. ASSUME BecomeSlowly(p, Ending(p, "endFind", "FAILED")) PROVE ScheduleInv'
  BY <1>2, <1>3, <1>5, <1>7, EndingCarries, SlowlyKeeps DEF Outcomes, JobStatuses
<1>8. ASSUME BecomeSlowly(p, [proc[p] EXCEPT !.pc = "generated", !.mine = None, !.left = 0])
      PROVE  ScheduleInv'
  <2>1. PICK r : r = [proc[p] EXCEPT !.pc = "generated", !.mine = None, !.left = 0]
    OBVIOUS
  <2>2. 0 \in 0..Stages
    BY ScheduleAssumption
  <2>3. r \in Local /\ r.pc = "generated" /\ r.job = proc[p].job
    BY <1>1, <2>1, <2>2 DEF Carries, Local, Points
  <2>4. Carries(r, jobs')
    BY <1>2, <2>3 DEF Carries, CarriesJob, CarriesGoal, CarriesBatch
  <2> QED  BY <1>3, <1>5, <1>8, <2>1, <2>4, SlowlyKeeps
<1> QED  BY <1>3, <1>6, <1>7, <1>8 DEF Stage

\* Within the pipeline a task often moves on with nothing but its program counter,
\* its goal or a fresh copy of its job changed.
LEMMA MoveCarries ==
  ASSUME ScheduleInv, NEW p \in Procs, proc[p].job \in Jobs, NEW docs,
         NEW pc \in {"begin", "start", "click", "log", "finish", "failPublish", "publishing", "endSave"},
         NEW mine \in Job \cup {None}, NEW goal \in Goals,
         pc \in {"publishing", "endSave"} => mine \in Job \/ docs[proc[p].job] = None,
         pc \in {"log", "finish"} => goal \in {"posted", "human", "failed"},
         pc = "endSave" => goal \in Outcomes \cup {"again"}
  PROVE  Carries([proc[p] EXCEPT !.pc = pc, !.mine = mine, !.goal = goal], docs)
<1>1. PICK r : r = [proc[p] EXCEPT !.pc = pc, !.mine = mine, !.goal = goal]
  OBVIOUS
<1>2. proc[p] \in Local /\ pc \in Points
  BY DEF ScheduleInv, Points
<1>3. /\ r \in Local /\ r.pc = pc /\ r.job = proc[p].job /\ r.mine = mine /\ r.goal = goal
  BY <1>1, <1>2 DEF Local
<1>4. Carries(r, docs)
  BY <1>3 DEF Carries, CarriesJob, CarriesGoal, CarriesBatch
<1> QED  BY <1>1, <1>4

LEMMA PublishKeeps ==
  ASSUME ScheduleInv, NEW p \in Procs,
         PublishStage(p) \/ Begin(p) \/ SetPublishing(p) \/ StartPosting(p) \/ LogResult(p)
           \/ FinishPost(p) \/ FailPublish(p)
  PROVE  ScheduleInv' /\ Kept
<1>1. Carries(proc[p], jobs) /\ proc[p] \in Local
  BY DEF ScheduleInv
<1>2. proc[p].job \in Jobs /\ proc[p].goal \in Goals
  BY <1>1 DEF Carries, CarriesJob, Local, PublishStage, Begin, SetPublishing, StartPosting,
     LogResult, FinishPost, FailPublish, JobRead, At
<1>3. jobs[proc[p].job] \in Job \cup {None} /\ posts \in [Jobs -> Post]
  BY <1>2 DEF ScheduleInv, Documented
<1>4. CASE PublishStage(p)
  <2>1. proc[p].mine \in Job \cup {None} /\ (proc[p].mine \in Job \/ jobs[proc[p].job] = None)
    BY <1>1, <1>4 DEF Carries, CarriesJob, PublishStage, At
  <2>2. Goto(p, "begin") /\ SaveJob(p, proc[p].mine) /\ UNCHANGED <<batch, posts, Counters>>
    BY <1>4 DEF PublishStage
  <2>3. PICK r : r = [proc[p] EXCEPT !.pc = "begin", !.mine = proc[p].mine, !.goal = proc[p].goal]
    OBVIOUS
  <2>4. Become(p, r)
    BY <1>1, <2>2, <2>3 DEF Goto, Local
  <2>5. Carries(r, jobs')
    BY <1>2, <2>1, <2>3, MoveCarries
  <2> QED  BY <1>3, <2>1, <2>2, <2>4, <2>5, SaveKeeps DEF ScheduleInv, Documented, Counters
<1>5. CASE Begin(p)
  <2>1. PICK r : r = [proc[p] EXCEPT !.pc = "publishing", !.mine = jobs[proc[p].job],
                                     !.goal = proc[p].goal]
    OBVIOUS
  <2>2. JobRead(p, "begin", r)
    BY <1>1, <1>5, <2>1 DEF Begin, Local
  <2>3. Carries(r, jobs)
    BY <1>2, <1>3, <2>1, MoveCarries
  <2> QED  BY <2>2, <2>3, ReadKeeps
<1>6. CASE SetPublishing(p)
  <2>1. proc[p].mine \in Job \/ jobs[proc[p].job] = None
    BY <1>1, <1>6 DEF Carries, CarriesJob, SetPublishing, At
  <2>2. PICK d : d = [proc[p].mine EXCEPT !.status = "PUBLISHING",
                                        !.tries = proc[p].mine.tries + 1]
    OBVIOUS
  <2>3. ASSUME proc[p].mine \in Job PROVE d \in Job
    <3>1. PICK n : n = proc[p].mine.tries + 1
      OBVIOUS
    <3>2. n \in Nat
      BY <2>3, <3>1 DEF Job
    <3>3. "PUBLISHING" \in JobStatuses
      BY DEF JobStatuses
    <3>4. d = [proc[p].mine EXCEPT !.status = "PUBLISHING", !.tries = n]
      BY <2>2, <3>1
    <3> QED  BY <2>3, <3>2, <3>3, <3>4 DEF Job
  <2>4. d \in Job \/ jobs[proc[p].job] = None
    BY <2>1, <2>3
  <2>5. PICK r : r = [proc[p] EXCEPT !.pc = "start", !.mine = None, !.goal = proc[p].goal]
    OBVIOUS
  <2>6. SaveJob(p, d) /\ Become(p, r) /\ UNCHANGED <<batch, posts, Counters>>
    BY <1>1, <1>6, <2>2, <2>5 DEF SetPublishing, Local
  <2>7. Carries(r, jobs')
    BY <1>2, <2>5, MoveCarries
  <2> QED  BY <1>3, <2>4, <2>6, <2>7, SaveKeeps DEF ScheduleInv, Documented, Counters
<1>7. CASE StartPosting(p)
  <2>1. PICK r : r = [proc[p] EXCEPT !.pc = "click"]
    OBVIOUS
  <2>2. Carries(r, jobs)
    BY <1>1, <1>2, <1>7, <2>1 DEF Carries, CarriesJob, CarriesGoal, CarriesBatch, Local, Points
  <2>3. Become(p, r) \/ EndNow(p, "FAILED")
    BY <1>7, <2>1 DEF StartPosting, Goto
  <2>4. posts' \in [Jobs -> Post] /\ UNCHANGED <<jobs, batch, Counters>>
    BY <1>2, <1>3, <1>7 DEF StartPosting, Post
  <2>5. Carries([Ending(p, "endSave", "FAILED") EXCEPT !.mine = jobs[proc[p].job]], jobs)
    BY <1>2, EndingCarries DEF Outcomes, JobStatuses
  <2> QED  BY <2>2, <2>3, <2>4, <2>5, PostsKeep DEF EndNow
<1>8. CASE LogResult(p)
  <2>1. proc[p].pc = "log" /\ proc[p].goal \in {"posted", "human", "failed"}
    BY <1>1, <1>8 DEF Carries, CarriesGoal, LogResult, At
  <2>2. PICK r : r = [proc[p] EXCEPT !.pc = "finish"]
    OBVIOUS
  <2>3. Carries(r, jobs)
    BY <1>1, <1>2, <2>1, <2>2 DEF Carries, CarriesJob, CarriesGoal, CarriesBatch, Local, Points
  <2>4. Become(p, r) \/ Become(p, Ending(p, "endFind", "FAILED"))
    BY <1>8, <2>2 DEF LogResult, Goto, End
  <2>5. PICK v : v = (posts[proc[p].job].logged \/ proc[p].goal = "posted")
    OBVIOUS
  <2>6. v \in BOOLEAN
    BY <2>5
  <2>7. posts' \in [Jobs -> Post] /\ UNCHANGED <<jobs, batch, Counters>>
    <3>1. posts' = posts \/ posts' = [posts EXCEPT ![proc[p].job].logged = v]
      BY <1>8, <2>5, Zenon DEF LogResult
    <3>2. UNCHANGED <<jobs, batch, Counters>>
      BY <1>8 DEF LogResult
    <3> QED  BY <1>2, <1>3, <2>6, <3>1, <3>2 DEF Post
  <2>8. Carries(Ending(p, "endFind", "FAILED"), jobs)
    BY <1>2, EndingCarries DEF Outcomes, JobStatuses
  <2> QED  BY <2>3, <2>4, <2>7, <2>8, PostsKeep
<1>9. CASE FinishPost(p)
  <2>1. proc[p].goal \in {"posted", "human", "failed"}
    BY <1>1, <1>9 DEF Carries, CarriesGoal, FinishPost, At
  <2>2. PICK r : r = [proc[p] EXCEPT !.pc = "failPublish"]
    OBVIOUS
  <2>3. Carries(r, jobs)
    BY <1>1, <1>2, <2>2 DEF Carries, CarriesJob, CarriesGoal, CarriesBatch, Local, Points
  <2>4. Become(p, r) \/ \E status \in {"FAILED", "COMPLETED", "NEEDS_HUMAN"} :
                          Become(p, Ending(p, "endFind", status))
    BY <1>9, <2>2 DEF FinishPost, Goto, End
  <2>5. posts' \in [Jobs -> Post] /\ UNCHANGED <<jobs, batch, Counters>>
    BY <1>2, <1>3, <1>9, <2>1 DEF FinishPost, Post
  <2>6. \A status \in {"FAILED", "COMPLETED", "NEEDS_HUMAN"} :
          Carries(Ending(p, "endFind", status), jobs)
    BY <1>2, EndingCarries DEF Outcomes, JobStatuses
  <2> QED  BY <2>3, <2>4, <2>5, <2>6, PostsKeep
<1>10. CASE FailPublish(p)
  <2>1. PICK goal \in {"FAILED", "again"} :
          JobRead(p, "failPublish",
            [proc[p] EXCEPT !.pc = "endSave", !.mine = jobs[proc[p].job], !.goal = goal])
    BY <1>10 DEF FailPublish
  <2>2. goal \in Goals /\ goal \in Outcomes \cup {"again"}
    BY DEF Goals, Outcomes, JobStatuses
  <2>3. Carries([proc[p] EXCEPT !.pc = "endSave", !.mine = jobs[proc[p].job], !.goal = goal], jobs)
    BY <1>2, <1>3, <2>2, MoveCarries
  <2> QED  BY <2>1, <2>3, ReadKeeps
<1> QED  BY <1>4, <1>5, <1>6, <1>7, <1>8, <1>9, <1>10

LEMMA ClickKeeps ==
  ASSUME ScheduleInv, NEW p \in Procs, Click(p)
  PROVE  ScheduleInv' /\ Kept
<1>1. Carries(proc[p], jobs) /\ proc[p] \in Local /\ proc[p].pc = "click"
  BY DEF ScheduleInv, Click, At
<1>2. proc[p].job \in Jobs
  BY <1>1 DEF Carries, CarriesJob
<1>3. PICK result \in {"posted", "human", "failed"}, live \in BOOLEAN :
        /\ posts' = IF live THEN [posts EXCEPT ![proc[p].job].live = @ + 1] ELSE posts
        /\ BecomeSlowly(p, [proc[p] EXCEPT !.pc = "log", !.goal = result])
  BY DEF Click
<1>4. posts' \in [Jobs -> Post]
  BY <1>2, <1>3 DEF ScheduleInv, Documented, Post
<1>5. Documented' /\ Kept
  BY <1>4 DEF Click, ScheduleInv, Documented, Counters, Kept
<1>6. PICK r : r = [proc[p] EXCEPT !.pc = "log", !.goal = result]
  OBVIOUS
<1>7. /\ r \in Local /\ r.pc = "log" /\ r.job = proc[p].job /\ r.goal = result
  BY <1>1, <1>6 DEF Local, Points, Goals
<1>8. Carries(r, jobs')
  BY <1>2, <1>7 DEF Carries, CarriesJob, CarriesGoal, CarriesBatch
<1> QED  BY <1>3, <1>5, <1>6, <1>8, SlowlyKeeps

LEMMA EndKeeps ==
  ASSUME ScheduleInv, NEW p \in Procs, EndFind(p) \/ EndSave(p) \/ EndBatch(p) \/ EndMark(p)
  PROVE  ScheduleInv' /\ Kept
<1>1. Carries(proc[p], jobs) /\ proc[p] \in Local
  BY DEF ScheduleInv
<1>2. proc[p].job \in Jobs /\ proc[p].goal \in Goals
  BY <1>1 DEF Carries, CarriesJob, Local, EndFind, EndSave, EndBatch, EndMark, JobRead, At
<1>3. jobs[proc[p].job] \in Job \cup {None} /\ posts \in [Jobs -> Post]
       /\ batch \in Batch \cup {None}
  BY <1>2 DEF ScheduleInv, Documented
<1>4. Carries(Over(p), jobs)
  BY OverCarries
<1>5. CASE EndFind(p)
  <2>1. proc[p].goal \in Outcomes \cup {"again"}
    BY <1>1, <1>5 DEF Carries, CarriesGoal, EndFind, JobRead, At
  <2>2. PICK r : r = [proc[p] EXCEPT !.pc = "endSave", !.mine = jobs[proc[p].job],
                                     !.goal = proc[p].goal]
    OBVIOUS
  <2>3. JobRead(p, "endFind", r)
    BY <1>1, <1>5, <2>2 DEF EndFind, Local
  <2>4. Carries(r, jobs)
    BY <1>2, <1>3, <2>1, <2>2, MoveCarries
  <2> QED  BY <2>3, <2>4, ReadKeeps
<1>6. CASE EndSave(p)
  <2>1. /\ proc[p].goal \in Outcomes \cup {"again"}
        /\ proc[p].mine \in Job \/ jobs[proc[p].job] = None
    BY <1>1, <1>6 DEF Carries, CarriesGoal, CarriesJob, EndSave, At
  <2>2. PICK status : status = IF proc[p].goal = "again" THEN "READY_TO_PUBLISH" ELSE proc[p].goal
    OBVIOUS
  <2>3. PICK d : d = [proc[p].mine EXCEPT !.status = status]
    OBVIOUS
  <2>4. status \in JobStatuses
    BY <2>1, <2>2 DEF Outcomes, JobStatuses
  <2>5. d \in Job \/ jobs[proc[p].job] = None
    BY <2>1, <2>3, <2>4 DEF Job
  <2>6. PICK r : r = [proc[p] EXCEPT !.pc = "endBatch", !.mine = None]
    OBVIOUS
  <2>7. Carries(r, jobs')
    BY <1>1, <1>2, <2>6 DEF Carries, CarriesJob, CarriesGoal, CarriesBatch, Local, Points
  <2>8. SaveJob(p, d) /\ Become(p, r) /\ UNCHANGED <<batch, posts, requests, crashes>>
    BY <1>6, <2>2, <2>3, <2>6 DEF EndSave
  <2>9. due' \in SUBSET Jobs
    BY <1>6 DEF EndSave, ScheduleInv, Documented
  <2> QED  BY <1>3, <2>5, <2>7, <2>8, <2>9, SaveKeeps
<1>7. CASE EndBatch(p)
  <2>1. PICK r : r = [proc[p] EXCEPT !.pc = "endMark", !.seen = batch]
    OBVIOUS
  <2>2. ASSUME batch # None PROVE Carries(r, jobs)
    BY <1>1, <1>2, <1>3, <2>1, <2>2 DEF Carries, CarriesJob, CarriesGoal, CarriesBatch, Local, Points
  <2>3. (batch # None /\ JobRead(p, "endBatch", r)) \/ JobRead(p, "endBatch", Over(p))
    BY <1>7, <2>1 DEF EndBatch
  <2> QED  BY <1>4, <2>2, <2>3, ReadKeeps
<1>8. CASE EndMark(p)
  <2>1. proc[p].seen \in Batch
    BY <1>1, <1>8 DEF Carries, CarriesBatch, EndMark, At
  <2>2. PICK status : status = IF proc[p].goal = "NEEDS_HUMAN" THEN "NEEDS_HUMAN" ELSE proc[p].seen.status
    OBVIOUS
  <2>3. PICK cur : cur = IF proc[p].goal = "READY_TO_PUBLISH" /\ proc[p].seen.cur # proc[p].job
                         THEN proc[p].seen.cur ELSE None
    OBVIOUS
  <2>4. PICK b : b = [proc[p].seen EXCEPT !.status = status, !.cur = cur]
    OBVIOUS
  <2>5. status \in BatchStatuses /\ cur \in Jobs \cup {None}
    BY <2>1, <2>2, <2>3 DEF Batch, BatchStatuses, ActiveBatch
  <2>6. b \in Batch
    BY <2>1, <2>4, <2>5 DEF Batch
  <2>7. SaveBatch(b) /\ Become(p, Over(p)) /\ UNCHANGED <<jobs, posts, Counters>>
    BY <1>8, <2>2, <2>3, <2>4 DEF EndMark
  <2> QED  BY <1>4, <2>6, <2>7, BatchKeeps
<1> QED  BY <1>5, <1>6, <1>7, <1>8

\* The documents of a list are saved one after the other.
LEMMA SaveEachKeeps ==
  ASSUME ScheduleInv, NEW p \in Procs, NEW pc, NEW status \in JobStatuses, NEW next,
         SaveEach(p, pc, status, next),
         \/ pc = "cancelEach" /\ next = "count"
         \/ pc = "resumeEach" /\ next = "idle"
  PROVE  ScheduleInv' /\ Kept
<1>1. Carries(proc[p], jobs) /\ proc[p] \in Local /\ proc[p].pc = pc
  BY DEF ScheduleInv, SaveEach, At
<1>2. PICK j \in Jobs :
        /\ proc[p].list[j] # None
        /\ jobs' = IF jobs[j] = None THEN jobs
                   ELSE [jobs EXCEPT ![j] = [proc[p].list[j] EXCEPT !.status = status]]
        /\ \E to \in {pc, next} :
             Become(p, [proc[p] EXCEPT !.list = [proc[p].list EXCEPT ![j] = None], !.pc = to])
  BY <1>1 DEF SaveEach
<1>3. PICK list : list = [proc[p].list EXCEPT ![j] = None]
  OBVIOUS
<1>4. list \in [Jobs -> Job \cup {None}] /\ proc[p].list[j] \in Job
  BY <1>1, <1>2, <1>3 DEF Local
<1>5. PICK to \in {pc, next} : Become(p, [proc[p] EXCEPT !.list = list, !.pc = to])
  BY <1>2, <1>3
<1>6. PICK r : r = [proc[p] EXCEPT !.list = list, !.pc = to]
  OBVIOUS
<1>7. r \in Local /\ r.pc = to /\ r.next = proc[p].next /\ r.seen = proc[p].seen
  <2>1. pc \in Points /\ next \in Points
    BY DEF Points
  <2> QED  BY <1>1, <1>4, <1>6, <2>1 DEF Local
<1>8. Carries(r, jobs')
  BY <1>1, <1>7 DEF Carries, CarriesJob, CarriesGoal, CarriesBatch
<1>9. [proc[p].list[j] EXCEPT !.status = status] \in Job
  BY <1>4 DEF Job
<1>10. jobs' \in [Jobs -> Job \cup {None}] /\ Kept
  BY <1>2, <1>9 DEF ScheduleInv, Documented, Kept
<1>11. Documented'
  BY <1>10 DEF SaveEach, ScheduleInv, Documented, Counters
<1> QED  BY <1>5, <1>6, <1>8, <1>10, <1>11, BecomeKeeps

LEMMA FinishingCarries ==
  ASSUME ScheduleInv, NEW status \in BatchStatuses
  PROVE  Carries(Finishing(status), jobs)
<1>1. CASE batch = None
  BY <1>1, IdleCarries DEF Finishing
<1>2. CASE batch # None
  <2>1. PICK r : r = [Idle EXCEPT !.pc = "finishSave", !.seen = batch, !.goal = status]
    OBVIOUS
  <2>2. batch \in Batch
    BY <1>2 DEF ScheduleInv, Documented
  <2>3. r \in Local /\ r.pc = "finishSave" /\ r.seen = batch /\ r.goal = status
    BY <2>1, <2>2, IdleCarries DEF Local, Points, Goals
  <2>4. Carries(r, jobs)
    BY <2>2, <2>3 DEF Carries, CarriesJob, CarriesGoal, CarriesBatch
  <2> QED  BY <1>2, <2>1, <2>4 DEF Finishing
<1> QED  BY <1>1, <1>2

LEMMA ListOfType ==
  ASSUME ScheduleInv, NEW status
  PROVE  ListOf(status) \in [Jobs -> Job \cup {None}]
BY DEF ScheduleInv, Documented, ListOf

LEMMA CommonKeeps ==
  ASSUME ScheduleInv, NEW p \in Procs, Common(p)
  PROVE  ScheduleInv' /\ Kept
<1>1. Carries(proc[p], jobs) /\ proc[p] \in Local /\ batch \in Batch \cup {None}
  BY DEF ScheduleInv, Documented
<1>2. Carries(Idle, jobs)
  BY IdleCarries
<1>3. CASE Close(p)
  <2>1. Closing = Idle \/ \E status \in {"STOPPED", "COMPLETED", "FAILED"} : Closing = Finishing(status)
    BY DEF Closing
  <2>2. Carries(Closing, jobs)
    BY <1>2, <2>1, FinishingCarries DEF BatchStatuses, ActiveBatch
  <2> QED  BY <1>3, <2>2, ReadKeeps DEF Close
<1>4. CASE FinishSave(p)
  <2>1. proc[p].seen \in Batch /\ proc[p].goal \in BatchStatuses
    BY <1>1, <1>4 DEF Carries, CarriesBatch, CarriesGoal, FinishSave, At
  <2>2. [proc[p].seen EXCEPT !.status = proc[p].goal, !.cur = None] \in Batch
    BY <2>1 DEF Batch
  <2> QED  BY <1>2, <1>4, <2>2, BatchKeeps DEF FinishSave
<1>5. CASE SaveEach(p, "cancelEach", "CANCELED", "count")
  BY <1>5, SaveEachKeeps DEF JobStatuses
<1>6. CASE CountFind(p)
  <2>1. PICK r, t : /\ r = [proc[p] EXCEPT !.pc = "countSave", !.mine = batch]
                    /\ t = [proc[p] EXCEPT !.pc = proc[p].next]
    OBVIOUS
  <2>2. /\ proc[p].pc = "count" /\ proc[p].next \in {"settle", "stopFind", "idle"}
        /\ proc[p].next = "settle" => proc[p].seen \in Batch
    BY <1>1, <1>6 DEF CountFind, JobRead, At, Carries, CarriesBatch
  <2>3. (batch # None /\ JobRead(p, "count", r)) \/ JobRead(p, "count", t)
    BY <1>6, <2>1 DEF CountFind
  <2>4. ASSUME batch # None PROVE Carries(r, jobs)
    BY <1>1, <2>1, <2>2, <2>4 DEF Carries, CarriesJob, CarriesGoal, CarriesBatch, Local, Points
  <2>5. Carries(t, jobs)
    BY <1>1, <2>1, <2>2 DEF Carries, CarriesJob, CarriesGoal, CarriesBatch, Local, Points
  <2> QED  BY <2>3, <2>4, <2>5, ReadKeeps
<1>7. CASE CountSave(p)
  <2>1. /\ proc[p].mine \in Batch /\ proc[p].next \in {"settle", "stopFind", "idle"}
        /\ proc[p].next = "settle" => proc[p].seen \in Batch
    BY <1>1, <1>7 DEF Carries, CarriesBatch, CountSave, At
  <2>2. PICK r : r = [proc[p] EXCEPT !.pc = proc[p].next, !.mine = None]
    OBVIOUS
  <2>3. Carries(r, jobs)
    BY <1>1, <2>1, <2>2 DEF Carries, CarriesJob, CarriesGoal, CarriesBatch, Local, Points
  <2> QED  BY <1>7, <2>1, <2>2, <2>3, BatchKeeps DEF CountSave
<1> QED  BY <1>3, <1>4, <1>5, <1>6, <1>7 DEF Common

LEMMA LoopKeeps ==
  ASSUME ScheduleInv, Reconcile \/ Settle
  PROVE  ScheduleInv' /\ Kept
<1>1. Worker \in Procs /\ Carries(proc[Worker], jobs) /\ batch \in Batch \cup {None}
  BY DEF Procs, ScheduleInv, Documented
<1>2. CASE Reconcile
  <2>1. PICK list \in [Jobs -> Job \cup {None}], pc \in {"cancelEach", "settle"} :
          JobRead(Worker, "idle", [Idle EXCEPT !.pc = pc, !.seen = batch, !.next = "settle",
                                               !.list = list])
    <3>1. ListOf("WAITING") \in [Jobs -> Job \cup {None}] /\ NoList \in [Jobs -> Job \cup {None}]
      BY ListOfType DEF NoList
    <3> QED  BY <1>2, <3>1 DEF Reconcile
  <2>2. PICK r : r = [Idle EXCEPT !.pc = pc, !.seen = batch, !.next = "settle", !.list = list]
    OBVIOUS
  <2>3. batch \in Batch
    BY <1>1, <1>2 DEF Reconcile, Open
  <2>4. r \in Local /\ r.pc = pc /\ r.seen = batch /\ r.next = "settle"
    <3>1. pc \in Points /\ "settle" \in Points
      BY DEF Points
    <3> QED  BY <2>2, <2>3, <3>1, IdleCarries DEF Local
  <2>5. Carries(r, jobs)
    BY <2>3, <2>4 DEF Carries, CarriesJob, CarriesGoal, CarriesBatch
  <2> QED  BY <1>1, <2>1, <2>2, <2>5, ReadKeeps
<1>3. CASE Settle
  <2>1. proc[Worker].seen \in Batch
    BY <1>1, <1>3 DEF Carries, CarriesBatch, Settle, At
  <2>2. PICK status : status = IF proc[Worker].seen.stop THEN "STOPPED" ELSE "PAUSED"
    OBVIOUS
  <2>3. [proc[Worker].seen EXCEPT !.status = status] \in Batch
    BY <2>1, <2>2 DEF Batch, BatchStatuses, ActiveBatch
  <2> QED  BY <1>1, <1>3, <2>2, <2>3, IdleCarries, BatchKeeps DEF Settle
<1> QED  BY <1>2, <1>3

\* The worker starts the tasks whose hour has come, each at the head of execute_job.
LEMMA AdvanceKeeps ==
  ASSUME ScheduleInv, Advance
  PROVE  ScheduleInv' /\ Kept
<1>1. ASSUME NEW p, NEW j \in Jobs PROVE Start(p, j) \in Local /\ Carries(Start(p, j), jobs)
  <2>1. PICK r : r = Start(p, j)
    OBVIOUS
  <2>2. r \in Local /\ r.pc = "load" /\ r.job = j
    BY <2>1, IdleCarries DEF Start, Local, Points
  <2>3. Carries(r, jobs)
    BY <2>2 DEF Carries, CarriesJob, CarriesGoal, CarriesBatch
  <2> QED  BY <2>1, <2>2, <2>3
<1>2. Carries(Closing, jobs) /\ Closing \in Local
  <2>1. Closing = Idle \/ \E status \in {"STOPPED", "COMPLETED", "FAILED"} : Closing = Finishing(status)
    BY DEF Closing
  <2>2. Carries(Closing, jobs)
    BY <2>1, IdleCarries, FinishingCarries DEF BatchStatuses, ActiveBatch
  <2> QED  BY <2>2 DEF Carries
<1>3. Documented' /\ jobs' = jobs /\ Kept
  BY DocumentsKept DEF Advance, Documents
<1> DEFINE listed(S) == {j \in due : jobs[j] # None /\ jobs[j].status \in S}
<1>4. PICK first \in Jobs \cup {None} :
        proc' = [p \in Procs |->
          CASE p = Worker -> Closing
            [] p = Publisher /\ first # None /\ At(p, "idle") -> Start(p, first)
            [] p \in listed({"WAITING"}) /\ At(p, "idle") -> Start(p, p)
            [] OTHER -> proc[p]]
  BY Zenon DEF Advance, ScheduleInv, Documented
<1> HIDE DEF listed
<1>5. listed({"WAITING"}) \subseteq Jobs
  BY DEF listed, ScheduleInv, Documented
<1>6. \A p \in Procs : proc'[p] \in {proc[p], Closing} \/ \E j \in Jobs : proc'[p] = Start(p, j)
  BY <1>4, <1>5
<1>7. proc' = [p \in Procs |-> proc'[p]]
  BY <1>4
<1>8. \A p \in Procs : Carries(proc[p], jobs)
  BY DEF ScheduleInv
<1> QED  BY <1>1, <1>2, <1>3, <1>8, <1>6, <1>7 DEF ScheduleInv

\* A request begins with what it has read.
LEMMA AskKeeps ==
  ASSUME ScheduleInv, AskAnything
  PROVE  ScheduleInv' /\ Kept
<1>1. User \in Procs
  BY DEF Procs
<1>2. batch \in Batch \cup {None} /\ jobs \in [Jobs -> Job \cup {None}]
  BY DEF ScheduleInv, Documented
<1>3. PICK S : S = {p \in Tasks : proc[p].pc \in {"stage", "click"}}
  OBVIOUS
<1>4. S \in SUBSET Tasks
  BY <1>3
<1>5. ASSUME NEW kind, NEW r, Ask(kind, r), Carries([r EXCEPT !.slow = S], jobs)
      PROVE  ScheduleInv' /\ Kept
  <2>1. Become(User, [r EXCEPT !.slow = S]) /\ jobs' = jobs
    BY <1>3, <1>5 DEF Ask, Documents
  <2>2. Documented' /\ Kept
    BY <1>5 DEF Ask, ScheduleInv, Documented, Documents, Kept
  <2> QED  BY <1>1, <1>5, <2>1, <2>2, BecomeKeeps
<1>6. ASSUME NEW kind \in {"pause", "resume", "stop"}, batch # None,
             Ask(kind, [Idle EXCEPT !.pc = kind, !.seen = batch])
      PROVE  ScheduleInv' /\ Kept
  <2>1. PICK t : t = [Idle EXCEPT !.pc = kind, !.seen = batch]
    OBVIOUS
  <2>2. t \in Local /\ t.pc = kind /\ t.seen = batch
    BY <1>2, <1>6, <2>1, IdleCarries DEF Local, Points
  <2>3. PICK r : r = [t EXCEPT !.slow = S]
    OBVIOUS
  <2>4. r \in Local /\ r.pc = kind /\ r.seen = batch
    BY <1>4, <2>2, <2>3 DEF Local
  <2>5. Carries(r, jobs)
    BY <1>2, <1>6, <2>4 DEF Carries, CarriesJob, CarriesGoal, CarriesBatch
  <2> QED  BY <1>5, <1>6, <2>1, <2>3, <2>5
<1>7. ASSUME NEW kind \in {"retry", "reschedule", "cancel", "delete"}, NEW refused,
             AskJob(kind, kind, refused),
             kind = "reschedule" => JobStatuses \ refused \subseteq Reschedulable
      PROVE  ScheduleInv' /\ Kept
  <2>1. PICK j \in Jobs : /\ jobs[j] # None /\ jobs[j].status \notin refused
                         /\ Ask(kind, [Idle EXCEPT !.pc = kind, !.job = j, !.mine = jobs[j]])
    BY <1>7 DEF AskJob
  <2>2. jobs[j] \in Job /\ (kind = "reschedule" => jobs[j].status \in Reschedulable)
    BY <1>2, <1>7, <2>1 DEF Job
  <2>3. PICK t : t = [Idle EXCEPT !.pc = kind, !.job = j, !.mine = jobs[j]]
    OBVIOUS
  <2>4. t \in Local /\ t.pc = kind /\ t.mine = jobs[j]
    BY <2>2, <2>3, IdleCarries DEF Local, Points
  <2>5. PICK r : r = [t EXCEPT !.slow = S]
    OBVIOUS
  <2>6. r \in Local /\ r.pc = kind /\ r.mine = jobs[j]
    BY <1>4, <2>4, <2>5 DEF Local
  <2>7. Carries(r, jobs)
    BY <2>2, <2>6 DEF Carries, CarriesJob, CarriesGoal, CarriesBatch
  <2> QED  BY <1>5, <2>1, <2>3, <2>5, <2>7
<1>8. CASE AskDiscard
  <2>1. PICK doomed \in [Jobs -> Job \cup {None}], pc \in {"discardBatch", "discard"},
             goal \in {"COMPLETED", "delete"} :
          /\ batch # None
          /\ Ask("discard", [Idle EXCEPT !.pc = pc, !.seen = batch, !.list = doomed, !.goal = goal])
    <3>1. [j \in Jobs |-> IF jobs[j] # None /\ jobs[j].status # "COMPLETED" THEN jobs[j] ELSE None]
            \in [Jobs -> Job \cup {None}]
      BY <1>2
    <3> QED  BY <1>8, <3>1 DEF AskDiscard
  <2>2. PICK t : t = [Idle EXCEPT !.pc = pc, !.seen = batch, !.list = doomed, !.goal = goal]
    OBVIOUS
  <2>3. t \in Local /\ t.pc = pc /\ t.seen = batch
    <3>1. pc \in Points /\ goal \in Goals
      BY DEF Points, Goals, JobStatuses
    <3> QED  BY <1>2, <2>1, <2>2, <3>1, IdleCarries DEF Local
  <2>4. PICK r : r = [t EXCEPT !.slow = S]
    OBVIOUS
  <2>5. r \in Local /\ r.pc = pc /\ r.seen = batch
    BY <1>4, <2>3, <2>4 DEF Local
  <2>6. Carries(r, jobs)
    BY <1>2, <2>1, <2>5 DEF Carries, CarriesJob, CarriesGoal, CarriesBatch
  <2> QED  BY <1>5, <2>1, <2>2, <2>4, <2>6
<1>9. CASE AskForget
  <2>1. PICK j \in Jobs : Ask("forget", [Idle EXCEPT !.pc = "forget", !.job = j])
    BY <1>9 DEF AskForget
  <2>2. PICK t : t = [Idle EXCEPT !.pc = "forget", !.job = j]
    OBVIOUS
  <2>3. t \in Local /\ t.pc = "forget"
    BY <2>2, IdleCarries DEF Local, Points
  <2>4. PICK r : r = [t EXCEPT !.slow = S]
    OBVIOUS
  <2>5. r \in Local /\ r.pc = "forget"
    BY <1>4, <2>3, <2>4 DEF Local
  <2>6. Carries(r, jobs)
    BY <2>5 DEF Carries, CarriesJob, CarriesGoal, CarriesBatch
  <2> QED  BY <1>5, <2>1, <2>2, <2>4, <2>6
<1>10. AskReschedule => ScheduleInv' /\ Kept
  BY <1>7 DEF AskReschedule, Reschedulable
<1> QED
  BY <1>6, <1>7, <1>8, <1>9, <1>10
     DEF AskAnything, AskPause, AskResume, AskStop, AskRetry, AskCancel, AskDelete, Open

LEMMA UserBatchKeeps ==
  ASSUME ScheduleInv, NEW pc, NEW b \in Batch \cup {None}, NEW r, UserBatch(pc, b, r), Carries(r, jobs)
  PROVE  ScheduleInv' /\ Kept
<1>1. User \in Procs
  BY DEF Procs
<1> QED  BY <1>1, BatchKeeps DEF UserBatch

\* Pause, resume and stop.
LEMMA HandleBatchKeeps ==
  ASSUME ScheduleInv,
         \/ Pause \/ Resume \/ ResumeList \/ SaveEach(User, "resumeEach", "WAITING", "idle")
         \/ Stop \/ StopList \/ StopFind \/ FinishFind
  PROVE  ScheduleInv' /\ Kept
<1>1. User \in Procs /\ Carries(proc[User], jobs) /\ Carries(Idle, jobs)
  BY IdleCarries DEF Procs, ScheduleInv
<1>2. ASSUME NEW pc \in {"resumeList", "stopList"} PROVE Carries([Idle EXCEPT !.pc = pc], jobs)
  <2>1. PICK r : r = [Idle EXCEPT !.pc = pc]
    OBVIOUS
  <2>2. r \in Local /\ r.pc = pc
    BY <2>1, IdleCarries DEF Local, Points
  <2>3. Carries(r, jobs)
    BY <2>2 DEF Carries, CarriesJob, CarriesGoal, CarriesBatch
  <2> QED  BY <2>1, <2>3
<1>3. ASSUME NEW status \in BatchStatuses, NEW seen \in Batch
      PROVE  /\ [seen EXCEPT !.pause = TRUE, !.status = status] \in Batch
             /\ [seen EXCEPT !.pause = FALSE, !.status = status] \in Batch
             /\ [seen EXCEPT !.stop = TRUE, !.status = status] \in Batch
  BY DEF Batch
<1>4. Carries(Stopped, jobs)
  BY <1>1, FinishingCarries DEF Stopped, BatchStatuses, ActiveBatch
<1>5. \A status : ListOf(status) \in [Jobs -> Job \cup {None}]
  BY ListOfType
<1>6. CASE Pause
  <2>1. proc[User].seen \in Batch
    BY <1>1, <1>6 DEF Carries, CarriesBatch, Pause, UserBatch, At
  <2> QED  BY <1>1, <1>3, <1>6, <2>1, UserBatchKeeps DEF Pause, BatchStatuses, ActiveBatch
<1>7. CASE Resume
  <2>1. proc[User].seen \in Batch
    BY <1>1, <1>7 DEF Carries, CarriesBatch, Resume, UserBatch, At
  <2> QED  BY <1>2, <1>3, <1>7, <2>1, UserBatchKeeps DEF Resume, BatchStatuses, ActiveBatch
<1>8. CASE ResumeList
  <2>1. PICK r : r = [Idle EXCEPT !.pc = "resumeEach", !.list = ListOf("NEEDS_HUMAN")]
    OBVIOUS
  <2>2. r \in Local /\ r.pc = "resumeEach"
    BY <1>5, <2>1, IdleCarries DEF Local, Points
  <2>3. Carries(r, jobs)
    BY <2>2 DEF Carries, CarriesJob, CarriesGoal, CarriesBatch
  <2>4. JobRead(User, "resumeList", r) \/ JobRead(User, "resumeList", Idle)
    BY <1>8, <2>1 DEF ResumeList
  <2> QED  BY <1>1, <2>3, <2>4, ReadKeeps
<1>9. CASE SaveEach(User, "resumeEach", "WAITING", "idle")
  BY <1>1, <1>9, SaveEachKeeps DEF JobStatuses
<1>10. CASE Stop
  <2>1. proc[User].seen \in Batch
    BY <1>1, <1>10 DEF Carries, CarriesBatch, Stop, UserBatch, At
  <2> QED  BY <1>2, <1>3, <1>10, <2>1, UserBatchKeeps DEF Stop, BatchStatuses, ActiveBatch
<1>11. CASE StopList
  <2>1. PICK r : r = [Idle EXCEPT !.pc = "cancelEach", !.next = "stopFind", !.list = ListOf("WAITING")]
    OBVIOUS
  <2>2. r \in Local /\ r.pc = "cancelEach" /\ r.next = "stopFind"
    BY <1>5, <2>1, IdleCarries DEF Local, Points
  <2>3. Carries(r, jobs)
    BY <2>2 DEF Carries, CarriesJob, CarriesGoal, CarriesBatch
  <2>4. JobRead(User, "stopList", r) \/ JobRead(User, "stopList", Stopped)
    BY <1>11, <2>1 DEF StopList
  <2> QED  BY <1>1, <1>4, <2>3, <2>4, ReadKeeps
<1>12. CASE StopFind
  BY <1>1, <1>4, <1>12, ReadKeeps DEF StopFind
<1>13. CASE FinishFind
  <2>1. proc[User].goal \in BatchStatuses
    BY <1>1, <1>13 DEF Carries, CarriesGoal, FinishFind, JobRead, At
  <2>2. Carries(Finishing(proc[User].goal), jobs)
    BY <2>1, FinishingCarries
  <2> QED  BY <1>1, <1>13, <2>2, ReadKeeps DEF FinishFind
<1> QED  BY <1>6, <1>7, <1>8, <1>9, <1>10, <1>11, <1>12, <1>13

\* Retry, cancel and delete.
LEMMA UserJobKeeps ==
  ASSUME ScheduleInv, NEW pc \in {"retry", "cancel"}, NEW status \in JobStatuses,
         NEW next \in {"retryFind", "list"}, UserJob(pc, status, next)
  PROVE  ScheduleInv' /\ Kept
<1>1. User \in Procs /\ Carries(proc[User], jobs) /\ proc[User].pc = pc
  BY DEF Procs, ScheduleInv, UserJob, At
<1>2. proc[User].mine \in Job /\ proc[User].job \in Jobs \cup {None}
  BY <1>1 DEF Carries, CarriesJob, Local
<1>3. [proc[User].mine EXCEPT !.status = status] \in Job
  BY <1>2 DEF Job
<1>4. PICK r : r = [Idle EXCEPT !.pc = next, !.job = proc[User].job]
  OBVIOUS
<1>5. r \in Local /\ r.pc = next
  BY <1>2, <1>4, IdleCarries DEF Local, Points
<1>6. Carries(r, jobs')
  BY <1>5 DEF Carries, CarriesJob, CarriesGoal, CarriesBatch
<1> QED  BY <1>1, <1>3, <1>4, <1>6, SaveKeeps DEF UserJob, ScheduleInv, Documented, Counters

LEMMA AfterDeleteCarries ==
  ASSUME ScheduleInv, batch # None
  PROVE  Carries(AfterDelete, jobs)
<1>1. batch \in Batch
  BY DEF ScheduleInv, Documented
<1>2. PICK cur : cur = IF proc[User].goal # "delete" /\ batch.cur = proc[User].job
                       THEN None ELSE batch.cur
  OBVIOUS
<1>3. PICK seen : seen = [batch EXCEPT !.cur = cur]
  OBVIOUS
<1>4. seen \in Batch
  BY <1>1, <1>2, <1>3 DEF Batch
<1>5. PICK saved : saved = [Idle EXCEPT !.pc = "listSave", !.seen = seen]
  OBVIOUS
<1>6. saved \in Local /\ saved.pc = "listSave" /\ saved.seen = seen /\ saved.next = "idle"
  BY <1>4, <1>5, IdleCarries DEF Idle, Local, Points
<1>7. Carries(saved, jobs)
  BY <1>4, <1>6 DEF Carries, CarriesJob, CarriesGoal, CarriesBatch
<1>8. ASSUME NEW goal \in {"COMPLETED", "STOPPED"}
      PROVE  Carries([saved EXCEPT !.next = "finishBatch", !.goal = goal], jobs)
  <2>1. PICK r : r = [saved EXCEPT !.next = "finishBatch", !.goal = goal]
    OBVIOUS
  <2>2. /\ r \in Local /\ r.pc = "listSave" /\ r.seen = seen /\ r.next = "finishBatch"
        /\ r.goal = goal
    BY <1>6, <2>1 DEF Local, Points, Goals, BatchStatuses
  <2>3. Carries(r, jobs)
    BY <1>4, <2>2 DEF Carries, CarriesJob, CarriesGoal, CarriesBatch, BatchStatuses
  <2> QED  BY <2>1, <2>3
<1>9. Carries([saved EXCEPT !.next = "listSave"], jobs)
  <2>1. PICK r : r = [saved EXCEPT !.next = "listSave"]
    OBVIOUS
  <2>2. r \in Local /\ r.pc = "listSave" /\ r.seen = seen /\ r.next = "listSave"
    BY <1>6, <2>1 DEF Local, Points
  <2>3. Carries(r, jobs)
    BY <1>4, <2>2 DEF Carries, CarriesJob, CarriesGoal, CarriesBatch
  <2> QED  BY <2>1, <2>3
<1> QED  BY <1>2, <1>3, <1>5, <1>7, <1>8, <1>9 DEF AfterDelete, Open

LEMMA ReopenedCarries ==
  ASSUME ScheduleInv, NEW next \in {"retryBatch", "rescheduleBatch"}
  PROVE  Carries(Reopened(next), jobs)
<1>1. proc[User] \in Local
  BY DEF Procs, ScheduleInv
<1>2. CASE batch = None
  BY <1>2, IdleCarries DEF Reopened
<1>3. CASE batch # None
  <2>1. batch \in Batch
    BY <1>3 DEF ScheduleInv, Documented
  <2>2. PICK r : r = [proc[User] EXCEPT !.pc = next, !.seen = batch]
    OBVIOUS
  <2>3. r \in Local /\ r.pc = next /\ r.seen = batch
    BY <1>1, <2>1, <2>2 DEF Local, Points
  <2>4. Carries(r, jobs)
    BY <2>1, <2>3 DEF Carries, CarriesJob, CarriesGoal, CarriesBatch
  <2> QED  BY <1>3, <2>2, <2>4 DEF Reopened
<1> QED  BY <1>2, <1>3

LEMMA RescheduleKeeps ==
  ASSUME ScheduleInv, Reschedule \/ RescheduleFind \/ RescheduleBatch
  PROVE  ScheduleInv' /\ Kept
<1>1. User \in Procs /\ Carries(proc[User], jobs)
  BY DEF Procs, ScheduleInv
<1>2. CASE Reschedule
  <2>1. proc[User].mine \in Job /\ proc[User].job \in Jobs \cup {None}
    BY <1>1, <1>2 DEF Carries, CarriesJob, Reschedule, At, Local
  <2>2. PICK status : status = IF proc[User].mine.made THEN "READY_TO_PUBLISH" ELSE "WAITING"
    OBVIOUS
  <2>3. PICK d : \/ d = [proc[User].mine EXCEPT !.status = status, !.tries = 0]
                 \/ d = proc[User].mine
    OBVIOUS
  <2>4. [proc[User].mine EXCEPT !.status = status, !.tries = 0] \in Job
    BY <2>1, <2>2 DEF Job, JobStatuses
  <2>5. PICK r : r = [Idle EXCEPT !.pc = "rescheduleFind", !.job = proc[User].job]
    OBVIOUS
  <2>6. r \in Local /\ r.pc = "rescheduleFind"
    BY <2>1, <2>5, IdleCarries DEF Local, Points
  <2>7. Carries(r, jobs')
    BY <2>6 DEF Carries, CarriesJob, CarriesGoal, CarriesBatch
  <2>8. PICK e \in Job : SaveJob(User, e)
    BY <1>2, <2>1, <2>2, <2>4 DEF Reschedule
  <2>9. posts' \in [Jobs -> Post] /\ due' \in SUBSET Jobs /\ Become(User, r)
        /\ UNCHANGED <<batch, requests, crashes>>
    BY <1>2, <2>5 DEF Reschedule, ScheduleInv, Documented
  <2> QED  BY <1>1, <2>7, <2>8, <2>9, SaveKeeps
<1>3. CASE RescheduleFind
  BY <1>1, <1>3, ReopenedCarries, ReadKeeps DEF RescheduleFind
<1>4. CASE RescheduleBatch
  <2>1. proc[User].seen \in Batch
    BY <1>1, <1>4 DEF Carries, CarriesBatch, RescheduleBatch, UserBatch, At
  <2>2. [proc[User].seen EXCEPT !.status = "RUNNING", !.stop = FALSE, !.pause = FALSE] \in Batch
    BY <2>1 DEF Batch, BatchStatuses, ActiveBatch
  <2>3. PICK b \in Batch : UserBatch("rescheduleBatch", b, Idle)
    BY <1>4, <2>1, <2>2 DEF RescheduleBatch
  <2> QED  BY <2>3, IdleCarries, UserBatchKeeps
<1> QED  BY <1>2, <1>3, <1>4

LEMMA DiscardKeeps ==
  ASSUME ScheduleInv, DiscardJob \/ DiscardPost \/ DiscardBatch
  PROVE  ScheduleInv' /\ Kept
<1>1. User \in Procs /\ Carries(proc[User], jobs) /\ proc[User] \in Local
  BY DEF Procs, ScheduleInv
<1>2. proc[User].seen \in Batch
  BY <1>1 DEF Carries, CarriesBatch, DiscardJob, DiscardPost, DiscardBatch, UserBatch, At
<1>3. CASE DiscardJob
  <2>1. PICK j \in Jobs : /\ jobs' = [jobs EXCEPT ![j] = None]
                         /\ Become(User, [proc[User] EXCEPT !.pc = "discardPost", !.job = j])
    BY <1>3 DEF DiscardJob
  <2>2. PICK r : r = [proc[User] EXCEPT !.pc = "discardPost", !.job = j]
    OBVIOUS
  <2>3. r \in Local /\ r.pc = "discardPost" /\ r.seen = proc[User].seen
    BY <1>1, <2>2 DEF Local, Points
  <2>4. Carries(r, jobs')
    BY <1>2, <2>3 DEF Carries, CarriesJob, CarriesGoal, CarriesBatch
  <2>5. Documented' /\ Kept
    BY <1>3, <2>1 DEF DiscardJob, ScheduleInv, Documented, Counters, Kept
  <2> QED  BY <1>1, <2>1, <2>2, <2>4, <2>5, BecomeKeeps
<1>4. CASE DiscardPost
  <2>1. PICK rest : rest = [proc[User].list EXCEPT ![proc[User].job] = None]
    OBVIOUS
  <2>2. PICK r, t :
          /\ r = [Idle EXCEPT !.pc = "discardBatch", !.seen = proc[User].seen,
                              !.goal = proc[User].goal]
          /\ t = [proc[User] EXCEPT !.pc = "discard", !.list = rest]
    OBVIOUS
  <2>3. rest \in [Jobs -> Job \cup {None}] /\ proc[User].goal \in Goals
    BY <1>1, <2>1 DEF Local
  <2>4. r \in Local /\ r.pc = "discardBatch" /\ r.seen = proc[User].seen
    BY <1>2, <2>2, <2>3, IdleCarries DEF Local, Points
  <2>5. t \in Local /\ t.pc = "discard" /\ t.seen = proc[User].seen
    BY <1>1, <2>2, <2>3 DEF Local, Points
  <2>6. Carries(r, jobs) /\ Carries(t, jobs)
    BY <1>2, <2>4, <2>5 DEF Carries, CarriesJob, CarriesGoal, CarriesBatch
  <2>7. Become(User, r) \/ Become(User, t)
    BY <1>4, <2>1, <2>2 DEF DiscardPost
  <2>8. posts' \in [Jobs -> Post] /\ UNCHANGED <<jobs, batch, Counters>>
    BY <1>4, DeletePostType DEF DiscardPost, ScheduleInv, Documented
  <2> QED  BY <1>1, <2>6, <2>7, <2>8, PostsKeep
<1>5. CASE DiscardBatch
  <2>1. [proc[User].seen EXCEPT !.status = "STOPPED", !.stop = TRUE, !.pause = FALSE, !.cur = None]
          \in Batch
    BY <1>2 DEF Batch, BatchStatuses, ActiveBatch
  <2>2. PICK b \in Batch \cup {None} : UserBatch("discardBatch", b, Idle)
    BY <1>5, <2>1 DEF DiscardBatch
  <2> QED  BY <2>2, IdleCarries, UserBatchKeeps
<1> QED  BY <1>3, <1>4, <1>5

LEMMA ForgetKeeps ==
  ASSUME ScheduleInv, Forget \/ ForgetJob
  PROVE  ScheduleInv' /\ Kept
<1>1. User \in Procs /\ Carries(proc[User], jobs) /\ proc[User] \in Local
  BY DEF Procs, ScheduleInv
<1>2. CASE Forget
  <2>1. PICK r : r = [proc[User] EXCEPT !.pc = "forgetJob", !.slow = {}]
    OBVIOUS
  <2>2. r \in Local /\ r.pc = "forgetJob"
    BY <1>1, <2>1 DEF Local, Points
  <2>3. Carries(r, jobs)
    BY <2>2 DEF Carries, CarriesJob, CarriesGoal, CarriesBatch
  <2>4. posts' \in [Jobs -> Post]
    BY <1>2 DEF Forget, ScheduleInv, Documented, Post
  <2> QED  BY <1>1, <1>2, <2>1, <2>3, <2>4, PostsKeep DEF Forget
<1>3. CASE ForgetJob
  <2>1. PICK r : r = [Idle EXCEPT !.pc = "count"]
    OBVIOUS
  <2>2. r \in Local /\ r.pc = "count" /\ r.next = "idle"
    BY <2>1, IdleCarries DEF Idle, Local, Points
  <2>3. Carries(r, jobs') /\ Carries(Idle, jobs')
    BY <2>2, IdleCarries DEF Carries, CarriesJob, CarriesGoal, CarriesBatch
  <2>4. Become(User, r) \/ Become(User, Idle)
    BY <1>3, <2>1 DEF ForgetJob
  <2>5. jobs' \in [Jobs -> Job \cup {None}] /\ Kept
    BY <1>3 DEF ForgetJob, ScheduleInv, Documented, Kept
  <2>6. Documented'
    BY <1>3, <2>5 DEF ForgetJob, ScheduleInv, Documented, Counters
  <2> QED  BY <1>1, <2>3, <2>4, <2>5, <2>6, BecomeKeeps
<1> QED  BY <1>2, <1>3

LEMMA HandleJobKeeps ==
  ASSUME ScheduleInv,
         Retry \/ RetryFind \/ RetryBatch \/ Cancel \/ Delete \/ DeletePostOf \/ ListRemaining
           \/ ListSave
  PROVE  ScheduleInv' /\ Kept
<1>1. User \in Procs /\ Carries(proc[User], jobs) /\ batch \in Batch \cup {None}
  BY DEF Procs, ScheduleInv, Documented
<1>2. CASE Retry \/ Cancel
  BY <1>2, UserJobKeeps DEF Retry, Cancel, JobStatuses
<1>3. CASE RetryFind
  BY <1>1, <1>3, ReopenedCarries, ReadKeeps DEF RetryFind
<1>4. CASE RetryBatch
  <2>1. proc[User].seen \in Batch
    BY <1>1, <1>4 DEF Carries, CarriesBatch, RetryBatch, UserBatch, At
  <2>2. PICK status : status = IF proc[User].seen.status \in ActiveBatch
                               THEN proc[User].seen.status ELSE "RUNNING"
    OBVIOUS
  <2>3. PICK b : b = [proc[User].seen EXCEPT !.stop = FALSE, !.pause = FALSE, !.status = status]
    OBVIOUS
  <2>4. status \in BatchStatuses
    BY <2>1, <2>2 DEF BatchStatuses, ActiveBatch
  <2>5. b \in Batch
    BY <2>1, <2>3, <2>4 DEF Batch
  <2>6. UserBatch("retryBatch", b, Idle)
    BY <1>4, <2>2, <2>3 DEF RetryBatch
  <2> QED  BY <2>5, <2>6, IdleCarries, UserBatchKeeps
<1>5. CASE Delete
  <2>1. PICK r : r = [proc[User] EXCEPT !.pc = "deletePost", !.slow = {}]
    OBVIOUS
  <2>2. r \in Local /\ r.pc = "deletePost"
    BY <1>1, <2>1 DEF Carries, Local, Points
  <2>3. Carries(r, jobs')
    BY <2>2 DEF Carries, CarriesJob, CarriesGoal, CarriesBatch
  <2>4. jobs' \in [Jobs -> Job \cup {None}] /\ Kept
    BY <1>5 DEF Delete, ScheduleInv, Documented, Kept
  <2>5. Documented'
    BY <1>5, <2>4 DEF Delete, ScheduleInv, Documented, Counters
  <2> QED  BY <1>1, <1>5, <2>1, <2>3, <2>4, <2>5, BecomeKeeps DEF Delete
<1>6. CASE DeletePostOf
  <2>1. PICK r : r = [proc[User] EXCEPT !.pc = "list", !.mine = None, !.goal = "delete"]
    OBVIOUS
  <2>2. r \in Local /\ r.pc = "list"
    BY <1>1, <2>1 DEF Carries, Local, Points, Goals
  <2>3. Carries(r, jobs)
    BY <2>2 DEF Carries, CarriesJob, CarriesGoal, CarriesBatch
  <2>4. posts' \in [Jobs -> Post]
    BY <1>6, DeletePostType DEF DeletePostOf, ScheduleInv, Documented
  <2> QED  BY <1>1, <1>6, <2>1, <2>3, <2>4, PostsKeep DEF DeletePostOf
<1>7. CASE ListRemaining
  BY <1>1, <1>7, AfterDeleteCarries, IdleCarries, ReadKeeps DEF ListRemaining
<1>8. CASE ListSave
  <2>1. /\ proc[User].seen \in Batch /\ proc[User].next \in {"idle", "finishBatch", "listSave"}
        /\ proc[User].next = "finishBatch" => proc[User].goal \in BatchStatuses
        /\ proc[User].pc = "listSave" /\ proc[User].goal \in Goals
    BY <1>1, <1>8 DEF Carries, CarriesBatch, CarriesGoal, ListSave, UserBatch, At, Local
  <2>2. CASE proc[User].next = "listSave"
    <3>1. PICK seen : seen = [proc[User].seen EXCEPT !.status = "RUNNING"]
      OBVIOUS
    <3>2. PICK r : r = [proc[User] EXCEPT !.next = "idle", !.seen = seen]
      OBVIOUS
    <3>3. seen \in Batch
      BY <2>1, <3>1 DEF Batch, BatchStatuses, ActiveBatch
    <3>4. r \in Local /\ r.pc = "listSave" /\ r.seen = seen /\ r.next = "idle"
      BY <1>1, <2>1, <3>2, <3>3 DEF Carries, Local, Points
    <3>5. Carries(r, jobs)
      BY <3>3, <3>4 DEF Carries, CarriesJob, CarriesGoal, CarriesBatch
    <3> QED  BY <1>8, <2>1, <2>2, <3>1, <3>2, <3>5, UserBatchKeeps DEF ListSave
  <2>3. CASE proc[User].next # "listSave"
    <3>1. PICK r : r = [Idle EXCEPT !.pc = proc[User].next, !.goal = proc[User].goal]
      OBVIOUS
    <3>2. r \in Local /\ r.pc = proc[User].next /\ r.goal = proc[User].goal
      BY <2>1, <3>1, IdleCarries DEF Local, Points
    <3>3. Carries(r, jobs)
      BY <2>1, <2>3, <3>2 DEF Carries, CarriesJob, CarriesGoal, CarriesBatch
    <3> QED  BY <1>8, <2>1, <2>3, <3>1, <3>3, UserBatchKeeps DEF ListSave
  <2> QED  BY <2>2, <2>3
<1> QED  BY <1>2, <1>3, <1>4, <1>5, <1>6, <1>7, <1>8

\* The server dies, every actor with it; the recovery keeps documents documents, and
\* deletions.
LEMMA CrashKeeps ==
  ASSUME ScheduleInv, Crash
  PROVE  ScheduleInv' /\ Kept
<1>1. batch \in Batch \cup {None} /\ jobs \in [Jobs -> Job \cup {None}] /\ crashes \in Nat
  BY DEF ScheduleInv, Documented
<1>2. ASSUME NEW j \in Jobs
      PROVE  Recovered(j) \in Job \cup {None} /\ (jobs[j] = None => Recovered(j) = None)
  <2>1. PICK job : job = jobs[j]
    OBVIOUS
  <2>2. CASE job = None
    BY <2>1, <2>2 DEF Recovered
  <2>3. CASE job # None
    <3>1. job \in Job
      BY <1>1, <2>1, <2>3
    <3>2. PICK made \in BOOLEAN : made = (job.made \/ Drafted(j))
      BY <3>1 DEF Job
    <3>3. /\ \A status \in JobStatuses : [job EXCEPT !.status = status] \in Job
          /\ [job EXCEPT !.status = "WAITING", !.post = FALSE] \in Job
          /\ [job EXCEPT !.status = "FAILED", !.made = made] \in Job
      BY <3>1 DEF Job, JobStatuses
    <3>4. [job EXCEPT !.status = "FAILED", !.made = @ \/ Drafted(j)]
            = [job EXCEPT !.status = "FAILED", !.made = made]
      BY <3>2, Zenon
    <3> QED  BY <2>1, <2>3, <3>1, <3>3, <3>4 DEF Recovered, JobStatuses
  <2> QED  BY <2>2, <2>3
<1>3. jobs' \in [Jobs -> Job \cup {None}] /\ Kept
  BY <1>1, <1>2 DEF Crash, Kept
<1>4. batch' \in Batch \cup {None}
  BY <1>1 DEF Crash, Open, Batch, BatchStatuses, ActiveBatch
<1>5. Documented'
  BY <1>1, <1>3, <1>4 DEF Crash, ScheduleInv, Documented
<1>6. proc' \in [Procs -> Local] /\ \A p \in Procs : proc'[p] = Idle
  BY IdleCarries DEF Crash
<1>7. Kept /\ Documented'
  BY <1>3, <1>5
<1> QED  BY <1>6, <1>7, IdleCarries DEF ScheduleInv

-----------------------------------------------------------------------------
LEMMA NextKeeps ==
  ASSUME ScheduleInv, [Next]_vars
  PROVE  ScheduleInv' /\ Kept
<1>1. CASE UNCHANGED vars
  BY <1>1 DEF vars, ScheduleInv, Documented, Carries, CarriesJob, Kept
<1>2. ASSUME NEW p \in Tasks, Execute(p) PROVE ScheduleInv' /\ Kept
  <2>1. p \in Procs
    BY DEF Procs
  <2> QED
    BY <1>2, <2>1, RunKeeps, CheckKeeps, DraftKeeps, StageKeeps, PublishKeeps, ClickKeeps, EndKeeps
       DEF Execute
<1>3. ASSUME NEW p \in Procs, Common(p) PROVE ScheduleInv' /\ Kept
  BY <1>3, CommonKeeps
<1>4. CASE Loop
  BY <1>4, LoopKeeps, AdvanceKeeps DEF Loop
<1>5. CASE Handle
  BY <1>5, HandleBatchKeeps, HandleJobKeeps, RescheduleKeeps, DiscardKeeps, ForgetKeeps DEF Handle
<1>6. CASE TimeComes
  BY <1>6 DEF TimeComes, Documents, ScheduleInv, Documented, Carries, CarriesJob, Kept
<1>7. CASE AskAnything
  BY <1>7, AskKeeps
<1>8. CASE Crash
  BY <1>8, CrashKeeps
<1> QED  BY <1>1, <1>2, <1>3, <1>4, <1>5, <1>6, <1>7, <1>8 DEF Next

LEMMA ScheduleInvariant == Spec => []ScheduleInv
BY InitSchedule, NextKeeps, PTL DEF Spec

\* Documents and copies keep their types, whatever overtakes what.
THEOREM ScheduleTypes == Spec => []TypeOK
<1>1. ScheduleInv => TypeOK
  BY DEF ScheduleInv, Documented, TypeOK
<1> QED  BY <1>1, ScheduleInvariant, PTL

\* No copy that a task, the loop, a request or the recovery writes back brings a
\* deleted job back, for any jobs, requests and crashes.
THEOREM DeletedStays == Spec => DeletedStaysDeleted
<1>1. ScheduleInv /\ [Next]_vars => [\A j \in Jobs : jobs[j] = None => jobs'[j] = None]_vars
  BY NextKeeps DEF Kept
<1> QED  BY <1>1, ScheduleInvariant, PTL DEF Spec, DeletedStaysDeleted

-----------------------------------------------------------------------------
(* What becomes of a job's status.  A task that has marked a job RUNNING holds on *)
(* to it until it has saved the outcome; and what it saves, or will save, as        *)
(* COMPLETED has an article behind it.                                         *)

Holding == {"fresh", "mark", "check", "post", "create", "link", "stage", "generated", "stamp",
            "publishStage", "begin", "publishing", "start", "click", "log", "finish",
            "failPublish", "endFind", "endSave"}
Holds(r, j) == r.pc \in Holding /\ r.job = j

Truth(r, docs) ==
  /\ r.pc \in {"fresh", "mark", "post", "create", "link"} => r.mine.status = "RUNNING"
  /\ r.pc = "check" /\ r.next = "post" => r.mine.status = "RUNNING"
  /\ r.pc = "stamp" => r.mine # None
  /\ r.job \in Publishing /\ docs[r.job].live = 0 =>
       /\ \/ r.pc \in {"stage", "stamp", "publishStage"}
          \/ r.pc = "check" /\ r.next \in {"stage", "publishStage"}
        => r.mine = None \/ r.mine.status # "COMPLETED"
       /\ r.pc \in {"check", "stamp"} /\ r.next = "end" => r.goal # "COMPLETED"
       /\ r.pc \in {"endFind", "endSave"} => r.goal # "COMPLETED"
       /\ r.pc \in {"log", "finish"} => r.goal # "posted"

Shown(doc, j, docs) == doc # None /\ doc.status = "COMPLETED" => docs[j].live # 0
Active(doc) == doc # None /\ doc.status \in {"RUNNING", "PUBLISHING"}

Truthful ==
  /\ \A j \in Publishing : Shown(jobs[j], j, posts)
  /\ \A j \in Publishing : posts[j].logged => posts[j].live # 0
  /\ \A p \in Procs : Truth(proc[p], posts)

InHands == \A j \in Jobs : Active(jobs[j]) => \E p \in Tasks : Holds(proc[p], j)

\* A step of p, as the two see it.
Same(r, t) == r.pc = t.pc /\ r.job = t.job /\ r.mine = t.mine /\ r.next = t.next /\ r.goal = t.goal

StaysTrue(p) ==
  /\ \A j \in Jobs : posts'[j].live = 0 => posts[j].live = 0
  /\ \A j \in Publishing : posts'[j].logged => posts[j].logged \/ posts'[j].live # 0
  /\ \A j \in Publishing : jobs'[j] = jobs[j] \/ Shown(jobs'[j], j, posts')
  /\ Truth(proc'[p], posts')

StaysHeld(p) ==
  /\ \A j \in Jobs : jobs'[j] = jobs[j] \/ ~Active(jobs'[j])
                       \/ (p \in Tasks /\ Holds(proc'[p], j))
  /\ \A j \in Jobs : Holds(proc[p], j) => Holds(proc'[p], j) \/ ~Active(jobs'[j])

OneMoves(p) == \A q \in Procs \ {p} : Same(proc'[q], proc[q])
Stays(p) == OneMoves(p) /\ StaysTrue(p) /\ StaysHeld(p)

LEMMA StaysKeeps ==
  ASSUME ScheduleInv, Truthful, NEW p \in Procs, Stays(p)
  PROVE  Truthful' /\ (InHands => InHands')
<1>1. InHands => InHands'
  <2> SUFFICES ASSUME InHands, NEW j \in Jobs, Active(jobs'[j]) PROVE \E q \in Tasks : Holds(proc'[q], j)
    BY DEF InHands
  <2>1. CASE jobs'[j] = jobs[j]
    <3>1. PICK q \in Tasks : Holds(proc[q], j)
      BY <2>1 DEF InHands
    <3>2. CASE q = p
      BY <3>1, <3>2 DEF Stays, StaysHeld
    <3>3. CASE q # p
      BY <3>1, <3>3 DEF Stays, OneMoves, Same, Holds, Procs
    <3> QED  BY <3>2, <3>3
  <2>2. CASE jobs'[j] # jobs[j]
    BY <2>2 DEF Stays, StaysHeld
  <2> QED  BY <2>1, <2>2
<1>2. ASSUME NEW q \in Procs PROVE Truth(proc'[q], posts')
  <2>1. CASE q = p
    BY <2>1 DEF Stays, StaysTrue
  <2>2. CASE q # p
    <3>1. Same(proc'[q], proc[q]) /\ Truth(proc[q], posts) /\ Publishing \subseteq Jobs
      BY <2>2, ScheduleAssumption DEF Stays, OneMoves, Truthful
    <3>2. \A j \in Jobs : posts'[j].live = 0 => posts[j].live = 0
      BY DEF Stays, StaysTrue
    <3> QED  BY <3>1, <3>2 DEF Truth, Same
  <2> QED  BY <2>1, <2>2
<1>3. \A j \in Publishing : Shown(jobs'[j], j, posts')
  BY ScheduleAssumption DEF Stays, StaysTrue, Truthful, Shown
<1>4. \A j \in Publishing : posts'[j].logged => posts'[j].live # 0
  BY ScheduleAssumption DEF Stays, StaysTrue, Truthful
<1> QED  BY <1>1, <1>2, <1>3, <1>4 DEF Truthful

LEMMA BecomeMoves ==
  ASSUME ScheduleInv, NEW p \in Procs, NEW r, Become(p, r)
  PROVE  OneMoves(p) /\ proc'[p] = r
BY DEF ScheduleInv, Become, OneMoves, Same

LEMMA SlowlyMoves ==
  ASSUME ScheduleInv, NEW p \in Procs, NEW r \in Local, BecomeSlowly(p, r)
  PROVE  OneMoves(p) /\ Same(proc'[p], r)
<1>1. PICK f : f = [proc EXCEPT ![p] = r]
  OBVIOUS
<1>2. f \in [Procs -> Local] /\ User \in Procs
  BY <1>1 DEF ScheduleInv, Procs
<1>3. PICK S : S = f[User].slow \ {p}
  OBVIOUS
<1>4. proc' = [f EXCEPT ![User].slow = S]
  BY <1>1, <1>2, <1>3 DEF BecomeSlowly
<1>5. \A q \in Procs : Same(proc'[q], f[q])
  BY <1>2, <1>4 DEF Same, Local
<1> QED  BY <1>1, <1>2, <1>5 DEF OneMoves, ScheduleInv

\* A step that reads, or writes another document, need only look at where it goes.
LEMMA MoveStays ==
  ASSUME ScheduleInv, NEW p \in Procs, OneMoves(p), jobs' = jobs, posts' = posts,
         Truth(proc'[p], posts),
         \A j \in Jobs : Holds(proc[p], j) => Holds(proc'[p], j) \/ ~Active(jobs[j])
  PROVE  Stays(p)
BY DEF Stays, StaysTrue, StaysHeld

\* A task's save of its job.
LEMMA SaveStays ==
  ASSUME ScheduleInv, NEW p \in Tasks, OneMoves(p), NEW d, SaveJob(p, d), proc[p].job \in Jobs,
         \A j \in Jobs : posts'[j].live = posts[j].live,
         \A j \in Publishing : posts'[j].logged => posts[j].logged,
         Truth(proc'[p], posts'), proc'[p].job = proc[p].job,
         jobs[proc[p].job] = None \/ d = None \/ d.status # "COMPLETED"
           \/ proc[p].job \notin Publishing \/ posts[proc[p].job].live # 0,
         proc'[p].pc \in Holding \/ jobs[proc[p].job] = None \/ ~Active(d)
  PROVE  Stays(p)
<1>1. \A j \in Jobs : jobs'[j] = IF j = proc[p].job /\ jobs[j] # None THEN d ELSE jobs[j]
  BY DEF SaveJob, ScheduleInv, Documented
<1>2. StaysTrue(p)
  BY <1>1, ScheduleAssumption DEF StaysTrue, Shown
<1>3. StaysHeld(p)
  BY <1>1 DEF StaysHeld, Active, Holds
<1> QED  BY <1>2, <1>3 DEF Stays

LEMMA RunStays ==
  ASSUME ScheduleInv, Truthful, NEW p \in Tasks, Load(p) \/ Run(p) \/ Fresh(p) \/ Mark(p)
  PROVE  Stays(p)
<1>1. p \in Procs /\ proc[p] \in Local /\ Carries(proc[p], jobs) /\ Truth(proc[p], posts)
  BY DEF Procs, ScheduleInv, Truthful
<1>2. proc[p].job \in Jobs
  BY <1>1 DEF Carries, CarriesJob, Load, Run, Fresh, Mark, JobRead, At
<1>3. Truth(Over(p), posts) /\ Over(p).pc = "close"
  BY DEF Truth, Over, Idle
<1>4. CASE Load(p)
  <2>1. PICK r : /\ Become(p, r)
                 /\ r \in {Over(p), [proc[p] EXCEPT !.pc = "run", !.mine = jobs[proc[p].job],
                                                   !.seen = batch]}
    BY <1>4 DEF Load, JobRead
  <2>2. Truth(r, posts)
    BY <1>1, <1>3, <2>1 DEF Truth, Local
  <2>3. proc[p].pc = "load" /\ UNCHANGED <<jobs, posts>>
    BY <1>4 DEF Load, JobRead, At, Documents
  <2> QED  BY <1>1, <2>1, <2>2, <2>3, BecomeMoves, MoveStays DEF Holds, Holding
<1>5. CASE Run(p)
  <2>1. PICK d, r : /\ d = [proc[p].mine EXCEPT !.status = "RUNNING"]
                    /\ r = [proc[p] EXCEPT !.pc = "fresh", !.mine = d]
    OBVIOUS
  <2>2. SaveJob(p, d) /\ Become(p, r) /\ posts' = posts
    BY <1>5, <2>1 DEF Run
  <2>3. d.status = "RUNNING"
    BY <1>1, <1>5, <2>1 DEF Run, At, Carries, CarriesJob, Job
  <2>4. r.pc = "fresh" /\ r.job = proc[p].job /\ r.mine = d
    BY <1>1, <2>1 DEF Local
  <2>5. Truth(r, posts)
    BY <2>3, <2>4 DEF Truth
  <2> QED  BY <1>1, <1>2, <2>2, <2>3, <2>4, <2>5, BecomeMoves, SaveStays DEF Holding
<1>6. CASE Fresh(p)
  <2>1. PICK r, seen : /\ Become(p, r)
                       /\ \/ r = Over(p) /\ jobs[proc[p].job] = None
                          \/ r = [proc[p] EXCEPT !.pc = "mark", !.seen = seen]
    <3>1. PICK seen : seen = IF batch = None THEN proc[p].seen ELSE batch
      OBVIOUS
    <3> QED  BY <1>6, <3>1 DEF Fresh, JobRead
  <2>2. proc[p].pc = "fresh" /\ UNCHANGED <<jobs, posts>>
    BY <1>6 DEF Fresh, JobRead, At, Documents
  <2>3. \/ r = Over(p) /\ jobs[proc[p].job] = None
        \/ (r.pc = "mark" /\ r.job = proc[p].job /\ r.mine = proc[p].mine)
    BY <1>1, <2>1 DEF Local
  <2>4. Truth(r, posts)
    BY <1>1, <1>3, <2>2, <2>3 DEF Truth
  <2>5. jobs[proc[p].job] = None \/ (r.pc \in Holding /\ r.job = proc[p].job)
    BY <2>3 DEF Holding
  <2>6. \A j \in Jobs : Holds(proc[p], j) => Holds(r, j) \/ ~Active(jobs[j])
    BY <2>5 DEF Holds, Active
  <2> QED  BY <1>1, <2>1, <2>2, <2>4, <2>6, BecomeMoves, MoveStays
<1>7. CASE Mark(p)
  <2>1. PICK r : r = [proc[p] EXCEPT !.pc = "check", !.next = "post", !.seen = None]
    OBVIOUS
  <2>2. Become(p, r) /\ proc[p].pc = "mark" /\ UNCHANGED <<jobs, posts>>
    BY <1>7, <2>1 DEF Mark, At
  <2>3. r.pc = "check" /\ r.next = "post" /\ r.job = proc[p].job /\ r.mine = proc[p].mine
    BY <1>1, <2>1 DEF Local
  <2>4. Truth(r, posts)
    BY <1>1, <2>2, <2>3 DEF Truth
  <2> QED  BY <1>1, <2>2, <2>3, <2>4, BecomeMoves, MoveStays DEF Holds, Holding
<1> QED  BY <1>4, <1>5, <1>6, <1>7

\* Where a task goes when it leaves the pipeline.
LEMMA EndingTruth ==
  ASSUME NEW p \in Procs, proc[p].job \in Jobs, NEW status, NEW docs,
         status # "COMPLETED" \/ (proc[p].job \in Publishing => docs[proc[p].job].live # 0)
  PROVE  /\ Truth(Ending(p, "endFind", status), docs)
         /\ Holds(Ending(p, "endFind", status), proc[p].job)
         /\ \A mine : LET r == [Ending(p, "endSave", status) EXCEPT !.mine = mine]
                      IN  Truth(r, docs) /\ Holds(r, proc[p].job)
BY DEF Truth, Ending, Idle, Holds, Holding

LEMMA CheckStays ==
  ASSUME ScheduleInv, Truthful, NEW p \in Tasks, Check(p)
  PROVE  Stays(p)
<1>1. p \in Procs /\ proc[p] \in Local /\ Carries(proc[p], jobs) /\ Truth(proc[p], posts)
  BY DEF Procs, ScheduleInv, Truthful
<1>2. proc[p].job \in Jobs /\ proc[p].pc = "check"
  BY <1>1 DEF Carries, CarriesJob, Check, At
<1>3. /\ jobs' = jobs
      /\ \A j \in Jobs : posts'[j].live = posts[j].live /\ posts'[j].logged = posts[j].logged
  BY <1>2 DEF Check, DeletePost, ScheduleInv, Documented, Post
<1>4. ASSUME NEW r, Become(p, r), Truth(r, posts'), Holds(r, proc[p].job) PROVE Stays(p)
  BY <1>1, <1>3, <1>4, BecomeMoves, ScheduleAssumption DEF Stays, StaysTrue, StaysHeld, Holds
<1>5. ASSUME NEW status, status # "COMPLETED" \/ (proc[p].job \in Publishing => posts[proc[p].job].live # 0),
             EndNow(p, status)
      PROVE  Stays(p)
  BY <1>1, <1>2, <1>3, <1>4, <1>5, EndingTruth DEF EndNow
<1>6. ASSUME Goto(p, proc[p].next), proc[p].next # "end" PROVE Stays(p)
  <2>1. PICK r : r = [proc[p] EXCEPT !.pc = proc[p].next]
    OBVIOUS
  <2>2. r.pc = proc[p].next /\ r.job = proc[p].job /\ r.mine = proc[p].mine /\ r.next = proc[p].next
    BY <1>1, <2>1 DEF Local
  <2>3. r.pc \in {"post", "stage", "publishStage"}
    BY <1>1, <1>2, <1>6, <2>2 DEF Carries, CarriesGoal
  <2>4. Truth(r, posts')
    BY <1>1, <1>2, <1>3, <2>2, <2>3 DEF Truth
  <2> QED  BY <1>4, <1>6, <2>1, <2>2, <2>3, <2>4 DEF Goto, Holds, Holding
<1>7. proc[p].next = "end" /\ proc[p].goal = "COMPLETED" /\ proc[p].job \in Publishing =>
        posts[proc[p].job].live # 0
  BY <1>1, <1>2 DEF Truth
<1> QED  BY <1>5, <1>6, <1>7 DEF Check

LEMMA FinishedTruth ==
  ASSUME ScheduleInv, Truthful, NEW p \in Procs, proc[p].job \in Jobs
  PROVE  Truth(Finished(p), posts) /\ Holds(Finished(p), proc[p].job)
<1> DEFINE job == jobs[proc[p].job]
           publish == Destination(p) = "publish"
           pc == IF job # None /\ ~job.made THEN "stamp" ELSE "check"
           mine == IF job # None /\ (publish \/ ~job.made) THEN job ELSE None
           next == IF publish THEN "publishStage" ELSE "end"
<1>1. PICK r : r = [proc[p] EXCEPT !.pc = pc, !.mine = mine, !.goal = Destination(p), !.next = next]
  OBVIOUS
<1>2. r = Finished(p)
  BY <1>1 DEF Finished
<1>3. r.job = proc[p].job /\ r.pc = pc /\ r.mine = mine /\ r.next = next /\ r.goal = Destination(p)
  BY <1>1 DEF ScheduleInv, Local
<1>4. /\ pc \in {"stamp", "check"} /\ next \in {"publishStage", "end"}
      /\ pc = "stamp" => mine # None
      /\ mine \in {job, None}
      /\ next = "end" => ~publish
  OBVIOUS
<1>5. Destination(p) = "COMPLETED" /\ proc[p].job \in Publishing => posts[proc[p].job].live # 0
  BY DEF Destination, Truthful
<1>6. proc[p].job \in Publishing => Shown(job, proc[p].job, posts)
  BY DEF Truthful
<1> HIDE DEF job, publish, pc, mine, next
<1>7. Truth(r, posts)
  BY <1>3, <1>4, <1>5, <1>6 DEF Truth, Shown
<1>8. Holds(r, proc[p].job)
  BY <1>3, <1>4 DEF Holds, Holding
<1> QED  BY <1>2, <1>7, <1>8

LEMMA DraftStays ==
  ASSUME ScheduleInv, Truthful, NEW p \in Tasks,
         EnsurePost(p) \/ Create(p) \/ Link(p) \/ Generated(p) \/ Stamp(p)
  PROVE  Stays(p)
<1>1. p \in Procs /\ proc[p] \in Local /\ Carries(proc[p], jobs) /\ Truth(proc[p], posts)
  BY DEF Procs, ScheduleInv, Truthful
<1>2. proc[p].job \in Jobs
  BY <1>1 DEF Carries, CarriesJob, EnsurePost, Create, Link, Generated, Stamp, JobRead, At
<1>3. ASSUME NEW r, Become(p, r), UNCHANGED <<jobs, posts>>, Truth(r, posts), Holds(r, proc[p].job)
      PROVE  Stays(p)
  BY <1>1, <1>3, BecomeMoves, MoveStays DEF Holds
<1>4. CASE EnsurePost(p)
  <2>1. PICK r, t : /\ r = [proc[p] EXCEPT !.pc = "create"]
                    /\ t = [proc[p] EXCEPT !.pc = "check", !.next = "stage",
                                           !.mine = jobs[proc[p].job], !.left = Stages]
    OBVIOUS
  <2>2. (Become(p, r) \/ Become(p, t) \/ Become(p, Finished(p))) /\ UNCHANGED <<jobs, posts>>
    BY <1>4, <2>1 DEF EnsurePost, JobRead, Documents
  <2>3. r.pc = "create" /\ r.job = proc[p].job /\ r.mine = proc[p].mine /\ proc[p].pc = "post"
    BY <1>1, <1>4, <2>1 DEF Local, EnsurePost, JobRead, At
  <2>4. t.pc = "check" /\ t.next = "stage" /\ t.job = proc[p].job /\ t.mine = jobs[proc[p].job]
    BY <1>1, <2>1 DEF Local
  <2>5. Truth(r, posts) /\ Holds(r, proc[p].job)
    BY <1>1, <2>3 DEF Truth, Holds, Holding
  <2>6. proc[p].job \in Publishing => Shown(jobs[proc[p].job], proc[p].job, posts)
    BY DEF Truthful
  <2>7. Truth(t, posts) /\ Holds(t, proc[p].job)
    BY <2>4, <2>6 DEF Truth, Shown, Holds, Holding
  <2> QED  BY <1>1, <1>2, <1>3, <2>2, <2>5, <2>7, FinishedTruth
<1>5. CASE Create(p)
  <2>1. PICK r : r = [proc[p] EXCEPT !.pc = "link"]
    OBVIOUS
  <2>2. proc[p].pc = "create" /\ proc[p].mine.status = "RUNNING" /\ SaveJob(p, proc[p].mine)
    BY <1>1, <1>5 DEF Create, At, Truth
  <2>3. \A j \in Jobs : posts'[j].live = posts[j].live /\ (posts'[j].logged => posts[j].logged)
    BY <1>2, <1>5 DEF Create, ScheduleInv, Documented, Post
  <2>4. r.pc = "link" /\ r.job = proc[p].job /\ r.mine = proc[p].mine
    BY <1>1, <2>1 DEF Local
  <2>5. Truth(r, posts') /\ Holds(r, proc[p].job)
    BY <2>2, <2>4 DEF Truth, Holds, Holding
  <2>6. LET e == Ending(p, "endFind", "FAILED") IN Truth(e, posts') /\ Holds(e, proc[p].job)
    BY <1>1, <1>2, EndingTruth
  <2>7. PICK e : Become(p, e) /\ Truth(e, posts') /\ Holds(e, proc[p].job)
    BY <1>5, <2>1, <2>5, <2>6 DEF Create, Goto, End
  <2> QED  BY <1>1, <1>2, <2>2, <2>3, <2>7, BecomeMoves, SaveStays, ScheduleAssumption DEF Holds
<1>6. CASE Link(p)
  <2>1. PICK d, r : /\ d = [proc[p].mine EXCEPT !.post = TRUE]
                    /\ r = [proc[p] EXCEPT !.pc = "check", !.next = "stage", !.mine = d,
                                           !.left = Stages]
    OBVIOUS
  <2>2. SaveJob(p, d) /\ Become(p, r) /\ posts' = posts
    BY <1>6, <2>1 DEF Link
  <2>3. d.status = "RUNNING"
    BY <1>1, <1>6, <2>1 DEF Link, At, Carries, CarriesJob, Truth, Job
  <2>4. r.pc = "check" /\ r.next = "stage" /\ r.job = proc[p].job /\ r.mine = d
    BY <1>1, <2>1 DEF Local
  <2>5. Truth(r, posts)
    BY <2>3, <2>4 DEF Truth
  <2> QED  BY <1>1, <1>2, <2>2, <2>3, <2>4, <2>5, BecomeMoves, SaveStays DEF Holding
<1>7. CASE Generated(p)
  BY <1>1, <1>2, <1>3, <1>7, FinishedTruth DEF Generated, JobRead, Documents
<1>8. CASE Stamp(p)
  <2>1. PICK d : d = [proc[p].mine EXCEPT !.made = TRUE]
    OBVIOUS
  <2>2. PICK m : m = IF proc[p].next = "end" THEN None ELSE d
    OBVIOUS
  <2>3. PICK r : r = [proc[p] EXCEPT !.pc = "check", !.mine = m]
    OBVIOUS
  <2>4. SaveJob(p, d) /\ Become(p, r) /\ posts' = posts /\ proc[p].pc = "stamp"
    BY <1>8, <2>1, <2>2, <2>3 DEF Stamp, At
  <2>5. d.status = proc[p].mine.status /\ proc[p].mine # None /\ proc[p].next \in {"publishStage", "end"}
    BY <1>1, <2>1, <2>4 DEF Carries, CarriesJob, CarriesGoal, Truth, Job
  <2>6. /\ r.pc = "check" /\ r.next = proc[p].next /\ r.job = proc[p].job /\ r.mine = m
        /\ r.goal = proc[p].goal
    BY <1>1, <2>3 DEF Local
  <2>7. proc[p].job \in Publishing /\ posts[proc[p].job].live = 0 => d.status # "COMPLETED"
    BY <1>1, <2>4, <2>5 DEF Truth
  <2>8. Truth(r, posts)
    BY <1>1, <2>2, <2>4, <2>5, <2>6, <2>7 DEF Truth
  <2> QED  BY <1>1, <1>2, <2>4, <2>6, <2>7, <2>8, BecomeMoves, SaveStays DEF Holding
<1> QED  BY <1>4, <1>5, <1>6, <1>7, <1>8

LEMMA StageStays ==
  ASSUME ScheduleInv, Truthful, NEW p \in Tasks, Stage(p)
  PROVE  Stays(p)
<1>1. p \in Procs /\ proc[p] \in Local /\ Carries(proc[p], jobs) /\ Truth(proc[p], posts)
  BY DEF Procs, ScheduleInv, Truthful
<1>2. /\ proc[p].job \in Jobs /\ proc[p].pc = "stage" /\ proc[p].next = "stage"
      /\ SaveJob(p, proc[p].mine)
  BY <1>1 DEF Carries, CarriesJob, CarriesGoal, Stage, At
<1>3. \A j \in Jobs : posts'[j].live = posts[j].live /\ posts'[j].logged = posts[j].logged
  BY <1>2 DEF Stage, ScheduleInv, Documented, Post
<1>4. \/ jobs[proc[p].job] = None \/ proc[p].mine = None \/ proc[p].mine.status # "COMPLETED"
      \/ proc[p].job \notin Publishing \/ posts[proc[p].job].live # 0
  BY <1>1, <1>2 DEF Truth
<1>5. ASSUME NEW r \in Local, BecomeSlowly(p, r), Truth(r, posts'), Holds(r, proc[p].job)
      PROVE  Stays(p)
  <2>1. OneMoves(p) /\ Same(proc'[p], r)
    BY <1>1, <1>5, SlowlyMoves
  <2>2. Truth(proc'[p], posts') /\ proc'[p].job = proc[p].job /\ proc'[p].pc \in Holding
    BY <1>5, <2>1 DEF Truth, Same, Holds
  <2> QED  BY <1>2, <1>3, <1>4, <2>1, <2>2, SaveStays, ScheduleAssumption
<1>6. ASSUME BecomeSlowly(p, Ending(p, "endFind", "FAILED")) PROVE Stays(p)
  <2>1. Ending(p, "endFind", "FAILED") \in Local
    BY <1>1, <1>2, EndingCarries DEF Carries, Outcomes, JobStatuses
  <2> QED  BY <1>1, <1>2, <1>5, <1>6, <2>1, EndingTruth
<1>7. ASSUME NEW pc \in {"stage", "check"}, proc[p].left > 1,
             BecomeSlowly(p, [proc[p] EXCEPT !.pc = pc, !.left = proc[p].left - 1])
      PROVE  Stays(p)
  <2>1. PICK r : r = [proc[p] EXCEPT !.pc = pc, !.left = proc[p].left - 1]
    OBVIOUS
  <2>2. proc[p].left - 1 \in 0..Stages
    BY <1>1, <1>7, ScheduleAssumption DEF Local
  <2>3. /\ r \in Local /\ r.pc = pc /\ r.next = "stage"
        /\ r.job = proc[p].job /\ r.mine = proc[p].mine
    BY <1>1, <1>2, <2>1, <2>2 DEF Local, Points
  <2>4. Truth(r, posts') /\ Holds(r, proc[p].job)
    BY <1>1, <1>2, <1>3, <2>3 DEF Truth, Holds, Holding
  <2> QED  BY <1>5, <1>7, <2>1, <2>3, <2>4
<1>8. ASSUME BecomeSlowly(p, [proc[p] EXCEPT !.pc = "generated", !.mine = None, !.left = 0])
      PROVE  Stays(p)
  <2>1. PICK r : r = [proc[p] EXCEPT !.pc = "generated", !.mine = None, !.left = 0]
    OBVIOUS
  <2>2. 0 \in 0..Stages
    BY ScheduleAssumption
  <2>3. r \in Local /\ r.pc = "generated" /\ r.job = proc[p].job
    BY <1>1, <2>1, <2>2 DEF Local, Points
  <2>4. Truth(r, posts') /\ Holds(r, proc[p].job)
    BY <2>3 DEF Truth, Holds, Holding
  <2> QED  BY <1>5, <1>8, <2>1, <2>3, <2>4
<1> QED  BY <1>6, <1>7, <1>8 DEF Stage

LEMMA ClickStays ==
  ASSUME ScheduleInv, Truthful, NEW p \in Tasks, Click(p)
  PROVE  Stays(p)
<1>1. p \in Procs /\ proc[p] \in Local /\ Carries(proc[p], jobs) /\ proc[p].pc = "click"
  BY DEF Procs, ScheduleInv, Click, At
<1>2. proc[p].job \in Jobs
  BY <1>1 DEF Carries, CarriesJob
<1>3. PICK result \in {"posted", "human", "failed"}, live \in BOOLEAN :
        /\ result = "posted" => live
        /\ posts' = IF live THEN [posts EXCEPT ![proc[p].job].live = @ + 1] ELSE posts
        /\ BecomeSlowly(p, [proc[p] EXCEPT !.pc = "log", !.goal = result])
  BY DEF Click
<1>4. posts \in [Jobs -> Post] /\ jobs' = jobs
  BY DEF Click, ScheduleInv, Documented
<1>5. /\ \A j \in Jobs : posts'[j].live = 0 => posts[j].live = 0
      /\ \A j \in Publishing : posts'[j].logged => posts[j].logged
      /\ result = "posted" => posts'[proc[p].job].live # 0
  BY <1>2, <1>3, <1>4 DEF Post
<1>6. PICK r : r = [proc[p] EXCEPT !.pc = "log", !.goal = result]
  OBVIOUS
<1>7. r \in Local /\ r.pc = "log" /\ r.job = proc[p].job /\ r.goal = result
  BY <1>1, <1>6 DEF Local, Points, Goals
<1>8. OneMoves(p) /\ Same(proc'[p], r)
  BY <1>1, <1>3, <1>6, <1>7, SlowlyMoves
<1>9. Truth(proc'[p], posts') /\ Holds(proc'[p], proc[p].job)
  BY <1>5, <1>7, <1>8 DEF Truth, Same, Holds, Holding
<1> QED  BY <1>4, <1>5, <1>8, <1>9 DEF Stays, StaysTrue, StaysHeld, Holds

LEMMA PublishStays ==
  ASSUME ScheduleInv, Truthful, NEW p \in Tasks,
         PublishStage(p) \/ Begin(p) \/ SetPublishing(p) \/ StartPosting(p) \/ LogResult(p)
           \/ FinishPost(p) \/ FailPublish(p)
  PROVE  Stays(p)
<1>1. p \in Procs /\ proc[p] \in Local /\ Carries(proc[p], jobs) /\ Truth(proc[p], posts)
  BY DEF Procs, ScheduleInv, Truthful
<1>2. proc[p].job \in Jobs
  BY <1>1 DEF Carries, CarriesJob, PublishStage, Begin, SetPublishing, StartPosting,
     LogResult, FinishPost, FailPublish, JobRead, At
<1>3. posts \in [Jobs -> Post]
  BY DEF ScheduleInv, Documented
<1>4. ASSUME NEW r, Become(p, r), jobs' = jobs, Truth(r, posts'), Holds(r, proc[p].job),
             \A j \in Jobs : posts'[j].live = posts[j].live,
             \A j \in Publishing : posts'[j].logged => posts[j].logged \/ posts'[j].live # 0
      PROVE  Stays(p)
  BY <1>1, <1>4, BecomeMoves DEF Stays, StaysTrue, StaysHeld, Holds
<1>5. CASE PublishStage(p)
  <2>1. PICK r : r = [proc[p] EXCEPT !.pc = "begin"]
    OBVIOUS
  <2>2. Become(p, r) /\ SaveJob(p, proc[p].mine) /\ posts' = posts /\ proc[p].pc = "publishStage"
    BY <1>5, <2>1 DEF PublishStage, Goto, At
  <2>3. r.pc = "begin" /\ r.job = proc[p].job
    BY <1>1, <2>1 DEF Local
  <2>4. Truth(r, posts)
    BY <2>3 DEF Truth
  <2>5. \/ proc[p].mine = None \/ proc[p].mine.status # "COMPLETED"
        \/ proc[p].job \notin Publishing \/ posts[proc[p].job].live # 0
    BY <1>1, <2>2 DEF Truth
  <2> QED  BY <1>1, <1>2, <2>2, <2>3, <2>4, <2>5, BecomeMoves, SaveStays DEF Holding
<1>6. CASE Begin(p)
  <2>1. PICK r : r = [proc[p] EXCEPT !.pc = "publishing", !.mine = jobs[proc[p].job]]
    OBVIOUS
  <2>2. Become(p, r) /\ UNCHANGED <<jobs, posts>>
    BY <1>6, <2>1 DEF Begin, JobRead, Documents
  <2>3. r.pc = "publishing" /\ r.job = proc[p].job
    BY <1>1, <2>1 DEF Local
  <2>4. Truth(r, posts) /\ Holds(r, proc[p].job)
    BY <2>3 DEF Truth, Holds, Holding
  <2> QED  BY <1>1, <1>4, <2>2, <2>4 
<1>7. CASE SetPublishing(p)
  <2>1. PICK d : d = [proc[p].mine EXCEPT !.status = "PUBLISHING", !.tries = proc[p].mine.tries + 1]
    OBVIOUS
  <2>2. PICK r : r = [proc[p] EXCEPT !.pc = "start", !.mine = None]
    OBVIOUS
  <2>3. SaveJob(p, d) /\ Become(p, r) /\ posts' = posts
    BY <1>7, <2>1, <2>2 DEF SetPublishing
  <2>4. jobs[proc[p].job] = None \/ d.status = "PUBLISHING"
    BY <1>1, <1>7, <2>1 DEF SetPublishing, At, Carries, CarriesJob, Job
  <2>5. r.pc = "start" /\ r.job = proc[p].job
    BY <1>1, <2>2 DEF Local
  <2>6. Truth(r, posts)
    BY <2>5 DEF Truth
  <2> QED  BY <1>1, <1>2, <2>3, <2>4, <2>5, <2>6, BecomeMoves, SaveStays DEF Holding
<1>8. CASE StartPosting(p)
  <2>1. PICK r : r = [proc[p] EXCEPT !.pc = "click"]
    OBVIOUS
  <2>2. r.pc = "click" /\ r.job = proc[p].job
    BY <1>1, <2>1 DEF Local
  <2>3. Truth(r, posts') /\ Holds(r, proc[p].job)
    BY <2>2 DEF Truth, Holds, Holding
  <2>4. LET e == [Ending(p, "endSave", "FAILED") EXCEPT !.mine = jobs[proc[p].job]]
        IN  Truth(e, posts') /\ Holds(e, proc[p].job)
    BY <1>1, <1>2, EndingTruth
  <2>5. PICK e : Become(p, e) /\ Truth(e, posts') /\ Holds(e, proc[p].job)
    BY <1>8, <2>1, <2>3, <2>4 DEF StartPosting, Goto, EndNow
  <2>6. /\ jobs' = jobs
        /\ \A j \in Jobs : posts'[j].live = posts[j].live /\ posts'[j].logged = posts[j].logged
    BY <1>2, <1>3, <1>8 DEF StartPosting, Post
  <2> QED  BY <1>4, <2>5, <2>6, ScheduleAssumption
<1>9. CASE LogResult(p)
  <2>1. proc[p].pc = "log" /\ proc[p].goal \in {"posted", "human", "failed"}
    BY <1>1, <1>9 DEF Carries, CarriesGoal, LogResult, At
  <2>2. PICK r : r = [proc[p] EXCEPT !.pc = "finish"]
    OBVIOUS
  <2>3. PICK v : v = (posts[proc[p].job].logged \/ proc[p].goal = "posted")
    OBVIOUS
  <2>4. posts' = posts \/ (posts' = [posts EXCEPT ![proc[p].job].logged = v] /\ Become(p, r))
    BY <1>9, <2>2, <2>3, Zenon DEF LogResult, Goto
  <2>5. \A j \in Jobs : posts'[j].live = posts[j].live
    BY <1>2, <1>3, <2>4 DEF Post
  <2>6. r.pc = "finish" /\ r.job = proc[p].job /\ r.goal = proc[p].goal
    BY <1>1, <2>2 DEF Local
  <2>7. Truth(r, posts') /\ Holds(r, proc[p].job)
    BY <1>1, <1>2, <2>1, <2>5, <2>6 DEF Truth, Holds, Holding
  <2>8. LET e == Ending(p, "endFind", "FAILED") IN Truth(e, posts') /\ Holds(e, proc[p].job)
    BY <1>1, <1>2, EndingTruth
  <2>9. PICK e : Become(p, e) /\ Truth(e, posts') /\ Holds(e, proc[p].job)
    BY <1>9, <2>2, <2>7, <2>8 DEF LogResult, Goto, End
  <2>10. v /\ proc[p].job \in Publishing => posts[proc[p].job].live # 0
    BY <1>1, <2>1, <2>3 DEF Truth, Truthful
  <2>11. \A j \in Publishing : posts'[j].logged => posts[j].logged \/ posts'[j].live # 0
    BY <1>2, <1>3, <2>4, <2>5, <2>10, ScheduleAssumption DEF Post
  <2> QED  BY <1>4, <1>9, <2>5, <2>9, <2>11 DEF LogResult
<1>10. CASE FinishPost(p)
  <2>1. proc[p].pc = "finish" /\ proc[p].goal \in {"posted", "human", "failed"}
    BY <1>1, <1>10 DEF Carries, CarriesGoal, FinishPost, At
  <2>2. PICK r : r = [proc[p] EXCEPT !.pc = "failPublish"]
    OBVIOUS
  <2>3. r.pc = "failPublish" /\ r.job = proc[p].job
    BY <1>1, <2>2 DEF Local
  <2>4. Truth(r, posts') /\ Holds(r, proc[p].job)
    BY <2>3 DEF Truth, Holds, Holding
  <2>5. /\ jobs' = jobs
        /\ \A j \in Jobs : posts'[j].live = posts[j].live /\ posts'[j].logged = posts[j].logged
    BY <1>2, <1>3, <1>10, <2>1 DEF FinishPost, Post
  <2>6. \/ Become(p, r) \/ Become(p, Ending(p, "endFind", "FAILED"))
        \/ Become(p, Ending(p, "endFind", "NEEDS_HUMAN"))
        \/ proc[p].goal = "posted" /\ Become(p, Ending(p, "endFind", "COMPLETED"))
    BY <1>10, <2>2 DEF FinishPost, Goto, End
  <2>7. ASSUME NEW status, Become(p, Ending(p, "endFind", status)),
               status # "COMPLETED" \/ proc[p].goal = "posted"
        PROVE  Stays(p)
    <3>1. status # "COMPLETED" \/ (proc[p].job \in Publishing => posts'[proc[p].job].live # 0)
      BY <1>1, <1>2, <2>1, <2>5, <2>7 DEF Truth
    <3> QED  BY <1>1, <1>2, <1>4, <2>5, <2>7, <3>1, EndingTruth, ScheduleAssumption
  <2> QED  BY <1>4, <2>4, <2>5, <2>6, <2>7, ScheduleAssumption
<1>11. CASE FailPublish(p)
  <2>1. PICK goal \in {"FAILED", "again"} :
          Become(p, [proc[p] EXCEPT !.pc = "endSave", !.mine = jobs[proc[p].job], !.goal = goal])
    BY <1>11 DEF FailPublish, JobRead
  <2>2. PICK r : r = [proc[p] EXCEPT !.pc = "endSave", !.mine = jobs[proc[p].job], !.goal = goal]
    OBVIOUS
  <2>3. r.pc = "endSave" /\ r.job = proc[p].job /\ r.goal = goal
    BY <1>1, <2>2 DEF Local
  <2>4. Truth(r, posts) /\ Holds(r, proc[p].job)
    BY <2>3 DEF Truth, Holds, Holding
  <2> QED  BY <1>4, <1>11, <2>1, <2>2, <2>4 DEF FailPublish, JobRead, Documents
<1> QED  BY <1>5, <1>6, <1>7, <1>8, <1>9, <1>10, <1>11

LEMMA EndStays ==
  ASSUME ScheduleInv, Truthful, NEW p \in Tasks,
         EndFind(p) \/ EndSave(p) \/ EndBatch(p) \/ EndMark(p)
  PROVE  Stays(p)
<1>1. p \in Procs /\ proc[p] \in Local /\ Carries(proc[p], jobs) /\ Truth(proc[p], posts)
  BY DEF Procs, ScheduleInv, Truthful
<1>2. proc[p].job \in Jobs
  BY <1>1 DEF Carries, CarriesJob, EndFind, EndSave, EndBatch, EndMark, JobRead, At
<1>3. CASE EndFind(p)
  <2>1. PICK r : r = [proc[p] EXCEPT !.pc = "endSave", !.mine = jobs[proc[p].job]]
    OBVIOUS
  <2>2. Become(p, r) /\ proc[p].pc = "endFind" /\ UNCHANGED <<jobs, posts>>
    BY <1>3, <2>1 DEF EndFind, JobRead, At, Documents
  <2>3. r.pc = "endSave" /\ r.job = proc[p].job /\ r.goal = proc[p].goal
    BY <1>1, <2>1 DEF Local
  <2>4. Truth(r, posts)
    BY <1>1, <2>2, <2>3 DEF Truth
  <2> QED  BY <1>1, <2>2, <2>3, <2>4, BecomeMoves, MoveStays DEF Holds, Holding
<1>4. CASE EndSave(p)
  <2>1. PICK status : status = IF proc[p].goal = "again" THEN "READY_TO_PUBLISH" ELSE proc[p].goal
    OBVIOUS
  <2>2. PICK d, r : /\ d = [proc[p].mine EXCEPT !.status = status]
                    /\ r = [proc[p] EXCEPT !.pc = "endBatch", !.mine = None]
    OBVIOUS
  <2>3. SaveJob(p, d) /\ Become(p, r) /\ posts' = posts /\ proc[p].pc = "endSave"
    BY <1>4, <2>1, <2>2 DEF EndSave, At
  <2>4. status \in Outcomes
    BY <1>1, <2>1, <2>3 DEF Carries, CarriesGoal, Outcomes, JobStatuses
  <2>5. jobs[proc[p].job] = None \/ d.status = status
    BY <1>1, <2>2, <2>3 DEF Carries, CarriesJob, Job
  <2>6. r.pc = "endBatch" /\ r.job = proc[p].job
    BY <1>1, <2>2 DEF Local
  <2>7. Truth(r, posts)
    BY <2>6 DEF Truth
  <2>8. status # "COMPLETED" \/ proc[p].job \notin Publishing \/ posts[proc[p].job].live # 0
    BY <1>1, <2>1, <2>3 DEF Truth
  <2>9. jobs[proc[p].job] = None \/ ~Active(d)
    BY <2>4, <2>5 DEF Active, Outcomes
  <2> QED
    BY <1>1, <1>2, <2>3, <2>5, <2>6, <2>7, <2>8, <2>9, BecomeMoves, SaveStays, ScheduleAssumption
<1>5. CASE EndBatch(p)
  <2>1. PICK r : /\ Become(p, r)
                 /\ r \in {Over(p), [proc[p] EXCEPT !.pc = "endMark", !.seen = batch]}
    BY <1>5 DEF EndBatch, JobRead
  <2>2. r.pc \in {"close", "endMark"} /\ proc[p].pc = "endBatch" /\ UNCHANGED <<jobs, posts>>
    BY <1>1, <1>5, <2>1 DEF EndBatch, JobRead, At, Documents, Over, Idle, Local
  <2>3. Truth(r, posts)
    BY <2>2, <1>2 DEF Truth
  <2> QED  BY <1>1, <2>1, <2>2, <2>3, BecomeMoves, MoveStays DEF Holds, Holding
<1>6. CASE EndMark(p)
  <2>1. Become(p, Over(p)) /\ proc[p].pc = "endMark" /\ UNCHANGED <<jobs, posts>>
    BY <1>6 DEF EndMark, At
  <2>2. Over(p).pc = "close" /\ Truth(Over(p), posts)
    BY DEF Over, Idle, Truth
  <2> QED  BY <1>1, <2>1, <2>2, BecomeMoves, MoveStays DEF Holds, Holding
<1> QED  BY <1>3, <1>4, <1>5, <1>6

-----------------------------------------------------------------------------
\* Everything else holds no job before it and none after, and leaves a job alone, or
\* deletes it, or gives it a status in which it is neither run nor published.
LEMMA QuietStays ==
  ASSUME ScheduleInv, NEW p \in Procs, NEW r, Become(p, r), proc[p].pc \notin Holding,
         r.pc \notin Holding,
         \A j \in Jobs : posts'[j].live = posts[j].live /\ (posts'[j].logged => posts[j].logged),
         \A j \in Jobs : \/ jobs'[j] = jobs[j] \/ jobs'[j] = None
                         \/ jobs'[j].status \notin {"RUNNING", "PUBLISHING", "COMPLETED"}
  PROVE  Stays(p)
<1>1. OneMoves(p) /\ proc'[p] = r
  BY BecomeMoves
<1>2. Truth(r, posts')
  BY DEF Truth, Holding
<1>3. StaysTrue(p)
  BY <1>1, <1>2, ScheduleAssumption DEF StaysTrue, Shown
<1>4. StaysHeld(p)
  BY <1>1 DEF StaysHeld, Active, Holds
<1> QED  BY <1>1, <1>3, <1>4 DEF Stays

LEMMA SaveEachStays ==
  ASSUME ScheduleInv, NEW p \in Procs, NEW pc, pc \notin Holding, NEW next, next \notin Holding,
         NEW status \in {"WAITING", "CANCELED"}, SaveEach(p, pc, status, next)
  PROVE  Stays(p)
<1>1. proc[p] \in Local /\ proc[p].pc = pc /\ posts' = posts /\ jobs \in [Jobs -> Job \cup {None}]
  BY DEF ScheduleInv, Documented, SaveEach, At
<1>2. PICK j \in Jobs :
        /\ proc[p].list[j] # None
        /\ jobs' = IF jobs[j] = None THEN jobs
                   ELSE [jobs EXCEPT ![j] = [proc[p].list[j] EXCEPT !.status = status]]
        /\ LET rest == [proc[p].list EXCEPT ![j] = None]
           IN  Become(p, [proc[p] EXCEPT !.list = rest,
                            !.pc = IF rest = NoList THEN next ELSE proc[p].pc])
  BY DEF SaveEach
<1>3. PICK r : Become(p, r) /\ r.pc \in {pc, next}
  <2>1. PICK rest : rest = [proc[p].list EXCEPT ![j] = None]
    OBVIOUS
  <2>2. PICK to : to = IF rest = NoList THEN next ELSE proc[p].pc
    OBVIOUS
  <2>3. PICK r : r = [proc[p] EXCEPT !.list = rest, !.pc = to]
    OBVIOUS
  <2>4. r.pc \in {pc, next}
    BY <1>1, <2>2, <2>3 DEF Local
  <2> QED  BY <1>2, <2>1, <2>2, <2>3, <2>4
<1>4. proc[p].list[j] \in Job
  BY <1>1, <1>2 DEF Local
<1>5. PICK d : d = [proc[p].list[j] EXCEPT !.status = status]
  OBVIOUS
<1>6. d.status = status
  BY <1>4, <1>5 DEF Job
<1>7. \A k \in Jobs : jobs'[k] = jobs[k] \/ jobs'[k].status = status
  BY <1>1, <1>2, <1>5, <1>6
<1> QED  BY <1>1, <1>3, <1>7, QuietStays

LEMMA CommonStays ==
  ASSUME ScheduleInv, NEW p \in Procs, Common(p)
  PROVE  Stays(p)
<1>1. proc[p] \in Local /\ Carries(proc[p], jobs)
  BY DEF ScheduleInv
<1>2. CASE Close(p)
  <2>1. PICK r : r = Closing
    OBVIOUS
  <2>2. r.pc \in {"idle", "finishSave"}
    BY <2>1 DEF Closing, Finishing, Idle
  <2> QED  BY <1>2, <2>1, <2>2, QuietStays DEF Close, JobRead, At, Documents, Holding
<1>3. CASE FinishSave(p)
  BY <1>3, QuietStays DEF FinishSave, At, Idle, Holding
<1>4. CASE SaveEach(p, "cancelEach", "CANCELED", "count")
  BY <1>4, SaveEachStays DEF Holding
<1>5. CASE CountFind(p)
  <2>1. PICK r, t : /\ r = [proc[p] EXCEPT !.pc = "countSave", !.mine = batch]
                    /\ t = [proc[p] EXCEPT !.pc = proc[p].next]
    OBVIOUS
  <2>2. r.pc = "countSave" /\ t.pc = proc[p].next
    BY <1>1, <2>1 DEF Local
  <2>3. proc[p].pc = "count" /\ proc[p].next \in {"settle", "stopFind", "idle"}
    BY <1>1, <1>5 DEF CountFind, JobRead, At, Carries, CarriesBatch
  <2>4. Become(p, r) \/ Become(p, t)
    BY <1>5, <2>1 DEF CountFind, JobRead
  <2> QED  BY <1>5, <2>2, <2>3, <2>4, QuietStays DEF CountFind, JobRead, Documents, Holding
<1>6. CASE CountSave(p)
  <2>1. PICK r : r = [proc[p] EXCEPT !.pc = proc[p].next, !.mine = None]
    OBVIOUS
  <2>2. r.pc = proc[p].next
    BY <1>1, <2>1 DEF Local
  <2>3. proc[p].pc = "countSave" /\ proc[p].next \in {"settle", "stopFind", "idle"}
    BY <1>1, <1>6 DEF CountSave, At, Carries, CarriesBatch
  <2> QED  BY <1>6, <2>1, <2>2, <2>3, QuietStays DEF CountSave, Holding
<1> QED  BY <1>2, <1>3, <1>4, <1>5, <1>6 DEF Common

LEMMA AskStays ==
  ASSUME ScheduleInv, AskAnything
  PROVE  Stays(User)
<1>1. User \in Procs
  BY DEF Procs
<1>2. ASSUME NEW kind, NEW r, r.pc \in Kinds \cup {"discardBatch"}, DOMAIN r = DOMAIN Idle,
             Ask(kind, r)
      PROVE  Stays(User)
  <2>1. PICK S : S = {p \in Tasks : proc[p].pc \in {"stage", "click"}}
    OBVIOUS
  <2>2. PICK t : t = [r EXCEPT !.slow = S]
    OBVIOUS
  <2>3. t.pc = r.pc
    BY <1>2, <2>2 DEF Idle
  <2>4. Become(User, t)
    BY <1>2, <2>1, <2>2 DEF Ask
  <2> QED  BY <1>1, <1>2, <2>3, <2>4, QuietStays DEF Ask, At, Documents, Holding, Kinds
<1>3. ASSUME NEW kind, NEW pc \in Kinds, Ask(kind, [Idle EXCEPT !.pc = pc, !.seen = batch])
      PROVE  Stays(User)
  <2>1. PICK r : r = [Idle EXCEPT !.pc = pc, !.seen = batch]
    OBVIOUS
  <2>2. r.pc = pc /\ DOMAIN r = DOMAIN Idle
    BY <2>1 DEF Idle
  <2> QED  BY <1>2, <1>3, <2>1, <2>2
<1>4. ASSUME NEW kind, NEW pc \in Kinds, NEW refused, AskJob(kind, pc, refused)
      PROVE  Stays(User)
  <2>1. PICK j \in Jobs : Ask(kind, [Idle EXCEPT !.pc = pc, !.job = j, !.mine = jobs[j]])
    BY <1>4 DEF AskJob
  <2>2. PICK r : r = [Idle EXCEPT !.pc = pc, !.job = j, !.mine = jobs[j]]
    OBVIOUS
  <2>3. r.pc = pc /\ DOMAIN r = DOMAIN Idle
    BY <2>2 DEF Idle
  <2> QED  BY <1>2, <2>1, <2>2, <2>3
<1>5. CASE AskDiscard
  <2>1. PICK doomed : doomed = [j \in Jobs |-> IF jobs[j] # None /\ jobs[j].status # "COMPLETED"
                                              THEN jobs[j] ELSE None]
    OBVIOUS
  <2>2. PICK pc \in {"discardBatch", "discard"} :
          pc = IF doomed = NoList THEN "discardBatch" ELSE "discard"
    OBVIOUS
  <2>3. PICK goal : goal = IF StatusIn(jobs, {"COMPLETED"}) THEN "COMPLETED" ELSE "delete"
    OBVIOUS
  <2>4. PICK r : r = [Idle EXCEPT !.pc = pc, !.seen = batch, !.list = doomed, !.goal = goal]
    OBVIOUS
  <2>5. Ask("discard", r)
    BY <1>5, <2>1, <2>2, <2>3, <2>4, Zenon DEF AskDiscard
  <2>6. r.pc = pc /\ DOMAIN r = DOMAIN Idle
    BY <2>4 DEF Idle
  <2> QED  BY <1>2, <2>5, <2>6 DEF Kinds
<1>6. CASE AskForget
  <2>1. PICK j \in Jobs : Ask("forget", [Idle EXCEPT !.pc = "forget", !.job = j])
    BY <1>6 DEF AskForget
  <2>2. PICK r : r = [Idle EXCEPT !.pc = "forget", !.job = j]
    OBVIOUS
  <2>3. r.pc = "forget" /\ DOMAIN r = DOMAIN Idle
    BY <2>2 DEF Idle
  <2> QED  BY <1>2, <2>1, <2>2, <2>3 DEF Kinds
<1>7. AskPause \/ AskResume \/ AskStop => Stays(User)
  BY <1>3 DEF AskPause, AskResume, AskStop, Kinds
<1>8. AskRetry \/ AskReschedule \/ AskCancel \/ AskDelete => Stays(User)
  BY <1>4 DEF AskRetry, AskReschedule, AskCancel, AskDelete, Kinds
<1> QED  BY <1>5, <1>6, <1>7, <1>8 DEF AskAnything

LEMMA UserBatchStays ==
  ASSUME ScheduleInv, NEW pc, pc \notin Holding, NEW r, NEW next, next.pc \notin Holding,
         UserBatch(pc, r, next)
  PROVE  Stays(User)
BY QuietStays DEF UserBatch, At, Procs

LEMMA UserJobStays ==
  ASSUME ScheduleInv, NEW pc \in {"retry", "cancel"}, NEW status \in {"WAITING", "CANCELED"},
         NEW next, next \notin Holding, UserJob(pc, status, next)
  PROVE  Stays(User)
<1>1. User \in Procs /\ proc[User] \in Local /\ proc[User].pc = pc /\ posts' = posts
  BY DEF Procs, ScheduleInv, UserJob, At
<1>2. proc[User].mine \in Job /\ jobs \in [Jobs -> Job \cup {None}]
  BY <1>1 DEF ScheduleInv, Documented, Carries, CarriesJob
<1>3. PICK d : d = [proc[User].mine EXCEPT !.status = status]
  OBVIOUS
<1>4. d.status = status /\ SaveJob(User, d)
  BY <1>2, <1>3 DEF Job, UserJob
<1>5. PICK r : r = [Idle EXCEPT !.pc = next, !.job = proc[User].job]
  OBVIOUS
<1>6. r.pc = next /\ Become(User, r)
  BY <1>5 DEF Idle, UserJob
<1>7. \A j \in Jobs : jobs'[j] = jobs[j] \/ jobs'[j].status = status
  BY <1>2, <1>4 DEF SaveJob
<1> QED  BY <1>1, <1>6, <1>7, QuietStays DEF Holding

LEMMA ReopenedGoes ==
  ASSUME NEW next, proc[User] \in Local
  PROVE  Reopened(next).pc \in {"idle", next}
<1>1. PICK r : r = [proc[User] EXCEPT !.pc = next, !.seen = batch]
  OBVIOUS
<1>2. r.pc = next
  BY <1>1 DEF Local
<1> QED  BY <1>1, <1>2 DEF Reopened, Idle

LEMMA HandleStays ==
  ASSUME ScheduleInv, Handle
  PROVE  Stays(User)
<1>1. User \in Procs /\ proc[User] \in Local /\ Carries(proc[User], jobs)
  BY DEF Procs, ScheduleInv
<1>2. ASSUME NEW pc, pc \notin Holding, NEW r, r.pc \notin Holding, JobRead(User, pc, r)
      PROVE  Stays(User)
  BY <1>1, <1>2, QuietStays DEF JobRead, At, Documents
<1>3. \A status : Finishing(status).pc \in {"idle", "finishSave"}
  BY DEF Finishing, Idle
<1>4. Idle.pc = "idle" /\ Stopped.pc \in {"idle", "finishSave"}
  BY <1>3 DEF Stopped, Idle
<1>5. CASE Pause \/ Resume \/ Stop \/ RetryBatch
  BY <1>4, <1>5, UserBatchStays DEF Pause, Resume, Stop, RetryBatch, Idle, Holding
<1>6. CASE ResumeList
  <2>1. PICK r : r = IF StatusIn(jobs, {"NEEDS_HUMAN"})
                     THEN [Idle EXCEPT !.pc = "resumeEach", !.list = ListOf("NEEDS_HUMAN")]
                     ELSE Idle
    OBVIOUS
  <2>2. r.pc \in {"resumeEach", "idle"}
    BY <2>1 DEF Idle
  <2> QED  BY <1>2, <1>6, <2>1, <2>2 DEF ResumeList, Holding
<1>7. CASE SaveEach(User, "resumeEach", "WAITING", "idle")
  BY <1>1, <1>7, SaveEachStays DEF Holding
<1>8. CASE StopList \/ StopFind
  <2>1. PICK r : r = IF ListOf("WAITING") = NoList THEN Stopped
                     ELSE [Idle EXCEPT !.pc = "cancelEach", !.next = "stopFind",
                                       !.list = ListOf("WAITING")]
    OBVIOUS
  <2>2. r.pc \in {"idle", "finishSave", "cancelEach"}
    BY <1>4, <2>1 DEF Idle
  <2> QED  BY <1>2, <1>4, <1>8, <2>1, <2>2 DEF StopList, StopFind, Holding
<1>9. CASE Retry \/ Cancel
  BY <1>9, UserJobStays DEF Retry, Cancel, Holding
<1>10. CASE RetryFind \/ RescheduleFind
  <2>1. Reopened("retryBatch").pc \in {"idle", "retryBatch"}
    BY <1>1, ReopenedGoes
  <2>2. Reopened("rescheduleBatch").pc \in {"idle", "rescheduleBatch"}
    BY <1>1, ReopenedGoes
  <2> QED  BY <1>2, <1>10, <2>1, <2>2 DEF RetryFind, RescheduleFind, Holding
<1>11. CASE Delete
  <2>1. PICK r : r = [proc[User] EXCEPT !.pc = "deletePost", !.slow = {}]
    OBVIOUS
  <2>2. r.pc = "deletePost" /\ proc[User].pc = "delete" /\ Become(User, r) /\ posts' = posts
    BY <1>1, <1>11, <2>1 DEF Delete, Local, At
  <2>3. \A j \in Jobs : jobs'[j] = jobs[j] \/ jobs'[j] = None
    BY <1>11 DEF Delete, ScheduleInv, Documented
  <2> QED  BY <1>1, <2>2, <2>3, QuietStays DEF Holding
<1>12. CASE DeletePostOf
  <2>1. PICK r : r = [proc[User] EXCEPT !.pc = "list", !.mine = None, !.goal = "delete"]
    OBVIOUS
  <2>2. r.pc = "list" /\ proc[User].pc = "deletePost" /\ Become(User, r) /\ jobs' = jobs
    BY <1>1, <1>12, <2>1 DEF DeletePostOf, Local, At
  <2>3. \A j \in Jobs : posts'[j].live = posts[j].live /\ posts'[j].logged = posts[j].logged
    BY <1>12 DEF DeletePostOf, DeletePost, ScheduleInv, Documented, Post
  <2> QED  BY <1>1, <2>2, <2>3, QuietStays DEF Holding
<1>13. CASE ListRemaining
  <2>1. AfterDelete.pc = "listSave"
    BY DEF AfterDelete, Idle
  <2>2. PICK r : r = IF batch = None THEN Idle ELSE AfterDelete
    OBVIOUS
  <2> QED  BY <1>2, <1>4, <1>13, <2>1, <2>2 DEF ListRemaining, Holding
<1>14. CASE ListSave
  <2>1. PICK r : r = IF proc[User].next = "listSave"
                     THEN [proc[User] EXCEPT !.next = "idle", !.seen.status = "RUNNING"]
                     ELSE [Idle EXCEPT !.pc = proc[User].next, !.goal = proc[User].goal]
    OBVIOUS
  <2>2. proc[User].pc = "listSave" /\ proc[User].next \in {"idle", "finishBatch", "listSave"}
    BY <1>1, <1>14 DEF ListSave, UserBatch, At, Carries, CarriesBatch
  <2>3. r.pc \in {"listSave", "idle", "finishBatch"}
    BY <1>1, <2>1, <2>2 DEF Idle, Local
  <2> QED  BY <1>14, <2>1, <2>3, UserBatchStays DEF ListSave, Holding
<1>15. CASE FinishFind
  BY <1>2, <1>3, <1>15 DEF FinishFind, Holding
<1>16. CASE Reschedule
  <2>1. /\ proc[User].pc = "reschedule" /\ proc[User].mine \in Job
        /\ proc[User].mine.status \in Reschedulable /\ posts' = posts
    BY <1>1, <1>16 DEF Reschedule, At, Carries, CarriesJob
  <2>2. PICK status : status = IF proc[User].mine.made THEN "READY_TO_PUBLISH" ELSE "WAITING"
    OBVIOUS
  <2>3. PICK d : d = [proc[User].mine EXCEPT !.status = status, !.tries = 0]
    OBVIOUS
  <2>4. d.status \in {"WAITING", "READY_TO_PUBLISH"}
    BY <2>1, <2>2, <2>3 DEF Job
  <2>5. SaveJob(User, d) \/ SaveJob(User, proc[User].mine)
    BY <1>16, <2>2, <2>3 DEF Reschedule
  <2>6. \A j \in Jobs : \/ jobs'[j] = jobs[j]
                       \/ jobs'[j].status \notin {"RUNNING", "PUBLISHING", "COMPLETED"}
    BY <2>1, <2>4, <2>5 DEF SaveJob, ScheduleInv, Documented, Reschedulable
  <2>7. PICK r : r = [Idle EXCEPT !.pc = "rescheduleFind", !.job = proc[User].job]
    OBVIOUS
  <2>8. r.pc = "rescheduleFind" /\ Become(User, r)
    BY <1>16, <2>7 DEF Reschedule, Idle
  <2> QED  BY <1>1, <2>1, <2>6, <2>8, QuietStays DEF Holding
<1>17. CASE RescheduleBatch \/ DiscardBatch
  BY <1>4, <1>17, UserBatchStays DEF RescheduleBatch, DiscardBatch, Holding
<1>18. CASE DiscardJob
  <2>1. PICK j \in Jobs : /\ jobs' = [jobs EXCEPT ![j] = None]
                         /\ Become(User, [proc[User] EXCEPT !.pc = "discardPost", !.job = j])
    BY <1>18 DEF DiscardJob
  <2>2. PICK r : r = [proc[User] EXCEPT !.pc = "discardPost", !.job = j]
    OBVIOUS
  <2>3. r.pc = "discardPost" /\ proc[User].pc = "discard" /\ posts' = posts
    BY <1>1, <1>18, <2>2 DEF DiscardJob, Local, At
  <2>4. \A k \in Jobs : jobs'[k] = jobs[k] \/ jobs'[k] = None
    BY <2>1 DEF ScheduleInv, Documented
  <2> QED  BY <1>1, <2>1, <2>2, <2>3, <2>4, QuietStays DEF Holding
<1>19. CASE DiscardPost
  <2>1. PICK rest : rest = [proc[User].list EXCEPT ![proc[User].job] = None]
    OBVIOUS
  <2>2. PICK r, t :
          /\ r = [Idle EXCEPT !.pc = "discardBatch", !.seen = proc[User].seen,
                              !.goal = proc[User].goal]
          /\ t = [proc[User] EXCEPT !.pc = "discard", !.list = rest]
    OBVIOUS
  <2>3. r.pc = "discardBatch" /\ t.pc = "discard"
    BY <1>1, <2>2 DEF Idle, Local
  <2>4. (Become(User, r) \/ Become(User, t)) /\ proc[User].pc = "discardPost" /\ jobs' = jobs
    BY <1>19, <2>1, <2>2 DEF DiscardPost, At
  <2>5. \A j \in Jobs : posts'[j].live = posts[j].live /\ posts'[j].logged = posts[j].logged
    BY <1>19 DEF DiscardPost, DeletePost, ScheduleInv, Documented, Post
  <2> QED  BY <1>1, <2>3, <2>4, <2>5, QuietStays DEF Holding
<1>20. CASE Forget
  <2>1. PICK r : r = [proc[User] EXCEPT !.pc = "forgetJob", !.slow = {}]
    OBVIOUS
  <2>2. r.pc = "forgetJob" /\ proc[User].pc = "forget" /\ Become(User, r) /\ jobs' = jobs
    BY <1>1, <1>20, <2>1 DEF Forget, Local, At
  <2>3. \A j \in Jobs : posts'[j].live = posts[j].live /\ (posts'[j].logged => posts[j].logged)
    BY <1>20 DEF Forget, ScheduleInv, Documented, Post
  <2> QED  BY <1>1, <2>2, <2>3, QuietStays DEF Holding
<1>21. CASE ForgetJob
  <2>1. PICK r : r = [Idle EXCEPT !.pc = "count"]
    OBVIOUS
  <2>2. r.pc = "count" /\ proc[User].pc = "forgetJob" /\ posts' = posts
    BY <1>21, <2>1 DEF ForgetJob, Idle, At
  <2>3. Become(User, r) \/ Become(User, Idle)
    BY <1>21, <2>1 DEF ForgetJob
  <2>4. \A j \in Jobs : jobs'[j] = jobs[j] \/ jobs'[j] = None
    BY <1>21 DEF ForgetJob, ScheduleInv, Documented
  <2> QED  BY <1>1, <1>4, <2>2, <2>3, <2>4, QuietStays DEF Holding
<1> QED
  BY <1>5, <1>6, <1>7, <1>8, <1>9, <1>10, <1>11, <1>12, <1>13, <1>14, <1>15, <1>16, <1>17, <1>18,
     <1>19, <1>20, <1>21 DEF Handle

LEMMA LoopStays ==
  ASSUME ScheduleInv, Reconcile \/ Settle
  PROVE  Stays(Worker)
<1>1. Worker \in Procs
  BY DEF Procs
<1>2. CASE Reconcile
  <2>1. PICK r : /\ Become(Worker, r)
                 /\ r = [Idle EXCEPT !.pc = IF batch.stop /\ ListOf("WAITING") # NoList
                                            THEN "cancelEach" ELSE "settle",
                           !.seen = batch, !.next = "settle",
                           !.list = IF batch.stop THEN ListOf("WAITING") ELSE NoList]
    BY <1>2 DEF Reconcile, JobRead
  <2>2. r.pc \in {"cancelEach", "settle"}
    BY <2>1 DEF Idle
  <2> QED  BY <1>1, <1>2, <2>1, <2>2, QuietStays DEF Reconcile, JobRead, At, Documents, Holding
<1>3. CASE Settle
  BY <1>1, <1>3, QuietStays DEF Settle, At, Idle, Holding
<1> QED  BY <1>2, <1>3

\* The worker starts idle tasks, and may go on to close the batch.
LEMMA QuietMoves ==
  ASSUME ScheduleInv, Truthful, jobs' = jobs, posts' = posts,
         \A p \in Procs : \/ Same(proc'[p], proc[p])
                          \/ proc[p].pc \notin Holding /\ proc'[p].pc \notin Holding
  PROVE  Truthful' /\ (InHands => InHands')
<1>1. ASSUME NEW p \in Procs PROVE Truth(proc'[p], posts')
  <2>1. CASE Same(proc'[p], proc[p])
    BY <2>1 DEF Truthful, Truth, Same
  <2>2. CASE proc'[p].pc \notin Holding
    BY <2>2 DEF Truth, Holding
  <2> QED  BY <2>1, <2>2
<1>2. Truthful'
  BY <1>1 DEF Truthful, Shown
<1>3. InHands => InHands'
  BY DEF InHands, Active, Holds, Same, Procs
<1> QED  BY <1>2, <1>3

LEMMA AdvanceStays ==
  ASSUME ScheduleInv, Truthful, Advance
  PROVE  Truthful' /\ (InHands => InHands')
<1>1. PICK first \in Jobs \cup {None} :
        proc' = [p \in Procs |->
          CASE p = Worker -> Closing
            [] p = Publisher /\ first # None /\ At(p, "idle") -> Start(p, first)
            [] p \in {j \in due : jobs[j] # None /\ jobs[j].status \in {"WAITING"}}
               /\ At(p, "idle") -> Start(p, p)
            [] OTHER -> proc[p]]
  BY ScheduleAssumption DEF Advance
<1>2. Closing.pc \in {"idle", "finishSave"}
  <2>1. PICK r : r = Closing
    OBVIOUS
  <2> QED  BY <2>1 DEF Closing, Finishing, Idle
<1>3. \A p, j : Start(p, j).pc = "load"
  BY DEF Start, Idle
<1>4. At(Worker, "idle") /\ UNCHANGED <<jobs, posts>>
  BY DEF Advance, Documents
<1>5. ASSUME NEW p \in Procs
      PROVE  \/ Same(proc'[p], proc[p])
             \/ proc[p].pc \notin Holding /\ proc'[p].pc \notin Holding
  <2>1. \/ proc'[p] = proc[p]
        \/ At(p, "idle") /\ proc'[p].pc \in {"idle", "finishSave", "load"}
    BY <1>1, <1>2, <1>3, <1>4
  <2> QED  BY <2>1 DEF Same, At, Holding
<1> QED  BY <1>4, <1>5, QuietMoves

\* After a crash nobody holds a job.  A job is recovered as COMPLETED from its log.
LEMMA CrashTruth ==
  ASSUME ScheduleInv, Truthful, Crash
  PROVE  Truthful'
<1>1. posts' = posts /\ \A p \in Procs : proc'[p] = Idle
  BY DEF Crash
<1>2. Truth(Idle, posts)
  BY DEF Truth, Idle
<1>3. ASSUME NEW j \in Publishing PROVE Shown(Recovered(j), j, posts)
  <2>1. jobs \in [Jobs -> Job \cup {None}] /\ j \in Jobs
    BY ScheduleAssumption DEF ScheduleInv, Documented
  <2>2. CASE Recovered(j) = jobs[j]
    BY <2>2 DEF Truthful, Shown
  <2>3. CASE posts[j].logged
    BY <2>3 DEF Truthful, Shown
  <2>4. CASE Recovered(j) # jobs[j] /\ ~posts[j].logged
    <3>1. jobs[j] \in Job
      BY <2>1, <2>4 DEF Recovered
    <3>2. \A status, post, made : LET d == [jobs[j] EXCEPT !.status = status, !.post = post]
                                      e == [jobs[j] EXCEPT !.status = status, !.made = made]
                                      f == [jobs[j] EXCEPT !.status = status]
                                  IN  d.status = status /\ e.status = status /\ f.status = status
      BY <3>1 DEF Job
    <3>3. Recovered(j).status \in {"WAITING", "FAILED", "NEEDS_HUMAN"}
      BY <2>4, <3>2 DEF Recovered
    <3> QED  BY <3>3 DEF Shown
  <2> QED  BY <2>2, <2>3, <2>4
<1>4. \A j \in Publishing : jobs'[j] = jobs[j] \/ jobs'[j] = Recovered(j)
  BY ScheduleAssumption DEF Crash
<1>5. \A j \in Publishing : Shown(jobs'[j], j, posts')
  BY <1>1, <1>3, <1>4 DEF Truthful, Shown
<1> QED  BY <1>1, <1>2, <1>5 DEF Truthful

LEMMA InitTruth == Init => Truthful /\ InHands
<1> SUFFICES ASSUME Init PROVE Truthful /\ InHands
  OBVIOUS
<1>1. \A j \in Jobs : jobs[j].status = "WAITING" /\ ~posts[j].logged
  BY DEF Init
<1>2. \A p \in Procs : Truth(proc[p], posts)
  BY DEF Init, Truth, Idle
<1> QED  BY <1>1, <1>2, ScheduleAssumption DEF Truthful, InHands, Shown, Active

LEMMA NextTruth ==
  ASSUME ScheduleInv, Truthful, [Next]_vars
  PROVE  Truthful' /\ (InHands => InHands' \/ Crash)
<1>1. ASSUME NEW p \in Tasks, Execute(p) PROVE Truthful' /\ (InHands => InHands')
  <2>1. p \in Procs
    BY DEF Procs
  <2>2. Stays(p)
    BY <1>1, RunStays, CheckStays, DraftStays, StageStays, PublishStays, ClickStays, EndStays
       DEF Execute
  <2> QED  BY <2>1, <2>2, StaysKeeps
<1>2. ASSUME NEW p \in Procs, Common(p) PROVE Truthful' /\ (InHands => InHands')
  BY <1>2, CommonStays, StaysKeeps
<1>3. CASE Handle \/ AskAnything
  BY <1>3, HandleStays, AskStays, StaysKeeps DEF Procs
<1>4. CASE Loop
  BY <1>4, LoopStays, AdvanceStays, StaysKeeps DEF Loop, Procs
<1>5. CASE TimeComes \/ UNCHANGED vars
  <2>1. UNCHANGED <<jobs, posts, proc>>
    BY <1>5 DEF TimeComes, Documents, vars
  <2> QED  BY <2>1, QuietMoves DEF Same
<1>6. CASE Crash
  BY <1>6, CrashTruth
<1> QED  BY <1>1, <1>2, <1>3, <1>4, <1>5, <1>6 DEF Next

LEMMA TruthInvariant == Spec => []Truthful
<1>1. ScheduleInv /\ Truthful /\ [Next]_vars => Truthful'
  BY NextTruth
<1> QED  BY <1>1, InitTruth, ScheduleInvariant, PTL DEF Spec

\* A job that publishes and is shown as COMPLETED is really on Naver, whatever the user
\* asks for and wherever the server crashes: every task that finishes a job, and the
\* recovery, looks at the log or at what the publisher reported.
THEOREM CompletedHasAnArticle == Spec => []CompletedIsLive
<1>1. ScheduleInv /\ Truthful => CompletedIsLive
  <2> SUFFICES ASSUME ScheduleInv, Truthful, NEW j \in Publishing, jobs[j] # None,
                      jobs[j].status = "COMPLETED"
               PROVE  posts[j].live > 0
    BY DEF CompletedIsLive
  <2>1. posts[j].live \in Nat
    BY ScheduleAssumption DEF ScheduleInv, Documented, Post
  <2> QED  BY <2>1 DEF Truthful, Shown
<1> QED  BY <1>1, ScheduleInvariant, TruthInvariant, PTL

\* As long as the server does not crash, a job shown as RUNNING or PUBLISHING is in the
\* hands of a task, however many requests write over its document.
THEOREM RunningHasATask == MaxCrashes = 0 => (Spec => []RunningIsRun)
<1> SUFFICES ASSUME MaxCrashes = 0 PROVE Spec => []RunningIsRun
  OBVIOUS
<1>1. ScheduleInv => ~Crash
  BY DEF ScheduleInv, Documented, Crash
<1>2. ScheduleInv /\ Truthful /\ InHands /\ [Next]_vars => InHands'
  BY <1>1, NextTruth
<1>3. InHands => RunningIsRun
  BY DEF InHands, RunningIsRun, Active, Holds
<1> QED  BY <1>2, <1>3, InitTruth, ScheduleInvariant, TruthInvariant, PTL DEF Spec
=============================================================================
