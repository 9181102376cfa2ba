-------------------------- MODULE ScheduledPosting --------------------------
(***************************************************************************)
(* One batch of scheduled posts on the absolute schedule, one server process: *)
(* the worker's loop, the tasks it starts (a preparation per job, one          *)
(* publication per user), the user's requests and the restart recovery.       *)
(*                                                                          *)
(* Jobs and the batch are documents.  A repository call that writes replaces   *)
(* one whole document and is one action; reads that follow one another with no *)
(* write between them are one action.  So every actor writes from a copy       *)
(* (mine, seen, list) that the others may have overtaken.                      *)
(***************************************************************************)
EXTENDS Naturals, FiniteSets

CONSTANTS
  Jobs,         \* the jobs of the batch; each names the task that prepares it
  Publishing,   \* those that publish to Naver; the others end with a manuscript
  Publisher,    \* the task that publishes (one per user)
  Worker,       \* the loop
  User,         \* the API handler that serves the user
  None,         \* no document, no job
  Requests,     \* what the user may ask for
  Stages,       \* stages of a preparation, each recorded in the job
  MaxAttempts,  \* MAX_PUBLISH_ATTEMPTS
  Uncertain,    \* may an article go live although the publisher reports FAIL?
  MaxRequests,  \* bound on the user's requests
  MaxCrashes    \* bound on server crashes

Kinds == {"pause", "resume", "stop", "discard", "retry", "reschedule", "cancel", "delete", "forget"}
Tasks == Jobs \cup {Publisher}
Procs == Tasks \cup {Worker, User}

ASSUME ScheduleAssumption ==
  /\ Publishing \subseteq Jobs
  /\ None \notin Jobs
  /\ Cardinality({Publisher, Worker, User} \ Jobs) = 3
  /\ Requests \subseteq Kinds
  /\ Stages \in Nat \ {0} /\ MaxAttempts \in Nat \ {0}
  /\ Uncertain \in BOOLEAN
  /\ MaxRequests \in Nat /\ MaxCrashes \in Nat

VARIABLES
  jobs,      \* job documents
  batch,     \* the batch document, or None once it is discarded
  posts,     \* the BlogTask of each job, and how often its article is live
  due,       \* the jobs whose time has come
  proc,      \* program counter and locals of every actor
  requests,
  crashes

vars == <<jobs, batch, posts, due, proc, requests, crashes>>

JobStatuses == {"WAITING", "RUNNING", "READY_TO_PUBLISH", "PUBLISHING",
                "COMPLETED", "FAILED", "NEEDS_HUMAN", "CANCELED"}
ActiveBatch == {"READY", "RUNNING", "PAUSE_REQUESTED", "STOP_REQUESTED",
                "PAUSED", "NEEDS_HUMAN"}
BatchStatuses == ActiveBatch \cup {"STOPPED", "COMPLETED", "FAILED"}

\* post: post_id is set; made: generated_at is set; tries: publish_attempts.
Job == [status : JobStatuses, post : BOOLEAN, made : BOOLEAN, tries : Nat]
\* stop, pause: requested; cur: current_job_id.
Batch == [status : BatchStatuses, stop : BOOLEAN, pause : BOOLEAN, cur : Jobs \cup {None}]
\* live counts real articles, logged is a successful Naver log.
Post == [state : {"none", "made", "ready", "posting", "posted", "human", "failed"},
         logged : BOOLEAN, live : Nat]

\* None is no document.
ASSUME NoDocument == None \notin Job \cup Batch

NoList == [j \in Jobs |-> None]
Idle == [pc |-> "idle", job |-> None, mine |-> None, seen |-> None, list |-> NoList,
         next |-> "idle", goal |-> "none", left |-> 0, slow |-> {}]

Init ==
  /\ jobs = [j \in Jobs |-> [status |-> "WAITING", post |-> FALSE, made |-> FALSE, tries |-> 0]]
  /\ batch = [status |-> "READY", stop |-> FALSE, pause |-> FALSE, cur |-> None]
  /\ posts = [j \in Jobs |-> [state |-> "none", logged |-> FALSE, live |-> 0]]
  /\ due = Jobs
  /\ proc = [p \in Procs |-> Idle]
  /\ requests = 0
  /\ crashes = 0

-----------------------------------------------------------------------------
At(p, pc) == proc[p].pc = pc
Become(p, r) == proc' = [proc EXCEPT ![p] = r]
Goto(p, pc) == Become(p, [proc[p] EXCEPT !.pc = pc])

\* The end of a step that takes minutes.  A request writes milliseconds after its
\* read, so such a step ends in between only if it had begun before (slow).
BecomeSlowly(p, r) ==
  /\ proc[User].pc \in Kinds => p \in proc[User].slow
  /\ proc' = [[proc EXCEPT ![p] = r] EXCEPT ![User].slow = @ \ {p}]

Counters == <<due, requests, crashes>>
Documents == <<jobs, batch, posts>>

\* Mutant: save_job puts the document back when it is gone.
SaveJob_Upserts(p, r) == jobs' = [jobs EXCEPT ![proc[p].job] = r]

\* save_job never creates a document, so what becomes of a copy whose job is gone
\* (find_job(...) or job) does not matter, and None stands for it.
SaveJob(p, r) ==
  LET j == proc[p].job
  IN  jobs' = IF jobs[j] = None THEN jobs ELSE [jobs EXCEPT ![j] = r]
SaveBatch(r) == batch' = r

\* The user asked for a stop or a pause.
Asked(b) == b.stop \/ b.pause

\* The batch is open: the worker looks at it.
Open(b) == b # None /\ b.status \in ActiveBatch

StatusIn(list, S) == \E j \in Jobs : list[j] # None /\ list[j].status \in S

\* A task leaves the pipeline: _complete, _ready_to_publish, _fail, _needs_human
\* and _park all read the job, save it, read the batch and save it.  End is for a
\* task that has just written, EndNow for one that has just read.
Ending(p, pc, status) == [Idle EXCEPT !.pc = pc, !.job = proc[p].job, !.goal = status]
End(p, status) == Become(p, Ending(p, "endFind", status))
EndNow(p, status) ==
  Become(p, [Ending(p, "endSave", status) EXCEPT !.mine = jobs[proc[p].job]])

\* A read of the job (or of the batch) alone: what it found decides where to go.
JobRead(p, pc, r) ==
  /\ At(p, pc) /\ Become(p, r) /\ UNCHANGED <<Documents, Counters>>

\* The task is over but for _close_if_done.
Over(p) == [Idle EXCEPT !.pc = "close"]

-----------------------------------------------------------------------------
\* execute_job: pick the job up, mark it RUNNING, see that it still exists, mark
\* the batch, as it is now or else as it was.
Load(p) ==
  LET j == proc[p].job
  IN  JobRead(p, "load",
        IF jobs[j] = None \/ jobs[j].status \in {"CANCELED", "COMPLETED"} \/ batch = None
        THEN Over(p)
        ELSE [proc[p] EXCEPT !.pc = "run", !.mine = jobs[j], !.seen = batch])

Run(p) ==
  /\ At(p, "run")
  /\ LET r == [proc[p].mine EXCEPT !.status = "RUNNING"]
     IN  /\ SaveJob(p, r)
         /\ Become(p, [proc[p] EXCEPT !.pc = "fresh", !.mine = r])
  /\ UNCHANGED <<batch, posts, Counters>>

Fresh(p) ==
  JobRead(p, "fresh",
    IF jobs[proc[p].job] = None THEN Over(p)
    ELSE [proc[p] EXCEPT !.pc = "mark", !.seen = IF batch = None THEN @ ELSE batch])

Mark(p) ==
  /\ At(p, "mark")
  /\ SaveBatch([proc[p].seen EXCEPT !.status = "RUNNING", !.cur = proc[p].job])
  /\ Become(p, [proc[p] EXCEPT !.pc = "check", !.next = "post", !.seen = None])
  /\ UNCHANGED <<jobs, posts, Counters>>

-----------------------------------------------------------------------------
\* _check_control, before every stage: the job, then the batch, read as one.
\* Once the post exists, a job that is gone, or whose batch is, takes its unpublished
\* post with it.
DeletePost(j) ==
  posts' = IF posts[j].logged THEN posts ELSE [posts EXCEPT ![j].state = "none"]

\* Mutant: a task told to stop returns without parking its job.
Check_NoPark(p) ==
  /\ At(p, "check")
  /\ IF jobs[proc[p].job] = None \/ batch = None \/ Asked(batch) THEN Become(p, Over(p))
     ELSE Goto(p, proc[p].next)
  /\ UNCHANGED <<Documents, Counters>>

Check(p) ==
  LET job == jobs[proc[p].job]
      canceled == job # None /\ job.status = "CANCELED"
      gone == job = None \/ (batch = None /\ ~canceled)
      held == batch # None /\ Asked(batch)
  IN  /\ At(p, "check")
      /\ \/ (gone \/ (held /\ ~canceled)) /\ EndNow(p, "WAITING")
         \/ canceled /\ EndNow(p, "CANCELED")
         \/ /\ ~gone /\ ~canceled /\ ~held
            /\ IF proc[p].next = "end" THEN EndNow(p, proc[p].goal) ELSE Goto(p, proc[p].next)
      /\ IF gone /\ proc[p].next # "post" THEN DeletePost(proc[p].job) ELSE UNCHANGED posts
      /\ UNCHANGED <<jobs, batch, Counters>>

-----------------------------------------------------------------------------
Drafted(j) == posts[j].state \notin {"none", "made"}

\* Where a finished manuscript goes: nowhere, to its hour, or to Naver unless a
\* successful log says it is there already.
Destination(p) ==
  IF proc[p].job \notin Publishing THEN "COMPLETED"
  ELSE IF p # Publisher THEN "READY_TO_PUBLISH"
  ELSE IF posts[proc[p].job].logged THEN "COMPLETED" ELSE "publish"

\* The manuscript is there, and generated_at says so.  A job that has gone is
\* noticed by the check that follows.
Finished(p) ==
  LET job == jobs[proc[p].job]
      publish == Destination(p) = "publish"
  IN  [proc[p] EXCEPT !.pc = IF job # None /\ ~job.made THEN "stamp" ELSE "check",
                      !.mine = IF job # None /\ (publish \/ ~job.made) THEN job ELSE None,
                      !.goal = Destination(p),
                      !.next = IF publish THEN "publishStage" ELSE "end"]

\* _ensure_post: the stage is recorded and the post created, the job is linked to
\* it, all from the copy of the job that execute_job made.
EnsurePost(p) ==
  JobRead(p, "post",
    IF ~proc[p].mine.post \/ posts[proc[p].job].state = "none"
    THEN [proc[p] EXCEPT !.pc = "create"]
    ELSE IF Drafted(proc[p].job) THEN Finished(p)
    ELSE [proc[p] EXCEPT !.pc = "check", !.next = "stage", !.mine = jobs[proc[p].job],
                         !.left = Stages])

Create(p) ==
  /\ At(p, "create")
  /\ SaveJob(p, proc[p].mine)
  /\ \/ /\ posts' = [posts EXCEPT ![proc[p].job].state = "made", ![proc[p].job].logged = FALSE]
        /\ Goto(p, "link")
     \/ End(p, "FAILED") /\ UNCHANGED posts
  /\ UNCHANGED <<batch, Counters>>

Link(p) ==
  /\ At(p, "link")
  /\ LET r == [proc[p].mine EXCEPT !.post = TRUE]
     IN  /\ SaveJob(p, r)
         /\ Become(p, [proc[p] EXCEPT !.pc = "check", !.next = "stage", !.mine = r,
                                      !.left = Stages])
  /\ UNCHANGED <<batch, posts, Counters>>

\* One stage of the work: trend, title, search, intent, manuscript.  _set_stage
\* replaces the job by the copy at hand; the stage takes minutes and may fail.
\* Control is checked before some of the stages only.
Stage(p) ==
  LET j == proc[p].job
      left == proc[p].left
  IN  /\ At(p, "stage")
      /\ SaveJob(p, proc[p].mine)
      /\ \/ BecomeSlowly(p, Ending(p, "endFind", "FAILED")) /\ UNCHANGED posts
         \/ /\ left > 1 /\ posts[j].state # "none"
            /\ \E pc \in {"stage", "check"} :
                 BecomeSlowly(p, [proc[p] EXCEPT !.pc = pc, !.left = left - 1])
            /\ UNCHANGED posts
         \/ /\ left = 1 /\ posts[j].state # "none"
            /\ posts' = [posts EXCEPT ![j].state = "ready"]
            /\ BecomeSlowly(p, [proc[p] EXCEPT !.pc = "generated", !.mine = None, !.left = 0])
      /\ UNCHANGED <<batch, Counters>>

Generated(p) == JobRead(p, "generated", Finished(p))

Stamp(p) ==
  /\ At(p, "stamp")
  /\ LET r == [proc[p].mine EXCEPT !.made = TRUE]
     IN  /\ SaveJob(p, r)
         /\ Become(p, [proc[p] EXCEPT !.pc = "check",
                         !.mine = IF proc[p].next = "end" THEN None ELSE r])
  /\ UNCHANGED <<batch, posts, Counters>>

-----------------------------------------------------------------------------
\* _publish and _begin_publish: the stage, the job as it is now, then the attempt.
PublishStage(p) ==
  /\ At(p, "publishStage")
  /\ SaveJob(p, proc[p].mine)
  /\ Goto(p, "begin")
  /\ UNCHANGED <<batch, posts, Counters>>

Begin(p) == JobRead(p, "begin", [proc[p] EXCEPT !.pc = "publishing", !.mine = jobs[proc[p].job]])

SetPublishing(p) ==
  /\ At(p, "publishing")
  /\ SaveJob(p, [proc[p].mine EXCEPT !.status = "PUBLISHING", !.tries = @ + 1])
  /\ Become(p, [proc[p] EXCEPT !.pc = "start", !.mine = None])
  /\ UNCHANGED <<batch, posts, Counters>>

\* publish_blog_task (PostPublishing has its detail): refused, or POSTING.
StartPosting(p) ==
  LET j == proc[p].job
  IN  /\ At(p, "start")
      /\ \/ /\ posts[j].state \in {"ready", "human", "failed"}
            /\ posts' = [posts EXCEPT ![j].state = "posting"]
            /\ Goto(p, "click")
         \/ /\ posts[j].state \notin {"ready", "human", "failed"}
            /\ EndNow(p, "FAILED") /\ UNCHANGED posts
      /\ UNCHANGED <<jobs, batch, Counters>>

Click(p) ==
  /\ At(p, "click")
  /\ \E result \in {"posted", "human", "failed"}, live \in BOOLEAN :
       /\ result = "posted" => live
       /\ live => result = "posted" \/ (Uncertain /\ result = "failed")
       /\ posts' = IF live THEN [posts EXCEPT ![proc[p].job].live = @ + 1] ELSE posts
       /\ BecomeSlowly(p, [proc[p] EXCEPT !.pc = "log", !.goal = result])
  /\ UNCHANGED <<jobs, batch, Counters>>

\* Mutant: every result is logged as a success.
LogResult_AnyResult(p) ==
  /\ At(p, "log")
  /\ posts' = [posts EXCEPT ![proc[p].job].logged = TRUE]
  /\ Goto(p, "finish")
  /\ UNCHANGED <<jobs, batch, Counters>>

\* Mutant: a log that cannot be written makes the publication fail, to be tried again.
LogResult_FailsIfUnwritten(p) ==
  LET j == proc[p].job
  IN  /\ At(p, "log")
      /\ \/ posts' = [posts EXCEPT ![j].state = "failed"] /\ Goto(p, "failPublish")
         \/ posts' = [posts EXCEPT ![j].logged = @ \/ proc[p].goal = "posted"] /\ Goto(p, "finish")
      /\ UNCHANGED <<jobs, batch, Counters>>

\* The log first, then the status; a post deleted meanwhile is an error.
LogResult(p) ==
  LET j == proc[p].job
  IN  /\ At(p, "log")
      /\ \/ posts[j].state = "none" /\ End(p, "FAILED") /\ UNCHANGED posts
         \/ /\ posts[j].state # "none"
            /\ posts' = [posts EXCEPT ![j].logged = @ \/ proc[p].goal = "posted"]
            /\ Goto(p, "finish")
      /\ UNCHANGED <<jobs, batch, Counters>>

FinishPost(p) ==
  LET j == proc[p].job
  IN  /\ At(p, "finish")
      /\ \/ posts[j].state = "none" /\ End(p, "FAILED") /\ UNCHANGED posts
         \/ /\ posts[j].state # "none"
            /\ posts' = [posts EXCEPT ![j].state = proc[p].goal]
            /\ CASE proc[p].goal = "posted" -> End(p, "COMPLETED")
                 [] proc[p].goal = "human" -> End(p, "NEEDS_HUMAN")
                 [] OTHER -> Goto(p, "failPublish")
      /\ UNCHANGED <<jobs, batch, Counters>>

\* _fail_publish: again later, unless this was the last attempt.
FailPublish(p) ==
  LET job == jobs[proc[p].job]
      last == job # None /\ job.tries >= MaxAttempts
  IN  JobRead(p, "failPublish",
        [proc[p] EXCEPT !.pc = "endSave", !.mine = job,
                        !.goal = IF last THEN "FAILED" ELSE "again"])

-----------------------------------------------------------------------------
EndFind(p) ==
  JobRead(p, "endFind", [proc[p] EXCEPT !.pc = "endSave", !.mine = jobs[proc[p].job]])

\* Mutant: a publication that is to be tried again ends under the name of its goal.
EndSave_RawGoal(p) ==
  /\ At(p, "endSave")
  /\ SaveJob(p, [proc[p].mine EXCEPT !.status = proc[p].goal])
  /\ due' = IF proc[p].goal = "again" THEN due \ {proc[p].job} ELSE due
  /\ Become(p, [proc[p] EXCEPT !.pc = "endBatch", !.mine = None])
  /\ UNCHANGED <<batch, posts, requests, crashes>>

EndSave(p) ==
  LET again == proc[p].goal = "again"
  IN  /\ At(p, "endSave")
      /\ SaveJob(p, [proc[p].mine EXCEPT
                       !.status = IF again THEN "READY_TO_PUBLISH" ELSE proc[p].goal])
      /\ due' = IF again THEN due \ {proc[p].job} ELSE due
      /\ Become(p, [proc[p] EXCEPT !.pc = "endBatch", !.mine = None])
      /\ UNCHANGED <<batch, posts, requests, crashes>>

\* _park and a retried publication leave a batch alone that another job occupies.
EndBatch(p) ==
  JobRead(p, "endBatch",
    IF batch = None \/ (proc[p].goal \in {"WAITING", "CANCELED", "again"} /\ batch.cur # proc[p].job)
    THEN Over(p)
    ELSE [proc[p] EXCEPT !.pc = "endMark", !.seen = batch])

\* Mutant: a job that waits for the user blocks the batch even when it fails.
EndMark_BlocksOnFailure(p) ==
  LET r == proc[p]
  IN  /\ At(p, "endMark")
      /\ SaveBatch([r.seen EXCEPT
           !.status = IF r.goal \in {"NEEDS_HUMAN", "FAILED"} THEN "NEEDS_HUMAN" ELSE @,
           !.cur = None])
      /\ Become(p, Over(p))
      /\ UNCHANGED <<jobs, posts, Counters>>

EndMark(p) ==
  LET r == proc[p]
  IN  /\ At(p, "endMark")
      /\ SaveBatch([r.seen EXCEPT
           !.status = IF r.goal = "NEEDS_HUMAN" THEN "NEEDS_HUMAN" ELSE @,
           !.cur = IF r.goal = "READY_TO_PUBLISH" /\ @ # r.job THEN @ ELSE None])
      /\ Become(p, Over(p))
      /\ UNCHANGED <<jobs, posts, Counters>>

-----------------------------------------------------------------------------
\* _close_if_done, on the jobs as they are listed, and the read of _finish_batch.
Unfinished == {"WAITING", "RUNNING", "PUBLISHING", "READY_TO_PUBLISH"}

Finishing(status) ==
  IF batch = None THEN Idle
  ELSE [Idle EXCEPT !.pc = "finishSave", !.seen = batch, !.goal = status]

\* Mutant: jobs that wait for their hour do not keep the batch open.
Closing_ForgetsReady ==
  IF StatusIn(jobs, {"WAITING", "RUNNING", "PUBLISHING"})
     \/ batch = None \/ batch.status \in {"NEEDS_HUMAN", "PAUSED"} THEN Idle
  ELSE Finishing(IF StatusIn(jobs, {"COMPLETED"}) THEN "COMPLETED" ELSE "FAILED")

Closing ==
  IF batch = None \/ StatusIn(jobs, Unfinished) \/ batch.status \in {"NEEDS_HUMAN", "PAUSED"}
  THEN Idle
  ELSE Finishing(IF batch.stop THEN "STOPPED"
                 ELSE IF StatusIn(jobs, {"COMPLETED"}) THEN "COMPLETED" ELSE "FAILED")

Close(p) == JobRead(p, "close", Closing)

FinishSave(p) ==
  /\ At(p, "finishSave")
  /\ SaveBatch([proc[p].seen EXCEPT !.status = proc[p].goal, !.cur = None])
  /\ Become(p, Idle)
  /\ UNCHANGED <<jobs, posts, Counters>>

\* _cancel_waiting_jobs: the waiting jobs of the list, then the batch's counts, which
\* forget_post recounts as well.
ListOf(status) ==
  [j \in Jobs |-> IF jobs[j] # None /\ jobs[j].status = status THEN jobs[j] ELSE None]

\* The documents of a list are saved one after the other, with a new status.
SaveEach(p, pc, status, next) ==
  /\ At(p, pc)
  /\ \E j \in Jobs :
       /\ proc[p].list[j] # None
       /\ jobs' = IF jobs[j] = None THEN jobs
                  ELSE [jobs EXCEPT ![j] = [proc[p].list[j] EXCEPT !.status = status]]
       /\ LET rest == [proc[p].list EXCEPT ![j] = None]
          IN  Become(p, [proc[p] EXCEPT !.list = rest,
                           !.pc = IF rest = NoList THEN next ELSE @])
  /\ UNCHANGED <<batch, posts, Counters>>

CountFind(p) ==
  JobRead(p, "count",
    IF batch = None THEN [proc[p] EXCEPT !.pc = proc[p].next]
    ELSE [proc[p] EXCEPT !.pc = "countSave", !.mine = batch])

CountSave(p) ==
  /\ At(p, "countSave")
  /\ SaveBatch(proc[p].mine)
  /\ Become(p, [proc[p] EXCEPT !.pc = proc[p].next, !.mine = None])
  /\ UNCHANGED <<jobs, posts, Counters>>

-----------------------------------------------------------------------------
\* The worker's loop: settle what the user asked of the batch if nothing runs,
\* start what is due, close the batch if everything is over.
\* _reconcile_controls.
Reconcile ==
  /\ Open(batch) /\ Asked(batch) /\ batch.cur = None
  /\ ~StatusIn(jobs, {"RUNNING", "PUBLISHING"})
  /\ batch.stop \/ batch.status # "PAUSED"
  /\ JobRead(Worker, "idle",
       [Idle EXCEPT !.pc = IF batch.stop /\ ListOf("WAITING") # NoList
                           THEN "cancelEach" ELSE "settle",
          !.seen = batch, !.next = "settle",
          !.list = IF batch.stop THEN ListOf("WAITING") ELSE NoList])

Settle ==
  LET b == proc[Worker].seen
  IN  /\ At(Worker, "settle")
      /\ SaveBatch([b EXCEPT !.status = IF b.stop THEN "STOPPED" ELSE "PAUSED"])
      /\ Become(Worker, Idle)
      /\ UNCHANGED <<jobs, posts, Counters>>

\* advance_scheduled_batch: which of the due jobs publishes first is left open.
Start(p, j) == [Idle EXCEPT !.pc = "load", !.job = j]

Advance ==
  LET listed(S) == {j \in due : jobs[j] # None /\ jobs[j].status \in S}
      ready == listed({"READY_TO_PUBLISH"}) \cap Publishing
  IN  /\ At(Worker, "idle")
      /\ Open(batch) /\ batch.status \notin {"PAUSED", "NEEDS_HUMAN"} /\ ~Asked(batch)
      /\ \E first \in (IF ready = {} THEN {None} ELSE ready) :
           proc' = [p \in Procs |->
             CASE p = Worker -> Closing
               [] p = Publisher /\ first # None /\ At(p, "idle") -> Start(p, first)
               [] p \in listed({"WAITING"}) /\ At(p, "idle") -> Start(p, p)
               [] OTHER -> proc[p]]
      /\ UNCHANGED <<Documents, Counters>>

\* The hour comes for which a failed publication was put off.
TimeComes ==
  /\ \E j \in Jobs \ due : due' = due \cup {j}
  /\ UNCHANGED <<Documents, proc, requests, crashes>>

-----------------------------------------------------------------------------
\* The user's requests: each reads and checks one document, then writes.
Ask(kind, r) ==
  /\ At(User, "idle") /\ kind \in Requests /\ requests < MaxRequests
  /\ requests' = requests + 1
  /\ Become(User, [r EXCEPT !.slow = {p \in Tasks : proc[p].pc \in {"stage", "click"}}])
  /\ UNCHANGED <<Documents, due, crashes>>

AskPause ==
  /\ batch # None /\ batch.status \in {"READY", "RUNNING"}
  /\ Ask("pause", [Idle EXCEPT !.pc = "pause", !.seen = batch])

AskResume ==
  /\ batch # None /\ batch.status \in {"PAUSED", "PAUSE_REQUESTED", "NEEDS_HUMAN"}
  /\ Ask("resume", [Idle EXCEPT !.pc = "resume", !.seen = batch])

AskStop ==
  /\ Open(batch)
  /\ Ask("stop", [Idle EXCEPT !.pc = "stop", !.seen = batch])

AskJob(kind, pc, refused) ==
  \E j \in Jobs :
    /\ jobs[j] # None /\ jobs[j].status \notin refused
    /\ Ask(kind, [Idle EXCEPT !.pc = pc, !.job = j, !.mine = jobs[j]])

AskRetry == AskJob("retry", "retry", {"COMPLETED", "RUNNING", "PUBLISHING"})
AskCancel == AskJob("cancel", "cancel", {"COMPLETED", "PUBLISHING", "CANCELED"})
AskDelete == AskJob("delete", "delete", {"RUNNING", "PUBLISHING"})
AskReschedule ==
  AskJob("reschedule", "reschedule", {"COMPLETED", "RUNNING", "PUBLISHING", "CANCELED"})

\* The jobs that discarding removes, and whether something that was published stays.
AskDiscard ==
  LET doomed == [j \in Jobs |-> IF jobs[j] # None /\ jobs[j].status # "COMPLETED"
                                THEN jobs[j] ELSE None]
  IN  /\ batch # None
      /\ Ask("discard",
             [Idle EXCEPT !.pc = IF doomed = NoList THEN "discardBatch" ELSE "discard",
                !.seen = batch, !.list = doomed,
                !.goal = IF StatusIn(jobs, {"COMPLETED"}) THEN "COMPLETED" ELSE "delete"])

\* The user deletes the post, not the job.
AskForget ==
  \E j \in Jobs :
    /\ posts[j].state # "none"
    /\ Ask("forget", [Idle EXCEPT !.pc = "forget", !.job = j])

\* A write of the batch by the user's request, from the copy it read.
UserBatch(pc, r, next) ==
  /\ At(User, pc)
  /\ SaveBatch(r)
  /\ Become(User, next)
  /\ UNCHANGED <<jobs, posts, Counters>>

Pause ==
  UserBatch("pause", [proc[User].seen EXCEPT !.pause = TRUE, !.status = "PAUSE_REQUESTED"], Idle)

\* resume: the jobs that wait for the user wait for the worker again.
Resume ==
  UserBatch("resume", [proc[User].seen EXCEPT !.pause = FALSE, !.status = "RUNNING"],
            [Idle EXCEPT !.pc = "resumeList"])

ResumeList ==
  JobRead(User, "resumeList",
    IF StatusIn(jobs, {"NEEDS_HUMAN"})
    THEN [Idle EXCEPT !.pc = "resumeEach", !.list = ListOf("NEEDS_HUMAN")]
    ELSE Idle)

Stop ==
  UserBatch("stop", [proc[User].seen EXCEPT !.stop = TRUE, !.status = "STOP_REQUESTED"],
            [Idle EXCEPT !.pc = "stopList"])

\* If nothing runs as far as the batch says, it is closed here and now.
Stopped == IF batch.cur # None THEN Idle ELSE Finishing("STOPPED")

StopList ==
  JobRead(User, "stopList",
    IF ListOf("WAITING") = NoList THEN Stopped
    ELSE [Idle EXCEPT !.pc = "cancelEach", !.next = "stopFind", !.list = ListOf("WAITING")])

StopFind == JobRead(User, "stopFind", Stopped)

\* A write of the job by the user's request.
UserJob(pc, status, next) ==
  /\ At(User, pc)
  /\ SaveJob(User, [proc[User].mine EXCEPT !.status = status])
  /\ Become(User, [Idle EXCEPT !.pc = next, !.job = proc[User].job])
  /\ UNCHANGED <<batch, posts, Counters>>

\* retry_job: waiting again, in a batch that is open and told neither to stop nor
\* to pause.
Retry == UserJob("retry", "WAITING", "retryFind")

Reopened(next) ==
  IF batch = None THEN Idle ELSE [proc[User] EXCEPT !.pc = next, !.seen = batch]

RetryFind == JobRead(User, "retryFind", Reopened("retryBatch"))

RetryBatch ==
  UserBatch("retryBatch",
    [proc[User].seen EXCEPT !.stop = FALSE, !.pause = FALSE,
                            !.status = IF @ \in ActiveBatch THEN @ ELSE "RUNNING"], Idle)

\* reschedule_job with a new time: a job that had failed or asked for the user is as
\* new, and a batch that was closed is open again.
Reschedule ==
  LET job == proc[User].mine
      revived == job.status \in {"FAILED", "NEEDS_HUMAN"}
  IN  /\ At(User, "reschedule")
      /\ SaveJob(User,
           IF revived
           THEN [job EXCEPT !.status = IF job.made THEN "READY_TO_PUBLISH" ELSE "WAITING",
                            !.tries = 0]
           ELSE job)
      /\ due' = due \ {proc[User].job}
      /\ Become(User, [Idle EXCEPT !.pc = "rescheduleFind", !.job = proc[User].job])
      /\ UNCHANGED <<batch, posts, requests, crashes>>

RescheduleFind == JobRead(User, "rescheduleFind", Reopened("rescheduleBatch"))

RescheduleBatch ==
  LET b == proc[User].seen
  IN  UserBatch("rescheduleBatch",
        IF b.status \in ActiveBatch THEN b
        ELSE [b EXCEPT !.status = "RUNNING", !.stop = FALSE, !.pause = FALSE], Idle)

\* discard: the jobs one by one, each with its post unless the batch says that it is
\* running; then the batch, which stays if something was published.
DiscardJob ==
  /\ At(User, "discard")
  /\ \E j \in Jobs :
       /\ proc[User].list[j] # None
       /\ jobs' = [jobs EXCEPT ![j] = None]
       /\ Become(User, [proc[User] EXCEPT !.pc = "discardPost", !.job = j])
  /\ UNCHANGED <<batch, posts, Counters>>

DiscardPost ==
  LET u == proc[User]
      rest == [u.list EXCEPT ![u.job] = None]
  IN  /\ At(User, "discardPost")
      /\ IF u.job # u.seen.cur /\ u.list[u.job].post THEN DeletePost(u.job) ELSE UNCHANGED posts
      /\ Become(User,
           IF rest = NoList
           THEN [Idle EXCEPT !.pc = "discardBatch", !.seen = u.seen, !.goal = u.goal]
           ELSE [u EXCEPT !.pc = "discard", !.list = rest])
      /\ UNCHANGED <<jobs, batch, Counters>>

DiscardBatch ==
  UserBatch("discardBatch",
    IF proc[User].goal = "delete" THEN None
    ELSE [proc[User].seen EXCEPT !.status = "STOPPED", !.stop = TRUE, !.pause = FALSE, !.cur = None],
    Idle)

\* DELETE /posts: the post goes, its log with it, and then the jobs that point to it
\* (forget_post).  A task that missed the post may have created another meanwhile, to
\* which the job points or not yet.
Forget ==
  /\ At(User, "forget")
  /\ posts' = [posts EXCEPT ![proc[User].job].state = "none", ![proc[User].job].logged = FALSE]
  /\ Become(User, [proc[User] EXCEPT !.pc = "forgetJob", !.slow = {}])
  /\ UNCHANGED <<jobs, batch, Counters>>

ForgetJob ==
  LET j == proc[User].job
      linked == jobs[j] # None /\ jobs[j].post
  IN  /\ At(User, "forgetJob")
      /\ \/ /\ linked
            /\ jobs' = [jobs EXCEPT ![j] = None]
            /\ Become(User, [Idle EXCEPT !.pc = "count"])
         \/ /\ ~linked \/ posts[j].state # "none"
            /\ Become(User, Idle) /\ UNCHANGED jobs
      /\ UNCHANGED <<batch, posts, Counters>>

\* cancel_job keeps the job, delete_job removes it and its unpublished post; then
\* the jobs are listed, the batch is read and saved, and maybe closed.
Cancel == UserJob("cancel", "CANCELED", "list")

Delete ==
  /\ At(User, "delete")
  /\ jobs' = [jobs EXCEPT ![proc[User].job] = None]
  /\ Become(User, [proc[User] EXCEPT !.pc = "deletePost", !.slow = {}])
  /\ UNCHANGED <<batch, posts, Counters>>

DeletePostOf ==
  /\ At(User, "deletePost")
  /\ IF proc[User].mine.post THEN DeletePost(proc[User].job) ELSE UNCHANGED posts
  /\ Become(User, [proc[User] EXCEPT !.pc = "list", !.mine = None, !.goal = "delete"])
  /\ UNCHANGED <<jobs, batch, Counters>>

\* _settle_after_delete, on what has just been read: what follows the save of the
\* batch.  A batch whose blocking job is gone is saved once more, RUNNING.
AfterDelete ==
  LET seen == [batch EXCEPT !.cur =
                 IF proc[User].goal # "delete" /\ @ = proc[User].job THEN None ELSE @]
      saved == [Idle EXCEPT !.pc = "listSave", !.seen = seen]
  IN  IF ~Open(batch) THEN saved
      ELSE IF ~StatusIn(jobs, Unfinished)
      THEN [saved EXCEPT !.next = "finishBatch",
              !.goal = IF StatusIn(jobs, {"COMPLETED"}) THEN "COMPLETED" ELSE "STOPPED"]
      ELSE IF batch.status = "NEEDS_HUMAN" /\ ~StatusIn(jobs, {"NEEDS_HUMAN"})
      THEN [saved EXCEPT !.next = "listSave"]
      ELSE saved

ListRemaining == JobRead(User, "list", IF batch = None THEN Idle ELSE AfterDelete)

ListSave ==
  LET u == proc[User]
  IN  UserBatch("listSave", u.seen,
        IF u.next = "listSave"
        THEN [u EXCEPT !.next = "idle", !.seen.status = "RUNNING"]
        ELSE [Idle EXCEPT !.pc = u.next, !.goal = u.goal])

FinishFind == JobRead(User, "finishBatch", Finishing(proc[User].goal))

-----------------------------------------------------------------------------
\* Mutant: an interrupted publication starts over with a new post.
Recovered_StartsOver(j) ==
  IF jobs[j] # None /\ jobs[j].status \in {"RUNNING", "PUBLISHING"}
  THEN [jobs[j] EXCEPT !.status = "WAITING", !.post = FALSE]
  ELSE jobs[j]

\* Mutant: a job found RUNNING is left as it is.
Recovered_LeavesRunning(j) ==
  IF jobs[j] # None /\ jobs[j].status = "PUBLISHING"
  THEN [jobs[j] EXCEPT !.status = "FAILED"]
  ELSE jobs[j]

\* _recover_job, for the jobs of a batch that was active.
Recovered(j) ==
  LET job == jobs[j]
      state == posts[j].state
      FailedNow == [job EXCEPT !.status = "FAILED", !.made = @ \/ Drafted(j)]
  IN  IF job = None \/ job.status \in {"COMPLETED", "FAILED", "CANCELED", "NEEDS_HUMAN"} THEN job
      ELSE IF ~job.post \/ state = "none"
      THEN [job EXCEPT !.status = "WAITING", !.post = FALSE]
      ELSE IF posts[j].logged THEN [job EXCEPT !.status = "COMPLETED"]
      ELSE IF job.status = "PUBLISHING" \/ state = "posting" THEN [job EXCEPT !.status = "FAILED"]
      ELSE IF state = "human" THEN [job EXCEPT !.status = "NEEDS_HUMAN"]
      ELSE IF Drafted(j) \/ job.status = "RUNNING" THEN FailedNow
      ELSE [job EXCEPT !.status = "WAITING"]

\* The server dies; recover_active_batches runs before the worker and the API.
Crash ==
  /\ crashes < MaxCrashes
  /\ crashes' = crashes + 1
  /\ proc' = [p \in Procs |-> Idle]
  /\ IF Open(batch)
     THEN /\ jobs' = [j \in Jobs |-> Recovered(j)]
          /\ batch' = [batch EXCEPT !.cur = None,
                         !.status = IF \E j \in Jobs : Recovered(j) # jobs[j]
                                         /\ Recovered(j).status = "NEEDS_HUMAN"
                                    THEN "NEEDS_HUMAN" ELSE @]
     ELSE UNCHANGED <<jobs, batch>>
  /\ UNCHANGED <<posts, due, requests>>

-----------------------------------------------------------------------------
Execute(p) ==
  \/ Load(p) \/ Run(p) \/ Fresh(p) \/ Mark(p) \/ Check(p)
  \/ EnsurePost(p) \/ Create(p) \/ Link(p) \/ Stage(p) \/ Generated(p) \/ Stamp(p)
  \/ PublishStage(p) \/ Begin(p) \/ SetPublishing(p)
  \/ StartPosting(p) \/ Click(p) \/ LogResult(p) \/ FinishPost(p) \/ FailPublish(p)
  \/ EndFind(p) \/ EndSave(p) \/ EndBatch(p) \/ EndMark(p)

\* What tasks, the worker and requests share.
Common(p) ==
  \/ Close(p) \/ FinishSave(p)
  \/ SaveEach(p, "cancelEach", "CANCELED", "count") \/ CountFind(p) \/ CountSave(p)

Handle ==
  \/ Pause \/ Resume \/ ResumeList \/ SaveEach(User, "resumeEach", "WAITING", "idle")
  \/ Stop \/ StopList \/ StopFind \/ Retry \/ RetryFind \/ RetryBatch
  \/ Reschedule \/ RescheduleFind \/ RescheduleBatch
  \/ DiscardJob \/ DiscardPost \/ DiscardBatch \/ Forget \/ ForgetJob
  \/ Cancel \/ Delete \/ DeletePostOf \/ ListRemaining \/ ListSave \/ FinishFind

Loop == Reconcile \/ Settle \/ Advance

AskAnything ==
  \/ AskPause \/ AskResume \/ AskStop \/ AskDiscard
  \/ AskRetry \/ AskReschedule \/ AskCancel \/ AskDelete \/ AskForget

Next ==
  \/ \E p \in Tasks : Execute(p)
  \/ \E p \in Procs : Common(p)
  \/ Loop \/ Handle \/ TimeComes \/ AskAnything \/ Crash

Spec == Init /\ [][Next]_vars

\* Every actor gets on with what it has begun, the loop keeps ticking and time
\* passes; the user owes nothing.
Fairness ==
  /\ \A p \in Tasks : WF_vars(Execute(p))
  /\ \A p \in Procs : WF_vars(Common(p))
  /\ WF_vars(Loop) /\ WF_vars(Handle) /\ WF_vars(TimeComes)

FairSpec == Spec /\ Fairness

-----------------------------------------------------------------------------
\* Where an actor can be: in execute_job and its pipeline, in what tasks, worker and
\* requests share, in a request.
Points ==
  {"idle", "load", "run", "fresh", "mark", "check", "post", "create", "link", "stage",
   "generated", "stamp", "publishStage", "begin", "publishing", "start", "click", "log",
   "finish", "failPublish", "endFind", "endSave", "endBatch", "endMark"}
  \cup {"close", "finishSave", "cancelEach", "count", "countSave", "settle"}
  \cup {"pause", "resume", "resumeList", "resumeEach", "stop", "stopList", "stopFind",
        "discard", "discardPost", "discardBatch", "retry", "retryFind", "retryBatch",
        "reschedule", "rescheduleFind", "rescheduleBatch", "cancel", "delete", "deletePost",
        "list", "listSave", "finishBatch", "forget", "forgetJob"}

Goals == JobStatuses \cup BatchStatuses
         \cup {"none", "again", "publish", "posted", "human", "failed", "delete"}

Local == [pc : Points, job : Jobs \cup {None}, mine : Job \cup Batch \cup {None},
          seen : Batch \cup {None}, list : [Jobs -> Job \cup {None}],
          next : Points \cup {"end"}, goal : Goals, left : 0..Stages, slow : SUBSET Tasks]

\* Type invariant of the documents and of every actor's copies.
TypeOK ==
  /\ jobs \in [Jobs -> Job \cup {None}]
  /\ batch \in Batch \cup {None}
  /\ posts \in [Jobs -> Post]
  /\ due \subseteq Jobs
  /\ proc \in [Procs -> Local]
  /\ requests \in Nat /\ crashes \in Nat

\* No article is live twice: not after a crash in the middle of a publication, not
\* after a retry, not when two tasks hold copies of the same job.
NoDuplicatePost == \A j \in Jobs : posts[j].live <= 1

\* A job that publishes and is shown as COMPLETED is really on Naver.
CompletedIsLive ==
  \A j \in Publishing :
    jobs[j] # None /\ jobs[j].status = "COMPLETED" => posts[j].live > 0

\* A job shown as RUNNING or PUBLISHING is in the hands of a task, whatever the
\* user's requests have written over its document.
RunningIsRun ==
  \A j \in Jobs :
    jobs[j] # None /\ jobs[j].status \in {"RUNNING", "PUBLISHING"} =>
      \E p \in Tasks : proc[p].job = j

\* A job the user deleted does not come back, although tasks go on saving their
\* copies of it.
DeletedStaysDeleted ==
  [][\A j \in Jobs : jobs[j] = None => jobs'[j] = None]_vars

\* Left to itself, a batch is closed only when every job is over: the copies that
\* tasks write back do not close it early or close it over a job in progress.
ClosedIsOver == ~Open(batch) => ~StatusIn(jobs, Unfinished)

\* At rest, a batch that waits for the user has a job that needs the user: the
\* worker skips such a batch, so nothing else would ever move it.
BlockedForAReason ==
  (\A p \in Procs : At(p, "idle")) /\ batch # None /\ batch.status = "NEEDS_HUMAN" =>
    StatusIn(jobs, {"NEEDS_HUMAN"})

\* Left to itself, even across restarts, every job of the batch is settled in the
\* end or the batch asks for the user.
Settled(j) == jobs[j] = None \/ jobs[j].status \in {"COMPLETED", "FAILED", "CANCELED", "NEEDS_HUMAN"}
EndsOrAsks == <>[]((\A j \in Jobs : Settled(j)) \/ (batch # None /\ batch.status = "NEEDS_HUMAN"))

\* A batch that is told to stop is closed in the end.  The code does not keep this:
\* a request's late save of the batch brings the stopped job back.
StopSettles == [](batch # None /\ batch.stop => <>~Open(batch))

\* A batch the user discarded does not come back.  The code does not keep this: a task
\* that has read the batch saves it after it is gone.
DiscardedStaysGone == [][batch = None => batch' = None]_vars

\* An article whose job was canceled before its manuscript was there never goes
\* live.  The code does not keep this: the next stage saves over the cancel.
CanceledIsNotPublished ==
  \A j \in Jobs :
    [](jobs[j] # None /\ jobs[j].status = "CANCELED" /\ ~Drafted(j) => [](posts[j].live = 0))
=============================================================================
