------------------------- MODULE ScheduledOnce_proofs -------------------------
(***************************************************************************)
(* Proofs about ScheduledPosting: what holds of the articles and of the end of *)
(* the batch as long as the user asks only for some of the requests, for every *)
(* set of jobs, any number of those requests, stages, attempts and crashes:    *)
(*                                                                          *)
(*   PostedOnce         no article goes live twice;                          *)
(*   ClosedOnlyWhenOver a closed batch has nothing left to do;               *)
(*   BlockedHasAReason  a batch that waits for the user has a job that does.   *)
(***************************************************************************)
EXTENDS ScheduledPosting_proofs, FiniteSetTheorems

-----------------------------------------------------------------------------
(* Which requests.  A retry, a reschedule, a stop and a forgotten post write    *)
(* copies over a task's job: TLC finds an article posted twice with any of them. *)

Cautious == Requests \subseteq {"pause", "resume", "discard", "delete"}
Unresumed == "resume" \notin Requests
PausesOnly == Requests \subseteq {"pause"}

\* A task works on its job from the worker's start until the outcome is saved.
Pipe == {"load", "run"} \cup Holding
Works(r, j) == r.pc \in Pipe /\ r.job = j

\* Where each actor can be.
TaskPlaces == Pipe \cup {"idle", "endBatch", "endMark", "close", "finishSave"}
Place(p, pc) ==
  /\ p \in Tasks => pc \in TaskPlaces
  /\ p = Worker => pc \in {"idle", "settle", "finishSave"}
  /\ p = User =>
       \/ pc \in {"idle", "pause", "finishSave"}
       \/ "resume" \in Requests /\ pc \in {"resume", "resumeList", "resumeEach"}
       \/ "discard" \in Requests /\ pc \in {"discard", "discardPost", "discardBatch"}
       \/ "delete" \in Requests
            /\ pc \in {"delete", "deletePost", "list", "listSave", "finishBatch"}

-----------------------------------------------------------------------------
(* A task at work.  Nobody else touches its job but to delete it, so the copy it   *)
(* is about to save says what the document says.                              *)

Awaited(p) == IF p = Publisher THEN "READY_TO_PUBLISH" ELSE "WAITING"

Within(r, pcs, nexts) == r.pc \in pcs \/ (r.pc = "check" /\ r.next \in nexts)

Serves(p, r, docs, ps) ==
  LET job == docs[r.job]
  IN  /\ r.pc \in Pipe /\ p # Publisher => r.job = p
      /\ Within(r, {"run", "fresh", "mark", "post", "create", "link"}, {"post"}) =>
           job \in {None, r.mine}
      /\ Within(r, {"stage", "stamp", "publishStage", "publishing"}, {"stage", "publishStage"}) =>
           r.mine = None \/ (r.mine.post /\ Active(r.mine))
      /\ job # None =>
           /\ r.pc \in {"load", "run"} => job.status = Awaited(p)
           /\ r.pc \in Holding => Active(job)
           /\ Within(r, {"stage", "generated", "stamp", "publishStage", "begin", "publishing",
                         "start", "click", "log", "finish", "failPublish"},
                     {"stage", "publishStage", "end"}) => job.post
           /\ r.pc \in {"start", "click", "log", "finish", "failPublish"} =>
                job.status = "PUBLISHING"
           /\ r.pc \in {"click", "log", "finish"} => ps[r.job].state # "none"

\* The publishing task and the job's own are never at work on the same job.
Alone == \A j \in Jobs : ~(Works(proc[Publisher], j) /\ Works(proc[j], j))

-----------------------------------------------------------------------------
(* The batch, and every copy of it.                                          *)

\* Nothing is left to cancel.
Cleared(docs) == \A j \in Jobs : docs[j] = None \/ docs[j].status = "COMPLETED"

Apt(b, docs) ==
  b # None =>
    /\ b.stop => Cleared(docs)
    /\ Unresumed /\ b.status \notin ActiveBatch => ~StatusIn(docs, Unfinished)
    /\ PausesOnly /\ b.status = "NEEDS_HUMAN" => StatusIn(docs, {"NEEDS_HUMAN"})

\* A copy of the batch, and the status an actor is about to give it.
AptLocal(r, docs) ==
  /\ Apt(r.seen, docs)
  /\ r.pc \in {"finishSave", "finishBatch"} \/ (r.pc = "listSave" /\ r.next = "finishBatch") =>
       r.goal \notin ActiveBatch /\ (Unresumed => ~StatusIn(docs, Unfinished))
  /\ r.pc \in {"endBatch", "endMark"} /\ r.goal = "NEEDS_HUMAN" /\ PausesOnly =>
       StatusIn(docs, {"NEEDS_HUMAN"})

\* The lists that resume and discard work through.
Listed(r, docs) ==
  /\ r.pc = "resumeEach" =>
       \A j \in Jobs : r.list[j] # None /\ docs[j] # None =>
                         docs[j] = r.list[j] /\ docs[j].status = "NEEDS_HUMAN"
  /\ r.pc \in {"discard", "discardPost", "discardBatch"} =>
       \A j \in Jobs : r.list[j] # None \/ docs[j] = None \/ docs[j].status = "COMPLETED"
  /\ r.pc = "delete" => r.job \in Jobs
  /\ r.pc \in {"discardPost", "deletePost"} => r.job \in Jobs /\ docs[r.job] = None
  /\ r.pc = "discardBatch" => r.list = NoList

WorkInv ==
  /\ \A p \in Procs : Place(p, proc[p].pc) /\ AptLocal(proc[p], jobs)
  /\ \A p \in Tasks : Serves(p, proc[p], jobs, posts)
  /\ Alone
  /\ Apt(batch, jobs) /\ (batch = None => Cleared(jobs))
  /\ PausesOnly => \A j \in Jobs : jobs[j] # None
  /\ Listed(proc[User], jobs)

-----------------------------------------------------------------------------
(* The articles.  One that is live belongs to a job that no task will take up    *)
(* again, or that a task is about to finish; a crash in between leaves traces by *)
(* which the job is recovered as over.                                        *)

OnceOf(job, post) ==
  /\ post.live \in {0, 1}
  /\ post.live # 0 /\ job # None =>
       \/ job.status \in {"COMPLETED", "FAILED"}
       \/ job.status = "PUBLISHING" /\ job.post /\ post.state # "none"

Unposted(r, ps) ==
  r.pc \in Pipe =>
    \/ r.pc \in {"log", "finish"} /\ r.goal = "posted"
    \/ r.pc \in {"endFind", "endSave"} /\ r.goal \in {"COMPLETED", "FAILED"}
    \/ ps[r.job].live = 0

OnceInv ==
  /\ \A j \in Jobs : OnceOf(jobs[j], posts[j])
  /\ \A p \in Tasks : Unposted(proc[p], posts)

-----------------------------------------------------------------------------
\* The worker, the user and the publishing task are three, and no jobs.
LEMMA Distinct ==
  /\ Publisher \notin Jobs /\ Worker \notin Tasks /\ User \notin Tasks /\ Worker # User
<1>1. \A a, b : Cardinality({a, b}) <= 2 /\ IsFiniteSet({a, b})
  <2> SUFFICES ASSUME NEW a, NEW b PROVE Cardinality({a, b}) <= 2 /\ IsFiniteSet({a, b})
    OBVIOUS
  <2>1. Cardinality({a}) = 1 /\ IsFiniteSet({a})
    BY FS_Singleton
  <2>2. {a, b} = {a} \cup {b}
    OBVIOUS
  <2> QED  BY <2>1, <2>2, FS_AddElement
<1>2. ASSUME NEW a, NEW b, {Publisher, Worker, User} \ Jobs \subseteq {a, b} PROVE FALSE
  <2>1. IsFiniteSet({a, b}) /\ Cardinality({a, b}) <= 2
    BY <1>1
  <2>2. /\ Cardinality({Publisher, Worker, User} \ Jobs) <= Cardinality({a, b})
        /\ Cardinality({a, b}) \in Nat
    BY <1>2, <2>1, FS_Subset, FS_CardinalityType
  <2> QED  BY <2>1, <2>2, ScheduleAssumption
<1>3. Worker # User /\ Publisher # Worker /\ Publisher # User
  <2>1. CASE Worker = User
    BY <1>2, <2>1
  <2>2. CASE Publisher = Worker
    BY <1>2, <2>2
  <2>3. CASE Publisher = User
    BY <1>2, <2>3
  <2> QED  BY <2>1, <2>2, <2>3
<1>4. Publisher \notin Jobs /\ Worker \notin Jobs /\ User \notin Jobs
  <2>1. CASE Publisher \in Jobs
    BY <1>2, <2>1
  <2>2. CASE Worker \in Jobs
    BY <1>2, <2>2
  <2>3. CASE User \in Jobs
    BY <1>2, <2>3
  <2> QED  BY <2>1, <2>2, <2>3
<1> QED  BY <1>3, <1>4 DEF Tasks

-----------------------------------------------------------------------------
(* What one actor's step does to the jobs, the posts and the others.           *)

Still(r, t) == Alike(r, t) /\ r.list = t.list

\* A job is changed by the task that works on it, or removed, or resumed.
JobStep(p) ==
  \A j \in Jobs :
    \/ jobs'[j] = jobs[j]
    \/ jobs'[j] = None /\ ~PausesOnly
    \/ p \in Tasks /\ Works(proc[p], j) /\ (jobs'[j] = None => jobs[j] = None)
    \/ /\ p = User /\ ~Unresumed /\ jobs'[j] # None
       /\ jobs[j] # None /\ jobs[j].status = "NEEDS_HUMAN"

PostStep(p) ==
  \A j \in Jobs :
    \/ posts'[j] = posts[j]
    \/ p \in Tasks /\ Works(proc[p], j)
    \/ jobs[j] = None /\ posts'[j].live = posts[j].live

\* What copies of the batch say of the jobs goes on being true.
Steady ==
  /\ Cleared(jobs) => Cleared(jobs')
  /\ Unresumed /\ ~StatusIn(jobs, Unfinished) => ~StatusIn(jobs', Unfinished)
  /\ PausesOnly /\ StatusIn(jobs, {"NEEDS_HUMAN"}) => StatusIn(jobs', {"NEEDS_HUMAN"})

Lawful(p) ==
  /\ \A q \in Procs \ {p} : Still(proc'[q], proc[q])
  /\ JobStep(p) /\ PostStep(p)
  /\ Place(p, proc'[p].pc) /\ AptLocal(proc'[p], jobs')
  /\ p \in Tasks =>
       /\ Serves(p, proc'[p], jobs', posts')
       /\ \A j \in Jobs : Works(proc'[p], j) => Works(proc[p], j)
  /\ Apt(batch', jobs') /\ (batch' = None => Cleared(jobs'))
  /\ p = User => Listed(proc'[User], jobs')

OnceStep(p) ==
  p \in Tasks =>
    /\ Unposted(proc'[p], posts')
    /\ \A j \in Jobs : Works(proc[p], j) => OnceOf(jobs'[j], posts'[j])

\* A job somebody works on is not over and does not wait for the user.
LEMMA WorkedOn ==
  ASSUME WorkInv, NEW p \in Tasks, NEW j, Works(proc[p], j), jobs[j] # None
  PROVE  jobs[j].status \in Unfinished
BY DEF WorkInv, Works, Pipe, Serves, Awaited, Active, Unfinished

\* No two tasks are at work on one job.
LEMMA OnlyOne ==
  ASSUME WorkInv, NEW p \in Tasks, NEW q \in Tasks, NEW j \in Jobs,
         Works(proc[p], j), Works(proc[q], j)
  PROVE  p = q
<1>1. (p # Publisher => j = p) /\ (q # Publisher => j = q)
  BY DEF WorkInv, Works, Serves
<1> QED  BY <1>1 DEF WorkInv, Alone

LEMMA JobsSteady ==
  ASSUME WorkInv, Kept, NEW p, JobStep(p)
  PROVE  Steady
<1>1. \A j \in Jobs : jobs'[j] = jobs[j] \/ jobs'[j] = None
                        \/ (jobs[j] # None /\ jobs[j].status \in Unfinished)
                        \/ (~Unresumed /\ jobs[j] # None /\ jobs[j].status = "NEEDS_HUMAN")
  BY WorkedOn DEF JobStep, Kept
<1>2. PausesOnly => \A j \in Jobs : jobs'[j] = jobs[j]
                        \/ (jobs[j] # None /\ jobs[j].status \in Unfinished)
  BY WorkedOn DEF JobStep, Kept, WorkInv, PausesOnly, Unresumed
<1>3. Cleared(jobs) => Cleared(jobs')
  BY <1>1 DEF Cleared, Unfinished
<1>4. Unresumed /\ ~StatusIn(jobs, Unfinished) => ~StatusIn(jobs', Unfinished)
  BY <1>1 DEF StatusIn
<1>5. PausesOnly /\ StatusIn(jobs, {"NEEDS_HUMAN"}) => StatusIn(jobs', {"NEEDS_HUMAN"})
  BY <1>2 DEF StatusIn, Unfinished
<1> QED  BY <1>3, <1>4, <1>5 DEF Steady

LEMMA AptSteady ==
  ASSUME Steady, NEW b, Apt(b, jobs)
  PROVE  Apt(b, jobs')
BY DEF Steady, Apt

LEMMA LocalSteady ==
  ASSUME Steady, NEW r, NEW t, AptLocal(t, jobs), Alike(r, t)
  PROVE  AptLocal(r, jobs')
<1>1. Apt(r.seen, jobs')
  BY AptSteady DEF AptLocal, Alike
<1> QED  BY <1>1 DEF Steady, AptLocal, Alike

\* The others' copies still serve them: nobody touches their jobs but to remove them.
LEMMA OthersServe ==
  ASSUME ScheduleInv, WorkInv, Kept, NEW p \in Procs, JobStep(p), PostStep(p),
         NEW q \in Tasks, q # p, Still(proc'[q], proc[q])
  PROVE  Serves(q, proc'[q], jobs', posts')
<1>1. Serves(q, proc[q], jobs, posts) /\ Carries(proc[q], jobs)
  BY DEF WorkInv, ScheduleInv, Procs
<1>2. CASE proc[q].pc \notin Pipe
  BY <1>2 DEF Serves, Within, Still, Alike, Pipe, Holding
<1>3. CASE proc[q].pc \in Pipe
  <2>1. PICK j \in Jobs : j = proc[q].job
    BY <1>1, <1>3 DEF Carries, CarriesJob, Pipe, Holding
  <2>2. ~(p \in Tasks /\ Works(proc[p], j))
    BY <1>3, <2>1, OnlyOne DEF Works
  <2>3. jobs'[j] = None \/ jobs'[j] = jobs[j]
    BY <1>3, <2>1, <2>2, WorkedOn DEF JobStep, Works, Unfinished
  <2>4. jobs'[j] = None \/ posts'[j] = posts[j]
    BY <2>2 DEF PostStep, Kept
  <2> QED  BY <1>1, <2>1, <2>3, <2>4 DEF Serves, Within, Still, Alike
<1> QED  BY <1>2, <1>3

\* The user's list stays right while others move.
LEMMA ListStays ==
  ASSUME WorkInv, Kept, NEW p \in Procs, p # User, JobStep(p), Still(proc'[User], proc[User])
  PROVE  Listed(proc'[User], jobs')
<1>1. \A j \in Jobs : jobs'[j] = jobs[j] \/ jobs'[j] = None
                        \/ (jobs[j] # None /\ jobs[j].status \in Unfinished)
  BY WorkedOn DEF JobStep, Kept
<1>2. Listed(proc[User], jobs) /\ Place(User, proc[User].pc)
  BY DEF WorkInv, Procs
<1> QED  BY <1>1, <1>2 DEF Listed, Still, Alike, Unfinished, Kept

LEMMA LawfulKeeps ==
  ASSUME ScheduleInv, Kept, WorkInv, NEW p \in Procs, Lawful(p)
  PROVE  WorkInv'
<1>1. Steady
  BY JobsSteady DEF Lawful
<1>2. ASSUME NEW q \in Procs PROVE Place(q, proc'[q].pc) /\ AptLocal(proc'[q], jobs')
  <2>1. CASE q = p
    BY <2>1 DEF Lawful
  <2>2. CASE q # p
    <3>1. Alike(proc'[q], proc[q]) /\ Place(q, proc[q].pc) /\ AptLocal(proc[q], jobs)
      BY <2>2 DEF Lawful, Still, WorkInv
    <3>2. proc'[q].pc = proc[q].pc
      BY <3>1 DEF Alike
    <3> QED  BY <1>1, <3>1, <3>2, LocalSteady
  <2> QED  BY <2>1, <2>2
<1>3. ASSUME NEW q \in Tasks PROVE Serves(q, proc'[q], jobs', posts')
  <2>1. CASE q = p
    BY <2>1 DEF Lawful
  <2>2. CASE q # p
    BY <2>2, OthersServe DEF Lawful, Procs
  <2> QED  BY <2>1, <2>2
<1>4. \A q \in Tasks, j \in Jobs : Works(proc'[q], j) => Works(proc[q], j)
  BY DEF Lawful, Still, Alike, Works, Procs
<1>5. Alone'
  BY <1>4 DEF WorkInv, Alone, Tasks
<1>6. Listed(proc'[User], jobs')
  BY ListStays DEF Lawful, Procs
<1>7. PausesOnly => \A j \in Jobs : jobs'[j] # None
  BY DEF Lawful, JobStep, WorkInv
<1> QED  BY <1>2, <1>3, <1>5, <1>6, <1>7 DEF WorkInv, Lawful

LEMMA OnceKeeps ==
  ASSUME ScheduleInv, Kept, WorkInv, OnceInv, NEW p \in Procs, Lawful(p), OnceStep(p)
  PROVE  OnceInv'
<1>1. ASSUME NEW j \in Jobs PROVE OnceOf(jobs'[j], posts'[j])
  <2>1. CASE p \in Tasks /\ Works(proc[p], j)
    BY <2>1 DEF OnceStep
  <2>2. CASE ~(p \in Tasks /\ Works(proc[p], j))
    <3>1. OnceOf(jobs[j], posts[j])
      BY DEF OnceInv
    <3>2. posts'[j] = posts[j] \/ (jobs'[j] = None /\ posts'[j].live = posts[j].live)
      BY <2>2 DEF Lawful, PostStep, Kept
    <3>3. \/ jobs'[j] \in {jobs[j], None}
          \/ jobs[j] # None /\ jobs[j].status = "NEEDS_HUMAN"
      BY <2>2 DEF Lawful, JobStep
    <3> QED  BY <3>1, <3>2, <3>3 DEF OnceOf
  <2> QED  BY <2>1, <2>2
<1>2. ASSUME NEW q \in Tasks PROVE Unposted(proc'[q], posts')
  <2>1. CASE q = p
    BY <2>1 DEF OnceStep
  <2>2. CASE q # p
    <3>1. Alike(proc'[q], proc[q]) /\ Unposted(proc[q], posts) /\ Carries(proc[q], jobs)
      BY <2>2 DEF Lawful, Still, OnceInv, Procs, ScheduleInv
    <3>2. ASSUME proc[q].pc \in Pipe PROVE posts'[proc[q].job].live = posts[proc[q].job].live
      <4>1. proc[q].job \in Jobs
        BY <3>1, <3>2 DEF Carries, CarriesJob, Pipe, Holding
      <4>2. ~(p \in Tasks /\ Works(proc[p], proc[q].job))
        BY <2>2, <3>2, <4>1, OnlyOne DEF Works
      <4> QED  BY <4>1, <4>2 DEF Lawful, PostStep
    <3> QED  BY <3>1, <3>2 DEF Unposted, Alike
  <2> QED  BY <2>1, <2>2
<1> QED  BY <1>1, <1>2 DEF OnceInv

-----------------------------------------------------------------------------
(* Steps of the tasks.                                                        *)

Fine(p) == Lawful(p) /\ (OnceInv /\ ~Uncertain => OnceStep(p))
OthersStill(p) == \A q \in Procs \ {p} : Still(proc'[q], proc[q])

LEMMA BecomeStill ==
  ASSUME ScheduleInv, NEW p \in Procs, NEW r, Become(p, r)
  PROVE  proc'[p] = r /\ OthersStill(p)
BY DEF ScheduleInv, Become, OthersStill, Still, Alike

LEMMA SlowlyStill ==
  ASSUME ScheduleInv, NEW p \in Tasks, NEW r \in Local, BecomeSlowly(p, r)
  PROVE  proc'[p] = r /\ OthersStill(p)
<1>1. PICK f : f = [proc EXCEPT ![p] = r]
  OBVIOUS
<1>2. f \in [Procs -> Local] /\ User \in Procs /\ p \in Procs /\ p # User
  BY <1>1, Distinct DEF ScheduleInv, Procs
<1>3. PICK S : S = f[User].slow \ {p}
  OBVIOUS
<1>4. proc' = [f EXCEPT ![User].slow = S]
  BY <1>1, <1>2, <1>3 DEF BecomeSlowly
<1>5. \A q \in Procs : Still(proc'[q], f[q]) /\ (q # User => proc'[q] = f[q])
  BY <1>2, <1>4 DEF Still, Alike, Local
<1> QED  BY <1>1, <1>2, <1>5 DEF OthersStill, ScheduleInv

\* A task's save changes its own job, and only while it exists.
LEMMA SaveChanges ==
  ASSUME ScheduleInv, NEW p \in Procs, NEW d, SaveJob(p, d), proc[p].job \in Jobs,
         d \in Job \/ jobs[proc[p].job] = None
  PROVE  /\ \A i \in Jobs \ {proc[p].job} : jobs'[i] = jobs[i]
         /\ jobs'[proc[p].job] = IF jobs[proc[p].job] = None THEN None ELSE d
         /\ jobs'[proc[p].job] = None => jobs[proc[p].job] = None
BY NoDocument DEF SaveJob, ScheduleInv, Documented

\* A step in the pipeline: what is left to show is how the task serves its job.
LEMMA PipeLawful ==
  ASSUME ScheduleInv, Kept, WorkInv, NEW p \in Tasks, NEW j \in Jobs, Works(proc[p], j),
         OthersStill(p), batch' = batch,
         \A i \in Jobs \ {j} : jobs'[i] = jobs[i] /\ posts'[i] = posts[i],
         jobs'[j] = None => jobs[j] = None,
         proc'[p].pc \in Pipe \cup {"close"}, proc'[p].job = j \/ proc'[p].pc = "close",
         proc'[p].seen \in {None, proc[p].seen, batch},
         Serves(p, proc'[p], jobs', posts')
  PROVE  Lawful(p)
<1>1. p # User /\ p # Worker /\ p \in Procs
  BY Distinct DEF Procs
<1>2. JobStep(p) /\ PostStep(p)
  BY DEF JobStep, PostStep
<1>3. Steady
  BY <1>2, JobsSteady
<1>4. Apt(proc'[p].seen, jobs') /\ Apt(batch', jobs')
  <2>1. Apt(None, jobs) /\ Apt(proc[p].seen, jobs) /\ Apt(batch, jobs)
    BY <1>1 DEF WorkInv, AptLocal, Apt
  <2> QED  BY <1>3, <2>1, AptSteady
<1>5. AptLocal(proc'[p], jobs')
  BY <1>4 DEF AptLocal, Pipe, Holding
<1>6. Place(p, proc'[p].pc)
  BY <1>1 DEF Place, TaskPlaces
<1>7. \A i \in Jobs : Works(proc'[p], i) => Works(proc[p], i)
  BY DEF Works, Pipe, Holding
<1>8. batch' = None => Cleared(jobs')
  BY <1>3 DEF WorkInv, Steady
<1> QED  BY <1>1, <1>2, <1>4, <1>5, <1>6, <1>7, <1>8 DEF Lawful, OthersStill

\* Until the publisher reports, the task's post has no article.
LEMMA StillUnposted ==
  ASSUME OnceInv, NEW p \in Tasks, NEW j \in Jobs, Works(proc[p], j),
         proc[p].pc \notin {"log", "finish", "endFind", "endSave"},
         posts'[j].live = posts[j].live, proc'[p].job = j \/ proc'[p].pc = "close"
  PROVE  OnceStep(p)
BY DEF OnceInv, OnceStep, OnceOf, Unposted, Works, Pipe, Holding

LEMMA PipeFine ==
  ASSUME ScheduleInv, Kept, WorkInv, NEW p \in Tasks, NEW j \in Jobs, Works(proc[p], j),
         proc[p].pc \notin {"log", "finish", "endFind", "endSave"}, OthersStill(p),
         batch' = batch,
         \A i \in Jobs \ {j} : jobs'[i] = jobs[i] /\ posts'[i] = posts[i],
         jobs'[j] = None => jobs[j] = None, posts'[j].live = posts[j].live,
         proc'[p].pc \in Pipe \cup {"close"}, proc'[p].job = j \/ proc'[p].pc = "close",
         proc'[p].seen \in {None, proc[p].seen, batch},
         Serves(p, proc'[p], jobs', posts')
  PROVE  Fine(p)
BY PipeLawful, StillUnposted DEF Fine

\* The same of the record a task becomes.
LEMMA PipeGoes ==
  ASSUME ScheduleInv, Kept, WorkInv, NEW p \in Tasks, NEW j \in Jobs, Works(proc[p], j),
         proc[p].pc \notin {"log", "finish", "endFind", "endSave"},
         NEW r, Become(p, r), batch' = batch,
         \A i \in Jobs \ {j} : jobs'[i] = jobs[i] /\ posts'[i] = posts[i],
         jobs'[j] = None => jobs[j] = None, posts'[j].live = posts[j].live,
         r.pc \in Pipe \cup {"close"}, r.job = j \/ r.pc = "close",
         r.seen \in {None, proc[p].seen, batch}, Serves(p, r, jobs', posts')
  PROVE  Fine(p)
<1>1. proc'[p] = r /\ OthersStill(p)
  BY BecomeStill DEF Procs
<1> QED  BY <1>1, PipeFine

\* A task whose job is gone is over.
LEMMA OverFine ==
  ASSUME ScheduleInv, Kept, WorkInv, NEW p \in Tasks, NEW j \in Jobs, Works(proc[p], j),
         proc[p].pc \notin {"log", "finish", "endFind", "endSave"},
         UNCHANGED <<jobs, batch, posts>>, Become(p, Over(p))
  PROVE  Fine(p)
<1>1. PICK r : r = Over(p)
  OBVIOUS
<1>2. r.pc = "close" /\ r.seen = None
  BY <1>1 DEF Over, Idle
<1>3. Serves(p, r, jobs', posts')
  BY <1>2 DEF Serves, Within, Pipe, Holding
<1> QED  BY <1>1, <1>2, <1>3, PipeGoes

\* What a pipeline step knows of the task before it.
LEMMA AtWork ==
  ASSUME ScheduleInv, Truthful, WorkInv, NEW p \in Tasks, proc[p].pc \in Pipe
  PROVE  /\ p \in Procs /\ proc[p] \in Local /\ Carries(proc[p], jobs) /\ Truth(proc[p], posts)
         /\ proc[p].job \in Jobs /\ Works(proc[p], proc[p].job)
         /\ Serves(p, proc[p], jobs, posts)
         /\ jobs[proc[p].job] \in Job \cup {None} /\ posts \in [Jobs -> Post]
<1>1. p \in Procs /\ proc[p] \in Local /\ Carries(proc[p], jobs) /\ Truth(proc[p], posts)
  BY DEF Procs, ScheduleInv, Truthful
<1>2. proc[p].job \in Jobs
  BY <1>1 DEF Carries, CarriesJob, Pipe, Holding
<1> QED  BY <1>1, <1>2 DEF Works, WorkInv, ScheduleInv, Documented

LEMMA RunFine ==
  ASSUME ScheduleInv, Truthful, Kept, WorkInv, NEW p \in Tasks,
         Load(p) \/ Run(p) \/ Fresh(p) \/ Mark(p)
  PROVE  Fine(p)
<1> DEFINE j == proc[p].job
<1>1. proc[p].pc \in {"load", "run", "fresh", "mark"}
  BY DEF Load, Run, Fresh, Mark, JobRead, At
<1>2. /\ p \in Procs /\ proc[p] \in Local /\ Carries(proc[p], jobs) /\ Truth(proc[p], posts)
      /\ j \in Jobs /\ Works(proc[p], j) /\ Serves(p, proc[p], jobs, posts)
      /\ jobs[j] \in Job \cup {None}
  BY <1>1, AtWork DEF Pipe, Holding
<1>3. CASE Load(p)
  <2>1. proc[p].pc = "load" /\ UNCHANGED <<jobs, batch, posts>>
    BY <1>3 DEF Load, JobRead, At, Documents
  <2>2. PICK r : r = [proc[p] EXCEPT !.pc = "run", !.mine = jobs[j], !.seen = batch]
    OBVIOUS
  <2>3. r.pc = "run" /\ r.job = j /\ r.mine = jobs[j] /\ r.seen = batch
    BY <1>2, <2>2 DEF Local
  <2>4. Serves(p, r, jobs', posts')
    BY <1>2, <2>1, <2>3 DEF Serves, Within, Pipe, Holding
  <2>5. CASE Become(p, Over(p))
    BY <1>1, <1>2, <2>1, <2>5, OverFine
  <2>6. CASE Become(p, r)
    BY <1>1, <1>2, <2>1, <2>3, <2>4, <2>6, PipeGoes DEF Pipe
  <2> QED  BY <1>3, <2>2, <2>5, <2>6 DEF Load, JobRead
<1>4. CASE Run(p)
  <2>1. PICK d, r : /\ d = [proc[p].mine EXCEPT !.status = "RUNNING"]
                    /\ r = [proc[p] EXCEPT !.pc = "fresh", !.mine = d]
    OBVIOUS
  <2>2. proc[p].pc = "run" /\ UNCHANGED <<batch, posts>> /\ SaveJob(p, d) /\ Become(p, r)
    BY <1>4, <2>1 DEF Run, At
  <2>3. d \in Job /\ d.status = "RUNNING"
    BY <1>2, <2>1, <2>2 DEF Carries, CarriesJob, Job, JobStatuses
  <2>4. r.pc = "fresh" /\ r.job = j /\ r.mine = d /\ r.seen = proc[p].seen
    BY <1>2, <2>1 DEF Local
  <2>5. /\ \A i \in Jobs \ {j} : jobs'[i] = jobs[i]
        /\ jobs'[j] \in {None, d} /\ (jobs'[j] = None => jobs[j] = None)
    BY <1>2, <2>2, <2>3, SaveChanges
  <2>6. Serves(p, r, jobs', posts')
    BY <1>2, <2>2, <2>3, <2>4, <2>5 DEF Serves, Within, Pipe, Holding, Active
  <2> QED  BY <1>1, <1>2, <2>2, <2>4, <2>5, <2>6, PipeGoes DEF Pipe, Holding
<1>5. CASE Fresh(p)
  <2>1. proc[p].pc = "fresh" /\ UNCHANGED <<jobs, batch, posts>>
    BY <1>5 DEF Fresh, JobRead, At, Documents
  <2>2. PICK seen, r : /\ seen = IF batch = None THEN proc[p].seen ELSE batch
                       /\ r = [proc[p] EXCEPT !.pc = "mark", !.seen = seen]
    OBVIOUS
  <2>3. r.pc = "mark" /\ r.job = j /\ r.mine = proc[p].mine /\ r.seen = seen
    BY <1>2, <2>2 DEF Local
  <2>4. Serves(p, r, jobs', posts')
    BY <1>2, <2>1, <2>3 DEF Serves, Within, Pipe, Holding
  <2>5. CASE Become(p, Over(p))
    BY <1>1, <1>2, <2>1, <2>5, OverFine
  <2>6. CASE Become(p, r)
    BY <1>1, <1>2, <2>1, <2>2, <2>3, <2>4, <2>6, PipeGoes DEF Pipe, Holding
  <2> QED  BY <1>5, <2>2, <2>5, <2>6 DEF Fresh, JobRead
<1>6. CASE Mark(p)
  <2>1. PICK b, r : /\ b = [proc[p].seen EXCEPT !.status = "RUNNING", !.cur = j]
                    /\ r = [proc[p] EXCEPT !.pc = "check", !.next = "post", !.seen = None]
    OBVIOUS
  <2>2. proc[p].pc = "mark" /\ UNCHANGED <<jobs, posts>> /\ batch' = b /\ Become(p, r)
    BY <1>6, <2>1 DEF Mark, At, SaveBatch
  <2>3. r.pc = "check" /\ r.next = "post" /\ r.job = j /\ r.mine = proc[p].mine /\ r.seen = None
    BY <1>2, <2>1 DEF Local
  <2>4. Serves(p, r, jobs', posts')
    BY <1>2, <2>2, <2>3 DEF Serves, Within, Pipe, Holding
  <2>5. Apt(b, jobs) /\ b # None
    <3>1. proc[p].seen \in Batch
      BY <1>2, <2>2 DEF Carries, CarriesBatch
    <3>2. b.status = "RUNNING" /\ b.stop = proc[p].seen.stop /\ b \in Batch
      BY <1>2, <2>1, <3>1 DEF Batch, BatchStatuses, ActiveBatch
    <3>3. Apt(proc[p].seen, jobs) /\ proc[p].seen # None /\ b # None
      BY <1>2, <3>1, <3>2, NoDocument DEF WorkInv, AptLocal
    <3> QED  BY <3>2, <3>3 DEF Apt, ActiveBatch
  <2>6. proc'[p] = r /\ OthersStill(p)
    BY <1>2, <2>2, BecomeStill
  <2>7. JobStep(p) /\ PostStep(p)
    BY <2>2 DEF JobStep, PostStep
  <2>8. AptLocal(r, jobs')
    BY <2>3 DEF AptLocal, Apt
  <2>9. Place(p, "check") /\ p # User
    BY Distinct DEF Place, TaskPlaces, Pipe, Holding
  <2>10. \A i \in Jobs : Works(r, i) => Works(proc[p], i)
    BY <1>2, <2>3 DEF Works
  <2>11. Lawful(p)
    BY <2>2, <2>3, <2>4, <2>5, <2>6, <2>7, <2>8, <2>9, <2>10 DEF Lawful, OthersStill
  <2> QED  BY <1>1, <1>2, <2>2, <2>3, <2>6, <2>11, StillUnposted DEF Fine
<1> QED  BY <1>3, <1>4, <1>5, <1>6

\* A task leaves the pipeline with its job as it stands.
LEMMA EndingServes ==
  ASSUME NEW p \in Tasks, p # Publisher => proc[p].job = p,
         NEW docs, NEW ps, docs[proc[p].job] = None \/ Active(docs[proc[p].job]),
         NEW r, r.pc \in {"endFind", "endSave"}, r.job = proc[p].job
  PROVE  Serves(p, r, docs, ps)
BY DEF Serves, Within, Pipe, Holding

LEMMA CheckFine ==
  ASSUME ScheduleInv, Truthful, Kept, WorkInv, NEW p \in Tasks, Check(p)
  PROVE  Fine(p)
<1> DEFINE j == proc[p].job
<1>1. proc[p].pc = "check" /\ UNCHANGED <<jobs, batch>>
  BY DEF Check, At
<1>2. /\ p \in Procs /\ proc[p] \in Local /\ Carries(proc[p], jobs) /\ Truth(proc[p], posts)
      /\ j \in Jobs /\ Works(proc[p], j) /\ Serves(p, proc[p], jobs, posts)
      /\ posts \in [Jobs -> Post]
  BY <1>1, AtWork DEF Pipe, Holding
<1>3. (\A i \in Jobs \ {j} : posts'[i] = posts[i]) /\ posts'[j].live = posts[j].live
  BY <1>2 DEF Check, DeletePost, Post
<1>4. ASSUME NEW status, EndNow(p, status) PROVE Fine(p)
  <2>1. PICK r : r = [Ending(p, "endSave", status) EXCEPT !.mine = jobs[j]]
    OBVIOUS
  <2>2. (p # Publisher => j = p) /\ (jobs[j] = None \/ Active(jobs[j]))
    BY <1>1, <1>2 DEF Serves, Pipe, Holding
  <2>3. r.pc = "endSave" /\ r.job = j /\ r.seen = None /\ Become(p, r)
    BY <1>4, <2>1 DEF EndNow, Ending, Idle
  <2>4. Serves(p, r, jobs', posts')
    BY <1>1, <2>2, <2>3, EndingServes
  <2> QED  BY <1>1, <1>2, <1>3, <2>3, <2>4, PipeGoes DEF Pipe, Holding
<1>5. ASSUME Goto(p, proc[p].next), proc[p].next # "end", jobs[j] # None PROVE Fine(p)
  <2>1. PICK r : r = [proc[p] EXCEPT !.pc = proc[p].next]
    OBVIOUS
  <2>2. /\ r.pc = proc[p].next /\ r.job = j /\ r.mine = proc[p].mine /\ r.next = proc[p].next
        /\ r.seen = proc[p].seen
    BY <1>2, <2>1 DEF Local
  <2>3. r.pc \in {"post", "stage", "publishStage"}
    BY <1>1, <1>2, <1>5, <2>2 DEF Carries, CarriesGoal
  <2>4. Serves(p, r, jobs', posts')
    BY <1>1, <1>2, <2>2, <2>3 DEF Serves, Within, Pipe, Holding
  <2>5. Become(p, r)
    BY <1>5, <2>1 DEF Goto
  <2> QED  BY <1>1, <1>2, <1>3, <2>2, <2>3, <2>4, <2>5, PipeGoes DEF Pipe, Holding
<1> QED  BY <1>4, <1>5 DEF Check

\* Where a finished manuscript goes.
LEMMA FinishedServes ==
  ASSUME ScheduleInv, NEW p \in Tasks, proc[p].job \in Jobs, p # Publisher => proc[p].job = p,
         jobs[proc[p].job] = None \/ (Active(jobs[proc[p].job]) /\ jobs[proc[p].job].post)
  PROVE  LET r == Finished(p)
         IN  /\ Serves(p, r, jobs, posts) /\ r.pc \in {"stamp", "check"}
             /\ r.job = proc[p].job /\ r.seen = proc[p].seen
<1> DEFINE job == jobs[proc[p].job]
           publish == Destination(p) = "publish"
           pc == IF job # None /\ ~job.made THEN "stamp" ELSE "check"
           mine == IF job # None /\ (publish \/ ~job.made) THEN job ELSE None
           next == IF publish THEN "publishStage" ELSE "end"
<1>1. PICK r : r = [proc[p] EXCEPT !.pc = pc, !.mine = mine, !.goal = Destination(p), !.next = next]
  OBVIOUS
<1>2. r = Finished(p)
  BY <1>1 DEF Finished
<1>3. r.job = proc[p].job /\ r.pc = pc /\ r.mine = mine /\ r.next = next /\ r.seen = proc[p].seen
  BY <1>1 DEF ScheduleInv, Local, Procs
<1>4. /\ pc \in {"stamp", "check"} /\ next \in {"publishStage", "end"} /\ mine \in {job, None}
  OBVIOUS
<1> HIDE DEF pc, mine, next
<1>5. Serves(p, r, jobs, posts)
  BY <1>3, <1>4 DEF Serves, Within, Pipe, Holding
<1> QED  BY <1>2, <1>3, <1>4, <1>5

LEMMA DraftFine ==
  ASSUME ScheduleInv, Truthful, Kept, WorkInv, NEW p \in Tasks,
         EnsurePost(p) \/ Create(p) \/ Link(p) \/ Generated(p) \/ Stamp(p)
  PROVE  Fine(p)
<1> DEFINE j == proc[p].job
<1>1. proc[p].pc \in {"post", "create", "link", "generated", "stamp"}
  BY DEF EnsurePost, Create, Link, Generated, Stamp, JobRead, At
<1>2. /\ p \in Procs /\ proc[p] \in Local /\ Carries(proc[p], jobs) /\ Truth(proc[p], posts)
      /\ j \in Jobs /\ Works(proc[p], j) /\ Serves(p, proc[p], jobs, posts)
      /\ jobs[j] \in Job \cup {None} /\ posts \in [Jobs -> Post]
  BY <1>1, AtWork DEF Pipe, Holding
<1>3. (p # Publisher => j = p) /\ (jobs[j] = None \/ Active(jobs[j]))
  BY <1>1, <1>2 DEF Serves, Pipe, Holding
<1>4. ASSUME Become(p, Finished(p)), UNCHANGED <<jobs, batch, posts>>,
             jobs[j] = None \/ jobs[j].post
      PROVE  Fine(p)
  <2>1. PICK r : r = Finished(p)
    OBVIOUS
  <2>2. Serves(p, r, jobs', posts') /\ r.pc \in {"stamp", "check"} /\ r.job = j /\ r.seen = proc[p].seen
    BY <1>2, <1>3, <1>4, <2>1, FinishedServes
  <2> QED  BY <1>1, <1>2, <1>4, <2>1, <2>2, PipeGoes DEF Pipe, Holding
<1>5. CASE EnsurePost(p)
  <2>1. PICK r, t : /\ r = [proc[p] EXCEPT !.pc = "create"]
                    /\ t = [proc[p] EXCEPT !.pc = "check", !.next = "stage", !.mine = jobs[j],
                                           !.left = Stages]
    OBVIOUS
  <2>2. proc[p].pc = "post" /\ UNCHANGED <<jobs, batch, posts>>
    BY <1>5 DEF EnsurePost, JobRead, At, Documents
  <2>3. /\ r.pc = "create" /\ r.job = j /\ r.mine = proc[p].mine /\ r.seen = proc[p].seen
        /\ t.pc = "check" /\ t.next = "stage" /\ t.job = j /\ t.mine = jobs[j]
        /\ t.seen = proc[p].seen
    BY <1>2, <2>1 DEF Local
  <2>4. Serves(p, r, jobs', posts')
    BY <1>2, <2>2, <2>3 DEF Serves, Within, Pipe, Holding
  <2>5. CASE Become(p, r)
    BY <1>1, <1>2, <2>2, <2>3, <2>4, <2>5, PipeGoes DEF Pipe, Holding
  <2>6. ASSUME proc[p].mine.post PROVE jobs[j] = None \/ jobs[j].post
    BY <1>2, <2>2, <2>6 DEF Serves, Within
  <2>7. CASE Become(p, t) /\ proc[p].mine.post
    <3>1. Serves(p, t, jobs', posts')
      BY <1>2, <1>3, <2>2, <2>3, <2>6, <2>7 DEF Serves, Within, Pipe, Holding
    <3> QED  BY <1>1, <1>2, <2>2, <2>3, <2>7, <3>1, PipeGoes DEF Pipe, Holding
  <2>8. CASE Become(p, Finished(p)) /\ proc[p].mine.post
    BY <1>4, <2>2, <2>6, <2>8
  <2> QED  BY <1>5, <2>1, <2>5, <2>7, <2>8 DEF EnsurePost, JobRead
<1>6. CASE Create(p)
  <2>1. PICK r, e : /\ r = [proc[p] EXCEPT !.pc = "link"]
                    /\ e = Ending(p, "endFind", "FAILED")
    OBVIOUS
  <2>2. proc[p].pc = "create" /\ batch' = batch /\ SaveJob(p, proc[p].mine)
    BY <1>6 DEF Create, At
  <2>3. proc[p].mine \in Job /\ proc[p].mine.status = "RUNNING"
    BY <1>2, <2>2 DEF Carries, CarriesJob, Truth
  <2>4. r.pc = "link" /\ r.job = j /\ r.mine = proc[p].mine /\ r.seen = proc[p].seen
    BY <1>2, <2>1 DEF Local
  <2>5. /\ \A i \in Jobs \ {j} : jobs'[i] = jobs[i]
        /\ jobs'[j] \in {None, proc[p].mine} /\ (jobs'[j] = None => jobs[j] = None)
    BY <1>2, <2>2, <2>3, SaveChanges
  <2>6. (\A i \in Jobs \ {j} : posts'[i] = posts[i]) /\ posts'[j].live = posts[j].live
    BY <1>2, <1>6 DEF Create, Post
  <2>7. Serves(p, r, jobs', posts')
    BY <1>2, <2>2, <2>3, <2>4, <2>5 DEF Serves, Within, Pipe, Holding, Active
  <2>8. Serves(p, e, jobs', posts') /\ e.pc = "endFind" /\ e.job = j /\ e.seen = None
    <3>1. e.pc = "endFind" /\ e.job = j /\ e.seen = None
      BY <2>1 DEF Ending, Idle
    <3>2. jobs'[j] = None \/ Active(jobs'[j])
      BY <2>3, <2>5, NoDocument DEF Active
    <3> QED  BY <1>3, <3>1, <3>2, EndingServes
  <2>9. Become(p, r) \/ Become(p, e)
    BY <1>6, <2>1 DEF Create, Goto, End
  <2>10. CASE Become(p, r)
    BY <1>1, <1>2, <2>2, <2>4, <2>5, <2>6, <2>7, <2>10, PipeGoes DEF Pipe, Holding
  <2>11. CASE Become(p, e)
    BY <1>1, <1>2, <2>2, <2>5, <2>6, <2>8, <2>11, PipeGoes DEF Pipe, Holding
  <2> QED  BY <2>9, <2>10, <2>11
<1>7. CASE Link(p)
  <2>1. PICK d, r : /\ d = [proc[p].mine EXCEPT !.post = TRUE]
                    /\ r = [proc[p] EXCEPT !.pc = "check", !.next = "stage", !.mine = d,
                                           !.left = Stages]
    OBVIOUS
  <2>2. proc[p].pc = "link" /\ UNCHANGED <<batch, posts>> /\ SaveJob(p, d) /\ Become(p, r)
    BY <1>7, <2>1 DEF Link, At
  <2>3. d \in Job /\ d.status = "RUNNING" /\ d.post
    BY <1>2, <2>1, <2>2 DEF Carries, CarriesJob, Truth, Job
  <2>4. /\ r.pc = "check" /\ r.next = "stage" /\ r.job = j /\ r.mine = d
        /\ r.seen = proc[p].seen
    BY <1>2, <2>1 DEF Local
  <2>5. /\ \A i \in Jobs \ {j} : jobs'[i] = jobs[i]
        /\ jobs'[j] \in {None, d} /\ (jobs'[j] = None => jobs[j] = None)
    BY <1>2, <2>2, <2>3, SaveChanges
  <2>6. Active(d)
    BY <2>3, NoDocument DEF Active
  <2>7. Serves(p, r, jobs', posts')
    BY <1>3, <2>3, <2>4, <2>5, <2>6 DEF Serves, Within, Pipe, Holding
  <2> QED  BY <1>1, <1>2, <2>2, <2>4, <2>5, <2>7, PipeGoes DEF Pipe, Holding
<1>8. CASE Generated(p)
  <2>1. UNCHANGED <<jobs, batch, posts>> /\ Become(p, Finished(p)) /\ proc[p].pc = "generated"
    BY <1>8 DEF Generated, JobRead, At, Documents
  <2>2. jobs[j] = None \/ jobs[j].post
    BY <1>2, <2>1 DEF Serves, Within
  <2> QED  BY <1>4, <2>1, <2>2
<1>9. CASE Stamp(p)
  <2>1. PICK d, m : /\ d = [proc[p].mine EXCEPT !.made = TRUE]
                    /\ m = IF proc[p].next = "end" THEN None ELSE d
    OBVIOUS
  <2>2. PICK r : r = [proc[p] EXCEPT !.pc = "check", !.mine = m]
    OBVIOUS
  <2>3. proc[p].pc = "stamp" /\ UNCHANGED <<batch, posts>> /\ SaveJob(p, d) /\ Become(p, r)
    BY <1>9, <2>1, <2>2 DEF Stamp, At
  <2>4. proc[p].mine \in Job /\ proc[p].mine.post /\ Active(proc[p].mine)
    BY <1>2, <2>3, NoDocument DEF Carries, CarriesJob, Serves, Within
  <2>5. d \in Job /\ d.status = proc[p].mine.status /\ d.post
    BY <2>1, <2>4 DEF Job
  <2>6. Active(d)
    BY <2>4, <2>5, NoDocument DEF Active
  <2>7. /\ r.pc = "check" /\ r.next = proc[p].next /\ r.job = j /\ r.mine = m
        /\ r.seen = proc[p].seen
    BY <1>2, <2>2 DEF Local
  <2>8. proc[p].next \in {"publishStage", "end"}
    BY <1>2, <2>3 DEF Carries, CarriesGoal
  <2>9. /\ \A i \in Jobs \ {j} : jobs'[i] = jobs[i]
        /\ jobs'[j] \in {None, d} /\ (jobs'[j] = None => jobs[j] = None)
    BY <1>2, <2>3, <2>5, SaveChanges
  <2>10. Serves(p, r, jobs', posts')
    BY <1>3, <2>1, <2>5, <2>6, <2>7, <2>8, <2>9 DEF Serves, Within, Pipe, Holding
  <2> QED  BY <1>1, <1>2, <2>3, <2>7, <2>9, <2>10, PipeGoes DEF Pipe, Holding
<1> QED  BY <1>5, <1>6, <1>7, <1>8, <1>9

LEMMA StageFine ==
  ASSUME ScheduleInv, Truthful, Kept, WorkInv, NEW p \in Tasks, Stage(p)
  PROVE  Fine(p)
<1> DEFINE j == proc[p].job
<1>1. proc[p].pc = "stage" /\ batch' = batch /\ SaveJob(p, proc[p].mine)
  BY DEF Stage, At
<1>2. /\ p \in Procs /\ proc[p] \in Local /\ Carries(proc[p], jobs) /\ Truth(proc[p], posts)
      /\ j \in Jobs /\ Works(proc[p], j) /\ Serves(p, proc[p], jobs, posts)
      /\ posts \in [Jobs -> Post]
  BY <1>1, AtWork DEF Pipe, Holding
<1>3. /\ proc[p].mine \in Job \/ (proc[p].mine = None /\ jobs[j] = None)
      /\ proc[p].mine = None \/ (proc[p].mine.post /\ Active(proc[p].mine))
      /\ p # Publisher => j = p
  BY <1>1, <1>2 DEF Carries, CarriesJob, Serves, Within, Pipe, Holding
<1>4. /\ \A i \in Jobs \ {j} : jobs'[i] = jobs[i]
      /\ jobs'[j] \in {None, proc[p].mine} /\ (jobs'[j] = None => jobs[j] = None)
  BY <1>1, <1>2, <1>3, SaveChanges
<1>5. (\A i \in Jobs \ {j} : posts'[i] = posts[i]) /\ posts'[j].live = posts[j].live
  BY <1>2 DEF Stage, Post
<1>6. ASSUME NEW r \in Local, BecomeSlowly(p, r), r.pc \in Pipe, r.job = j,
             r.seen \in {None, proc[p].seen}, Serves(p, r, jobs', posts')
      PROVE  Fine(p)
  <2>1. proc'[p] = r /\ OthersStill(p)
    BY <1>6, SlowlyStill
  <2> QED  BY <1>1, <1>2, <1>4, <1>5, <1>6, <2>1, PipeFine
<1>7. ASSUME BecomeSlowly(p, Ending(p, "endFind", "FAILED")) PROVE Fine(p)
  <2>1. PICK e : e = Ending(p, "endFind", "FAILED")
    OBVIOUS
  <2>2. e \in Local
    BY <1>2, <2>1, EndingCarries DEF Carries, Outcomes, JobStatuses
  <2>3. Serves(p, e, jobs', posts') /\ e.pc = "endFind" /\ e.job = j /\ e.seen = None
    <3>1. e.pc = "endFind" /\ e.job = j /\ e.seen = None
      BY <2>1 DEF Ending, Idle
    <3>2. jobs'[j] = None \/ Active(jobs'[j])
      BY <1>3, <1>4
    <3> QED  BY <1>3, <3>1, <3>2, EndingServes
  <2> QED  BY <1>6, <1>7, <2>1, <2>2, <2>3 DEF Pipe, Holding
<1>8. ASSUME NEW pc \in {"stage", "check"}, proc[p].left > 1,
             BecomeSlowly(p, [proc[p] EXCEPT !.pc = pc, !.left = proc[p].left - 1])
      PROVE  Fine(p)
  <2>1. PICK r : r = [proc[p] EXCEPT !.pc = pc, !.left = proc[p].left - 1]
    OBVIOUS
  <2>2. proc[p].left - 1 \in 0..Stages
    BY <1>2, <1>8, ScheduleAssumption DEF Local
  <2>3. /\ r \in Local /\ r.pc = pc /\ r.next = "stage" /\ r.job = j /\ r.mine = proc[p].mine
        /\ r.seen = proc[p].seen
    BY <1>1, <1>2, <2>1, <2>2 DEF Local, Points, Carries, CarriesGoal
  <2>4. Serves(p, r, jobs', posts')
    BY <1>3, <1>4, <2>3 DEF Serves, Within, Pipe, Holding
  <2> QED  BY <1>6, <1>8, <2>1, <2>3, <2>4 DEF Pipe, Holding
<1>9. ASSUME BecomeSlowly(p, [proc[p] EXCEPT !.pc = "generated", !.mine = None, !.left = 0])
      PROVE  Fine(p)
  <2>1. PICK r : r = [proc[p] EXCEPT !.pc = "generated", !.mine = None, !.left = 0]
    OBVIOUS
  <2>2. 0 \in 0..Stages
    BY ScheduleAssumption
  <2>3. r \in Local /\ r.pc = "generated" /\ r.job = j /\ r.seen = proc[p].seen
    BY <1>2, <2>1, <2>2 DEF Local, Points
  <2>4. Serves(p, r, jobs', posts')
    BY <1>3, <1>4, <2>3 DEF Serves, Within, Pipe, Holding
  <2> QED  BY <1>6, <1>9, <2>1, <2>3, <2>4 DEF Pipe, Holding
<1> QED  BY <1>7, <1>8, <1>9 DEF Stage

LEMMA AttemptFine ==
  ASSUME ScheduleInv, Truthful, Kept, WorkInv, NEW p \in Tasks,
         PublishStage(p) \/ Begin(p) \/ SetPublishing(p) \/ StartPosting(p) \/ FailPublish(p)
  PROVE  Fine(p)
<1> DEFINE j == proc[p].job
<1>1. proc[p].pc \in {"publishStage", "begin", "publishing", "start", "failPublish"}
  BY DEF PublishStage, Begin, SetPublishing, StartPosting, FailPublish, JobRead, At
<1>2. /\ p \in Procs /\ proc[p] \in Local /\ Carries(proc[p], jobs)
      /\ j \in Jobs /\ Works(proc[p], j) /\ Serves(p, proc[p], jobs, posts)
      /\ jobs[j] \in Job \cup {None} /\ posts \in [Jobs -> Post]
  BY <1>1, AtWork DEF Pipe, Holding
<1>3. /\ p # Publisher => j = p
      /\ jobs[j] = None \/ (Active(jobs[j]) /\ jobs[j].post)
  BY <1>1, <1>2 DEF Serves, Within, Pipe, Holding
<1>4. CASE PublishStage(p)
  <2>1. PICK r : r = [proc[p] EXCEPT !.pc = "begin"]
    OBVIOUS
  <2>2. /\ proc[p].pc = "publishStage" /\ UNCHANGED <<batch, posts>> /\ Become(p, r)
        /\ SaveJob(p, proc[p].mine)
    BY <1>4, <2>1 DEF PublishStage, Goto, At
  <2>3. /\ proc[p].mine \in Job \/ (proc[p].mine = None /\ jobs[j] = None)
        /\ proc[p].mine = None \/ (proc[p].mine.post /\ Active(proc[p].mine))
    BY <1>2, <2>2 DEF Carries, CarriesJob, Serves, Within
  <2>4. r.pc = "begin" /\ r.job = j /\ r.seen = proc[p].seen
    BY <1>2, <2>1 DEF Local
  <2>5. /\ \A i \in Jobs \ {j} : jobs'[i] = jobs[i]
        /\ jobs'[j] \in {None, proc[p].mine} /\ (jobs'[j] = None => jobs[j] = None)
    BY <1>2, <2>2, <2>3, SaveChanges
  <2>6. Serves(p, r, jobs', posts')
    BY <1>3, <2>3, <2>4, <2>5 DEF Serves, Within, Pipe, Holding
  <2> QED  BY <1>1, <1>2, <2>2, <2>4, <2>5, <2>6, PipeGoes DEF Pipe, Holding
<1>5. CASE Begin(p)
  <2>1. PICK r : r = [proc[p] EXCEPT !.pc = "publishing", !.mine = jobs[j]]
    OBVIOUS
  <2>2. proc[p].pc = "begin" /\ UNCHANGED <<jobs, batch, posts>> /\ Become(p, r)
    BY <1>5, <2>1 DEF Begin, JobRead, At, Documents
  <2>3. r.pc = "publishing" /\ r.job = j /\ r.seen = proc[p].seen /\ r.mine = jobs[j]
    BY <1>2, <2>1 DEF Local
  <2>4. Serves(p, r, jobs', posts')
    BY <1>3, <2>2, <2>3 DEF Serves, Within, Pipe, Holding
  <2> QED  BY <1>1, <1>2, <2>2, <2>3, <2>4, PipeGoes DEF Pipe, Holding
<1>6. CASE SetPublishing(p)
  <2>1. PICK d : d = [proc[p].mine EXCEPT !.status = "PUBLISHING", !.tries = proc[p].mine.tries + 1]
    OBVIOUS
  <2>2. PICK r : r = [proc[p] EXCEPT !.pc = "start", !.mine = None]
    OBVIOUS
  <2>3. /\ proc[p].pc = "publishing" /\ UNCHANGED <<batch, posts>> /\ Become(p, r)
        /\ SaveJob(p, d)
    BY <1>6, <2>1, <2>2 DEF SetPublishing, At
  <2>4. /\ proc[p].mine \in Job \/ (proc[p].mine = None /\ jobs[j] = None)
        /\ proc[p].mine = None \/ proc[p].mine.post
    BY <1>2, <2>3 DEF Carries, CarriesJob, Serves, Within
  <2>5. jobs[j] = None \/ (d \in Job /\ d.status = "PUBLISHING" /\ d.post)
    <3>1. CASE proc[p].mine \in Job
      <4>1. d \in Job /\ d.status = "PUBLISHING" /\ d.post = proc[p].mine.post
        <5>1. proc[p].mine.tries + 1 \in Nat
          BY <3>1 DEF Job
        <5> QED  BY <2>1, <3>1, <5>1 DEF Job, JobStatuses
      <4> QED  BY <2>4, <3>1, <4>1, NoDocument
    <3> QED  BY <2>4, <3>1
  <2>6. r.pc = "start" /\ r.job = j /\ r.seen = proc[p].seen
    BY <1>2, <2>2 DEF Local
  <2>7. /\ \A i \in Jobs \ {j} : jobs'[i] = jobs[i]
        /\ jobs'[j] = IF jobs[j] = None THEN None ELSE d
        /\ jobs'[j] = None => jobs[j] = None
    BY <1>2, <2>3, <2>5, SaveChanges
  <2>8. jobs'[j] = None \/ (Active(jobs'[j]) /\ jobs'[j].status = "PUBLISHING" /\ jobs'[j].post)
    BY <2>5, <2>7 DEF Active
  <2>9. Serves(p, r, jobs', posts')
    BY <1>3, <2>6, <2>8 DEF Serves, Within, Pipe, Holding
  <2> QED  BY <1>1, <1>2, <2>3, <2>6, <2>7, <2>9, PipeGoes DEF Pipe, Holding
<1>7. CASE StartPosting(p)
  <2>1. PICK r, e : /\ r = [proc[p] EXCEPT !.pc = "click"]
                    /\ e = [Ending(p, "endSave", "FAILED") EXCEPT !.mine = jobs[j]]
    OBVIOUS
  <2>2. proc[p].pc = "start" /\ UNCHANGED <<jobs, batch>>
    BY <1>7 DEF StartPosting, At
  <2>3. r.pc = "click" /\ r.job = j /\ r.seen = proc[p].seen
    BY <1>2, <2>1 DEF Local
  <2>4. jobs[j] = None \/ jobs[j].status = "PUBLISHING"
    BY <1>2, <2>2 DEF Serves
  <2>5. (\A i \in Jobs \ {j} : posts'[i] = posts[i]) /\ posts'[j].live = posts[j].live
    BY <1>2, <1>7 DEF StartPosting, Post
  <2>6. CASE Become(p, r) /\ posts' = [posts EXCEPT ![j].state = "posting"]
    <3>1. posts'[j].state = "posting"
      BY <1>2, <2>6 DEF Post
    <3>2. Serves(p, r, jobs', posts')
      BY <1>3, <2>2, <2>3, <2>4, <3>1 DEF Serves, Within, Pipe, Holding
    <3> QED  BY <1>1, <1>2, <2>2, <2>3, <2>5, <2>6, <3>2, PipeGoes DEF Pipe, Holding
  <2>7. CASE Become(p, e)
    <3>1. Serves(p, e, jobs', posts') /\ e.pc = "endSave" /\ e.job = j /\ e.seen = None
      <4>1. e.pc = "endSave" /\ e.job = j /\ e.seen = None
        BY <2>1 DEF Ending, Idle
      <4>2. jobs'[j] = None \/ Active(jobs'[j])
        BY <1>3, <2>2
      <4> QED  BY <1>3, <4>1, <4>2, EndingServes
    <3> QED  BY <1>1, <1>2, <2>2, <2>5, <2>7, <3>1, PipeGoes DEF Pipe, Holding
  <2> QED  BY <1>7, <2>1, <2>6, <2>7 DEF StartPosting, Goto, EndNow
<1>8. CASE FailPublish(p)
  <2>1. PICK goal \in {"FAILED", "again"} :
          Become(p, [proc[p] EXCEPT !.pc = "endSave", !.mine = jobs[j], !.goal = goal])
    BY <1>8 DEF FailPublish, JobRead
  <2>2. PICK r : r = [proc[p] EXCEPT !.pc = "endSave", !.mine = jobs[j], !.goal = goal]
    OBVIOUS
  <2>3. UNCHANGED <<jobs, batch, posts>> /\ Become(p, r)
    BY <1>8, <2>1, <2>2 DEF FailPublish, JobRead, Documents
  <2>4. r.pc = "endSave" /\ r.job = j /\ r.seen = proc[p].seen
    BY <1>2, <2>2 DEF Local
  <2>5. Serves(p, r, jobs', posts')
    BY <1>3, <2>3, <2>4 DEF Serves, Within, Pipe, Holding
  <2> QED  BY <1>1, <1>2, <2>3, <2>4, <2>5, PipeGoes DEF Pipe, Holding
<1> QED  BY <1>4, <1>5, <1>6, <1>7, <1>8

\* From the click to the outcome: the article is there if, and only if, the task says so.
LEMMA LateFine ==
  ASSUME ScheduleInv, Kept, WorkInv, NEW p \in Tasks, NEW j \in Jobs, Works(proc[p], j),
         OthersStill(p), UNCHANGED <<jobs, batch>>, \A i \in Jobs \ {j} : posts'[i] = posts[i],
         proc'[p].pc \in Pipe, proc'[p].job = j, proc'[p].seen \in {None, proc[p].seen},
         Serves(p, proc'[p], jobs', posts'),
         OnceInv /\ ~Uncertain => OnceOf(jobs[j], posts'[j]) /\ Unposted(proc'[p], posts')
  PROVE  Fine(p)
<1>1. Lawful(p)
  BY PipeLawful
<1> QED  BY <1>1 DEF Fine, OnceStep, Works

LEMMA ClickFine ==
  ASSUME ScheduleInv, Truthful, Kept, WorkInv, NEW p \in Tasks, Click(p)
  PROVE  Fine(p)
<1> DEFINE j == proc[p].job
<1>1. proc[p].pc = "click" /\ UNCHANGED <<jobs, batch>>
  BY DEF Click, At
<1>2. /\ p \in Procs /\ proc[p] \in Local
      /\ j \in Jobs /\ Works(proc[p], j) /\ Serves(p, proc[p], jobs, posts)
      /\ posts \in [Jobs -> Post]
  BY <1>1, AtWork DEF Pipe, Holding
<1>3. PICK result \in {"posted", "human", "failed"}, live \in BOOLEAN :
        /\ live => result = "posted" \/ (Uncertain /\ result = "failed")
        /\ posts' = IF live THEN [posts EXCEPT ![j].live = @ + 1] ELSE posts
        /\ BecomeSlowly(p, [proc[p] EXCEPT !.pc = "log", !.goal = result])
  BY DEF Click
<1>4. PICK r : r = [proc[p] EXCEPT !.pc = "log", !.goal = result]
  OBVIOUS
<1>5. r \in Local /\ r.pc = "log" /\ r.job = j /\ r.goal = result /\ r.seen = proc[p].seen
  BY <1>2, <1>4 DEF Local, Points, Goals
<1>6. proc'[p] = r /\ OthersStill(p)
  BY <1>3, <1>4, <1>5, SlowlyStill
<1>7. /\ \A i \in Jobs \ {j} : posts'[i] = posts[i]
      /\ posts'[j].state = posts[j].state
      /\ posts'[j].live = IF live THEN posts[j].live + 1 ELSE posts[j].live
  BY <1>2, <1>3 DEF Post
<1>8. Serves(p, r, jobs', posts')
  BY <1>1, <1>2, <1>5, <1>7 DEF Serves, Within, Pipe, Holding
<1>9. ASSUME OnceInv, ~Uncertain PROVE OnceOf(jobs[j], posts'[j]) /\ Unposted(r, posts')
  <2>1. posts[j].live = 0
    BY <1>1, <1>9 DEF OnceInv, Unposted, Pipe, Holding
  <2>2. \/ jobs[j] = None
        \/ jobs[j].status = "PUBLISHING" /\ jobs[j].post /\ posts[j].state # "none"
    BY <1>1, <1>2 DEF Serves, Within, Pipe, Holding
  <2>3. OnceOf(jobs[j], posts'[j])
    BY <1>7, <2>1, <2>2 DEF OnceOf
  <2>4. Unposted(r, posts')
    BY <1>3, <1>5, <1>7, <1>9, <2>1 DEF Unposted
  <2> QED  BY <2>3, <2>4
<1> QED  BY <1>1, <1>2, <1>5, <1>6, <1>7, <1>8, <1>9, LateFine DEF Pipe, Holding

LEMMA ReportFine ==
  ASSUME ScheduleInv, Truthful, Kept, WorkInv, NEW p \in Tasks,
         LogResult(p) \/ FinishPost(p) \/ EndFind(p)
  PROVE  Fine(p)
<1> DEFINE j == proc[p].job
<1>1. proc[p].pc \in {"log", "finish", "endFind"} /\ UNCHANGED <<jobs, batch>>
  BY DEF LogResult, FinishPost, EndFind, JobRead, At, Documents
<1>2. /\ p \in Procs /\ proc[p] \in Local /\ Carries(proc[p], jobs)
      /\ j \in Jobs /\ Works(proc[p], j) /\ Serves(p, proc[p], jobs, posts)
      /\ posts \in [Jobs -> Post]
  BY <1>1, AtWork DEF Pipe, Holding
<1>3. (p # Publisher => j = p) /\ (jobs[j] = None \/ Active(jobs[j]))
  BY <1>1, <1>2 DEF Serves, Pipe, Holding
<1>4. ASSUME NEW r, Become(p, r), r.pc \in Pipe, r.job = j, r.seen \in {None, proc[p].seen},
             Serves(p, r, jobs', posts'), \A i \in Jobs \ {j} : posts'[i] = posts[i],
             OnceInv /\ ~Uncertain => OnceOf(jobs[j], posts'[j]) /\ Unposted(r, posts')
      PROVE  Fine(p)
  <2>1. proc'[p] = r /\ OthersStill(p)
    BY <1>2, <1>4, BecomeStill
  <2> QED  BY <1>1, <1>2, <1>4, <2>1, LateFine
<1>5. ASSUME NEW status, Become(p, Ending(p, "endFind", status)),
             \A i \in Jobs \ {j} : posts'[i] = posts[i],
             OnceInv /\ ~Uncertain =>
               /\ OnceOf(jobs[j], posts'[j])
               /\ status \in {"COMPLETED", "FAILED"} \/ posts'[j].live = 0
      PROVE  Fine(p)
  <2>1. PICK e : e = Ending(p, "endFind", status)
    OBVIOUS
  <2>2. e.pc = "endFind" /\ e.job = j /\ e.seen = None /\ e.goal = status
    BY <2>1 DEF Ending, Idle
  <2>3. Serves(p, e, jobs', posts')
    BY <1>1, <1>3, <2>2, EndingServes
  <2>4. OnceInv /\ ~Uncertain => Unposted(e, posts')
    BY <1>5, <2>2 DEF Unposted
  <2> QED  BY <1>4, <1>5, <2>1, <2>2, <2>3, <2>4 DEF Pipe, Holding
<1>6. OnceInv => OnceOf(jobs[j], posts[j]) /\ Unposted(proc[p], posts)
  BY <1>2 DEF OnceInv
<1>7. CASE posts' = posts /\ Become(p, Ending(p, "endFind", "FAILED"))
  BY <1>5, <1>6, <1>7
<1>8. CASE LogResult(p)
  <2>1. PICK r, v : /\ r = [proc[p] EXCEPT !.pc = "finish"]
                    /\ v = (posts[j].logged \/ proc[p].goal = "posted")
    OBVIOUS
  <2>2. proc[p].pc = "log"
    BY <1>8 DEF LogResult, At
  <2>3. r.pc = "finish" /\ r.job = j /\ r.goal = proc[p].goal /\ r.seen = proc[p].seen
    BY <1>2, <2>1 DEF Local
  <2>4. CASE posts[j].state # "none" /\ posts' = [posts EXCEPT ![j].logged = v] /\ Become(p, r)
    <3>1. /\ \A i \in Jobs \ {j} : posts'[i] = posts[i]
          /\ posts'[j].live = posts[j].live /\ posts'[j].state = posts[j].state
      BY <1>2, <2>4 DEF Post
    <3>2. Serves(p, r, jobs', posts')
      BY <1>1, <1>2, <2>2, <2>3, <3>1 DEF Serves, Within, Pipe, Holding
    <3>3. OnceInv => OnceOf(jobs[j], posts'[j])
      BY <1>6, <3>1 DEF OnceOf
    <3>4. OnceInv => Unposted(r, posts')
      BY <1>2, <1>6, <2>2, <2>3, <3>1 DEF Unposted, Pipe, Holding
    <3> QED  BY <1>4, <2>3, <2>4, <3>1, <3>2, <3>3, <3>4 DEF Pipe, Holding
  <2>5. (posts' = posts /\ Become(p, Ending(p, "endFind", "FAILED")))
        \/ (posts[j].state # "none" /\ posts' = [posts EXCEPT ![j].logged = v] /\ Become(p, r))
    BY <1>8, <2>1, Zenon DEF LogResult, Goto, End
  <2> QED  BY <1>7, <2>4, <2>5
<1>9. CASE FinishPost(p)
  <2>1. proc[p].pc = "finish" /\ proc[p].goal \in {"posted", "human", "failed"}
    BY <1>2, <1>9 DEF FinishPost, At, Carries, CarriesGoal
  <2>2. PICK r : r = [proc[p] EXCEPT !.pc = "failPublish"]
    OBVIOUS
  <2>3. r.pc = "failPublish" /\ r.job = j /\ r.seen = proc[p].seen
    BY <1>2, <2>2 DEF Local
  <2>4. CASE posts[j].state # "none" /\ posts' = [posts EXCEPT ![j].state = proc[p].goal]
    <3>1. /\ \A i \in Jobs \ {j} : posts'[i] = posts[i]
          /\ posts'[j].live = posts[j].live /\ posts'[j].state = proc[p].goal
      BY <1>2, <2>4 DEF Post
    <3>2. OnceInv => OnceOf(jobs[j], posts'[j])
      BY <1>6, <2>1, <3>1 DEF OnceOf
    <3>3. OnceInv => proc[p].goal = "posted" \/ posts'[j].live = 0
      BY <1>2, <1>6, <2>1, <3>1 DEF Unposted, Pipe, Holding
    <3>4. CASE proc[p].goal = "posted"
      BY <1>5, <1>9, <2>4, <3>1, <3>2, <3>4 DEF FinishPost, End
    <3>5. CASE proc[p].goal = "human"
      BY <1>5, <1>9, <2>4, <3>1, <3>2, <3>3, <3>5 DEF FinishPost, End
    <3>6. CASE proc[p].goal = "failed"
      <4>1. Become(p, r)
        BY <1>9, <2>2, <2>4, <3>6 DEF FinishPost, Goto
      <4>2. Serves(p, r, jobs', posts')
        BY <1>1, <1>2, <2>1, <2>3, <3>1 DEF Serves, Within, Pipe, Holding
      <4>3. OnceInv => Unposted(r, posts')
        BY <2>3, <3>3, <3>6 DEF Unposted
      <4> QED  BY <1>4, <2>3, <3>1, <3>2, <4>1, <4>2, <4>3 DEF Pipe, Holding
    <3> QED  BY <2>1, <3>4, <3>5, <3>6
  <2> QED  BY <1>7, <1>9, <2>4 DEF FinishPost, End
<1>10. CASE EndFind(p)
  <2>1. PICK r : r = [proc[p] EXCEPT !.pc = "endSave", !.mine = jobs[j]]
    OBVIOUS
  <2>2. proc[p].pc = "endFind" /\ posts' = posts /\ Become(p, r)
    BY <1>10, <2>1 DEF EndFind, JobRead, At, Documents
  <2>3. r.pc = "endSave" /\ r.job = j /\ r.goal = proc[p].goal /\ r.seen = proc[p].seen
    BY <1>2, <2>1 DEF Local
  <2>4. Serves(p, r, jobs', posts')
    BY <1>1, <1>3, <2>3, EndingServes
  <2>5. OnceInv => Unposted(r, posts')
    BY <1>6, <1>2, <2>2, <2>3 DEF Unposted, Pipe, Holding
  <2> QED  BY <1>4, <1>6, <2>2, <2>3, <2>4, <2>5 DEF Pipe, Holding
<1> QED  BY <1>8, <1>9, <1>10

\* The outcome is saved, and the task lets go of its job.
LEMMA EndSaveFine ==
  ASSUME ScheduleInv, Truthful, Kept, WorkInv, NEW p \in Tasks, EndSave(p)
  PROVE  Fine(p)
<1> DEFINE j == proc[p].job
           status == IF proc[p].goal = "again" THEN "READY_TO_PUBLISH" ELSE proc[p].goal
<1>1. proc[p].pc = "endSave" /\ UNCHANGED <<batch, posts>>
  BY DEF EndSave, At
<1>2. /\ p \in Procs /\ proc[p] \in Local /\ Carries(proc[p], jobs)
      /\ j \in Jobs /\ Works(proc[p], j) /\ posts \in [Jobs -> Post]
  BY <1>1, AtWork DEF Pipe, Holding
<1>3. PICK d, r : /\ d = [proc[p].mine EXCEPT !.status = status]
                  /\ r = [proc[p] EXCEPT !.pc = "endBatch", !.mine = None]
  OBVIOUS
<1>4. SaveJob(p, d) /\ Become(p, r)
  BY <1>3 DEF EndSave
<1>5. status \in Outcomes
  BY <1>1, <1>2 DEF Carries, CarriesGoal, Outcomes, JobStatuses
<1>6. jobs[j] = None \/ (d \in Job /\ d.status = status)
  <2>1. proc[p].mine \in Job \/ jobs[j] = None
    BY <1>1, <1>2 DEF Carries, CarriesJob
  <2>2. ASSUME proc[p].mine \in Job PROVE d \in Job /\ d.status = status
    BY <1>3, <1>5, <2>2 DEF Job, Outcomes
  <2> QED  BY <2>1, <2>2
<1>7. /\ \A i \in Jobs \ {j} : jobs'[i] = jobs[i]
      /\ jobs'[j] = IF jobs[j] = None THEN None ELSE d
      /\ jobs'[j] = None => jobs[j] = None
  BY <1>2, <1>4, <1>6, SaveChanges
<1>8. r.pc = "endBatch" /\ r.goal = proc[p].goal /\ r.seen = proc[p].seen
  BY <1>2, <1>3 DEF Local
<1>9. proc'[p] = r /\ OthersStill(p)
  BY <1>2, <1>4, BecomeStill
<1>10. JobStep(p) /\ PostStep(p)
  BY <1>1, <1>2, <1>7 DEF JobStep, PostStep
<1>11. Steady
  BY <1>10, JobsSteady
<1>12. p # User /\ Place(p, "endBatch")
  BY Distinct DEF Place, TaskPlaces
<1>13. Apt(batch', jobs') /\ Apt(r.seen, jobs') /\ (batch' = None => Cleared(jobs'))
  <2>1. Apt(batch, jobs) /\ Apt(r.seen, jobs)
    BY <1>2, <1>8 DEF WorkInv, AptLocal
  <2> QED  BY <1>1, <1>11, <2>1, AptSteady DEF WorkInv, Steady
<1>14. PausesOnly /\ proc[p].goal = "NEEDS_HUMAN" => StatusIn(jobs', {"NEEDS_HUMAN"})
  BY <1>2, <1>6, <1>7 DEF WorkInv, StatusIn
<1>15. AptLocal(r, jobs')
  BY <1>8, <1>13, <1>14 DEF AptLocal
<1>16. Serves(p, r, jobs', posts') /\ ~Works(r, j) /\ \A i \in Jobs : ~Works(r, i)
  BY <1>8 DEF Serves, Within, Works, Pipe, Holding
<1>17. Lawful(p)
  BY <1>8, <1>9, <1>10, <1>12, <1>13, <1>15, <1>16 DEF Lawful, OthersStill
<1>18. ASSUME OnceInv PROVE OnceStep(p)
  <2>1. OnceOf(jobs[j], posts[j]) /\ Unposted(proc[p], posts)
    BY <1>2, <1>18 DEF OnceInv
  <2>2. posts[j].live # 0 => proc[p].goal \in {"COMPLETED", "FAILED"}
    BY <1>1, <2>1 DEF Unposted, Pipe, Holding
  <2>3. OnceOf(jobs'[j], posts'[j])
    BY <1>1, <1>6, <1>7, <2>1, <2>2 DEF OnceOf
  <2>4. Unposted(r, posts')
    BY <1>8 DEF Unposted, Pipe, Holding
  <2> QED  BY <1>2, <1>9, <2>3, <2>4 DEF OnceStep, Works
<1> QED  BY <1>17, <1>18 DEF Fine

\* A step outside the pipeline that reads, or saves the batch.
LEMMA QuietFine ==
  ASSUME ScheduleInv, Kept, WorkInv, NEW p \in Procs, p \in Tasks => proc[p].pc \notin Pipe,
         UNCHANGED <<jobs, posts>>, NEW r, Become(p, r), Place(p, r.pc), r.pc \notin Pipe,
         AptLocal(r, jobs), Apt(batch', jobs), batch' = None => Cleared(jobs),
         p = User => Listed(r, jobs)
  PROVE  Fine(p)
<1>1. proc'[p] = r /\ OthersStill(p)
  BY BecomeStill
<1>2. JobStep(p) /\ PostStep(p)
  BY DEF JobStep, PostStep
<1>3. Serves(p, r, jobs', posts') /\ \A j \in Jobs : ~Works(r, j)
  BY DEF Serves, Within, Works, Pipe, Holding
<1>4. Lawful(p)
  BY <1>1, <1>2, <1>3 DEF Lawful, OthersStill
<1>5. OnceStep(p)
  BY <1>1 DEF OnceStep, Unposted, Works
<1> QED  BY <1>4, <1>5 DEF Fine

LEMMA OutcomeFine ==
  ASSUME ScheduleInv, Kept, WorkInv, NEW p \in Tasks, EndBatch(p) \/ EndMark(p)
  PROVE  Fine(p)
<1>1. p \in Procs /\ p # User /\ proc[p] \in Local /\ Carries(proc[p], jobs) /\ AptLocal(proc[p], jobs)
  BY Distinct DEF Procs, ScheduleInv, WorkInv
<1>2. proc[p].pc \in {"endBatch", "endMark"} /\ proc[p].pc \notin Pipe /\ UNCHANGED <<jobs, posts>>
  BY DEF EndBatch, EndMark, JobRead, At, Documents, Pipe, Holding
<1>3. Apt(batch, jobs) /\ (batch = None => Cleared(jobs))
  BY DEF WorkInv
<1>4. PICK o : o = Over(p)
  OBVIOUS
<1>5. o.pc = "close" /\ o.seen = None
  BY <1>4 DEF Over, Idle
<1>6. Place(p, "close") /\ Place(p, "endMark") /\ "close" \notin Pipe /\ "endMark" \notin Pipe
  BY <1>1, Distinct DEF Place, TaskPlaces, Pipe, Holding
<1>7. AptLocal(o, jobs)
  BY <1>5 DEF AptLocal, Apt
<1>8. CASE EndBatch(p)
  <2>1. proc[p].pc = "endBatch" /\ batch' = batch
    BY <1>8 DEF EndBatch, JobRead, At, Documents
  <2>2. PICK r : r = [proc[p] EXCEPT !.pc = "endMark", !.seen = batch]
    OBVIOUS
  <2>3. r.pc = "endMark" /\ r.seen = batch /\ r.goal = proc[p].goal
    BY <1>1, <2>2 DEF Local
  <2>4. AptLocal(r, jobs)
    BY <1>1, <1>3, <2>1, <2>3 DEF AptLocal
  <2>5. Become(p, o) \/ Become(p, r)
    BY <1>4, <1>8, <2>2 DEF EndBatch, JobRead
  <2> QED  BY <1>1, <1>2, <1>3, <1>5, <1>6, <1>7, <2>1, <2>3, <2>4, <2>5, QuietFine
<1>9. CASE EndMark(p)
  <2>1. PICK status, cur :
          /\ status = IF proc[p].goal = "NEEDS_HUMAN" THEN "NEEDS_HUMAN" ELSE proc[p].seen.status
          /\ cur \in {None, proc[p].seen.cur}
          /\ batch' = [proc[p].seen EXCEPT !.status = status, !.cur = cur]
    BY <1>9 DEF EndMark, SaveBatch
  <2>2. proc[p].pc = "endMark" /\ Become(p, o) /\ proc[p].seen \in Batch
    BY <1>1, <1>4, <1>9 DEF EndMark, At, Carries, CarriesBatch
  <2>3. batch'.status = status /\ batch'.stop = proc[p].seen.stop
    BY <2>1, <2>2 DEF Batch
  <2>4. batch' \in Batch
    BY <2>1, <2>2 DEF Batch, BatchStatuses, ActiveBatch
  <2>5. proc[p].seen # None
    BY <2>2, NoDocument
  <2>6. Apt(batch', jobs)
    BY <1>1, <2>1, <2>2, <2>3, <2>5 DEF AptLocal, Apt, ActiveBatch
  <2> QED  BY <1>1, <1>2, <1>5, <1>6, <1>7, <2>2, <2>4, <2>6, QuietFine, NoDocument
<1> QED  BY <1>8, <1>9

-----------------------------------------------------------------------------
(* Steps of the loop and of the requests, and those they share with the tasks.  *)

LEMMA IdleApt ==
  /\ Idle.pc = "idle" /\ Idle.seen = None
  /\ \A docs : AptLocal(Idle, docs) /\ Listed(Idle, docs)
  /\ \A p : Place(p, "idle") /\ Place(p, "finishSave")
<1>1. Idle.pc = "idle" /\ Idle.seen = None
  BY DEF Idle
<1>2. \A docs : AptLocal(Idle, docs) /\ Listed(Idle, docs)
  BY <1>1 DEF AptLocal, Apt, Listed
<1>3. \A p : Place(p, "idle") /\ Place(p, "finishSave")
  BY DEF Place, TaskPlaces
<1> QED  BY <1>1, <1>2, <1>3

\* A batch is closed when, as far as the jobs go, nothing is left to do.
LEMMA FinishingApt ==
  ASSUME WorkInv, NEW status, status \notin ActiveBatch,
         Unresumed => ~StatusIn(jobs, Unfinished), NEW r, r = Finishing(status)
  PROVE  r.pc \in {"idle", "finishSave"} /\ AptLocal(r, jobs) /\ Listed(r, jobs)
<1>1. CASE r = Idle
  BY <1>1, IdleApt
<1>2. CASE r = [Idle EXCEPT !.pc = "finishSave", !.seen = batch, !.goal = status]
  <2>1. r.pc = "finishSave" /\ r.seen = batch /\ r.goal = status
    BY <1>2 DEF Idle
  <2>2. AptLocal(r, jobs)
    BY <2>1 DEF AptLocal, WorkInv
  <2>3. Listed(r, jobs)
    BY <2>1 DEF Listed
  <2> QED  BY <2>1, <2>2, <2>3
<1> QED  BY <1>1, <1>2 DEF Finishing

LEMMA ClosingApt ==
  ASSUME WorkInv, NEW r, r = Closing
  PROVE  r.pc \in {"idle", "finishSave"} /\ AptLocal(r, jobs) /\ Listed(r, jobs)
<1>1. CASE r = Idle
  BY <1>1, IdleApt
<1>2. CASE r # Idle
  <2>1. PICK status \in {"STOPPED", "COMPLETED", "FAILED"} : r = Finishing(status)
    <3>1. PICK status : status = IF batch.stop THEN "STOPPED"
                                 ELSE IF StatusIn(jobs, {"COMPLETED"}) THEN "COMPLETED" ELSE "FAILED"
      OBVIOUS
    <3> QED  BY <1>2, <3>1 DEF Closing
  <2>2. ~StatusIn(jobs, Unfinished)
    BY <1>2 DEF Closing
  <2> QED  BY <2>1, <2>2, FinishingApt DEF ActiveBatch
<1> QED  BY <1>1, <1>2

LEMMA CommonFine ==
  ASSUME ScheduleInv, Kept, WorkInv, NEW p \in Procs, Common(p)
  PROVE  Fine(p)
<1>1. Place(p, proc[p].pc) /\ AptLocal(proc[p], jobs) /\ Carries(proc[p], jobs)
  BY DEF WorkInv, ScheduleInv
<1>2. proc[p].pc \in {"close", "finishSave", "cancelEach", "count", "countSave"}
  BY DEF Common, Close, FinishSave, SaveEach, CountFind, CountSave, JobRead, At
<1>3. Close(p) \/ FinishSave(p)
  BY <1>1 DEF Common, SaveEach, CountFind, CountSave, JobRead, At, Place, TaskPlaces, Pipe, Holding, Procs
<1>4. proc[p].pc \notin Pipe /\ UNCHANGED <<jobs, posts>>
  BY <1>2, <1>3 DEF Pipe, Holding, Close, FinishSave, JobRead, Documents
<1>5. CASE Close(p)
  <2>1. batch' = batch /\ Become(p, Closing)
    BY <1>5 DEF Close, JobRead, Documents
  <2>2. PICK r : r = Closing
    OBVIOUS
  <2>3. r.pc \in {"idle", "finishSave"} /\ AptLocal(r, jobs) /\ Listed(r, jobs)
    BY <2>2, ClosingApt
  <2>4. Place(p, r.pc) /\ r.pc \notin Pipe
    BY <2>3, IdleApt DEF Pipe, Holding
  <2>5. Apt(batch', jobs) /\ (batch' = None => Cleared(jobs))
    BY <2>1 DEF WorkInv
  <2> QED  BY <1>4, <2>1, <2>2, <2>3, <2>4, <2>5, QuietFine
<1>6. CASE FinishSave(p)
  <2>1. PICK r, status : r = Idle /\ status = proc[p].goal
    OBVIOUS
  <2>2. Become(p, r) /\ batch' = [proc[p].seen EXCEPT !.status = status, !.cur = None]
    BY <1>6, <2>1 DEF FinishSave, SaveBatch
  <2>3. proc[p].pc = "finishSave" /\ proc[p].seen \in Batch /\ status \in BatchStatuses
    BY <1>1, <1>6, <2>1 DEF FinishSave, At, Carries, CarriesBatch, CarriesGoal
  <2>4. status \notin ActiveBatch /\ (Unresumed => ~StatusIn(jobs, Unfinished))
    BY <1>1, <2>1, <2>3 DEF AptLocal
  <2>5. batch' \in Batch /\ batch'.status = status /\ batch'.stop = proc[p].seen.stop
    BY <2>2, <2>3 DEF Batch
  <2>6. Apt(batch', jobs)
    BY <1>1, <2>3, <2>4, <2>5, NoDocument DEF AptLocal, Apt, ActiveBatch
  <2>7. AptLocal(r, jobs) /\ Listed(r, jobs) /\ Place(p, r.pc) /\ r.pc \notin Pipe
    BY <2>1, IdleApt DEF Pipe, Holding
  <2> QED  BY <1>4, <2>2, <2>5, <2>6, <2>7, QuietFine, NoDocument
<1> QED  BY <1>3, <1>5, <1>6

\* A batch that was told to stop has nothing left to cancel.
LEMMA LoopFine ==
  ASSUME ScheduleInv, Kept, WorkInv, Reconcile \/ Settle
  PROVE  Fine(Worker)
<1>1. Worker \in Procs /\ Worker \notin Tasks /\ Worker # User
  BY Distinct DEF Procs
<1>2. AptLocal(proc[Worker], jobs) /\ Carries(proc[Worker], jobs) /\ Apt(batch, jobs)
  BY <1>1 DEF WorkInv, ScheduleInv
<1>3. \A pc \in {"idle", "settle"} : Place(Worker, pc) /\ pc \notin Pipe
  BY <1>1 DEF Place, Pipe, Holding
<1>4. CASE Reconcile
  <2>1. PICK pc, list, r :
          /\ pc = IF batch.stop /\ ListOf("WAITING") # NoList THEN "cancelEach" ELSE "settle"
          /\ list = IF batch.stop THEN ListOf("WAITING") ELSE NoList
          /\ r = [Idle EXCEPT !.pc = pc, !.seen = batch, !.next = "settle", !.list = list]
    OBVIOUS
  <2>2. Become(Worker, r) /\ UNCHANGED <<jobs, batch, posts>> /\ batch # None
    BY <1>4, <2>1 DEF Reconcile, JobRead, Documents, Open
  <2>3. pc = "settle"
    <3>1. batch.stop => Cleared(jobs)
      BY <1>2, <2>2 DEF Apt
    <3>2. Cleared(jobs) => ListOf("WAITING") = NoList
      BY DEF Cleared, ListOf, NoList
    <3> QED  BY <2>1, <3>1, <3>2
  <2>4. r.pc = "settle" /\ r.seen = batch
    BY <2>1, <2>3 DEF Idle
  <2>5. AptLocal(r, jobs)
    BY <1>2, <2>4 DEF AptLocal
  <2> QED  BY <1>1, <1>2, <1>3, <2>2, <2>4, <2>5, QuietFine
<1>5. CASE Settle
  <2>1. PICK status, r : /\ status = IF proc[Worker].seen.stop THEN "STOPPED" ELSE "PAUSED"
                         /\ r = Idle
    OBVIOUS
  <2>2. /\ Become(Worker, r) /\ UNCHANGED <<jobs, posts>> /\ proc[Worker].pc = "settle"
        /\ batch' = [proc[Worker].seen EXCEPT !.status = status]
    BY <1>5, <2>1 DEF Settle, SaveBatch, At
  <2>3. proc[Worker].seen \in Batch
    BY <1>2, <2>2 DEF Carries, CarriesBatch
  <2>4. batch' \in Batch /\ batch'.status = status /\ batch'.stop = proc[Worker].seen.stop
    BY <2>1, <2>2, <2>3 DEF Batch, BatchStatuses, ActiveBatch
  <2>5. Cleared(jobs) => ~StatusIn(jobs, Unfinished)
    BY DEF Cleared, StatusIn, Unfinished
  <2>6. Apt(batch', jobs)
    BY <1>2, <2>1, <2>3, <2>4, <2>5, NoDocument DEF AptLocal, Apt, ActiveBatch
  <2>7. AptLocal(r, jobs) /\ r.pc = "idle"
    BY <2>1, IdleApt
  <2> QED  BY <1>1, <1>3, <2>2, <2>4, <2>6, <2>7, QuietFine, NoDocument
<1> QED  BY <1>4, <1>5

\* The worker starts a task on a job that waits for it and that nobody works on.
LEMMA AdvanceKeepsWork ==
  ASSUME ScheduleInv, WorkInv, Advance
  PROVE  WorkInv' /\ (OnceInv => OnceInv')
<1>1. UNCHANGED <<jobs, batch, posts>>
  BY DEF Advance, Documents
<1>2. PICK first \in Jobs \cup {None} :
        /\ first # None => jobs[first] # None /\ jobs[first].status = "READY_TO_PUBLISH"
        /\ proc' = [p \in Procs |->
             CASE p = Worker -> Closing
               [] p = Publisher /\ first # None /\ At(p, "idle") -> Start(p, first)
               [] p \in {j \in due : jobs[j] # None /\ jobs[j].status \in {"WAITING"}}
                  /\ At(p, "idle") -> Start(p, p)
               [] OTHER -> proc[p]]
  BY ScheduleAssumption DEF Advance
<1>3. \A p, j : Start(p, j).pc = "load" /\ Start(p, j).job = j /\ Start(p, j).seen = None
  BY DEF Start, Idle
<1>4. due \subseteq Jobs
  BY DEF ScheduleInv, Documented
<1>5. proc'[Worker] = Closing /\ proc'[User] = proc[User]
  BY <1>2, <1>4, Distinct DEF Procs, Tasks
<1>6. ASSUME NEW p \in Tasks, proc'[p] # proc[p]
      PROVE  /\ proc[p].pc = "idle" /\ proc'[p].pc = "load" /\ proc'[p].seen = None
             /\ proc'[p].job \in Jobs /\ jobs[proc'[p].job] # None
             /\ jobs[proc'[p].job].status = Awaited(p) /\ (p # Publisher => proc'[p].job = p)
  <2>1. p \in Procs /\ p # Worker
    BY Distinct DEF Procs
  <2>2. CASE p = Publisher
    <3>1. p \notin due
      BY <1>4, <2>2, Distinct
    <3>2. first # None /\ proc[p].pc = "idle" /\ proc'[p] = Start(p, first)
      BY <1>2, <1>6, <2>1, <2>2, <3>1 DEF At
    <3> QED  BY <1>2, <1>3, <2>2, <3>2, ScheduleAssumption DEF Awaited
  <2>3. CASE p # Publisher
    <3>1. /\ p \in due /\ jobs[p] # None /\ jobs[p].status = "WAITING" /\ proc[p].pc = "idle"
          /\ proc'[p] = Start(p, p)
      BY <1>2, <1>6, <2>1, <2>3 DEF At
    <3> QED  BY <1>3, <1>4, <2>3, <3>1 DEF Awaited
  <2> QED  BY <2>2, <2>3
<1>7. ASSUME NEW p \in Tasks
      PROVE  Place(p, proc'[p].pc) /\ AptLocal(proc'[p], jobs) /\ Serves(p, proc'[p], jobs, posts)
  <2>1. p \in Procs /\ p # Worker /\ p # User
    BY Distinct DEF Procs
  <2>2. CASE proc'[p] = proc[p]
    BY <2>1, <2>2 DEF WorkInv
  <2>3. CASE proc'[p] # proc[p]
    BY <1>6, <2>1, <2>3 DEF Place, TaskPlaces, Pipe, Holding, AptLocal, Apt, Serves, Within
  <2> QED  BY <2>2, <2>3
<1>8. Alone'
  <2> SUFFICES ASSUME NEW j \in Jobs, Works(proc'[Publisher], j), Works(proc'[j], j) PROVE FALSE
    BY DEF Alone
  <2>1. Publisher \in Tasks /\ j \in Tasks /\ j # Publisher
    BY Distinct DEF Tasks
  <2>2. \/ Works(proc[Publisher], j)
        \/ jobs[j] # None /\ jobs[j].status = "READY_TO_PUBLISH" /\ proc'[Publisher] # proc[Publisher]
    BY <1>6, <2>1 DEF Works, Awaited
  <2>3. \/ Works(proc[j], j)
        \/ jobs[j] # None /\ jobs[j].status = "WAITING" /\ proc'[j] # proc[j]
    BY <1>6, <2>1 DEF Works, Awaited
  <2>4. Works(proc[Publisher], j) /\ jobs[j] # None => jobs[j].status # "WAITING"
    BY <2>1 DEF WorkInv, Works, Pipe, Serves, Awaited, Active
  <2>5. Works(proc[j], j) /\ jobs[j] # None => jobs[j].status # "READY_TO_PUBLISH"
    BY <2>1 DEF WorkInv, Works, Pipe, Serves, Awaited, Active
  <2> QED  BY <2>2, <2>3, <2>4, <2>5 DEF WorkInv, Alone
<1>9. Place(Worker, proc'[Worker].pc) /\ AptLocal(proc'[Worker], jobs)
  <2>1. PICK r : r = Closing
    OBVIOUS
  <2>2. r.pc \in {"idle", "finishSave"} /\ AptLocal(r, jobs)
    BY <2>1, ClosingApt
  <2> QED  BY <1>5, <2>1, <2>2, IdleApt
<1>10. Place(User, proc'[User].pc) /\ AptLocal(proc'[User], jobs)
  BY <1>5 DEF WorkInv, Procs
<1>11. WorkInv'
  BY <1>1, <1>5, <1>7, <1>8, <1>9, <1>10 DEF WorkInv, Procs
<1>12. ASSUME OnceInv PROVE OnceInv'
  <2>1. ASSUME NEW p \in Tasks PROVE Unposted(proc'[p], posts)
    <3>1. CASE proc'[p] = proc[p]
      BY <1>12, <3>1 DEF OnceInv
    <3>2. CASE proc'[p] # proc[p]
      BY <1>6, <1>12, <3>2 DEF OnceInv, OnceOf, Unposted, Awaited
    <3> QED  BY <3>1, <3>2
  <2> QED  BY <1>1, <1>12, <2>1 DEF OnceInv
<1> QED  BY <1>11, <1>12

\* A request reads a document and goes to its first write.
LEMMA AskedFine ==
  ASSUME ScheduleInv, Kept, WorkInv, NEW kind, NEW r, Ask(kind, r), r.pc \notin Pipe,
         Place(User, r.pc), \A t : Still(t, r) => AptLocal(t, jobs) /\ Listed(t, jobs),
         \A slow : LET t == [r EXCEPT !.slow = slow] IN Still(t, r)
  PROVE  Fine(User)
<1>1. User \in Procs /\ User \notin Tasks
  BY Distinct DEF Procs
<1>2. PICK slow, t : t = [r EXCEPT !.slow = slow] /\ Become(User, t)
  BY DEF Ask
<1>3. Still(t, r)
  BY <1>2
<1>4. t.pc = r.pc /\ UNCHANGED <<jobs, batch, posts>>
  BY <1>3 DEF Still, Alike, Ask, Documents
<1>5. Apt(batch', jobs) /\ (batch' = None => Cleared(jobs))
  BY <1>4 DEF WorkInv
<1> QED  BY <1>1, <1>2, <1>3, <1>4, <1>5, QuietFine

LEMMA AskFine ==
  ASSUME Cautious, ScheduleInv, Kept, WorkInv, AskAnything
  PROVE  Fine(User)
<1>1. User \notin Tasks /\ User # Worker
  BY Distinct DEF Tasks
<1>2. Apt(batch, jobs)
  BY DEF WorkInv
<1>3. CASE AskPause \/ AskResume
  <2>1. PICK kind, r :
          kind \in {"pause", "resume"} /\ Ask(kind, r) /\ r = [Idle EXCEPT !.pc = kind, !.seen = batch]
    BY <1>3 DEF AskPause, AskResume
  <2>2. r.pc = kind /\ r.seen = batch /\ \A slow : LET t == [r EXCEPT !.slow = slow] IN Still(t, r)
    BY <2>1 DEF Idle, Still, Alike
  <2>3. Place(User, r.pc) /\ r.pc \notin Pipe
    BY <1>1, <2>1, <2>2 DEF Ask, Place, Pipe, Holding
  <2>4. ASSUME NEW t, Still(t, r) PROVE AptLocal(t, jobs) /\ Listed(t, jobs)
    <3>1. t.pc \in {"pause", "resume"} /\ t.seen = batch
      BY <2>1, <2>2, <2>4 DEF Still, Alike
    <3> QED  BY <1>2, <3>1 DEF AptLocal, Listed
  <2> QED  BY <2>1, <2>2, <2>3, <2>4, AskedFine
<1>4. CASE AskDelete
  <2>1. PICK j, r :
          j \in Jobs /\ Ask("delete", r) /\ r = [Idle EXCEPT !.pc = "delete", !.job = j, !.mine = jobs[j]]
    BY <1>4 DEF AskDelete, AskJob
  <2>2. /\ r.pc = "delete" /\ r.job = j /\ r.seen = None
        /\ \A slow : LET t == [r EXCEPT !.slow = slow] IN Still(t, r)
    BY <2>1 DEF Idle, Still, Alike
  <2>3. Place(User, r.pc) /\ r.pc \notin Pipe
    BY <1>1, <2>1, <2>2 DEF Ask, Place, Pipe, Holding
  <2>4. ASSUME NEW t, Still(t, r) PROVE AptLocal(t, jobs) /\ Listed(t, jobs)
    <3>1. t.pc = "delete" /\ t.job = j /\ t.seen = None
      BY <2>2, <2>4 DEF Still, Alike
    <3> QED  BY <2>1, <3>1 DEF AptLocal, Apt, Listed
  <2> QED  BY <2>1, <2>2, <2>3, <2>4, AskedFine
<1>5. CASE AskDiscard
  <2>1. PICK doomed : doomed = [j \in Jobs |-> IF jobs[j] # None /\ jobs[j].status # "COMPLETED"
                                               THEN jobs[j] ELSE None]
    OBVIOUS
  <2>2. PICK pc, goal, r :
          /\ pc = IF doomed = NoList THEN "discardBatch" ELSE "discard"
          /\ r = [Idle EXCEPT !.pc = pc, !.seen = batch, !.list = doomed, !.goal = goal]
          /\ Ask("discard", r)
    BY <1>5, <2>1 DEF AskDiscard
  <2>3. /\ r.pc = pc /\ r.seen = batch /\ r.list = doomed
        /\ \A slow : LET t == [r EXCEPT !.slow = slow] IN Still(t, r)
    BY <2>2 DEF Idle, Still, Alike
  <2>4. Place(User, r.pc) /\ r.pc \notin Pipe
    <3>1. r.pc \in {"discard", "discardBatch"} /\ "discard" \in Requests
      BY <2>2, <2>3 DEF Ask
    <3> QED  BY <1>1, <3>1 DEF Place, Pipe, Holding
  <2>5. ASSUME NEW t, Still(t, r) PROVE AptLocal(t, jobs) /\ Listed(t, jobs)
    <3>1. t.pc = pc /\ t.seen = batch /\ t.list = doomed /\ pc \in {"discard", "discardBatch"}
      BY <2>2, <2>3, <2>5 DEF Still, Alike
    <3>2. \A j \in Jobs : doomed[j] # None \/ jobs[j] = None \/ jobs[j].status = "COMPLETED"
      BY <2>1
    <3> QED  BY <1>2, <2>2, <3>1, <3>2 DEF AptLocal, Listed
  <2> QED  BY <2>2, <2>3, <2>4, <2>5, AskedFine
<1>6. ~(AskStop \/ AskRetry \/ AskReschedule \/ AskCancel \/ AskForget)
  BY DEF Cautious, AskStop, AskRetry, AskReschedule, AskCancel, AskForget, AskJob, Ask
<1> QED  BY <1>3, <1>4, <1>5, <1>6 DEF AskAnything

\* A copy of the batch that is saved under another status, open or the same.
LEMMA AptChanged ==
  ASSUME NEW docs, NEW c \in Batch, Apt(c, docs), NEW b \in Batch, b.stop = c.stop,
         b.status = c.status \/ b.status \in ActiveBatch \ {"NEEDS_HUMAN"}
  PROVE  Apt(b, docs) /\ b # None
BY NoDocument DEF Apt, ActiveBatch

\* What a request does to the batch, and to the jobs.
LEMMA UserBatchFine ==
  ASSUME ScheduleInv, Kept, WorkInv, NEW pc, NEW b, NEW next, UserBatch(pc, b, next),
         next.pc \notin Pipe, Place(User, next.pc), AptLocal(next, jobs), Listed(next, jobs),
         Apt(b, jobs), b = None => Cleared(jobs)
  PROVE  Fine(User)
<1>1. User \in Procs /\ User \notin Tasks
  BY Distinct DEF Procs
<1>2. Become(User, next) /\ UNCHANGED <<jobs, posts>> /\ batch' = b
  BY DEF UserBatch, SaveBatch
<1> QED  BY <1>1, <1>2, QuietFine

LEMMA UserReadFine ==
  ASSUME ScheduleInv, Kept, WorkInv, NEW pc, NEW r, JobRead(User, pc, r), r.pc \notin Pipe,
         Place(User, r.pc), AptLocal(r, jobs), Listed(r, jobs)
  PROVE  Fine(User)
<1>1. User \in Procs /\ User \notin Tasks
  BY Distinct DEF Procs
<1>2. Become(User, r) /\ UNCHANGED <<jobs, batch, posts>>
  BY DEF JobRead, Documents
<1>3. Apt(batch', jobs) /\ (batch' = None => Cleared(jobs))
  BY <1>2 DEF WorkInv
<1> QED  BY <1>1, <1>2, <1>3, QuietFine

LEMMA UserJobsFine ==
  ASSUME ScheduleInv, Kept, WorkInv, NEW r, Become(User, r), batch' = batch,
         JobStep(User), PostStep(User), r.pc \notin Pipe, Place(User, r.pc),
         AptLocal(r, jobs), Listed(r, jobs')
  PROVE  Fine(User)
<1>1. User \in Procs /\ User \notin Tasks
  BY Distinct DEF Procs
<1>2. proc'[User] = r /\ OthersStill(User)
  BY <1>1, BecomeStill
<1>3. Steady
  BY JobsSteady
<1>4. AptLocal(r, jobs')
  BY <1>3, LocalSteady DEF Alike
<1>5. Apt(batch', jobs') /\ (batch' = None => Cleared(jobs'))
  BY <1>3, AptSteady DEF WorkInv, Steady
<1>6. Lawful(User)
  BY <1>1, <1>2, <1>4, <1>5 DEF Lawful, OthersStill
<1> QED  BY <1>1, <1>6 DEF Fine, OnceStep

LEMMA ResumeFine ==
  ASSUME ScheduleInv, Kept, WorkInv,
         Pause \/ Resume \/ ResumeList \/ SaveEach(User, "resumeEach", "WAITING", "idle")
  PROVE  Fine(User)
<1> DEFINE u == proc[User]
<1>1. User \in Procs /\ User \notin Tasks /\ User # Worker
  BY Distinct DEF Procs
<1>2. u \in Local /\ Carries(u, jobs) /\ AptLocal(u, jobs) /\ Listed(u, jobs) /\ Place(User, u.pc)
  BY <1>1 DEF WorkInv, ScheduleInv
<1>3. \A pc : pc \in {"idle"} \/ ("resume" \in Requests /\ pc \in {"resumeList", "resumeEach"}) =>
        Place(User, pc) /\ pc \notin Pipe
  BY <1>1 DEF Place, Pipe, Holding
<1>4. u.pc \in {"resume", "resumeList", "resumeEach"} => "resume" \in Requests
  BY <1>2 DEF Place
<1>5. CASE Pause
  <2>1. PICK b, r : b = [u.seen EXCEPT !.pause = TRUE, !.status = "PAUSE_REQUESTED"] /\ r = Idle
    OBVIOUS
  <2>2. UserBatch("pause", b, r) /\ u.seen \in Batch
    BY <1>2, <1>5, <2>1 DEF Pause, UserBatch, At, Carries, CarriesBatch
  <2>3. b \in Batch /\ b.stop = u.seen.stop /\ b.status = "PAUSE_REQUESTED"
    BY <2>1, <2>2 DEF Batch, BatchStatuses, ActiveBatch
  <2>4. Apt(b, jobs) /\ b # None
    BY <1>2, <2>2, <2>3, AptChanged DEF AptLocal, ActiveBatch
  <2>5. r.pc = "idle" /\ AptLocal(r, jobs) /\ Listed(r, jobs)
    BY <2>1, IdleApt
  <2> QED  BY <1>3, <2>2, <2>4, <2>5, UserBatchFine
<1>6. CASE Resume
  <2>1. PICK b, r : /\ b = [u.seen EXCEPT !.pause = FALSE, !.status = "RUNNING"]
                    /\ r = [Idle EXCEPT !.pc = "resumeList"]
    OBVIOUS
  <2>2. UserBatch("resume", b, r) /\ u.pc = "resume" /\ u.seen \in Batch
    BY <1>2, <1>6, <2>1 DEF Resume, UserBatch, At, Carries, CarriesBatch
  <2>3. b \in Batch /\ b.stop = u.seen.stop /\ b.status = "RUNNING"
    BY <2>1, <2>2 DEF Batch, BatchStatuses, ActiveBatch
  <2>4. Apt(b, jobs) /\ b # None
    BY <1>2, <2>2, <2>3, AptChanged DEF AptLocal, ActiveBatch
  <2>5. r.pc = "resumeList" /\ r.seen = None
    BY <2>1 DEF Idle
  <2>6. AptLocal(r, jobs) /\ Listed(r, jobs)
    BY <2>5 DEF AptLocal, Apt, Listed
  <2> QED  BY <1>3, <1>4, <2>2, <2>4, <2>5, <2>6, UserBatchFine
<1>7. CASE ResumeList
  <2>1. PICK list, r : /\ list = ListOf("NEEDS_HUMAN")
                       /\ r = [Idle EXCEPT !.pc = "resumeEach", !.list = list]
    OBVIOUS
  <2>2. PICK i : i = Idle
    OBVIOUS
  <2>3. u.pc = "resumeList"
    BY <1>7 DEF ResumeList, JobRead, At
  <2>4. r.pc = "resumeEach" /\ r.list = list /\ r.seen = None
    BY <2>1 DEF Idle
  <2>5. \A j \in Jobs : list[j] # None => list[j] = jobs[j] /\ jobs[j].status = "NEEDS_HUMAN"
    BY <2>1 DEF ListOf
  <2>6. AptLocal(r, jobs) /\ Listed(r, jobs)
    BY <2>4, <2>5 DEF AptLocal, Apt, Listed
  <2>7. i.pc = "idle" /\ AptLocal(i, jobs) /\ Listed(i, jobs)
    BY <2>2, IdleApt
  <2>8. JobRead(User, "resumeList", r) \/ JobRead(User, "resumeList", i)
    BY <1>7, <2>1, <2>2 DEF ResumeList
  <2> QED  BY <1>3, <1>4, <2>3, <2>4, <2>6, <2>7, <2>8, UserReadFine
<1>8. CASE SaveEach(User, "resumeEach", "WAITING", "idle")
  <2>1. PICK j \in Jobs :
          /\ u.list[j] # None
          /\ jobs' = IF jobs[j] = None THEN jobs
                     ELSE [jobs EXCEPT ![j] = [u.list[j] EXCEPT !.status = "WAITING"]]
          /\ LET rest == [u.list EXCEPT ![j] = None]
             IN  Become(User, [u EXCEPT !.list = rest, !.pc = IF rest = NoList THEN "idle" ELSE @])
    BY <1>8 DEF SaveEach
  <2>2. u.pc = "resumeEach" /\ UNCHANGED <<batch, posts>> /\ u.list \in [Jobs -> Job \cup {None}]
    BY <1>2, <1>8 DEF SaveEach, At, Local
  <2>3. PICK rest, pc, d, r : /\ rest = [u.list EXCEPT ![j] = None]
                              /\ pc = IF rest = NoList THEN "idle" ELSE u.pc
                              /\ d = [u.list[j] EXCEPT !.status = "WAITING"]
                              /\ r = [u EXCEPT !.list = rest, !.pc = pc]
    OBVIOUS
  <2>4. Become(User, r) /\ jobs' = IF jobs[j] = None THEN jobs ELSE [jobs EXCEPT ![j] = d]
    BY <2>1, <2>3
  <2>5. pc \in {"idle", "resumeEach"}
    BY <2>2, <2>3
  <2>6. r.pc = pc /\ r.list = rest /\ r.seen = u.seen /\ r.job = u.job
    BY <1>2, <2>3 DEF Local
  <2>7. d \in Job
    BY <2>1, <2>2, <2>3 DEF Job, JobStatuses
  <2>8. \A i \in Jobs : jobs'[i] = jobs[i]
          \/ (i = j /\ jobs[i] # None /\ jobs[i].status = "NEEDS_HUMAN" /\ jobs'[i] = d)
    BY <1>2, <2>1, <2>2, <2>4 DEF Listed, ScheduleInv, Documented
  <2>9. JobStep(User) /\ PostStep(User)
    BY <1>4, <2>2, <2>7, <2>8, NoDocument DEF JobStep, PostStep, Unresumed
  <2>10. \A i \in Jobs : rest[i] # None => i # j /\ rest[i] = u.list[i]
    BY <2>2, <2>3
  <2>11. Listed(r, jobs')
    BY <1>2, <2>2, <2>5, <2>6, <2>8, <2>10 DEF Listed
  <2>12. AptLocal(r, jobs)
    BY <1>2, <2>5, <2>6 DEF AptLocal
  <2> QED  BY <1>3, <1>4, <2>2, <2>4, <2>5, <2>6, <2>9, <2>11, <2>12, UserJobsFine
<1> QED  BY <1>5, <1>6, <1>7, <1>8

LEMMA DeletedPost ==
  ASSUME ScheduleInv, NEW j \in Jobs, jobs[j] = None, DeletePost(j) \/ UNCHANGED posts
  PROVE  PostStep(User)
<1>1. posts \in [Jobs -> Post]
  BY DEF ScheduleInv, Documented
<1>2. \A i \in Jobs : posts'[i] = posts[i] \/ (i = j /\ posts'[i].live = posts[i].live)
  BY <1>1 DEF DeletePost, Post
<1> QED  BY <1>2 DEF PostStep

LEMMA DiscardFine ==
  ASSUME ScheduleInv, Kept, WorkInv, DiscardJob \/ DiscardPost \/ DiscardBatch
  PROVE  Fine(User)
<1> DEFINE u == proc[User]
<1>1. User \in Procs /\ User \notin Tasks /\ User # Worker
  BY Distinct DEF Procs
<1>2. u \in Local /\ Carries(u, jobs) /\ AptLocal(u, jobs) /\ Listed(u, jobs) /\ Place(User, u.pc)
  BY <1>1 DEF WorkInv, ScheduleInv
<1>3. u.pc \in {"discard", "discardPost", "discardBatch"} /\ "discard" \in Requests
  BY <1>2 DEF Place, DiscardJob, DiscardPost, DiscardBatch, UserBatch, At
<1>4. \A pc \in {"discard", "discardPost", "discardBatch"} : Place(User, pc) /\ pc \notin Pipe
  BY <1>1, <1>3 DEF Place, Pipe, Holding
<1>5. \A j \in Jobs : u.list[j] # None \/ jobs[j] = None \/ jobs[j].status = "COMPLETED"
  BY <1>2, <1>3 DEF Listed
<1>6. CASE DiscardJob
  <2>1. PICK j, r : /\ j \in Jobs /\ jobs' = [jobs EXCEPT ![j] = None] /\ Become(User, r)
                    /\ r = [u EXCEPT !.pc = "discardPost", !.job = j]
    BY <1>6 DEF DiscardJob
  <2>2. r.pc = "discardPost" /\ r.job = j /\ r.seen = u.seen /\ r.list = u.list
    BY <1>2, <2>1 DEF Local
  <2>3. \A i \in Jobs : jobs'[i] = jobs[i] \/ (i = j /\ jobs'[i] = None)
    BY <2>1 DEF ScheduleInv, Documented
  <2>4. jobs'[j] = None
    BY <2>1 DEF ScheduleInv, Documented
  <2>5. JobStep(User) /\ PostStep(User) /\ batch' = batch
    BY <1>3, <1>6, <2>3 DEF JobStep, PostStep, PausesOnly, DiscardJob
  <2>6. Listed(r, jobs')
    BY <1>5, <2>1, <2>2, <2>3, <2>4 DEF Listed
  <2>7. AptLocal(r, jobs)
    BY <1>2, <2>2 DEF AptLocal
  <2> QED  BY <1>4, <2>1, <2>2, <2>5, <2>6, <2>7, UserJobsFine
<1>7. CASE DiscardPost
  <2>1. PICK rest, r, s :
          /\ rest = [u.list EXCEPT ![u.job] = None]
          /\ r = [Idle EXCEPT !.pc = "discardBatch", !.seen = u.seen, !.goal = u.goal]
          /\ s = [u EXCEPT !.pc = "discard", !.list = rest]
    OBVIOUS
  <2>2. Become(User, IF rest = NoList THEN r ELSE s) /\ UNCHANGED <<jobs, batch>>
    BY <1>7, <2>1 DEF DiscardPost
  <2>3. u.pc = "discardPost" /\ u.job \in Jobs /\ jobs[u.job] = None
    BY <1>2, <1>7 DEF DiscardPost, At, Listed
  <2>4. JobStep(User) /\ PostStep(User)
    <3>1. DeletePost(u.job) \/ UNCHANGED posts
      BY <1>7 DEF DiscardPost
    <3>2. PostStep(User)
      BY <2>3, <3>1, DeletedPost
    <3> QED  BY <2>2, <3>2 DEF JobStep
  <2>5. \A j \in Jobs : rest[j] # None \/ jobs[j] = None \/ jobs[j].status = "COMPLETED"
    BY <1>2, <1>5, <2>1, <2>3 DEF Local
  <2>6. r.pc = "discardBatch" /\ r.seen = u.seen /\ r.list = NoList
    BY <2>1 DEF Idle
  <2>7. s.pc = "discard" /\ s.seen = u.seen /\ s.list = rest
    BY <1>2, <2>1 DEF Local
  <2>8. AptLocal(r, jobs) /\ AptLocal(s, jobs)
    BY <1>2, <2>6, <2>7 DEF AptLocal
  <2>9. CASE rest = NoList
    <3>1. Listed(r, jobs')
      BY <2>2, <2>5, <2>6, <2>9 DEF Listed
    <3> QED  BY <1>4, <2>2, <2>4, <2>6, <2>8, <2>9, <3>1, UserJobsFine
  <2>10. CASE rest # NoList
    <3>1. Listed(s, jobs')
      BY <2>2, <2>5, <2>7 DEF Listed
    <3> QED  BY <1>4, <2>2, <2>4, <2>7, <2>8, <2>10, <3>1, UserJobsFine
  <2> QED  BY <2>9, <2>10
<1>8. CASE DiscardBatch
  <2>1. PICK c, b, r :
          /\ c = [u.seen EXCEPT !.status = "STOPPED", !.stop = TRUE, !.pause = FALSE, !.cur = None]
          /\ b = IF u.goal = "delete" THEN None ELSE c
          /\ r = Idle
    OBVIOUS
  <2>2. UserBatch("discardBatch", b, r) /\ u.pc = "discardBatch"
    BY <1>8, <2>1 DEF DiscardBatch, UserBatch, At
  <2>3. u.seen \in Batch
    BY <1>2, <2>2 DEF Carries, CarriesBatch
  <2>4. c.status = "STOPPED"
    BY <2>1, <2>3 DEF Batch
  <2>5. Cleared(jobs)
    <3>1. \A j \in Jobs : u.list[j] = None
      BY <1>2, <2>2 DEF Listed, NoList
    <3> QED  BY <1>5, <3>1 DEF Cleared
  <2>6. ~StatusIn(jobs, Unfinished)
    BY <2>5 DEF Cleared, StatusIn, Unfinished
  <2>7. Apt(b, jobs)
    BY <2>1, <2>4, <2>5, <2>6 DEF Apt
  <2>8. r.pc = "idle" /\ AptLocal(r, jobs) /\ Listed(r, jobs) /\ Place(User, r.pc) /\ r.pc \notin Pipe
    BY <2>1, IdleApt DEF Pipe, Holding
  <2> QED  BY <2>2, <2>5, <2>7, <2>8, UserBatchFine
<1> QED  BY <1>6, <1>7, <1>8

\* The batch is saved without the job, and maybe closed or set to run again.
LEMMA AfterDeleteApt ==
  ASSUME ScheduleInv, WorkInv, batch # None, NEW r, r = AfterDelete
  PROVE  r.pc = "listSave" /\ AptLocal(r, jobs) /\ Listed(r, jobs)
<1>1. batch \in Batch /\ Apt(batch, jobs)
  BY DEF WorkInv, ScheduleInv, Documented
<1>2. PICK cur, seen, saved :
        /\ cur = IF proc[User].goal # "delete" /\ batch.cur = proc[User].job THEN None ELSE batch.cur
        /\ seen = [batch EXCEPT !.cur = cur]
        /\ saved = [Idle EXCEPT !.pc = "listSave", !.seen = seen]
  OBVIOUS
<1>3. seen.stop = batch.stop /\ seen.status = batch.status
  BY <1>1, <1>2 DEF Batch
<1>4. Apt(seen, jobs)
  BY <1>1, <1>3 DEF Apt
<1>5. PICK goal : goal = IF StatusIn(jobs, {"COMPLETED"}) THEN "COMPLETED" ELSE "STOPPED"
  OBVIOUS
<1>6. \/ r = saved \/ r = [saved EXCEPT !.next = "listSave"]
      \/ ~StatusIn(jobs, Unfinished) /\ r = [saved EXCEPT !.next = "finishBatch", !.goal = goal]
  BY <1>2, <1>5 DEF AfterDelete
<1>7. /\ r.pc = "listSave" /\ r.seen = seen
      /\ r.next \in {"idle", "listSave"} \/ (r.goal = goal /\ ~StatusIn(jobs, Unfinished))
  BY <1>2, <1>6 DEF Idle
<1>8. AptLocal(r, jobs)
  BY <1>4, <1>5, <1>7 DEF AptLocal, ActiveBatch
<1> QED  BY <1>7, <1>8 DEF Listed

LEMMA DeleteFine ==
  ASSUME ScheduleInv, Kept, WorkInv,
         Delete \/ DeletePostOf \/ ListRemaining \/ ListSave \/ FinishFind
  PROVE  Fine(User)
<1> DEFINE u == proc[User]
<1>1. User \in Procs /\ User \notin Tasks /\ User # Worker
  BY Distinct DEF Procs
<1>2. u \in Local /\ Carries(u, jobs) /\ AptLocal(u, jobs) /\ Listed(u, jobs) /\ Place(User, u.pc)
  BY <1>1 DEF WorkInv, ScheduleInv
<1>3. u.pc \in {"delete", "deletePost", "list", "listSave", "finishBatch"} /\ "delete" \in Requests
  BY <1>2 DEF Place, Delete, DeletePostOf, ListRemaining, ListSave, FinishFind, UserBatch, JobRead, At
<1>4. \A pc \in {"idle", "finishSave", "deletePost", "list", "listSave", "finishBatch"} :
        Place(User, pc) /\ pc \notin Pipe
  BY <1>1, <1>3 DEF Place, Pipe, Holding
<1>5. CASE Delete
  <2>1. PICK r : r = [u EXCEPT !.pc = "deletePost", !.slow = {}]
    OBVIOUS
  <2>2. /\ u.pc = "delete" /\ UNCHANGED <<batch, posts>> /\ Become(User, r)
        /\ jobs' = [jobs EXCEPT ![u.job] = None]
    BY <1>5, <2>1 DEF Delete, At
  <2>3. r.pc = "deletePost" /\ r.job = u.job /\ r.seen = u.seen
    BY <1>2, <2>1 DEF Local
  <2>4. u.job \in Jobs /\ jobs \in [Jobs -> Job \cup {None}]
    BY <1>2, <2>2 DEF Listed, ScheduleInv, Documented
  <2>5. jobs'[u.job] = None /\ \A j \in Jobs : jobs'[j] \in {jobs[j], None}
    BY <2>2, <2>4
  <2>6. JobStep(User) /\ PostStep(User)
    BY <1>3, <2>2, <2>5 DEF JobStep, PostStep, PausesOnly
  <2>7. AptLocal(r, jobs) /\ Listed(r, jobs')
    BY <1>2, <2>3, <2>4, <2>5 DEF AptLocal, Listed
  <2> QED  BY <1>4, <2>2, <2>3, <2>6, <2>7, UserJobsFine
<1>6. CASE DeletePostOf
  <2>1. PICK r : r = [u EXCEPT !.pc = "list", !.mine = None, !.goal = "delete"]
    OBVIOUS
  <2>2. u.pc = "deletePost" /\ UNCHANGED <<batch, jobs>> /\ Become(User, r)
    BY <1>6, <2>1 DEF DeletePostOf, At
  <2>3. r.pc = "list" /\ r.seen = u.seen
    BY <1>2, <2>1 DEF Local
  <2>4. DeletePost(u.job) \/ UNCHANGED posts
    BY <1>6 DEF DeletePostOf
  <2>5. PostStep(User)
    <3>1. u.job \in Jobs /\ jobs[u.job] = None
      BY <1>2, <2>2 DEF Listed
    <3> QED  BY <2>4, <3>1, DeletedPost
  <2>6. JobStep(User)
    BY <2>2 DEF JobStep
  <2>7. AptLocal(r, jobs) /\ Listed(r, jobs')
    BY <1>2, <2>3 DEF AptLocal, Listed
  <2> QED  BY <1>4, <2>2, <2>3, <2>5, <2>6, <2>7, UserJobsFine
<1>7. CASE ListRemaining
  <2>1. PICK i : i = Idle
    OBVIOUS
  <2>2. CASE batch = None
    <3>1. JobRead(User, "list", i)
      BY <1>7, <2>1, <2>2 DEF ListRemaining
    <3>2. i.pc = "idle" /\ AptLocal(i, jobs) /\ Listed(i, jobs)
      BY <2>1, IdleApt
    <3> QED  BY <1>4, <3>1, <3>2, UserReadFine
  <2>3. CASE batch # None
    <3>1. PICK r : r = AfterDelete
      OBVIOUS
    <3>2. JobRead(User, "list", r)
      BY <1>7, <2>3, <3>1 DEF ListRemaining
    <3>3. r.pc = "listSave" /\ AptLocal(r, jobs) /\ Listed(r, jobs)
      BY <2>3, <3>1, AfterDeleteApt
    <3> QED  BY <1>4, <3>2, <3>3, UserReadFine
  <2> QED  BY <2>2, <2>3
<1>8. CASE ListSave
  <2>1. PICK running, r, s :
          /\ running = [u.seen EXCEPT !.status = "RUNNING"]
          /\ r = [u EXCEPT !.next = "idle", !.seen = running]
          /\ s = [Idle EXCEPT !.pc = u.next, !.goal = u.goal]
    OBVIOUS
  <2>2. UserBatch("listSave", u.seen, IF u.next = "listSave" THEN r ELSE s) /\ u.pc = "listSave"
    BY <1>8, <2>1 DEF ListSave, UserBatch, At
  <2>3. u.seen \in Batch /\ u.next \in {"idle", "finishBatch", "listSave"} /\ Apt(u.seen, jobs)
    BY <1>2, <2>2 DEF Carries, CarriesBatch, AptLocal
  <2>4. u.seen # None
    BY <2>3, NoDocument
  <2>5. CASE u.next = "listSave"
    <3>1. running \in Batch /\ running.stop = u.seen.stop /\ running.status = "RUNNING"
      BY <2>1, <2>3 DEF Batch, BatchStatuses, ActiveBatch
    <3>2. Apt(running, jobs)
      BY <2>3, <3>1, AptChanged DEF ActiveBatch
    <3>3. r.pc = "listSave" /\ r.next = "idle" /\ r.seen = running
      BY <1>2, <2>1, <2>2 DEF Local
    <3>4. AptLocal(r, jobs) /\ Listed(r, jobs)
      BY <3>2, <3>3 DEF AptLocal, Listed
    <3> QED  BY <1>4, <2>2, <2>3, <2>4, <2>5, <3>3, <3>4, UserBatchFine
  <2>6. CASE u.next # "listSave"
    <3>1. s.pc = u.next /\ s.goal = u.goal /\ s.seen = None /\ u.next \in {"idle", "finishBatch"}
      BY <2>1, <2>3, <2>6 DEF Idle
    <3>2. AptLocal(s, jobs) /\ Listed(s, jobs)
      BY <1>2, <2>2, <3>1 DEF AptLocal, Apt, Listed
    <3> QED  BY <1>4, <2>2, <2>3, <2>4, <2>6, <3>1, <3>2, UserBatchFine
  <2> QED  BY <2>5, <2>6
<1>9. CASE FinishFind
  <2>1. PICK r : r = Finishing(u.goal)
    OBVIOUS
  <2>2. JobRead(User, "finishBatch", r) /\ u.pc = "finishBatch"
    BY <1>9, <2>1 DEF FinishFind, JobRead, At
  <2>3. u.goal \notin ActiveBatch /\ (Unresumed => ~StatusIn(jobs, Unfinished))
    BY <1>2, <2>2 DEF AptLocal
  <2>4. r.pc \in {"idle", "finishSave"} /\ AptLocal(r, jobs) /\ Listed(r, jobs)
    BY <2>1, <2>3, FinishingApt
  <2> QED  BY <1>4, <2>2, <2>4, UserReadFine
<1> QED  BY <1>5, <1>6, <1>7, <1>8, <1>9

\* A request stays within what was asked for.
LEMMA HandleFine ==
  ASSUME ScheduleInv, Kept, WorkInv, Handle
  PROVE  Fine(User)
<1>1. Place(User, proc[User].pc) /\ User \notin Tasks /\ User # Worker
  BY Distinct DEF WorkInv, Procs
<1>2. proc[User].pc \notin
        {"stop", "stopList", "stopFind", "retry", "retryFind", "retryBatch", "reschedule",
         "rescheduleFind", "rescheduleBatch", "forget", "forgetJob", "cancel"}
  BY <1>1 DEF Place
<1>3. ~(Stop \/ StopList \/ StopFind \/ Retry \/ RetryFind \/ RetryBatch)
  BY <1>2 DEF Stop, StopList, StopFind, Retry, RetryFind, RetryBatch, UserBatch, UserJob, JobRead, At
<1>4. ~(Reschedule \/ RescheduleFind \/ RescheduleBatch \/ Forget \/ ForgetJob \/ Cancel)
  BY <1>2 DEF Reschedule, RescheduleFind, RescheduleBatch, Forget, ForgetJob, Cancel, UserBatch,
              UserJob, JobRead, At
<1> QED  BY <1>3, <1>4, ResumeFine, DiscardFine, DeleteFine DEF Handle

-----------------------------------------------------------------------------
\* The recovery keeps every job, leaves those that are over or wait for the user as
\* they are, and takes none up again whose publication had begun.
LEMMA RecoveredJob ==
  ASSUME ScheduleInv, NEW j \in Jobs, jobs[j] # None
  PROVE  /\ Recovered(j) \in Job
         /\ jobs[j].status \notin Unfinished => Recovered(j) = jobs[j]
         /\ jobs[j].status = "PUBLISHING" /\ jobs[j].post /\ posts[j].state # "none" =>
              Recovered(j).status \in {"COMPLETED", "FAILED"}
<1>1. PICK job \in Job : job = jobs[j]
  BY DEF ScheduleInv, Documented
<1>2. PICK made \in BOOLEAN : made = (job.made \/ Drafted(j))
  BY DEF Job
<1>3. [job EXCEPT !.status = "FAILED", !.made = @ \/ Drafted(j)]
        = [job EXCEPT !.status = "FAILED", !.made = made]
  BY <1>2, Zenon
<1>4. job.status \in JobStatuses
  BY DEF Job
<1>5. job.status \notin Unfinished <=> job.status \in {"COMPLETED", "FAILED", "CANCELED", "NEEDS_HUMAN"}
  BY <1>4 DEF JobStatuses, Unfinished
<1>6. /\ \A status \in JobStatuses :
           [job EXCEPT !.status = status] \in Job /\ [job EXCEPT !.status = status].status = status
      /\ [job EXCEPT !.status = "WAITING", !.post = FALSE] \in Job
      /\ [job EXCEPT !.status = "FAILED", !.made = made] \in Job
      /\ [job EXCEPT !.status = "FAILED", !.made = made].status = "FAILED"
  BY DEF Job, JobStatuses
<1>7. Recovered(j) \in Job
  BY <1>1, <1>3, <1>6 DEF Recovered, JobStatuses
<1>8. job.status \notin Unfinished => Recovered(j) = jobs[j]
  BY <1>1, <1>5 DEF Recovered
<1>9. job.status = "PUBLISHING" /\ job.post /\ posts[j].state # "none" =>
        Recovered(j).status \in {"COMPLETED", "FAILED"}
  <2> SUFFICES ASSUME job.status = "PUBLISHING", job.post, posts[j].state # "none"
               PROVE  Recovered(j).status \in {"COMPLETED", "FAILED"}
    OBVIOUS
  <2>1. jobs[j] # None
    OBVIOUS
  <2>2. Recovered(j) \in {[job EXCEPT !.status = "COMPLETED"], [job EXCEPT !.status = "FAILED"]}
    BY <1>1, <2>1 DEF Recovered
  <2> QED  BY <1>6, <2>2 DEF JobStatuses
<1> QED  BY <1>1, <1>7, <1>8, <1>9

LEMMA CrashKeepsWork ==
  ASSUME ScheduleInv, WorkInv, Crash
  PROVE  WorkInv' /\ (OnceInv => OnceInv')
<1>1. posts' = posts /\ \A p \in Procs : proc'[p] = Idle
  BY DEF Crash
<1>2. \A j \in Jobs : jobs'[j] = jobs[j] \/ (Open(batch) /\ jobs[j] # None /\ jobs'[j] = Recovered(j))
  BY DEF Crash, Recovered
<1>3. \A j \in Jobs : /\ jobs'[j] # None <=> jobs[j] # None
                      /\ jobs[j] # None /\ jobs[j].status \notin Unfinished => jobs'[j] = jobs[j]
  BY <1>2, RecoveredJob, NoDocument
<1>4. Steady
  <2>1. Cleared(jobs) => Cleared(jobs')
    BY <1>3 DEF Cleared, Unfinished
  <2>2. ~StatusIn(jobs, Unfinished) => ~StatusIn(jobs', Unfinished)
    BY <1>3 DEF StatusIn
  <2>3. StatusIn(jobs, {"NEEDS_HUMAN"}) => StatusIn(jobs', {"NEEDS_HUMAN"})
    BY <1>3 DEF StatusIn, Unfinished
  <2> QED  BY <2>1, <2>2, <2>3 DEF Steady
<1>5. Apt(batch', jobs') /\ (batch' = None => Cleared(jobs'))
  <2>1. Apt(batch, jobs') /\ (batch = None => Cleared(jobs'))
    BY <1>4, AptSteady DEF WorkInv, Steady
  <2>2. CASE ~Open(batch)
    BY <2>1, <2>2 DEF Crash
  <2>3. CASE Open(batch)
    <3>1. batch \in Batch
      BY <2>3 DEF ScheduleInv, Documented, Open
    <3>2. PICK status : /\ batch' = [batch EXCEPT !.cur = None, !.status = status]
                        /\ status = batch.status \/
                             (status = "NEEDS_HUMAN" /\
                               \E j \in Jobs : Recovered(j) # jobs[j] /\ Recovered(j).status = "NEEDS_HUMAN")
      <4>1. PICK status : status = IF \E j \in Jobs : Recovered(j) # jobs[j]
                                                    /\ Recovered(j).status = "NEEDS_HUMAN"
                                   THEN "NEEDS_HUMAN" ELSE batch.status
        OBVIOUS
      <4>2. batch' = [batch EXCEPT !.cur = None, !.status = status]
        BY <2>3, <4>1 DEF Crash
      <4> QED  BY <4>1, <4>2
    <3>3. batch'.stop = batch.stop /\ batch'.status = status
      BY <3>1, <3>2 DEF Batch
    <3>4. status # batch.status => status = "NEEDS_HUMAN" /\ StatusIn(jobs', {"NEEDS_HUMAN"})
      <4> SUFFICES ASSUME NEW j \in Jobs, Recovered(j) # jobs[j], Recovered(j).status = "NEEDS_HUMAN"
                   PROVE  jobs'[j] # None /\ jobs'[j].status = "NEEDS_HUMAN"
        BY <3>2 DEF StatusIn
      <4>1. jobs'[j] = Recovered(j) /\ jobs[j] # None
        BY <2>3 DEF Crash, Recovered
      <4> QED  BY <1>3, <4>1
    <3>5. batch # None
      BY <2>3 DEF Open
    <3>6. Apt(batch', jobs')
      BY <2>1, <3>3, <3>4, <3>5 DEF Apt, ActiveBatch
    <3>7. batch' \in Batch
      BY <3>1, <3>2 DEF Batch, BatchStatuses, ActiveBatch
    <3> QED  BY <3>6, <3>7, NoDocument
  <2> QED  BY <2>2, <2>3
<1>6. \A p \in Procs : Place(p, proc'[p].pc) /\ AptLocal(proc'[p], jobs')
  BY <1>1, IdleApt
<1>7. \A p \in Procs : /\ ~\E j \in Jobs : Works(proc'[p], j)
                       /\ Unposted(proc'[p], posts') /\ Serves(p, proc'[p], jobs', posts')
  BY <1>1, IdleApt DEF Works, Unposted, Serves, Within, Pipe, Holding
<1>8. Alone'
  BY <1>7 DEF Alone, Procs, Tasks
<1>9. Listed(proc'[User], jobs')
  BY <1>1, IdleApt DEF Procs
<1>10. PausesOnly => \A j \in Jobs : jobs'[j] # None
  BY <1>3 DEF WorkInv
<1>11. WorkInv'
  BY <1>5, <1>6, <1>7, <1>8, <1>9, <1>10 DEF WorkInv, Procs
<1>12. ASSUME OnceInv PROVE OnceInv'
  <2>1. ASSUME NEW j \in Jobs PROVE OnceOf(jobs'[j], posts'[j])
    <3>1. CASE jobs'[j] = jobs[j]
      BY <1>1, <1>12, <3>1 DEF OnceInv
    <3>2. CASE jobs'[j] # jobs[j]
      <4>1. jobs[j] # None /\ jobs'[j] = Recovered(j) /\ jobs[j].status \in Unfinished
        BY <1>2, <1>3, <3>2
      <4>2. OnceOf(jobs[j], posts[j])
        BY <1>12 DEF OnceInv
      <4> QED  BY <1>1, <4>1, <4>2, RecoveredJob DEF OnceOf, Unfinished
    <3> QED  BY <3>1, <3>2
  <2> QED  BY <1>7, <2>1 DEF OnceInv, Procs
<1> QED  BY <1>11, <1>12

-----------------------------------------------------------------------------
LEMMA InitWork == Init => WorkInv /\ OnceInv
<1> SUFFICES ASSUME Init PROVE WorkInv /\ OnceInv
  OBVIOUS
<1>1. \A p \in Procs : proc[p] = Idle
  BY DEF Init
<1>2. \A j \in Jobs : /\ jobs[j] = [status |-> "WAITING", post |-> FALSE, made |-> FALSE, tries |-> 0]
                      /\ posts[j].live = 0
  BY DEF Init
<1>3. \A j \in Jobs : jobs[j] \in Job
  <2>1. [status |-> "WAITING", post |-> FALSE, made |-> FALSE, tries |-> 0] \in Job
    BY DEF Job, JobStatuses
  <2> QED  BY <1>2, <2>1
<1>4. batch = [status |-> "READY", stop |-> FALSE, pause |-> FALSE, cur |-> None]
  BY DEF Init
<1>5. batch \in Batch /\ ~batch.stop /\ batch.status = "READY"
  BY <1>4 DEF Batch, BatchStatuses, ActiveBatch
<1>6. Apt(batch, jobs) /\ batch # None
  BY <1>5, NoDocument DEF Apt, ActiveBatch
<1>7. \A p \in Procs : Place(p, proc[p].pc) /\ AptLocal(proc[p], jobs) /\ Listed(proc[p], jobs)
  BY <1>1, IdleApt
<1>8. \A p \in Procs : /\ ~\E j \in Jobs : Works(proc[p], j)
                       /\ Unposted(proc[p], posts) /\ Serves(p, proc[p], jobs, posts)
  BY <1>1, IdleApt DEF Works, Unposted, Serves, Within, Pipe, Holding
<1>9. Alone
  BY <1>8 DEF Alone, Procs, Tasks
<1>10. WorkInv
  BY <1>3, <1>6, <1>7, <1>8, <1>9, NoDocument DEF WorkInv, Procs
<1>11. OnceInv
  BY <1>2, <1>8 DEF OnceInv, OnceOf, Procs
<1> QED  BY <1>10, <1>11

LEMMA NextWork ==
  ASSUME Cautious, ScheduleInv, Truthful, WorkInv, [Next]_vars
  PROVE  WorkInv' /\ (OnceInv /\ ~Uncertain => OnceInv')
<1>1. Kept
  BY NextKeeps
<1>2. ASSUME NEW p \in Procs, Fine(p) PROVE WorkInv' /\ (OnceInv /\ ~Uncertain => OnceInv')
  BY <1>1, <1>2, LawfulKeeps, OnceKeeps DEF Fine
<1>3. ASSUME NEW p \in Tasks, Execute(p) PROVE Fine(p)
  BY <1>1, <1>3, RunFine, CheckFine, DraftFine, StageFine, AttemptFine, ClickFine, ReportFine,
     EndSaveFine, OutcomeFine DEF Execute
<1>4. CASE \E p \in Tasks : Execute(p)
  BY <1>2, <1>3, <1>4 DEF Procs
<1>5. CASE \E p \in Procs : Common(p)
  BY <1>1, <1>2, <1>5, CommonFine
<1>6. CASE Loop
  BY <1>1, <1>2, <1>6, LoopFine, AdvanceKeepsWork DEF Loop, Procs
<1>7. CASE Handle \/ AskAnything
  BY <1>1, <1>2, <1>7, HandleFine, AskFine DEF Procs
<1>8. CASE TimeComes \/ UNCHANGED vars
  <2>1. UNCHANGED <<jobs, batch, posts, proc>>
    BY <1>8 DEF TimeComes, Documents, vars
  <2> QED  BY <2>1 DEF WorkInv, OnceInv, Alone
<1>9. CASE Crash
  BY <1>9, CrashKeepsWork
<1> QED  BY <1>4, <1>5, <1>6, <1>7, <1>8, <1>9 DEF Next

LEMMA WorkInvariant == Cautious => (Spec => []WorkInv)
<1> SUFFICES ASSUME Cautious PROVE Spec => []WorkInv
  OBVIOUS
<1>1. ScheduleInv /\ Truthful /\ WorkInv /\ [Next]_vars => WorkInv'
  BY NextWork
<1> QED  BY <1>1, InitWork, ScheduleInvariant, TruthInvariant, PTL DEF Spec

\* No article goes live twice, for any jobs, any number of pauses, resumes, discards and
\* deletions and any crashes, as long as the publisher reports what became of the
\* article: a task takes up again only what a crash cannot have left on Naver.
THEOREM PostedOnce ==
  Requests \subseteq {"pause", "resume", "discard", "delete"} /\ ~Uncertain =>
    (Spec => []NoDuplicatePost)
<1> SUFFICES ASSUME Cautious, ~Uncertain PROVE Spec => []NoDuplicatePost
  BY DEF Cautious
<1>1. ScheduleInv /\ Truthful /\ WorkInv /\ OnceInv /\ [Next]_vars => OnceInv'
  BY NextWork
<1>2. OnceInv => NoDuplicatePost
  BY DEF OnceInv, OnceOf, NoDuplicatePost
<1> QED  BY <1>1, <1>2, InitWork, WorkInvariant, ScheduleInvariant, TruthInvariant, PTL DEF Spec

\* A batch is closed, or discarded, only when every job is over, whatever the publisher
\* reports: no copy of the batch that is written back closes it over a job at work.
THEOREM ClosedOnlyWhenOver ==
  Requests \subseteq {"pause", "discard", "delete"} => (Spec => []ClosedIsOver)
<1> SUFFICES ASSUME Requests \subseteq {"pause", "discard", "delete"} PROVE Spec => []ClosedIsOver
  OBVIOUS
<1>1. Cautious /\ Unresumed
  BY DEF Cautious, Unresumed
<1>2. WorkInv => ClosedIsOver
  <2> SUFFICES ASSUME WorkInv, ~Open(batch) PROVE ~StatusIn(jobs, Unfinished)
    BY DEF ClosedIsOver
  <2>1. CASE batch = None
    BY <2>1 DEF WorkInv, Cleared, StatusIn, Unfinished
  <2>2. CASE batch # None
    BY <1>1, <2>2 DEF WorkInv, Apt, Open
  <2> QED  BY <2>1, <2>2
<1> QED  BY <1>1, <1>2, WorkInvariant, PTL

\* A batch that waits for the user has a job that does, if the user only pauses: the
\* task that blocked the batch had saved its job first, and nothing unblocks the job.
THEOREM BlockedHasAReason == Requests \subseteq {"pause"} => (Spec => []BlockedForAReason)
<1> SUFFICES ASSUME PausesOnly PROVE Spec => []BlockedForAReason
  BY DEF PausesOnly
<1>1. Cautious
  BY DEF PausesOnly, Cautious
<1>2. WorkInv => BlockedForAReason
  BY DEF WorkInv, Apt, BlockedForAReason
<1> QED  BY <1>1, <1>2, WorkInvariant, PTL
=============================================================================
