# A verification development of the blog automation server

The repository is a service that writes blog posts with LLMs and publishes them to
Naver Blog and Threads, by hand or on a schedule. The server is Python: asyncio handlers
over MongoDB (or in-memory) documents, background tasks, Redis (or file) leases, and a
browser driven in threads. This directory holds TLA+ specifications of its core,
configurations that check them with TLC, and proofs checked with TLAPS. Paths below are
under `apps/api/app/`.

## The system

| Component | State it keeps | Operations | What is hard about it |
|---|---|---|---|
| Publishing (`modules/blog_task/service.py` 461-546, `repository.py`) | the BlogTask document: status, version, posting logs | publish, rewind, transition, append log | several callers between awaits, version conflicts, an answer of the platform that is lost or wrong, crashes after the real post |
| Job leases (`modules/blog_task/locks.py`) | one Redis key or one file per job; `HeldLease` in the process | acquire, heartbeat, take again, release, takeover after expiry | late heartbeats, lost answers, death of the holder, two takers of one expired lease |
| Scheduled posting (`modules/scheduled_posting/`) | batch and job documents, in-process task tables | the worker's tick, execute_job's pipeline, publication at the due time, pause, resume, stop, retry, cancel, delete, restart recovery | documents read, awaited over and replaced whole by three kinds of actors |
| Task life before the manuscript (M1-M3; `blog_task/service.py` 548-830, `trend/service.py`) | status, title, verification result; per server the in-flight table and the job handles | create, references, choose a title, verify it, cancel, choose a direction | reselecting a title while the old verification holds its lease; a result that arrives for another title |
| Draft generation (M4; `draft/service.py`) | status, manuscript, checkpoint, images; the table of running drafts | generate, revive, resume, save, rescue, fail | long LLM steps under a lease, images replaced before the guarded write, a save whose answer is lost, a sweep that takes a live run for dead |
| Start-up sweep (`modules/blog_task/recovery.py`, `services.py`, `main.py`) | the posts it deferred | rewind or fail interrupted work at the start, and once more after a grace period; stop every generation | a live job taken for dead, a finished one taken for interrupted |
| Browser automation (`posting/`) | per profile a lock, the window left open, the reaper's clock, live view sessions | open, keep and close a window, kill orphans, reap, watch | flows, a reaper and viewers are threads on one profile; windows survive the server |
| Trends, brands, personas, settings, auth | one document each | read and write | little; the keyword pool refills in the background |
| LLM providers, HTTP routes, database connections, web client | none that matters here | remote calls, glue, views | taken as external, or left out |

They meet in five places. The scheduler calls the task service for every stage of a job and
for its publication, and learns what happened from the BlogTask document. Each long job of
the task service runs under a lease, whose absence the start-up sweep reads as "dead".
Requests and background tasks share the batch, job and BlogTask documents. The publisher
turns whatever the platform shows into SUCCESS, NEEDS_HUMAN or FAIL. The windows
that publications open are shared, through the profile, by flows, the reaper and viewers.

What makes the parts correct: an article is never published twice and never lost from the
record; a post never stays in POSTING; a job runs in one place at a time and a dead job can
be taken over; a request of the user (cancel, stop, delete) is not undone by a copy that a
task carries; what a post shows (a verification, a manuscript with its images) answers what it was asked
for, is not lost once finished, and nobody is locked out of a post that is stuck; every window has
one owner who closes it; a batch closes when, and only when, its jobs are over, and asks for the user
only when the user can do something.

## Modules

| Module | What it specifies |
|---|---|
| `Publication` | the promise of publishing: one article, on record before the post is posted |
| `PostPublishing` | `publish_blog_task` over the versioned document, for any number of concurrent callers |
| `PostPublishing_proofs` | its theorems, the refinement of `Publication` included |
| `ExclusiveWork` | the promise of a job lease: exclusion until the first fault |
| `RedisLease` | `RedisJobLease` and `HeldLease`, one server command per call |
| `RedisLease_proofs` | its theorems, the refinement of `ExclusiveWork` included |
| `FileLease` | `FileJobLease` under `HeldLease`, one system call per action |
| `FileLease_proofs` | its theorems |
| `ScheduledPosting` | a batch: jobs, publishing, the worker's loop, the user's requests, recovery |
| `ScheduledPosting_proofs` | its theorems for any requests |
| `ScheduledOnce_proofs` | its theorems for some of the requests: one article, closing, blocking |
| `IntentAnalysis` | verifying the title of a post (M3): requests, jobs, the in-flight table, the sweep |
| `IntentAnalysis_proofs` | its theorems |
| `DraftGeneration` | writing the manuscript of a post (M4): runs, lease, checkpoint, images, the sweeps |
| `DraftGeneration_proofs` | its theorems |
| `KeptBrowsers` | the windows of one browser profile: flows, the reaper, viewers |
| `KeptBrowsers_proofs` | its theorems |
| `MC...` | model values for the runs |

A definition whose name ends in `_<Something>` after the name of another (`Rewind_ToInput`)
is that definition with a plausible mistake in it. They stand before the definition they vary and
are used by nothing; they are there to show that each property notices such a mistake.

### PostPublishing

`post` is the document (status, version, logs), `pub[p]` the handler of caller `p`: its
program counter and locals. An await is where the handlers interleave. A write to the
document is `_apply`'s two steps: `Read` loads the version, then `Rewind`, `StartPosting`,
`AppendLog` or `Finish` applies if the version is the one read, and `Conflict` is the
request that is refused when it is not. `Request` is validation up to the first await, on
the task it has just loaded; `WriteText` the Threads text that may have to be generated;
`Publish` the posting worker, where the external article comes to exist
(`world[c]` counts them). `Uncertain` says whether the platform may publish and the worker
report FAIL, which the editor does when no article address appears after the button was
pressed. `Crash` loses every handler and keeps the document, since no start-up sweep looks
at POSTING. Copy and draft modes are the two other methods: they publish nothing.
`Implements` is `Publication` for one channel: what the post is shown as, how often the article is live
and whether a success is logged, without handlers, versions and crashes.

### RedisLease and ExclusiveWork

One key. A command takes effect at the server (`Acquire`) and its answer comes later
(`Hold`), so a worker can die or be cancelled in between. `Renew`, `Retake` and `Retaken` are
the turns of `_keep_alive`; `Exit` is `__aexit__` with the comparing release script. Time
passes in `Tick`s, and a heartbeat is at most `MaxLag` late unless the event loop is blocked
(`Stall`). Stalls and commands that raise are counted in `faults`. The code runs the job
without a lease when Redis fails and says so; `ExclusiveWork` says the same: exclusion until
the first fault.

### FileLease

The same handle over a file: `O_CREAT|O_EXCL`, the payload's write, reading, unlink,
recreating, and a renewal that truncates and rewrites, each an action of its own between
which other processes run. Files have inode identities, so that a write goes to the file that was
opened even after it was unlinked, as on POSIX systems. An unreadable file counts as held. Two
history variables record what the properties have to exclude: `removed`, that an acquiring process
has unlinked a live lease, and `torn`, that a death left a file half written. A
payload write that fails without the process dying is left out; the process death covers the
file it leaves. `Implements` is the same promise `ExclusiveWork` that Redis keeps, with a weaker guard: here
the unlinking of a live lease, too, is what degrades it.

### ScheduledPosting

One batch on the absolute schedule and one server process. Every actor (a task per job that
prepares it, the task that publishes, the loop, the user's request) has a program counter
and its own copies of the job (`mine`) and the batch (`seen`, `list`). One repository write
replaces one whole document and is one action; consecutive reads with no write between are
one action. That is the grain at which the code can lose an update, and it is where the
findings below come from.

What it abstracts, and why:

- A job prepares exactly one BlogTask, reduced to state, live articles and the successful log.
  `publish_blog_task` is four steps here (`StartPosting`, `Click`, `LogResult`, `FinishPost`); its
  detail is in `PostPublishing`.
- Saving the job together with the write it makes to the post at creation and at a stage is
  one action where nothing the model has can tell the two apart.
- A generation stage or a press of publish takes minutes, a request milliseconds: such a step
  ends between a request's read and its write only if it had begun before the request
  (`slow`, `BecomeSlowly`).
- A tick that changes nothing is left out, so the system can come to rest. The order in which
  jobs come due, and which due job is published first, is left open.
- Rescheduling gives a new time; its other fields (time zone, channels) do not touch the state here.
  Discarding or deleting a post keeps the published article on Naver: only the records go.

Left out so far: `start_batch` and the superseding of an older batch,
`schedule_prepared_post`, the interval schedule, the Threads channel of a job, and leases
(they matter between server processes, and have their own modules).

### IntentAnalysis

One post between the choice of its title and the choice of its direction. `post` is the document
(version, title, result, was a direction chosen), `job[j]` a request and the background job behind
it, `inflight[s]` and `handle[s]` the tables `_m3_inflight` and `_m3_jobs` of server `s`. `Request` is
`start_intent_analysis` up to its first await and `Register` the rest of it: the progress reports
between them are awaits. `Hold`, `Poll` and `GiveUp` are the loop that waits for the lease; `Check` is the
search (external, it answers or raises) and the question whether the title is still the same;
`SaveRead` and `Save` or `Conflict` the guarded write; `Exit` the end of the lease and `Finally` the
block that takes the mark back. `Cancel` cancels the job at whatever await it is in. `SelectTitle`
and `SelectIntent` are the user's choices; `Sweep` ... `SweepConflict` the sweep of a server that starts,
with its second round. `overtaken` is a history variable: it records that a title was chosen
between a job's check and the read of its save, the one gap the code leaves. The lease is
the abstract one (`Stall`, `Retake`, `Expire`), since `RedisLease` shows it to implement exclusion.
What the search finds is one bit: a failure or not.

### DraftGeneration

One post and its generations. `run[s]` is the run that server `s` registers in `_running_drafts`;
its number is its lease's token. `Start` goes where `Route` sends it from the status: to the rewind of a
FAILED post, to the question whether an abandoned GENERATING post has a lease (`AskLease`), or to
`Enter`. `Read` and the write that follows it are `_apply`; `Refused` is its conflict or a refused
transition. `Hold` leaves the post GENERATING when the lease is taken, as the code does.
`LoadCheckpoint` compares the fingerprint, abstracted to the pair it tells apart here (direction, style).
`WriteText` and `Illustrate` are the models' work, and may raise. `StoreImages` comes before `Save`, outside
the version guard. `SaveFault` is a save that raises, applied or not; after three tries `Landed` looks
whether it was applied. `Inspect` and `Reenter` rescue a result whose post has left GENERATING.
`MarkFailed` and `Fail` are the record of a failure, only from GENERATING. The lifespan of a server
(`boot`) is the sweep, which asks `is_held` and the grace period and then writes, and
`stop_orphaned_generations`, which asks nothing. `QuickRestart` says whether a server may be up again before
the lease of its dead run lapses. `EditSpec` adds `update_blog_task_input` and the choice of another
direction.

### KeptBrowsers

One profile. `chrome[d]` is the process of launch `d`, `store` the profile's entry of
`_KEPT_OPEN_BROWSERS`, `tracked` the reaper's table with the age of each window against the limit, `session` the
live view session, `watch` the streams. A flow (publication, login, preview) takes the lock,
closes the window that was kept (`Release` to `FlowQuits`), launches its own, works and then
keeps or closes it. `Launch` is `_create_driver`: a profile in use is taken for an orphan's, and every Chrome
on it is killed. `WholeFlow` distinguishes Naver, which holds the lock for the flow, from Threads, which
releases it once the window is open. The reaper's actions are the statements of `sweep`, from its copy of
the table to the release of the lock. `Crash` loses every thread and table and leaves the Chromes
as orphans. The work on the page and the transport of frames are external.

## What is checked

| Run | Instance | States | What it shows |
|---|---|---|---|
| `post_concurrent` | 2 callers, 2 channels, uncertain publisher, 3 requests, 1 crash | 532,782 | a logged success is real; POSTED has its log; POSTING ends unless the process dies |
| `post_sequential` | 1 caller, 1 channel, 5 requests, 3 crashes | 421,000 | no duplicate; a live article is logged or its post is POSTING |
| `redis_lease` | 3 workers, lease of 3 ticks, 2 faults, 1 death | 53,732 | exclusion, the meaning of an absent lease, expiry, re-marking, refinement of `ExclusiveWork` |
| `file_lease` | 2 processes, lease of 3 ticks, 1 fault, 1 death | 154,413 | exclusion until a live lease was unlinked; a missing lease means dead; a dead lease lapses unless a write was torn |
| `sched_requests` | 1 job, 2 stages, 1 request of any of the nine kinds, 2 attempts | 739,514 | no duplicate; COMPLETED is true; RUNNING is in a task's hands; a deleted job stays deleted |
| `sched_restart` | 2 jobs (one publishes), 1 crash, 2 attempts | 265,567 | no duplicate, batches close when all is over, blocked for a reason, everything ends or asks |
| `draft` | 1 server, 2 styles, 3 requests, 3 database faults, 1 stalled lease, 2 crashes, quick restarts | 466,934 | a manuscript is stored once, whole, as asked; finished work is not dropped; nobody is locked out of a stuck post |
| `intent` | 1 server, 2 titles, 2 requests, 1 reselection, 1 cancel, 1 stalled lease, 1 crash | 508,424 | marks do not outlive jobs; a result of another title only through the gap; a registered request is answered |
| `kept_naver` | 2 flows, 3 windows, 1 viewer, 1 crash, lock for the whole flow | 155,243 | only orphans are killed; one owner for each window; an unwatched window is closed |

The violation runs are below. Symmetry is not used: most runs have liveness properties, and
the workers of a lease get their tokens by CHOOSE.

Bounds. Two requests are the least that can race and three let a third see what the race
left; five in sequence allow a success, a refusal and three retries after crashes. A lease of three
ticks, renewed after one and up to one late, is the least in which a heartbeat can be late and in
time; a third worker can only wait like the second, or take over after it. Tokens are as
many as can be in use at once, plus one, so a fresh token always exists and none is reused
while someone holds it. One request against one job reaches every pair (request, point of the
pipeline); two overlapping requests are left to a later instance for their size. Two jobs are
the least for which one can end the batch over the other. One crash can hit any
step. Recovery runs before the worker and the API, so it is part of the crash's action: a second
crash in the middle of it is not modelled.

A third request of a generation is the least that can find a checkpoint of another
style after the first two, and three faults the least that exhaust the tries of a save; two crashes allow
one in the sweep of the other. One reselection with two requests gives each title a job, and the third stage, the
job of the first title again, differs only in its number. Three windows are one that is closed while
another is opened and a third that meets an orphan.

`draft` and `intent` have one server: the modules are written for any number, the theorems about
`IntentAnalysis` and two of those about `DraftGeneration` hold for any, and the other three assume one.
With two servers `NotStoredTwice`, `FinishedIsWhole` and `FinishedIsNotDropped` are false, even without
a fault: a run enters GENERATING before it has the lease, a request on the other server finds
the post GENERATING with no lease, takes it for abandoned and rewinds it. The comment at
`draft/service.py` 970-975 asks for the lease in order to exclude that; in the process
itself the table of running drafts does. `kept_naver` has `SlowWork`: the
work in a window does not end between two neighbouring statements of the reaper. Without it, `pop` can
take the window that a flow has kept since the reaper looked, and drop it.

Fairness. The event loop drives a handler that has started (`WF` on its steps). The worker's
loop ticks for as long as the server runs, and time passes. A heartbeat is a task of the
event loop. In `FileLease` time has strong fairness: an operation takes no time in the model,
and processes that ask again and again must not stop the clock. Jobs and lifespans run on, and a
lease of the dead lapses; a job that waits for the m3 lease has strong fairness, since it polls for
five minutes and other holders come and go (`gave up` is an answer it may have). Threads run on, and
time ripens a kept window. Nobody is obliged to make a request, to watch, to leave, to end a job or to crash.

`CHECK_DEADLOCK FALSE` is set for every run but the leases': when the requests are used up and every
job is over, nothing is left to do.

## Where the code and its words differ

Three are runs that TLC refutes:

- `draft_stale` (`draft/service.py` 2032): `update_blog_task_input` refuses an edit only once there is a
  manuscript. The input is replaced, and another direction chosen, while the old one is being written. The
  old run's save is refused; it finds INTENT_SELECTED, which the comment at 2019 reads as "nobody runs",
  takes the post back to GENERATING and stores a manuscript of the old direction.
- `intent_sweep` (`blog_task/recovery.py` 142): a post waits in SEARCH_ANALYZING with a finished result until
  its user chooses. A restart in that time saves a failure over the result, although the sweep is
  for work in progress.
- `kept_threads` (`posting/threads_browser.py` 425 and 311): Threads holds the profile's lock only while its
  window opens. A second flow finds the profile in use, takes the live window for an orphan, and
  kills it in the middle of a publication.

Others are stated in the modules and not run, or follow from a larger instance of a passing run. Each
can be seen by checking the definition named, in a copy of the configuration given:

- `NoDuplicatePost` in `post_sequential` with two callers (`repository.py` 961): both are accepted
  while a post is FAILED; the first publishes it, the second rewinds it from POSTED and publishes
  again. With two channels and one caller (`service.py` 467): the success log is consulted only from POSTED; Naver
  succeeds, Threads then fails and leaves FAILED, from which Naver is accepted again. `service.py` 228
  says that a manuscript is not published twice to a channel.
- `InterruptedPublishCanBeRetried` in `post_sequential` under `RetryingSpec` (`service.py` 477): a crash in POSTING leaves a
  post that refuses every retry, while `scheduled_posting/recovery.py` 155 invites the user to try.
- `MutualExclusion` of `FileLease` in `file_lease` (`locks.py` 165): two processes read the same expired file; one
  unlinks it and creates its lease, the other unlinks that live lease. The comment at 163 says that it
  yields.
- `CanceledIsNotPublished` in `sched_requests` (`scheduled_posting/service.py` 1497): a cancel during a generation stage is
  overwritten by the next stage's save, and the article is published, which 1519 says must not
  happen.
- `StopSettles` in `sched_requests` under `FairSpec` (966): the stop's count of canceled jobs replaces the batch with a copy taken before the running
  task cleared `current_job_id`. The batch then waits for a task that does not exist, the situation
  1631 says parking prevents.
- `DiscardedStaysGone` in `sched_requests` (915): discarding deletes the batch while the worker's loop is
  between the read and the save of `_finish_batch`; `save_batch` upserts, and the batch is back, FAILED and
  without jobs. The docstring at 881 promises the state from before the start.

## What is proved

For every value of the constants that the modules' named assumptions admit.

`PostPublishing_proofs`:

- `TypeCorrect`: the type invariant.
- `RecordIsTrue`, `PostedIsLogged`: any callers, channels, interleavings and crashes, any publisher. A logged
  success is a real article and POSTED has the log of a success. Neither is inductive: `RecordInv`
  adds what a handler between `Publish` and `Finish` knows, that the success it is about
  to log happened and that the one it is about to finish with is logged.
- `LiveNeverLost`, assuming at most one caller and a truthful publisher (`Sequential`): a live
  article is logged or its post is POSTING. `SequentialInv` ties the handler's program counter to the
  status and says that only a handler about to write its log owes one.
- `NoDuplicate`, assuming one channel as well (`OneChannel`): any number of requests and crashes never
  publish twice. `DuplicateInv` adds that a success keeps the status in POSTED or POSTING, where
  every further publication of the channel is refused. Neither assumption can be dropped (see
  above).
- `PublishingImplements`, under the same two assumptions: `publish_blog_task` implements `Publication`. The
  article goes live once, while the post is shown as POSTING; the post leaves that status with a live article only
  for POSTED, and only once the success is on record; a posted post can be reopened only while nothing is live. Every
  read, conflict, refusal and crash is a stutter. TLC checks `Implements` as a PROPERTY of the instance of
  `post_sequential` too; no run lists it.

`RedisLease_proofs`:

- `LeaseTypes`: the type invariant.
- `LeaseExcludes`, `LeaseTellsTheLiving`: until the first fault no two workers run the job, and an
  absent key means nobody does. They use the assumption `Interval + MaxLag < Seconds`: a heartbeat
  comes in time. `LeaseInv` says that an engaged worker (running, or with an answer under way)
  is the only one, and that the key holds its token with exactly the time left that its timer says.
- `LeaseImplements`: the lease implements `ExclusiveWork`, with the running workers as `working`
  and "a fault has happened" as `degraded`.
- `OnlyExpiryTakes`, whatever the faults, stalls and deaths: nobody takes the lease of a worker that runs under it,
  but the clock may. `OwnedInv` adds `OneOwner`: no two workers have, or are about to be told that
  they have, the same token, so that the comparing commands of the others leave the key alone.

`FileLease_proofs`, for any processes, tokens, inodes and lease times:

- `FileTypes`: the type invariant.
- `FileExcludes`, `FileTellsTheLiving`: until the first fault and until an acquiring process has
  unlinked a live lease, two processes do not run one job, and a missing or expired lease means that nobody does.
  Processes may die anywhere. `Pending` says what a process between two system calls has in its hands, and
  `Covered` that whoever runs, writes or drops the lease is alone and that the file at the path is his
  with the time left that his heartbeat counts on.
- `FileImplements`: the lease implements `ExclusiveWork`, with `degraded` as a fault or the unlinking of a live
  lease. It follows from the same invariant, one step of the processes at a time; TLC confirms `Implements` on the
  instance of `file_lease`, whose run does not list it.

`ScheduledPosting_proofs`, for any jobs, requests, stages and attempts:

- `ScheduleTypes`: the type invariant. It is not inductive: a task saves fields of copies whose type
  depends on where it is, so `Carries` says for every program counter what the copy, the goal and the next
  step are. A copy of a job may be missing only where the job is gone for good.
- `DeletedStays`: a deleted job does not come back, from the same invariant and, for every action, the step
  lemma `Kept`.
- `CompletedHasAnArticle`: under any crashes, COMPLETED of a job that publishes is true. `Truthful` adds what
  is about to be written: a copy, a goal or a log of success that will be saved has an article behind it.
- `RunningHasATask`, assuming that the server does not crash: `InHands` says that a job shown as active
  is held by a task that will save its outcome. A step of one actor is compared with both through
  `Stays`, which looks at that actor alone.

`ScheduledOnce_proofs`, for any jobs, stages, attempts and crashes and any number of the requests named:

- `PostedOnce` (pause, resume, discard, delete; a publisher that reports what became of the article): no article goes
  live twice.
- `ClosedOnlyWhenOver` (pause, discard, delete; any publisher): a batch that is closed or gone has no job left to do.
- `BlockedHasAReason` (pause; any publisher): a batch at rest that waits for the user has a job that does.

They share `WorkInv`, since none of the three survives a step without knowing what the tasks hold. `Serves` says
what a task's copy has to do with its document: until the post is linked the copy is the document, later
the document has its post, is active, and is PUBLISHING from before the click to the log; a job may have gone
meanwhile, and then only this. `Alone` says that the publishing task and the job's own never work on one job. `Apt` and
`AptLocal` say of the batch and of every copy of it, in whatever hands, what its status claims about the jobs, and
`Listed` what the user's lists still claim. `OnceInv` adds the articles: a live one belongs to a job that is
over, or to one in PUBLISHING whose post exists, which is the trace by which the recovery recognises it after a crash.
A step of one actor is lawful (`Lawful`) if it changes only that actor's copies and the job it works on; `LawfulKeeps` and
`OnceKeeps` then give the invariants, so that every action is looked at alone.

The requests cannot be extended at will. With `retry`, `reschedule` or `forget` TLC finds an article posted
twice with one job, two requests and a crash, and with `stop` with two jobs, one request and a crash: they save a
copy of the job that is older than what a task has done meanwhile (a stop saves its list of waiting jobs after one
of them has gone on to its publication, which then no longer knows its post), or remove the post under it. With `resume`
a batch is closed while a job that was resumed waits; with `discard`, `delete` or `resume` the job for which a batch
waits can be gone, or resumed, when the batch is written back as NEEDS_HUMAN. `cancel` is not in `PostedOnce` although TLC finds no
counterexample with two requests: its proof would rest on the duration of a request (`slow`).

`IntentAnalysis_proofs`, for any servers:

- `AnalysisTypes`: the type invariant.
- `NoMarkOutlivesItsJob`: `LiveInv` adds that a job with a number beyond the requests so far is unused, so
  that a new request cannot overwrite a live job.
- `ResultsAreOfTheirTitle`: `GapInv` adds that a job that has read the document for its save, and whose
  version is still current, has the title of the post as its key unless it was overtaken.

`DraftGeneration_proofs`:

- `DraftTypes`, `ResumedAsAsked`: any servers, with edits of the input. `Sound` adds to the types what a
  run carries: from `images` on, its body is what it wants.
- `FinishedStays`, `NothingDropped`, `WrittenOnce`, assuming `OneServer` and no edits. `Whole` says, step by
  step of the run and of the lifespan, what a stored manuscript excludes: no request is on its way
  to a rewind, nothing that read the version since can still apply, and the images are the run's that saved.

`KeptBrowsers_proofs`:

- `KeptTypes`: the type invariant, for both ways of locking.
- `OnlyOrphansKilled`, `EveryWindowOwned`, assuming `WholeFlow` and `SlowWork`. `Sound` says that a flow in its steps
  holds the lock, that the reaper holds it from `pop` on, who may hold which window, and that an open
  window without an orphan's past has exactly one owner. `kept_threads` shows that `WholeFlow` cannot be dropped.

Only model-checked: every liveness property (liveness under fairness is out of the prover's
reach), and `NoDuplicatePost` of `ScheduledPosting` for a single request of the kinds that `PostedOnce`
excludes. Every other invariant and action property of the runs has its theorem, under the assumptions named.

The assumptions on constants are the modules' own. `NoDocument` of `ScheduledPosting` says that the value that stands for
"no document" is not a document; the others bound times and numbers, or say that names are distinct.

## What is not modelled

Most of the code. By lines the largest part is what the models can only take as a step that takes long and may
fail: prompts, schemas and adapters of the LLMs, the heuristics that judge and repair their texts, the
drawing of pictures, the aggregation of trends, the browser's steps on the pages of Naver and Threads, and the
web client's views. They keep no state that the properties depend on; what they compute is text or
arithmetic over external data, for which a small instance says nothing. Encryption, connection set-up and routes
are input and output. This bounds the share of lines that a faithful model can stand for to well below a
third.

Left out of modelled components: `update_final_post` and the editing of images after generation; the
progress reports; frames and input of the live view; M1's reference processing. The atomicity of
one document write and of one Redis command or script is taken from those systems. `PROJECT.json` lists
every component with its reason, and every hazard that no property covers with a note.

## Plan

In this order:

1. The rest of `ScheduledPosting`: the Threads channel of a job, the superseding of a
   batch, the interval schedule; narrow instances with two requests (two
   retries of one job, pause against the running task); the choice of the due job
   as operators checked against a reference definition.
2. `update_final_post` with the image store; the clipboard lock; the start and stop of a screencast
   (`live_view.py` 210); token expiry; the keyword pool; the publish-gap rule and the Threads split as
   operators.
3. Proofs: the four steps that `ScheduledPosting` makes of a publication as an implementation of
   `Publication` too, and `PostedOnce` with `cancel`.
