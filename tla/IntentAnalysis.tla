--------------------------- MODULE IntentAnalysis ---------------------------
(***************************************************************************)
(* Verifying the title of one post (M3): BlogTaskService.start_intent_       *)
(* analysis and its background jobs, the m3 lease, the in-flight table of    *)
(* each server, choosing another title, cancelling, choosing a direction,    *)
(* and the sweep of interrupted analyses when a server starts.               *)
(*                                                                          *)
(* One action per step between two awaits; a guarded write is a read of the   *)
(* version and an Apply.  A job is the request that starts it and the task    *)
(* behind it; its number is the token of its lease.  Its key stands for the   *)
(* string of _analysis_key: the title and what was chosen with it.           *)
(***************************************************************************)
EXTENDS Naturals

CONSTANTS
  Servers,      \* server processes
  Titles,       \* analysis keys
  NoTitle,
  MaxRequests,  \* bound on requests that pass the in-flight check
  MaxSelects,   \* bound on choices of a title
  MaxCancels,   \* bound on cancels
  MaxCrashes,   \* bound on process deaths
  MaxStalls     \* bound on leases that lapse under a live job

ASSUME AnalysisAssumption ==
  /\ NoTitle \notin Titles /\ Titles # {} /\ Servers # {}
  /\ MaxRequests \in Nat /\ MaxSelects \in Nat /\ MaxCancels \in Nat
  /\ MaxCrashes \in Nat /\ MaxStalls \in Nat

VARIABLES
  post,      \* the document: version, title, verification result, was a direction chosen?
  lease,     \* the job that holds the m3 lease
  job,       \* the requests and their jobs
  inflight,  \* _m3_inflight of each server: the key that is being verified
  handle,    \* _m3_jobs of each server
  boot,      \* per server: up, or a step of the sweep
  fresh,     \* was the status entered less than FRESH_SECONDS ago?
  overtaken, \* has a title been chosen between a job's stale() and its save's read?
  used       \* what the bounds count

vars == <<post, lease, job, inflight, handle, boot, fresh, overtaken, used>>

NoJob == 0
NotRead == 0
Jobs == 1 .. MaxRequests
Result == [title : Titles \cup {NoTitle}, ok : BOOLEAN]
NoResult == [title |-> NoTitle, ok |-> FALSE]

NotAsked == [pc |-> "unused", srv |-> CHOOSE s \in Servers : TRUE, key |-> NoTitle,
             seen |-> NotRead, ok |-> FALSE, end |-> "none"]
Holding == {"search", "save", "exit"}
Running == {"hold", "wait", "finally"} \cup Holding
Up == [pc |-> "up", seen |-> NotRead, late |-> FALSE, deferred |-> FALSE]

Undecided == ~post.decided   \* SEARCH_ANALYZING; else INTENT_SELECTED or later
Serving(s) == boot[s].pc = "up" \/ boot[s].late
Alive(j) == j \in Jobs /\ job[j].pc \in Holding

Init ==
  /\ post = [version |-> 1, title |-> CHOOSE t \in Titles : TRUE, result |-> NoResult,
             decided |-> FALSE]
  /\ lease = NoJob
  /\ job = [j \in Jobs |-> NotAsked]
  /\ inflight = [s \in Servers |-> NoTitle]
  /\ handle = [s \in Servers |-> NoJob]
  /\ boot = [s \in Servers |-> Up]
  /\ fresh = TRUE
  /\ overtaken = FALSE
  /\ used = [requests |-> 0, selects |-> 0, cancels |-> 0, crashes |-> 0, stalls |-> 0]

-----------------------------------------------------------------------------
Step(j, pc) == job' = [job EXCEPT ![j].pc = pc]
End(j, pc, why) ==
  job' = [job EXCEPT ![j] = [@ EXCEPT !.pc = pc, !.end = why, !.seen = NotRead, !.ok = FALSE]]
Over(why) == [NotAsked EXCEPT !.pc = "done", !.end = why]  \* all that is left of a job

\* start_intent_analysis up to its first await: the post is read, and an
\* analysis of the same key in this server makes it a no-op.
Request(s) ==
  /\ Serving(s) /\ Undecided
  /\ used.requests < MaxRequests
  /\ inflight[s] # post.title
  /\ job' = [job EXCEPT ![used.requests + 1] =
               [NotAsked EXCEPT !.pc = "register", !.srv = s, !.key = post.title]]
  /\ used' = [used EXCEPT !.requests = @ + 1]
  /\ UNCHANGED <<post, lease, inflight, handle, boot, fresh, overtaken>>

\* Mutant: the job is written where its key belongs.
Register_Swapped(j) ==
  /\ job[j].pc = "register"
  /\ inflight' = [inflight EXCEPT ![job[j].srv] = j]
  /\ handle' = [handle EXCEPT ![job[j].srv] = j]
  /\ Step(j, "hold")
  /\ UNCHANGED <<post, lease, boot, fresh, overtaken, used>>

\* After the awaits of its progress report: the table and the handle.
Register(j) ==
  /\ job[j].pc = "register"
  /\ inflight' = [inflight EXCEPT ![job[j].srv] = job[j].key]
  /\ handle' = [handle EXCEPT ![job[j].srv] = j]
  /\ Step(j, "hold")
  /\ UNCHANGED <<post, lease, boot, fresh, overtaken, used>>

\* Mutant: a job that does not get the lease leaves the work to its holder.
Hold_GivesUp(j) ==
  /\ job[j].pc = "hold"
  /\ IF lease = NoJob THEN lease' = j /\ Step(j, "search")
     ELSE Step(j, "finally") /\ UNCHANGED lease
  /\ UNCHANGED <<post, inflight, handle, boot, fresh, overtaken, used>>

Hold(j) ==
  /\ job[j].pc = "hold"
  /\ IF lease = NoJob THEN lease' = j /\ Step(j, "search")
     ELSE Step(j, "wait") /\ UNCHANGED lease
  /\ UNCHANGED <<post, inflight, handle, boot, fresh, overtaken, used>>

\* Every two seconds: leave if the title is another by now or the work is done.
Poll(j) ==
  /\ job[j].pc = "wait"
  /\ Step(j, IF post.title # job[j].key \/ post.result # NoResult THEN "finally" ELSE "hold")
  /\ UNCHANGED <<post, lease, inflight, handle, boot, fresh, overtaken, used>>

\* _M3_LEASE_WAIT_SECONDS have passed and somebody still holds the lease.
GiveUp(j) ==
  /\ job[j].pc = "wait" /\ lease # NoJob
  /\ End(j, "finally", "gave up")
  /\ UNCHANGED <<post, lease, inflight, handle, boot, fresh, overtaken, used>>

\* Mutant: a failure is saved without looking at the title.
Check_FailuresUnchecked(j) ==
  /\ job[j].pc = "search"
  /\ \E ok \in BOOLEAN :
       job' = [job EXCEPT ![j].ok = ok,
                          ![j].pc = IF ok /\ post.title # job[j].key THEN "exit" ELSE "save"]
  /\ UNCHANGED <<post, lease, inflight, handle, boot, fresh, overtaken, used>>

\* search_and_analyze (external) answers or raises; then stale(): the result of
\* another title is not saved, nor is its failure.
Check(j) ==
  /\ job[j].pc = "search"
  /\ IF post.title # job[j].key THEN Step(j, "exit")
     ELSE \E ok \in BOOLEAN : job' = [job EXCEPT ![j].pc = "save", ![j].ok = ok]
  /\ UNCHANGED <<post, lease, inflight, handle, boot, fresh, overtaken, used>>

\* save_intent_validation_result reads the post once more, whatever it is now.
SaveRead(j) ==
  /\ job[j].pc = "save" /\ job[j].seen = NotRead
  /\ job' = [job EXCEPT ![j].seen = post.version]
  /\ UNCHANGED <<post, lease, inflight, handle, boot, fresh, overtaken, used>>

Save(j) ==
  /\ job[j].pc = "save" /\ job[j].seen = post.version
  /\ post' = [post EXCEPT !.version = @ + 1,
                          !.result = [title |-> job[j].key, ok |-> job[j].ok]]
  /\ End(j, "exit", "saved")
  /\ UNCHANGED <<lease, inflight, handle, boot, fresh, overtaken, used>>

\* Another version: the failure to save is logged, or ends the job.
Conflict(j) ==
  /\ job[j].pc = "save" /\ job[j].seen # NotRead /\ job[j].seen # post.version
  /\ End(j, "exit", "conflict")
  /\ UNCHANGED <<post, lease, inflight, handle, boot, fresh, overtaken, used>>

\* The end of "async with held": the lease goes if it is still this job's.
Exit(j) ==
  /\ job[j].pc = "exit"
  /\ lease' = IF lease = j THEN NoJob ELSE lease
  /\ Step(j, "finally")
  /\ UNCHANGED <<post, inflight, handle, boot, fresh, overtaken, used>>

\* Mutant: the mark is taken back only by a job that saved its result.
Finally_OnSuccess(j) ==
  /\ job[j].pc = "finally"
  /\ IF inflight[job[j].srv] = job[j].key /\ job[j].end = "saved"
     THEN /\ inflight' = [inflight EXCEPT ![job[j].srv] = NoTitle]
          /\ handle' = [handle EXCEPT ![job[j].srv] = NoJob]
     ELSE UNCHANGED <<inflight, handle>>
  /\ job' = [job EXCEPT ![j] = Over(@.end)]
  /\ UNCHANGED <<post, lease, boot, fresh, overtaken, used>>

\* The finally block: the mark is taken back if it is of the same key.
Finally(j) ==
  /\ job[j].pc = "finally"
  /\ IF inflight[job[j].srv] = job[j].key
     THEN /\ inflight' = [inflight EXCEPT ![job[j].srv] = NoTitle]
          /\ handle' = [handle EXCEPT ![job[j].srv] = NoJob]
     ELSE UNCHANGED <<inflight, handle>>
  /\ job' = [job EXCEPT ![j] = Over(@.end)]
  /\ UNCHANGED <<post, lease, boot, fresh, overtaken, used>>

\* cancel_intent_analysis: mark and handle go first, then the job is cancelled
\* at whatever await it is in.
Cancel(s) ==
  /\ Serving(s) /\ handle[s] # NoJob
  /\ used.cancels < MaxCancels
  /\ LET j == handle[s] IN
       CASE job[j].pc \in Holding -> End(j, "exit", "canceled")
         [] job[j].pc \in {"hold", "wait", "finally"} -> End(j, "finally", "canceled")
         [] OTHER -> UNCHANGED job
  /\ handle' = [handle EXCEPT ![s] = NoJob]
  /\ inflight' = [inflight EXCEPT ![s] = NoTitle]
  /\ used' = [used EXCEPT !.cancels = @ + 1]
  /\ UNCHANGED <<post, lease, boot, fresh, overtaken>>

-----------------------------------------------------------------------------
\* select_topic, save_trend_selection: the result of the old title goes with it.
SelectTitle(t) ==
  /\ Undecided
  /\ used.selects < MaxSelects
  /\ post' = [post EXCEPT !.version = @ + 1, !.title = t, !.result = NoResult]
  /\ fresh' = TRUE
  /\ overtaken' = (overtaken \/ \E j \in Jobs :
       job[j].pc = "save" /\ job[j].seen = NotRead /\ job[j].key # t)
  /\ used' = [used EXCEPT !.selects = @ + 1]
  /\ UNCHANGED <<lease, job, inflight, handle, boot>>

\* select_intent.  Its two reads are one here: nothing below asks which
\* direction was chosen, only whether one was.
SelectIntent ==
  /\ Undecided /\ post.result.ok
  /\ post' = [post EXCEPT !.version = @ + 1, !.decided = TRUE]
  /\ UNCHANGED <<lease, job, inflight, handle, boot, fresh, overtaken, used>>

-----------------------------------------------------------------------------
Stall ==
  /\ used.stalls < MaxStalls
  /\ Alive(lease)
  /\ lease' = NoJob
  /\ used' = [used EXCEPT !.stalls = @ + 1]
  /\ UNCHANGED <<post, job, inflight, handle, boot, fresh, overtaken>>

Retake(j) ==
  /\ job[j].pc \in Holding /\ lease = NoJob
  /\ lease' = j
  /\ UNCHANGED <<post, job, inflight, handle, boot, fresh, overtaken, used>>

\* The lease of a job that died lapses.
Expire ==
  /\ lease # NoJob /\ ~Alive(lease)
  /\ lease' = NoJob
  /\ UNCHANGED <<post, job, inflight, handle, boot, fresh, overtaken, used>>

GraceEnds ==
  /\ fresh /\ fresh' = FALSE
  /\ UNCHANGED <<post, lease, job, inflight, handle, boot, overtaken, used>>

Crash(s) ==
  /\ used.crashes < MaxCrashes
  /\ job' = [j \in Jobs |-> IF job[j].srv = s /\ job[j].pc \in Running \cup {"register"}
                            THEN Over("died") ELSE job[j]]
  /\ inflight' = [inflight EXCEPT ![s] = NoTitle]
  /\ handle' = [handle EXCEPT ![s] = NoJob]
  /\ boot' = [boot EXCEPT ![s] = [Up EXCEPT !.pc = "down"]]
  /\ used' = [used EXCEPT !.crashes = @ + 1]
  /\ UNCHANGED <<post, lease, fresh, overtaken>>

BootStep(s, next) ==
  /\ boot' = [boot EXCEPT ![s] = next]
  /\ UNCHANGED <<lease, job, inflight, handle, fresh, overtaken, used>>

\* _is_fresh, of the post as it was listed.
Age == IF fresh THEN "young" ELSE "old"

\* recover_orphaned_tasks lists the posts; once at the start, and once more
\* (_sweep_after_grace) if it deferred one.
Sweep(s) ==
  /\ boot[s].pc = "down" \/ (boot[s].pc = "up" /\ boot[s].deferred)
  /\ BootStep(s, IF Undecided THEN [Up EXCEPT !.pc = Age, !.late = boot[s].pc = "up"]
                 ELSE Up)
  /\ UNCHANGED post

\* is_held, then _is_fresh; a fresh post is deferred, at the start only.
SweepHeld(s) ==
  /\ boot[s].pc \in {"young", "old"}
  /\ BootStep(s, CASE lease # NoJob -> Up
                   [] lease = NoJob /\ boot[s].pc = "young" -> [Up EXCEPT !.deferred = ~boot[s].late]
                   [] OTHER -> [boot[s] EXCEPT !.pc = "recover"])
  /\ UNCHANGED post

SweepRead(s) ==
  /\ boot[s].pc = "recover" /\ boot[s].seen = NotRead
  /\ BootStep(s, [boot[s] EXCEPT !.seen = post.version])
  /\ UNCHANGED post

\* _recover: the failure is saved over whatever result the post has.
SweepWrite(s) ==
  /\ boot[s].pc = "recover" /\ boot[s].seen = post.version
  /\ post' = [post EXCEPT !.version = @ + 1, !.result = [title |-> post.title, ok |-> FALSE]]
  /\ BootStep(s, Up)

SweepConflict(s) ==
  /\ boot[s].pc = "recover" /\ boot[s].seen # NotRead /\ boot[s].seen # post.version
  /\ BootStep(s, Up)
  /\ UNCHANGED post

-----------------------------------------------------------------------------
Job(j) ==
  \/ Register(j) \/ Hold(j) \/ Poll(j) \/ Check(j) \/ SaveRead(j)
  \/ Save(j) \/ Conflict(j) \/ Exit(j) \/ Finally(j)

Lifespan(s) ==
  Sweep(s) \/ SweepHeld(s) \/ SweepRead(s) \/ SweepWrite(s) \/ SweepConflict(s)

Next ==
  \/ \E s \in Servers : Request(s) \/ Cancel(s) \/ Crash(s) \/ Lifespan(s)
  \/ \E j \in Jobs : Job(j) \/ GiveUp(j) \/ Retake(j)
  \/ \E t \in Titles : SelectTitle(t)
  \/ SelectIntent \/ Stall \/ Expire \/ GraceEnds

Spec == Init /\ [][Next]_vars

\* Jobs run on, and a waiting one is not passed over for ever when the lease
\* becomes free; the user does what he likes.
FairSpec ==
  /\ Spec
  /\ \A j \in Jobs : WF_vars(Job(j)) /\ SF_vars(lease = NoJob /\ Hold(j))
  /\ WF_vars(Expire)

-----------------------------------------------------------------------------
PostState == [version : Nat, title : Titles, result : Result, decided : BOOLEAN]
JobSteps == {"unused", "register", "done"} \cup Running
Ends == {"none", "saved", "conflict", "gave up", "canceled", "died"}
JobState == [pc : JobSteps, srv : Servers, key : Titles \cup {NoTitle}, seen : Nat,
             ok : BOOLEAN, end : Ends]
BootState == [pc : {"up", "down", "young", "old", "recover"}, seen : Nat,
              late : BOOLEAN, deferred : BOOLEAN]
Bounds == [requests : 0 .. MaxRequests, selects : 0 .. MaxSelects,
           cancels : 0 .. MaxCancels, crashes : 0 .. MaxCrashes, stalls : 0 .. MaxStalls]

TypeOK ==
  /\ post \in PostState
  /\ lease \in Jobs \cup {NoJob}
  /\ job \in [Jobs -> JobState]
  /\ inflight \in [Servers -> Titles \cup {NoTitle}]
  /\ handle \in [Servers -> Jobs \cup {NoJob}]
  /\ boot \in [Servers -> BootState]
  /\ fresh \in BOOLEAN /\ overtaken \in BOOLEAN
  /\ used \in Bounds

\* The in-flight mark never outlives the work: a key that is marked has a live
\* job in that server, or no request for it would ever be accepted again.
InflightIsLive ==
  \A s \in Servers : inflight[s] # NoTitle =>
    \E j \in Jobs : job[j].srv = s /\ job[j].key = inflight[s] /\ job[j].pc \in Running

\* The result shown for a title is of that title, unless the title was chosen
\* in the gap between a job's stale() and the read of its save.
StaleOnlyThroughTheGap ==
  post.result # NoResult /\ ~overtaken => post.result.title = post.title

\* A request that was registered is answered with a result, a failure included,
\* unless the title is changed, the user cancels, the server dies, another write
\* meets its save, or the lease was held too long: none is silently dropped.
AnalysisIsAnswered ==
  \A j \in Jobs : job[j].pc = "hold" ~>
    \/ post.result # NoResult
    \/ job[j].pc # "done" /\ post.title # job[j].key
    \/ job[j].end \in {"conflict", "gave up", "canceled", "died"}

\* The sweep writes its failure only over an analysis that did not finish:
\* what it recovers is work that was in progress.
SweepSparesFinished ==
  [][\A s \in Servers : SweepWrite(s) => post.result = NoResult]_vars
=============================================================================
