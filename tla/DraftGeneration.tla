-------------------------- MODULE DraftGeneration --------------------------
(***************************************************************************)
(* Writing the manuscript of one post (M4): DraftService, the m4 lease, the  *)
(* checkpoint, and the start-up sweeps that meet its interrupted runs.       *)
(*                                                                          *)
(* One action per step between two awaits.  A guarded write is two steps, a   *)
(* Read of the version and an Apply that succeeds if nobody wrote since.     *)
(* A run is the request and the background job it starts; its number is the   *)
(* token of its lease.  The lease is the abstract one: ExclusiveWork with a   *)
(* heartbeat that may stall.  What the models write is a pair of what they    *)
(* were asked for: the direction of the post and the style of the request.   *)
(***************************************************************************)
EXTENDS Naturals, FiniteSets

CONSTANTS
  Servers,       \* server processes
  Styles,        \* styles a request may ask for
  QuickRestart,  \* may a server be up again before its lease has lapsed?
  MaxRequests,   \* bound on accepted requests
  MaxEdits,      \* bound on edits of the input
  MaxFaults,     \* bound on database calls that raise
  MaxStalls,     \* bound on leases that lapse under a live run
  MaxCrashes     \* bound on process deaths

ASSUME DraftAssumption ==
  /\ QuickRestart \in BOOLEAN
  /\ MaxRequests \in Nat /\ MaxEdits \in Nat /\ MaxFaults \in Nat
  /\ MaxStalls \in Nat /\ MaxCrashes \in Nat

VARIABLES
  post,    \* the document: status, version, chosen direction, manuscript
  images,  \* the run whose images the image collection holds
  ckpt,    \* draftCheckpoint, outside the version guard
  lease,   \* the run that holds the m4 lease
  run,     \* per server: the one run _running_drafts allows a post
  boot,    \* per server: the lifespan, up or on its way up
  fresh,   \* was GENERATING entered less than FRESH_SECONDS ago?
  edit,    \* update_blog_task_input: idle, or past its check
  used     \* what the bounds count

vars == <<post, images, ckpt, lease, run, boot, fresh, edit, used>>

NoRun == 0
NoDirection == 0
NotRead == 0
SaveAttempts == 3

Runs == 1 .. MaxRequests
Directions == 1 .. (MaxEdits + 1)
Text == [direction : Directions \cup {NoDirection}, style : Styles \cup {"none"}]
NoText == [direction |-> NoDirection, style |-> "none"]
Manuscript == [run : Runs \cup {NoRun}, wants : Text, body : Text]
NoManuscript == [run |-> NoRun, wants |-> NoText, body |-> NoText]

\* INPUT stands for every status before a direction is chosen.
Statuses == {"INPUT", "INTENT_SELECTED", "GENERATING", "READY_TO_PUBLISH", "FAILED"}

AllowedTransitions ==
  [INPUT            |-> {"INTENT_SELECTED", "FAILED"},
   INTENT_SELECTED  |-> {"GENERATING", "FAILED"},
   GENERATING       |-> {"READY_TO_PUBLISH", "FAILED", "INTENT_SELECTED"},
   READY_TO_PUBLISH |-> {"FAILED"},
   FAILED           |-> {}]

Requesting == {"unfail", "ask", "revive", "enter"}
Working == {"load", "write", "images", "pictures", "save", "landed", "inspect", "reenter",
            "discard", "fail", "failing", "release"}
IdleRun == [pc |-> "idle", id |-> NoRun, seen |-> NotRead, wants |-> NoText, body |-> NoText,
            style |-> "none", tries |-> 0, again |-> FALSE]
Booting == {"down", "young", "old", "recover", "stop", "stopping"}
Up == [pc |-> "up", seen |-> NotRead, late |-> FALSE, deferred |-> FALSE]

Serving(s) == boot[s].pc = "up" \/ boot[s].late
Alive(r) == \E s \in Servers : run[s].id = r /\ run[s].pc \in Working

Init ==
  /\ post = [status |-> "INTENT_SELECTED", version |-> 1, direction |-> 1,
             final |-> NoManuscript]
  /\ images = NoRun
  /\ ckpt = NoText
  /\ lease = NoRun
  /\ run = [s \in Servers |-> IdleRun]
  /\ boot = [s \in Servers |-> Up]
  /\ fresh = FALSE
  /\ edit = "idle"
  /\ used = [requests |-> 0, edits |-> 0, faults |-> 0, stalls |-> 0, crashes |-> 0]

-----------------------------------------------------------------------------
\* What every guarded write does to the document.
Written(new) == [new EXCEPT !.version = post.version + 1]

Step(s, next) ==
  /\ run' = [run EXCEPT ![s] = [next EXCEPT !.seen = NotRead]]
  /\ UNCHANGED <<boot, edit>>

Go(s, pc) == Step(s, [run[s] EXCEPT !.pc = pc])
Fault == used.faults < MaxFaults /\ used' = [used EXCEPT !.faults = @ + 1]

\* Mutant: a GENERATING post is refused, as before the lease was asked.
Route_Refuses ==
  CASE post.status = "FAILED" /\ post.final = NoManuscript -> "unfail"
    [] post.status = "INTENT_SELECTED" -> "enter"
    [] OTHER -> "refused"

\* Mutant: a finished post may be written again.
Route_Finished ==
  CASE post.status = "FAILED" /\ post.final = NoManuscript -> "unfail"
    [] post.status \in {"GENERATING", "READY_TO_PUBLISH"} -> "ask"
    [] post.status = "INTENT_SELECTED" -> "enter"
    [] OTHER -> "refused"

\* _require_intent_selected_task: where a request goes from the status it read.
Route ==
  IF post.direction = NoDirection THEN "refused" ELSE
  CASE post.status = "FAILED" /\ post.final = NoManuscript -> "unfail"
    [] post.status = "GENERATING" /\ post.final = NoManuscript -> "ask"
    [] post.status = "INTENT_SELECTED" -> "enter"
    [] OTHER -> "refused"

\* start_draft_generation: the check of _running_drafts and the registration
\* have no await between them.
Start(s) ==
  /\ Serving(s) /\ run[s].pc = "idle"
  /\ used.requests < MaxRequests
  /\ Route # "refused"
  /\ \E style \in Styles :
       Step(s, [IdleRun EXCEPT !.pc = Route, !.id = used.requests + 1, !.style = style])
  /\ used' = [used EXCEPT !.requests = @ + 1]
  /\ UNCHANGED <<post, images, ckpt, lease, fresh>>

\* DRAFT_IN_PROGRESS, unless nobody holds the lease.
AskLease(s) ==
  /\ run[s].pc = "ask"
  /\ Step(s, IF lease # NoRun THEN IdleRun ELSE [run[s] EXCEPT !.pc = "revive"])
  /\ UNCHANGED <<post, images, ckpt, lease, fresh, used>>

\* What a write demands of the status it has just read (_require_transition);
\* rewind_status demands nothing.
Permitted(pc) ==
  CASE pc = "enter"   -> "GENERATING" \in AllowedTransitions[post.status]
    [] pc = "save"    -> "READY_TO_PUBLISH" \in AllowedTransitions[post.status]
    [] pc = "failing" -> "FAILED" \in AllowedTransitions[post.status]
    [] OTHER          -> TRUE

Reading == {"unfail", "revive", "enter", "save", "reenter", "failing"}

Read(s) ==
  /\ run[s].pc \in Reading /\ run[s].seen = NotRead
  /\ Permitted(run[s].pc)
  /\ run' = [run EXCEPT ![s].seen = post.version]
  /\ UNCHANGED <<post, images, ckpt, lease, boot, fresh, edit, used>>

\* Where a run goes when its write is refused or meets another version.
AfterRefusal(r) ==
  CASE r.pc \in Requesting -> IdleRun
    [] r.pc = "save" /\ ~r.again -> [r EXCEPT !.pc = "inspect"]
    [] r.pc = "reenter" \/ (r.pc = "save" /\ r.again) -> [r EXCEPT !.pc = "fail"]
    [] OTHER -> [r EXCEPT !.pc = "release"]

Refused(s) ==
  /\ run[s].pc \in Reading
  /\ \/ run[s].seen = NotRead /\ ~Permitted(run[s].pc)
     \/ run[s].seen # NotRead /\ run[s].seen # post.version
  /\ Step(s, AfterRefusal(run[s]))
  /\ UNCHANGED <<post, images, ckpt, lease, fresh, used>>

Apply(s, new, next) ==
  /\ run[s].seen = post.version
  /\ post' = Written(new)
  /\ Step(s, next)

\* Mutant: rewound to a status the state machine does not know.
Rewind_Unknown(s) ==
  /\ run[s].pc \in {"unfail", "revive"}
  /\ Apply(s, [post EXCEPT !.status = "DRAFT"], [run[s] EXCEPT !.pc = "enter"])
  /\ UNCHANGED <<images, ckpt, lease, fresh, used>>

\* rewind_status of a FAILED or an abandoned GENERATING post.
Rewind(s) ==
  /\ run[s].pc \in {"unfail", "revive"}
  /\ Apply(s, [post EXCEPT !.status = "INTENT_SELECTED"], [run[s] EXCEPT !.pc = "enter"])
  /\ UNCHANGED <<images, ckpt, lease, fresh, used>>

\* The transition to GENERATING; the job works on the document it returned.
Enter(s) ==
  /\ run[s].pc = "enter"
  /\ Apply(s, [post EXCEPT !.status = "GENERATING"],
           [run[s] EXCEPT !.pc = "hold",
                          !.wants = [direction |-> post.direction, style |-> run[s].style]])
  /\ fresh' = TRUE
  /\ UNCHANGED <<images, ckpt, lease, used>>

\* hold(): without the lease the job returns, and leaves the post GENERATING.
Hold(s) ==
  /\ run[s].pc = "hold"
  /\ IF lease = NoRun
     THEN lease' = run[s].id /\ Go(s, "load")
     ELSE Step(s, IdleRun) /\ UNCHANGED lease
  /\ UNCHANGED <<post, images, ckpt, fresh, used>>

-----------------------------------------------------------------------------
\* Mutant: any checkpoint is resumed from, whatever it was written for.
LoadCheckpoint_Any(s) ==
  /\ run[s].pc = "load"
  /\ IF ckpt # NoText
     THEN Step(s, [run[s] EXCEPT !.pc = "images", !.body = ckpt])
     ELSE Go(s, "write")
  /\ UNCHANGED <<post, images, ckpt, lease, fresh, used>>

\* The fingerprint of the input: resume only what was written for the same; a
\* checkpoint that cannot be read is none.
LoadCheckpoint(s) ==
  /\ run[s].pc = "load"
  /\ \/ /\ IF ckpt = run[s].wants
           THEN Step(s, [run[s] EXCEPT !.pc = "images", !.body = ckpt])
           ELSE Go(s, "write")
        /\ UNCHANGED used
     \/ Fault /\ Go(s, "write")
  /\ UNCHANGED <<post, images, ckpt, lease, fresh>>

\* The models write the text (external), and it is checkpointed; a checkpoint
\* that cannot be written is ignored.
WriteText(s) ==
  /\ run[s].pc = "write"
  /\ \/ /\ Step(s, [run[s] EXCEPT !.pc = "images", !.body = run[s].wants])
        /\ \/ ckpt' = run[s].wants /\ UNCHANGED used
           \/ Fault /\ UNCHANGED ckpt
     \/ Go(s, "fail") /\ UNCHANGED <<ckpt, used>>
  /\ UNCHANGED <<post, images, lease, fresh>>

\* Pictures, final review and polish (external) succeed or raise.
Illustrate(s) ==
  /\ run[s].pc = "images"
  /\ Go(s, "pictures") \/ Go(s, "fail")
  /\ UNCHANGED <<post, images, ckpt, lease, fresh, used>>

\* _store_images replaces the images of the post, before the guarded write.
StoreImages(s) ==
  /\ run[s].pc = "pictures"
  /\ images' = run[s].id
  /\ Go(s, "save")
  /\ UNCHANGED <<post, ckpt, lease, fresh, used>>

WithResult(s) ==
  [post EXCEPT !.status = "READY_TO_PUBLISH",
               !.final = [run |-> run[s].id, wants |-> run[s].wants, body |-> run[s].body]]

\* save_draft_generation_result.
Save(s) ==
  /\ run[s].pc = "save"
  /\ Apply(s, WithResult(s), [run[s] EXCEPT !.pc = "discard"])
  /\ UNCHANGED <<images, ckpt, lease, fresh, used>>

\* The save raises, applied or not; it is tried again, then looked for.
SaveFault(s) ==
  /\ run[s].pc = "save" /\ Fault
  /\ \/ UNCHANGED post
     \/ run[s].seen = post.version /\ post' = Written(WithResult(s))
  /\ LET tries == run[s].tries + 1
     IN Step(s, [run[s] EXCEPT !.tries = tries,
                               !.pc = IF tries < SaveAttempts THEN "pictures" ELSE "landed"])
  /\ UNCHANGED <<images, ckpt, lease, fresh>>

\* _generation_result_landed: not knowing is a no.
Landed(s) ==
  /\ run[s].pc = "landed"
  /\ \/ /\ Go(s, IF post.final # NoManuscript THEN "discard" ELSE "fail")
        /\ UNCHANGED used
     \/ Fault /\ Go(s, "fail")
  /\ UNCHANGED <<post, images, ckpt, lease, fresh>>

\* Mutant: a result whose post is not GENERATING any more is thrown away.
Inspect_Drops(s) ==
  /\ run[s].pc = "inspect"
  /\ Go(s, "discard")
  /\ UNCHANGED <<post, images, ckpt, lease, fresh, used>>

\* _save_draft_generation_result, after the save was refused.
Inspect(s) ==
  /\ run[s].pc = "inspect"
  /\ Go(s, IF post.final = NoManuscript /\ post.status \in {"FAILED", "INTENT_SELECTED"}
           THEN "reenter" ELSE "discard")
  /\ UNCHANGED <<post, images, ckpt, lease, fresh, used>>

\* The post is taken back to GENERATING, and the result stored once more.
Reenter(s) ==
  /\ run[s].pc = "reenter"
  /\ Apply(s, [post EXCEPT !.status = "GENERATING"],
           [run[s] EXCEPT !.pc = "pictures", !.tries = 0, !.again = TRUE])
  /\ fresh' = TRUE
  /\ UNCHANGED <<images, ckpt, lease, used>>

\* The checkpoint of a finished manuscript goes; failing to is ignored.
Discard(s) ==
  /\ run[s].pc = "discard"
  /\ Go(s, "release")
  /\ \/ ckpt' = NoText /\ UNCHANGED used
     \/ Fault /\ UNCHANGED ckpt
  /\ UNCHANGED <<post, images, lease, fresh>>

\* Mutant: the failure is recorded whatever the status is by now.
MarkFailed_Always(s) ==
  /\ run[s].pc = "fail"
  /\ Go(s, "failing")
  /\ UNCHANGED <<post, images, ckpt, lease, fresh, used>>

\* _mark_generation_failed: only a GENERATING post; a call that raises here
\* ends the job with the failure unrecorded.
MarkFailed(s) ==
  /\ run[s].pc = "fail"
  /\ \/ Go(s, IF post.status = "GENERATING" THEN "failing" ELSE "release") /\ UNCHANGED used
     \/ Fault /\ Go(s, "release")
  /\ UNCHANGED <<post, images, ckpt, lease, fresh>>

Fail(s) ==
  /\ run[s].pc = "failing"
  /\ Apply(s, [post EXCEPT !.status = "FAILED"], [run[s] EXCEPT !.pc = "release"])
  /\ UNCHANGED <<images, ckpt, lease, fresh, used>>

\* The lease is released, if it is still its own, and the run unregistered.
Release(s) ==
  /\ run[s].pc = "release"
  /\ lease' = IF lease = run[s].id THEN NoRun ELSE lease
  /\ Step(s, IdleRun)
  /\ UNCHANGED <<post, images, ckpt, fresh, used>>

-----------------------------------------------------------------------------
\* The lease lapses under a live run whose heartbeat stalled, and is re-marked.
Stall ==
  /\ used.stalls < MaxStalls
  /\ Alive(lease)
  /\ lease' = NoRun
  /\ used' = [used EXCEPT !.stalls = @ + 1]
  /\ UNCHANGED <<post, images, ckpt, run, boot, fresh, edit>>

Retake(s) ==
  /\ run[s].pc \in Working /\ lease = NoRun
  /\ lease' = run[s].id
  /\ UNCHANGED <<post, images, ckpt, run, boot, fresh, edit, used>>

\* The lease of a run that died lapses.
Expire ==
  /\ lease # NoRun /\ ~Alive(lease)
  /\ lease' = NoRun
  /\ UNCHANGED <<post, images, ckpt, run, boot, fresh, edit, used>>

GraceEnds ==
  /\ fresh /\ fresh' = FALSE
  /\ UNCHANGED <<post, images, ckpt, lease, run, boot, edit, used>>

Crash(s) ==
  /\ used.crashes < MaxCrashes
  /\ boot' = [boot EXCEPT ![s] = [Up EXCEPT !.pc = "down"]]
  /\ run' = [run EXCEPT ![s] = IdleRun]
  /\ used' = [used EXCEPT !.crashes = @ + 1]
  /\ UNCHANGED <<post, images, ckpt, lease, fresh, edit>>

-----------------------------------------------------------------------------
\* The lifespan: recover_orphaned_tasks, then stop_orphaned_generations.
BootStep(s, next) ==
  /\ boot' = [boot EXCEPT ![s] = [next EXCEPT !.seen = NotRead]]
  /\ UNCHANGED <<images, ckpt, lease, run, fresh, edit, used>>

\* A late sweep ends where it began, in a server that is up.
Swept(s) == IF boot[s].late THEN [Up EXCEPT !.deferred = boot[s].deferred]
            ELSE [boot[s] EXCEPT !.pc = "stop"]

\* _is_fresh, of the post as it was listed.
Age == IF fresh THEN "young" ELSE "old"

\* list_by_status, at the start or (_sweep_after_grace) once more later.
Sweep(s) ==
  /\ \/ boot[s].pc = "down" /\ (QuickRestart \/ lease = NoRun \/ Alive(lease))
     \/ boot[s].pc = "up" /\ boot[s].deferred
  /\ LET late == boot[s].pc = "up"
         from == [boot[s] EXCEPT !.late = late, !.deferred = FALSE]
     IN BootStep(s, IF post.status = "GENERATING" THEN [from EXCEPT !.pc = Age]
                    ELSE IF late THEN Up ELSE [from EXCEPT !.pc = "stop"])
  /\ UNCHANGED post

\* is_held, then _is_fresh; a fresh post is deferred, at the start only.
SweepHeld(s) ==
  /\ boot[s].pc \in {"young", "old"}
  /\ BootStep(s, CASE lease # NoRun -> Swept(s)
                   [] lease = NoRun /\ boot[s].pc = "young" -> [Swept(s) EXCEPT !.deferred = ~boot[s].late]
                   [] OTHER -> [boot[s] EXCEPT !.pc = "recover"])
  /\ UNCHANGED post

BootWrites == [recover |-> "INTENT_SELECTED", stopping |-> "FAILED"]

BootRead(s) ==
  /\ boot[s].pc \in DOMAIN BootWrites /\ boot[s].seen = NotRead
  /\ BootWrites[boot[s].pc] \in AllowedTransitions[post.status]
  /\ boot' = [boot EXCEPT ![s].seen = post.version]
  /\ UNCHANGED <<post, images, ckpt, lease, run, fresh, edit, used>>

BootWrite(s) ==
  /\ boot[s].pc \in DOMAIN BootWrites /\ boot[s].seen = post.version
  /\ post' = Written([post EXCEPT !.status = BootWrites[boot[s].pc]])
  /\ BootStep(s, IF boot[s].pc = "recover" THEN Swept(s)
                 ELSE [Up EXCEPT !.deferred = boot[s].deferred])

\* The sweep goes on after a conflict; stop_orphaned_generations does not, and
\* the server does not start.
BootRefused(s) ==
  /\ boot[s].pc \in DOMAIN BootWrites
  /\ \/ boot[s].seen = NotRead /\ BootWrites[boot[s].pc] \notin AllowedTransitions[post.status]
     \/ boot[s].seen # NotRead /\ boot[s].seen # post.version
  /\ BootStep(s, IF boot[s].pc = "recover" THEN Swept(s) ELSE [Up EXCEPT !.pc = "down"])
  /\ UNCHANGED post

StopOrphaned(s) ==
  /\ boot[s].pc = "stop"
  /\ BootStep(s, IF post.status = "GENERATING" THEN [boot[s] EXCEPT !.pc = "stopping"]
                 ELSE [Up EXCEPT !.deferred = boot[s].deferred])
  /\ UNCHANGED post

-----------------------------------------------------------------------------
\* The user replaces the input: update_blog_task_input checks for a manuscript,
\* and replace_input reads the document again.  Only then is a new direction
\* chosen (title and verification, M2 and M3).
EditCheck ==
  /\ edit = "idle" /\ used.edits < MaxEdits
  /\ post.final = NoManuscript
  /\ edit' = "write"
  /\ used' = [used EXCEPT !.edits = @ + 1]
  /\ UNCHANGED <<post, images, ckpt, lease, run, boot, fresh>>

EditWrite ==
  /\ edit = "write"
  /\ post' = Written([post EXCEPT !.status = "INPUT", !.direction = NoDirection])
  /\ edit' = "redirect"
  /\ UNCHANGED <<images, ckpt, lease, run, boot, fresh, used>>

Redirect ==
  /\ edit = "redirect" /\ post.status = "INPUT"
  /\ post' = Written([post EXCEPT !.status = "INTENT_SELECTED",
                                  !.direction = used.edits + 1])
  /\ edit' = "idle"
  /\ UNCHANGED <<images, ckpt, lease, run, boot, fresh, used>>

-----------------------------------------------------------------------------
Run(s) ==
  \/ AskLease(s) \/ Read(s) \/ Refused(s) \/ Rewind(s) \/ Enter(s) \/ Hold(s)
  \/ LoadCheckpoint(s) \/ WriteText(s) \/ Illustrate(s) \/ StoreImages(s) \/ Save(s)
  \/ SaveFault(s) \/ Landed(s) \/ Inspect(s) \/ Reenter(s) \/ Discard(s)
  \/ MarkFailed(s) \/ Fail(s) \/ Release(s)

Lifespan(s) ==
  \/ Sweep(s) \/ SweepHeld(s) \/ BootRead(s) \/ BootWrite(s) \/ BootRefused(s)
  \/ StopOrphaned(s)

Next ==
  \/ \E s \in Servers : Start(s) \/ Run(s) \/ Retake(s) \/ Lifespan(s) \/ Crash(s)
  \/ Stall \/ Expire \/ GraceEnds

Spec == Init /\ [][Next]_vars

\* Jobs and lifespans run on, leases lapse and the grace period ends; nobody
\* has to ask, nothing has to fail.
FairSpec ==
  /\ Spec
  /\ \A s \in Servers : WF_vars(Run(s)) /\ WF_vars(Lifespan(s))
  /\ WF_vars(Expire) /\ WF_vars(GraceEnds)

\* The same, while the user edits the input.
EditNext == Next \/ EditCheck \/ EditWrite \/ Redirect
EditSpec == Init /\ [][EditNext]_vars

-----------------------------------------------------------------------------
PostState == [status : Statuses, version : Nat, direction : Directions \cup {NoDirection},
              final : Manuscript]
RunSteps == {"idle", "hold"} \cup Requesting \cup Working
RunState == [pc : RunSteps, id : Runs \cup {NoRun}, seen : Nat, wants : Text, body : Text,
             style : Styles \cup {"none"}, tries : 0 .. SaveAttempts, again : BOOLEAN]
BootState == [pc : Booting \cup {"up"}, seen : Nat, late : BOOLEAN, deferred : BOOLEAN]
Bounds == [requests : 0 .. MaxRequests, edits : 0 .. MaxEdits, faults : 0 .. MaxFaults,
           stalls : 0 .. MaxStalls, crashes : 0 .. MaxCrashes]

TypeOK ==
  /\ post \in PostState
  /\ images \in Runs \cup {NoRun} /\ lease \in Runs \cup {NoRun}
  /\ ckpt \in Text
  /\ run \in [Servers -> RunState]
  /\ boot \in [Servers -> BootState]
  /\ fresh \in BOOLEAN /\ edit \in {"idle", "write", "redirect"}
  /\ used \in Bounds

\* A manuscript that was stored is never written over by another run, however
\* its own save was answered and whoever was asked to write it again.
NotStoredTwice ==
  [][post.final # NoManuscript => post'.final = post.final]_vars

\* A post with a manuscript is ready to publish, with the pictures of that
\* manuscript: no failure, sweep or late save takes it out of the user's hands.
FinishedIsWhole ==
  post.final # NoManuscript =>
    post.status = "READY_TO_PUBLISH" /\ images = post.final.run

\* What was stored was written for what its request asked: no body is resumed
\* from the checkpoint of another style or direction.
WrittenAsAsked ==
  post.final.body = post.final.wants

\* A run that got as far as saving gives its checkpoint up only once there is a
\* manuscript: no finished work is thrown away.
FinishedIsNotDropped ==
  \A s \in Servers : run[s].pc = "discard" => post.final # NoManuscript

RetryIsAccepted ==
  /\ Route # "refused" /\ lease = NoRun
  /\ \E s \in Servers : Serving(s) /\ run[s].pc = "idle"

\* A post does not stay GENERATING with the user locked out: it moves on, or a
\* request to write it again would be accepted.
StuckIsRetriable ==
  post.status = "GENERATING" ~> (post.status # "GENERATING" \/ RetryIsAccepted)

\* The manuscript of a post answers its input: it was written for the direction
\* the post has (what update_blog_task_input refuses later edits for).
ManuscriptIsOfItsDirection ==
  post.status = "READY_TO_PUBLISH" => post.final.wants.direction = post.direction
=============================================================================
