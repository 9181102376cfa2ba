----------------------- MODULE DraftGeneration_proofs -----------------------
(***************************************************************************)
(* Proofs about DraftGeneration, for all styles, requests, edits, faults,    *)
(* stalls and crashes.                                                       *)
(*                                                                          *)
(*   DraftTypes       the type invariant, any servers, with edits;           *)
(*   ResumedAsAsked   a stored text was written for what was asked, likewise; *)
(*   FinishedStays    one server: a finished post is whole;                  *)
(*   NothingDropped   one server: no finished work is thrown away;           *)
(*   WrittenOnce      one server: a manuscript is never written over.        *)
(***************************************************************************)
EXTENDS DraftGeneration, TLAPS

-----------------------------------------------------------------------------
\* The values a step may leave a run, a server or the post with.

LEMMA NoneTypes ==
  /\ NoText \in Text /\ NoManuscript \in Manuscript
  /\ IdleRun \in RunState /\ Up \in BootState
  /\ \A pc \in Booting \cup {"up"} : [Up EXCEPT !.pc = pc] \in BootState
  /\ \A d \in BOOLEAN : [Up EXCEPT !.deferred = d] \in BootState
<1>1. NoText \in Text
  BY DEF NoText, Text
<1>2. NoManuscript \in Manuscript
  BY <1>1 DEF NoManuscript, Manuscript
<1>3. IdleRun \in RunState
  BY <1>1 DEF IdleRun, RunState, RunSteps, NotRead, SaveAttempts
<1>4. Up \in BootState
  BY DEF Up, BootState, NotRead
<1> QED  BY <1>1, <1>2, <1>3, <1>4 DEF BootState, Up

\* A run one step on: what Step leaves.
LEMMA StepType ==
  ASSUME run \in [Servers -> RunState], NEW s \in Servers, NEW next \in RunState, Step(s, next)
  PROVE  /\ run' \in [Servers -> RunState] /\ boot' = boot /\ edit' = edit
         /\ run'[s] = [next EXCEPT !.seen = NotRead]
         /\ \A t \in Servers \ {s} : run'[t] = run[t]
<1>1. [next EXCEPT !.seen = NotRead] \in RunState
  BY DEF RunState, NotRead
<1> QED  BY <1>1 DEF Step

\* ... and what Go leaves: another place in the code.
LEMMA GoType ==
  ASSUME run \in [Servers -> RunState], NEW s \in Servers, NEW pc \in RunSteps, Go(s, pc)
  PROVE  /\ run' \in [Servers -> RunState] /\ boot' = boot /\ edit' = edit
         /\ run'[s] = [run[s] EXCEPT !.pc = pc, !.seen = NotRead]
         /\ \A t \in Servers \ {s} : run'[t] = run[t]
<1>1. [run[s] EXCEPT !.pc = pc] \in RunState
  BY DEF RunState
<1> QED  BY <1>1, StepType DEF Go

LEMMA BootStepType ==
  ASSUME boot \in [Servers -> BootState], NEW s \in Servers, NEW next \in BootState,
         BootStep(s, next)
  PROVE  /\ boot' \in [Servers -> BootState] /\ run' = run
         /\ boot'[s] = [next EXCEPT !.seen = NotRead]
         /\ \A t \in Servers \ {s} : boot'[t] = boot[t]
<1>1. [next EXCEPT !.seen = NotRead] \in BootState
  BY DEF BootState, NotRead
<1> QED  BY <1>1 DEF BootStep

LEMMA FaultType ==
  ASSUME used \in Bounds, Fault
  PROVE  used' \in Bounds
BY DraftAssumption DEF Bounds, Fault

\* A guarded write adds one to the version.
LEMMA WrittenType ==
  ASSUME post \in PostState, NEW new \in PostState, post' = Written(new)
  PROVE  /\ post' \in PostState /\ post'.version = post.version + 1
         /\ post'.status = new.status /\ post'.final = new.final
BY DEF Written, PostState

LEMMA PostTypes ==
  ASSUME post \in PostState
  PROVE  /\ \A st \in Statuses : [post EXCEPT !.status = st] \in PostState
         /\ \A st \in Statuses, d \in Directions \cup {NoDirection} :
              [post EXCEPT !.status = st, !.direction = d] \in PostState
         /\ \A st \in Statuses, m \in Manuscript :
              [post EXCEPT !.status = st, !.final = m] \in PostState
BY DEF PostState

\* The places of the code as one set.
LEMMA Steps ==
  RunSteps = {"idle", "hold", "unfail", "ask", "revive", "enter", "load", "write", "images",
              "pictures", "save", "landed", "inspect", "reenter", "discard", "fail",
              "failing", "release"}
BY DEF RunSteps, Requesting, Working

-----------------------------------------------------------------------------
\* What every run keeps: before a save an attempt is left, and a text that is on
\* its way to one was written for what the run was asked.
Able(r) ==
  /\ r.pc \in Requesting \cup {"hold", "load", "write", "images", "pictures", "save"} =>
       r.tries < SaveAttempts
  /\ r.pc \in {"images", "pictures", "save", "inspect", "reenter"} => r.body = r.wants

Sound == TypeOK /\ (\A s \in Servers : Able(run[s])) /\ WrittenAsAsked

LEMMA InitSound == Init => Sound
<1> SUFFICES ASSUME Init PROVE Sound
  OBVIOUS
<1>1. post \in PostState
  <2>1. 1 \in Directions
    BY DraftAssumption DEF Directions
  <2> QED  BY <2>1, NoneTypes DEF Init, PostState, Statuses
<1>2. used \in Bounds
  BY DraftAssumption DEF Init, Bounds
<1>3. \A s \in Servers : run[s] = IdleRun
  BY DEF Init
<1>4. \A s \in Servers : Able(run[s])
  BY <1>3 DEF Able, IdleRun, SaveAttempts, Requesting
<1>5. WrittenAsAsked
  BY DEF Init, WrittenAsAsked, NoManuscript
<1> QED  BY <1>1, <1>2, <1>4, <1>5, NoneTypes DEF Init, TypeOK, Sound

\* The run of s has moved, to a state it may be in; no other has.
Moved(s) ==
  /\ run' \in [Servers -> RunState] /\ boot' = boot /\ edit' = edit
  /\ Able(run'[s]) /\ \A t \in Servers \ {s} : run'[t] = run[t]

LEMMA IdleMoved ==
  ASSUME Sound, NEW s \in Servers, Step(s, IdleRun)
  PROVE  Moved(s)
<1>1. Able([IdleRun EXCEPT !.seen = NotRead])
  BY DEF Able, IdleRun, Requesting
<1> QED  BY <1>1, NoneTypes, StepType DEF Moved, Sound, TypeOK

LEMMA GoMoved ==
  ASSUME Sound, NEW s \in Servers, NEW pc \in RunSteps, Go(s, pc),
         pc \in Requesting \cup {"hold", "load", "write", "images", "pictures", "save"} =>
           run[s].tries < SaveAttempts,
         pc \in {"images", "pictures", "save", "inspect", "reenter"} => run[s].body = run[s].wants
  PROVE  Moved(s)
<1>1. /\ run' \in [Servers -> RunState] /\ boot' = boot /\ edit' = edit
      /\ run'[s] = [run[s] EXCEPT !.pc = pc, !.seen = NotRead]
      /\ \A t \in Servers \ {s} : run'[t] = run[t]
  BY GoType DEF Sound, TypeOK
<1>2. /\ run'[s].pc = pc /\ run'[s].tries = run[s].tries
      /\ run'[s].body = run[s].body /\ run'[s].wants = run[s].wants
  BY <1>1 DEF Sound, TypeOK, RunState
<1> QED  BY <1>1, <1>2 DEF Moved, Able

\* Step to a state given in full.
LEMMA StepMoved ==
  ASSUME Sound, NEW s \in Servers, NEW next \in RunState, Step(s, next), Able(next)
  PROVE  Moved(s)
<1>1. /\ run' \in [Servers -> RunState] /\ boot' = boot /\ edit' = edit
      /\ run'[s] = [next EXCEPT !.seen = NotRead]
      /\ \A t \in Servers \ {s} : run'[t] = run[t]
  BY StepType DEF Sound, TypeOK
<1>2. Able([next EXCEPT !.seen = NotRead])
  BY DEF Able, RunState
<1> QED  BY <1>1, <1>2 DEF Moved

LEMMA RunMoves ==
  ASSUME Sound, NEW s \in Servers, Run(s)
  PROVE  Moved(s)
<1> DEFINE Early == Requesting \cup {"hold", "load", "write", "images", "pictures", "save"}
<1>1. /\ run[s] \in RunState
      /\ run[s].pc \in Early => run[s].tries < SaveAttempts
      /\ run[s].pc \in {"images", "pictures", "save", "inspect", "reenter"} =>
           run[s].body = run[s].wants
  BY DEF Sound, Able, TypeOK
<1>2. CASE AskLease(s)
  <2>1. CASE Step(s, IdleRun)
    BY <2>1, IdleMoved
  <2>2. CASE Go(s, "revive")
    BY <1>1, <1>2, <2>2, GoMoved, Steps DEF AskLease, Requesting
  <2> QED  BY <1>2, <2>1, <2>2 DEF AskLease, Go
<1>3. CASE Read(s)
  <2>1. [run[s] EXCEPT !.seen = post.version] \in RunState
    BY <1>1 DEF RunState, Sound, TypeOK, PostState
  <2>2. Able([run[s] EXCEPT !.seen = post.version])
    BY <1>1 DEF Able, RunState
  <2> QED  BY <1>3, <2>1, <2>2 DEF Read, Moved, Sound, TypeOK
<1>4. CASE Refused(s)
  <2>1. CASE run[s].pc \in Requesting
    BY <1>4, <2>1, IdleMoved DEF Refused, AfterRefusal, Requesting
  <2>2. CASE run[s].pc \notin Requesting
    <3>1. (Go(s, "inspect") /\ run[s].pc = "save") \/ Go(s, "fail") \/ Go(s, "release")
      BY <1>4, <2>2 DEF Refused, AfterRefusal, Go
    <3> QED  BY <1>1, <3>1, GoMoved, Steps DEF Requesting
  <2> QED  BY <2>1, <2>2
<1>5. CASE Rewind(s)
  <2>1. Go(s, "enter") /\ run[s].pc \in Requesting
    BY <1>5 DEF Rewind, Apply, Go, Requesting
  <2> QED  BY <1>1, <2>1, GoMoved, Steps DEF Requesting
<1>6. CASE Enter(s)
  <2> DEFINE next == [run[s] EXCEPT !.pc = "hold",
                        !.wants = [direction |-> post.direction, style |-> run[s].style]]
  <2>1. [direction |-> post.direction, style |-> run[s].style] \in Text
    BY <1>1 DEF Text, RunState, Sound, TypeOK, PostState
  <2>2. next \in RunState /\ next.pc = "hold" /\ next.tries = run[s].tries
    BY <1>1, <2>1, Steps DEF RunState
  <2>3. Able(next)
    BY <1>1, <1>6, <2>2 DEF Able, Enter, Requesting
  <2>4. Step(s, next)
    BY <1>6 DEF Enter, Apply
  <2> HIDE DEF next
  <2> QED  BY <2>2, <2>3, <2>4, StepMoved
<1>7. CASE Hold(s)
  <2>1. CASE Step(s, IdleRun)
    BY <2>1, IdleMoved
  <2>2. CASE Go(s, "load")
    BY <1>1, <1>7, <2>2, GoMoved, Steps DEF Hold, Requesting
  <2> QED  BY <1>7, <2>1, <2>2 DEF Hold
<1>8. CASE LoadCheckpoint(s)
  <2>1. CASE Go(s, "write")
    BY <1>1, <1>8, <2>1, GoMoved, Steps DEF LoadCheckpoint, Requesting
  <2>2. CASE ckpt = run[s].wants /\ Step(s, [run[s] EXCEPT !.pc = "images", !.body = ckpt])
    <3>1. [run[s] EXCEPT !.pc = "images", !.body = ckpt] \in RunState
      BY <1>1, <2>2, Steps DEF RunState
    <3>2. Able([run[s] EXCEPT !.pc = "images", !.body = ckpt])
      BY <1>1, <1>8, <2>2 DEF Able, RunState, LoadCheckpoint
    <3> QED  BY <2>2, <3>1, <3>2, StepMoved
  <2> QED  BY <1>8, <2>1, <2>2 DEF LoadCheckpoint
<1>9. CASE WriteText(s)
  <2>1. CASE Go(s, "fail")
    BY <1>1, <2>1, GoMoved, Steps DEF Requesting
  <2>2. CASE Step(s, [run[s] EXCEPT !.pc = "images", !.body = run[s].wants])
    <3>1. [run[s] EXCEPT !.pc = "images", !.body = run[s].wants] \in RunState
      BY <1>1, Steps DEF RunState
    <3>2. Able([run[s] EXCEPT !.pc = "images", !.body = run[s].wants])
      BY <1>1, <1>9 DEF Able, RunState, WriteText
    <3> QED  BY <2>2, <3>1, <3>2, StepMoved
  <2> QED  BY <1>9, <2>1, <2>2 DEF WriteText
<1>10. CASE Illustrate(s) \/ StoreImages(s)
  <2>1. /\ run[s].pc \in {"images", "pictures"}
        /\ Go(s, "pictures") \/ Go(s, "fail") \/ Go(s, "save")
    BY <1>10 DEF Illustrate, StoreImages
  <2> QED  BY <1>1, <2>1, GoMoved, Steps DEF Requesting
<1>11. CASE Save(s)
  <2>1. Go(s, "discard")
    BY <1>11 DEF Save, Apply, Go
  <2> QED  BY <2>1, GoMoved, Steps DEF Requesting
<1>12. CASE SaveFault(s)
  <2> DEFINE tries == run[s].tries + 1
             pc == IF tries < SaveAttempts THEN "pictures" ELSE "landed"
             next == [run[s] EXCEPT !.tries = tries, !.pc = pc]
  <2>1. tries \in 0 .. SaveAttempts
    BY <1>1, <1>12 DEF SaveFault, RunState, SaveAttempts
  <2>2. next \in RunState
    BY <1>1, <2>1, Steps DEF RunState
  <2>3. Able(next)
    BY <1>1, <1>12 DEF Able, RunState, SaveFault, Requesting
  <2>4. Step(s, next)
    BY <1>12 DEF SaveFault
  <2> HIDE DEF next
  <2> QED  BY <2>2, <2>3, <2>4, StepMoved
<1>13. CASE Landed(s) \/ MarkFailed(s) \/ Discard(s)
  <2>1. \E pc \in {"discard", "fail", "failing", "release"} : Go(s, pc)
    BY <1>13 DEF Landed, MarkFailed, Discard
  <2> QED  BY <2>1, GoMoved, Steps DEF Requesting
<1>14. CASE Inspect(s)
  <2>1. run[s].pc = "inspect" /\ (Go(s, "reenter") \/ Go(s, "discard"))
    BY <1>14 DEF Inspect
  <2> QED  BY <1>1, <2>1, GoMoved, Steps DEF Requesting
<1>15. CASE Reenter(s)
  <2> DEFINE next == [run[s] EXCEPT !.pc = "pictures", !.tries = 0, !.again = TRUE]
  <2>1. next \in RunState
    <3>1. 0 \in 0 .. SaveAttempts /\ "pictures" \in RunSteps
      BY Steps DEF SaveAttempts
    <3> QED  BY <1>1, <3>1 DEF RunState
  <2>2. Able(next)
    BY <1>1, <1>15 DEF Able, RunState, Reenter, SaveAttempts
  <2>3. Step(s, next)
    BY <1>15 DEF Reenter, Apply
  <2> HIDE DEF next
  <2> QED  BY <2>1, <2>2, <2>3, StepMoved
<1>16. CASE Fail(s)
  <2>1. Go(s, "release")
    BY <1>16 DEF Fail, Apply, Go
  <2> QED  BY <2>1, GoMoved, Steps DEF Requesting
<1>17. CASE Release(s)
  BY <1>17, IdleMoved DEF Release
<1> QED  BY <1>2, <1>3, <1>4, <1>5, <1>6, <1>7, <1>8, <1>9, <1>10, <1>11, <1>12, <1>13,
            <1>14, <1>15, <1>16, <1>17 DEF Run

\* What a run writes: the post a version on, or nothing.
Wrote ==
  \/ post' = post
  \/ /\ post' \in PostState /\ post'.version = post.version + 1
     /\ post'.final.body = post'.final.wants

LEMMA ApplyWrites ==
  ASSUME Sound, NEW s \in Servers, NEW new \in PostState, NEW next, Apply(s, new, next),
         new.final.body = new.final.wants
  PROVE  Wrote
BY WrittenType DEF Apply, Wrote, Sound, TypeOK

LEMMA ResultType ==
  ASSUME Sound, NEW s \in Servers, run[s].pc = "save"
  PROVE  /\ WithResult(s) \in PostState
         /\ WithResult(s).status = "READY_TO_PUBLISH"
         /\ WithResult(s).final.run = run[s].id
         /\ WithResult(s).final.body = WithResult(s).final.wants
<1>1. /\ run[s].id \in Runs \cup {NoRun} /\ run[s].wants \in Text /\ run[s].body \in Text
      /\ run[s].body = run[s].wants
  BY DEF Sound, TypeOK, RunState, Able
<1>2. [run |-> run[s].id, wants |-> run[s].wants, body |-> run[s].body] \in Manuscript
  BY <1>1 DEF Manuscript
<1> DEFINE m == [run |-> run[s].id, wants |-> run[s].wants, body |-> run[s].body]
<1>3. WithResult(s) = [post EXCEPT !.status = "READY_TO_PUBLISH", !.final = m]
  BY DEF WithResult
<1>4. "READY_TO_PUBLISH" \in Statuses /\ post \in PostState
  BY DEF Statuses, Sound, TypeOK
<1>5. m.body = m.wants /\ m.run = run[s].id /\ m \in Manuscript
  BY <1>1, <1>2
<1> HIDE DEF m
<1> QED  BY <1>3, <1>4, <1>5, PostTypes DEF PostState

LEMMA RunWrites ==
  ASSUME Sound, NEW s \in Servers, Run(s)
  PROVE  /\ Wrote
         /\ images' \in Runs \cup {NoRun} /\ lease' \in Runs \cup {NoRun}
         /\ ckpt' \in Text /\ fresh' \in BOOLEAN /\ used' \in Bounds
<1>1. run[s] \in RunState /\ run[s].id \in Runs \cup {NoRun} /\ run[s].wants \in Text
  BY DEF Sound, TypeOK, RunState
<1>2. Wrote
  <2>1. CASE Rewind(s) \/ Enter(s) \/ Reenter(s) \/ Fail(s)
    <3>1. \E st \in Statuses : \E next : Apply(s, [post EXCEPT !.status = st], next)
      BY <2>1 DEF Rewind, Enter, Reenter, Fail, Statuses
    <3>2. \A st \in Statuses : [post EXCEPT !.status = st].final = post.final
      BY DEF Sound, TypeOK, PostState
    <3> QED  BY <3>1, <3>2, PostTypes, ApplyWrites DEF Sound, TypeOK, WrittenAsAsked
  <2>2. CASE Save(s) \/ SaveFault(s)
    <3>1. run[s].pc = "save"
      BY <2>2 DEF Save, SaveFault
    <3>2. post' = post \/ post' = Written(WithResult(s))
      BY <2>2 DEF Save, SaveFault, Apply
    <3> QED  BY <3>1, <3>2, ResultType, WrittenType DEF Wrote, Sound, TypeOK
  <2>3. CASE post' = post
    BY <2>3 DEF Wrote
  <2> QED  BY <2>1, <2>2, <2>3 DEF Run, AskLease, Read, Refused, Hold, LoadCheckpoint, WriteText,
              Illustrate, StoreImages, Landed, Inspect, Discard, MarkFailed, Release
<1>3. images' \in Runs \cup {NoRun}
  BY <1>1 DEF Run, AskLease, Read, Refused, Rewind, Enter, Hold, LoadCheckpoint, WriteText,
              Illustrate, StoreImages, Save, SaveFault, Landed, Inspect, Reenter, Discard,
              MarkFailed, Fail, Release, Sound, TypeOK
<1>4. lease' \in Runs \cup {NoRun}
  BY <1>1 DEF Run, AskLease, Read, Refused, Rewind, Enter, Hold, LoadCheckpoint, WriteText,
              Illustrate, StoreImages, Save, SaveFault, Landed, Inspect, Reenter, Discard,
              MarkFailed, Fail, Release, Sound, TypeOK
<1>5. ckpt' \in Text
  BY <1>1, NoneTypes DEF Run, AskLease, Read, Refused, Rewind, Enter, Hold, LoadCheckpoint,
              WriteText, Illustrate, StoreImages, Save, SaveFault, Landed, Inspect, Reenter,
              Discard, MarkFailed, Fail, Release, Sound, TypeOK
<1>6. fresh' \in BOOLEAN
  BY DEF Run, AskLease, Read, Refused, Rewind, Enter, Hold, LoadCheckpoint, WriteText,
              Illustrate, StoreImages, Save, SaveFault, Landed, Inspect, Reenter, Discard,
              MarkFailed, Fail, Release, Sound, TypeOK
<1>7. used' \in Bounds
  <2>1. used' = used \/ Fault
    BY DEF Run, AskLease, Read, Refused, Rewind, Enter, Hold, LoadCheckpoint, WriteText,
              Illustrate, StoreImages, Save, SaveFault, Landed, Inspect, Reenter, Discard,
              MarkFailed, Fail, Release
  <2> QED  BY <2>1, FaultType DEF Sound, TypeOK
<1> QED  BY <1>2, <1>3, <1>4, <1>5, <1>6, <1>7

LEMMA RunSound ==
  ASSUME Sound, NEW s \in Servers, Run(s)
  PROVE  Sound'
<1>1. post' \in PostState /\ WrittenAsAsked'
  BY RunWrites DEF Wrote, Sound, TypeOK, WrittenAsAsked
<1>2. Moved(s)
  BY RunMoves
<1> QED  BY <1>1, <1>2, RunWrites DEF Moved, Sound, TypeOK

LEMMA LifespanSound ==
  ASSUME Sound, NEW s \in Servers, Lifespan(s)
  PROVE  /\ Sound' /\ run' = run /\ images' = images
         /\ \A t \in Servers \ {s} : boot'[t] = boot[t]
<1>1. boot[s] \in BootState
  BY DEF Sound, TypeOK
<1>2. /\ boot' \in [Servers -> BootState] /\ (\A t \in Servers \ {s} : boot'[t] = boot[t])
      /\ UNCHANGED <<images, ckpt, lease, run, fresh, edit, used>>
  <2>1. Swept(s) \in BootState /\ [Swept(s) EXCEPT !.deferred = ~boot[s].late] \in BootState
    <3>1. [boot[s] EXCEPT !.pc = "stop"] \in BootState /\ boot[s].deferred \in BOOLEAN
      BY <1>1 DEF BootState, Booting
    <3>2. Swept(s) \in BootState
      BY <1>1, <3>1, NoneTypes DEF Swept
    <3> QED  BY <1>1, <3>2 DEF BootState
  <2>2. CASE Sweep(s)
    <3> DEFINE late == boot[s].pc = "up"
               from == [boot[s] EXCEPT !.late = late, !.deferred = FALSE]
    <3>1. /\ from \in BootState /\ [from EXCEPT !.pc = Age] \in BootState
          /\ [from EXCEPT !.pc = "stop"] \in BootState
      BY <1>1 DEF BootState, Booting, Age
    <3>2. \E next \in BootState : BootStep(s, next)
      BY <2>2, <3>1, NoneTypes DEF Sweep
    <3> QED  BY <3>2, BootStepType DEF Sound, TypeOK, BootStep
  <2>3. CASE SweepHeld(s)
    <3>1. [boot[s] EXCEPT !.pc = "recover"] \in BootState
      BY <1>1 DEF BootState, Booting
    <3>2. \/ BootStep(s, Swept(s))
          \/ BootStep(s, [Swept(s) EXCEPT !.deferred = ~boot[s].late])
          \/ BootStep(s, [boot[s] EXCEPT !.pc = "recover"])
      BY <2>3 DEF SweepHeld
    <3> QED  BY <2>1, <3>1, <3>2, BootStepType DEF Sound, TypeOK, BootStep
  <2>4. CASE BootRead(s)
    <3>1. [boot[s] EXCEPT !.seen = post.version] \in BootState
      BY <1>1 DEF BootState, Sound, TypeOK, PostState
    <3> QED  BY <2>4, <3>1 DEF BootRead, Sound, TypeOK
  <2>5. CASE BootWrite(s) \/ BootRefused(s) \/ StopOrphaned(s)
    <3>1. /\ [Up EXCEPT !.deferred = boot[s].deferred] \in BootState
          /\ [Up EXCEPT !.pc = "down"] \in BootState
          /\ [boot[s] EXCEPT !.pc = "stopping"] \in BootState
      BY <1>1, NoneTypes DEF BootState, Booting
    <3>2. \E next \in BootState : BootStep(s, next)
      BY <2>1, <2>5, <3>1 DEF BootWrite, BootRefused, StopOrphaned
    <3> QED  BY <3>2, BootStepType DEF Sound, TypeOK, BootStep
  <2> QED  BY <2>2, <2>3, <2>4, <2>5 DEF Lifespan
<1>3. post' \in PostState /\ post'.final = post.final
  <2>1. CASE BootWrite(s)
    <3>1. /\ BootWrites[boot[s].pc] \in Statuses
          /\ post' = Written([post EXCEPT !.status = BootWrites[boot[s].pc]])
      BY <2>1 DEF BootWrite, BootWrites, Statuses
    <3>2. [post EXCEPT !.status = BootWrites[boot[s].pc]].final = post.final
      BY DEF Sound, TypeOK, PostState
    <3> QED  BY <3>1, <3>2, PostTypes, WrittenType DEF Sound, TypeOK
  <2>2. CASE post' = post
    BY <2>2 DEF Sound, TypeOK
  <2> QED  BY <2>1, <2>2 DEF Lifespan, Sweep, SweepHeld, BootRead, BootRefused, StopOrphaned
<1> QED  BY <1>2, <1>3 DEF Sound, TypeOK, WrittenAsAsked

LEMMA StartSound ==
  ASSUME Sound, NEW s \in Servers, Start(s)
  PROVE  /\ Sound' /\ Route \in Requesting /\ run[s].pc = "idle" /\ Serving(s)
         /\ run'[s].pc = Route /\ run'[s].seen = NotRead /\ run'[s].id # NoRun
         /\ \A t \in Servers \ {s} : run'[t] = run[t]
         /\ post' = post /\ images' = images /\ boot' = boot
<1>1. PICK style \in Styles :
        Step(s, [IdleRun EXCEPT !.pc = Route, !.id = used.requests + 1, !.style = style])
  BY DEF Start
<1> DEFINE next == [IdleRun EXCEPT !.pc = Route, !.id = used.requests + 1, !.style = style]
<1>2. Route \in Requesting /\ Route \in RunSteps
  BY Steps DEF Start, Route, Requesting
<1>3. used.requests + 1 \in Runs /\ used' \in Bounds
  <2>1. used.requests \in Nat /\ used.requests < MaxRequests /\ used \in Bounds
    BY DraftAssumption DEF Start, Sound, TypeOK, Bounds
  <2>2. used.requests + 1 \in 1 .. MaxRequests /\ used.requests + 1 \in 0 .. MaxRequests
    BY <2>1, DraftAssumption
  <2> QED  BY <2>1, <2>2 DEF Start, Bounds, Runs
<1>4. next \in RunState
  BY <1>2, <1>3, NoneTypes DEF RunState
<1>5. next.pc = Route /\ next.tries = 0 /\ next.id # NoRun
  BY <1>3 DEF IdleRun, Runs, NoRun
<1>6. Able(next)
  BY <1>2, <1>5 DEF Able, Requesting, SaveAttempts
<1> HIDE DEF next
<1>7. Moved(s)
  BY <1>1, <1>4, <1>6, StepMoved DEF next
<1>8. Step(s, next)
  BY <1>1 DEF next
<1>9. run'[s] = [next EXCEPT !.seen = NotRead]
  BY <1>4, <1>8, StepType DEF Sound, TypeOK
<1>10. run'[s].pc = Route /\ run'[s].seen = NotRead /\ run'[s].id # NoRun
  BY <1>4, <1>5, <1>9 DEF RunState
<1> QED  BY <1>2, <1>3, <1>7, <1>10 DEF Start, Moved, Sound, TypeOK, WrittenAsAsked

LEMMA CrashSound ==
  ASSUME Sound, NEW s \in Servers, Crash(s)
  PROVE  /\ Sound' /\ run'[s] = IdleRun /\ boot'[s] = [Up EXCEPT !.pc = "down"]
         /\ \A t \in Servers \ {s} : run'[t] = run[t] /\ boot'[t] = boot[t]
         /\ post' = post /\ images' = images
<1>1. Able(IdleRun)
  BY DEF Able, IdleRun, Requesting
<1>2. used' \in Bounds
  BY DraftAssumption DEF Crash, Sound, TypeOK, Bounds
<1>3. [Up EXCEPT !.pc = "down"] \in BootState
  BY NoneTypes DEF Booting
<1> QED  BY <1>1, <1>2, <1>3, NoneTypes DEF Crash, Sound, TypeOK, WrittenAsAsked

\* Steps that touch neither the post nor a run.
LEMMA ClockSound ==
  ASSUME Sound, Stall \/ Expire \/ GraceEnds \/ (\E s \in Servers : Retake(s)) \/ UNCHANGED vars
  PROVE  Sound' /\ post' = post /\ images' = images /\ run' = run /\ boot' = boot
<1>1. CASE Stall
  <2>1. used' \in Bounds
    BY <1>1, DraftAssumption DEF Stall, Sound, TypeOK, Bounds
  <2> QED  BY <1>1, <2>1 DEF Stall, Sound, TypeOK, WrittenAsAsked
<1>2. CASE Expire \/ GraceEnds \/ UNCHANGED vars
  BY <1>2 DEF Expire, GraceEnds, vars, Sound, TypeOK, WrittenAsAsked
<1>3. ASSUME NEW s \in Servers, Retake(s) PROVE Sound' /\ UNCHANGED <<post, images, run, boot>>
  <2>1. run[s].id \in Runs \cup {NoRun}
    BY DEF Sound, TypeOK, RunState
  <2> QED  BY <1>3, <2>1 DEF Retake, Sound, TypeOK, WrittenAsAsked
<1> QED  BY <1>1, <1>2, <1>3 DEF Stall, Expire, GraceEnds, vars

LEMMA NextSound ==
  ASSUME Sound, [Next]_vars
  PROVE  Sound'
BY RunSound, LifespanSound, StartSound, CrashSound, ClockSound DEF Next

LEMMA EditSound ==
  ASSUME Sound, EditCheck \/ EditWrite \/ Redirect
  PROVE  Sound'
<1>1. CASE EditCheck
  <2>1. used' \in Bounds
    BY <1>1, DraftAssumption DEF EditCheck, Sound, TypeOK, Bounds
  <2> QED  BY <1>1, <2>1 DEF EditCheck, Sound, TypeOK, WrittenAsAsked
<1>2. CASE EditWrite \/ Redirect
  <2>1. used.edits + 1 \in Directions
    BY DraftAssumption DEF Directions, Sound, TypeOK, Bounds
  <2>2. PICK st \in Statuses, d \in Directions \cup {NoDirection} :
          post' = Written([post EXCEPT !.status = st, !.direction = d])
    BY <1>2, <2>1 DEF EditWrite, Redirect, Statuses
  <2>3. [post EXCEPT !.status = st, !.direction = d].final = post.final
    BY <2>2 DEF Sound, TypeOK, PostState
  <2>4. post' \in PostState /\ post'.final = post.final
    BY <2>2, <2>3, PostTypes, WrittenType DEF Sound, TypeOK
  <2> QED  BY <1>2, <2>4 DEF EditWrite, Redirect, Sound, TypeOK, WrittenAsAsked
<1> QED  BY <1>1, <1>2

\* Type invariant, also while the input is edited under the runs.
THEOREM DraftTypes == EditSpec => []TypeOK
<1>1. Init => Sound
  BY InitSound
<1>2. Sound /\ [EditNext]_vars => Sound'
  BY NextSound, EditSound DEF EditNext
<1>3. Sound => TypeOK
  BY DEF Sound
<1> QED  BY <1>1, <1>2, <1>3, PTL DEF EditSpec

\* For any servers, requests, styles, edits, faults and crashes: a manuscript that
\* is stored was written for the direction and the style its run was asked for,
\* whatever checkpoint it was resumed from.
THEOREM ResumedAsAsked == EditSpec => []WrittenAsAsked
<1>1. Init => Sound
  BY InitSound
<1>2. Sound /\ [EditNext]_vars => Sound'
  BY NextSound, EditSound DEF EditNext
<1>3. Sound => WrittenAsAsked
  BY DEF Sound
<1> QED  BY <1>1, <1>2, <1>3, PTL DEF EditSpec

-----------------------------------------------------------------------------
\* One server.  What a stored manuscript means for the post, for the run of the
\* server, and for its lifespan.
OneServer == \A s, t \in Servers : s = t

Done == post.final # NoManuscript
AfterDone == {"idle", "pictures", "save", "landed", "inspect", "fail", "discard", "release"}

PostWhole ==
  /\ Done <=> post.status = "READY_TO_PUBLISH"
  /\ post.status # "INPUT" /\ post.version # NotRead
  /\ Done => images = post.final.run

RunWhole(s) ==
  /\ run[s].pc # "idle" => Serving(s) /\ run[s].id # NoRun
  /\ run[s].seen <= post.version
  /\ Done => /\ run[s].pc \in AfterDone
             /\ run[s].pc \in {"pictures", "save"} => run[s].id = post.final.run
             /\ run[s].pc = "save" => run[s].seen = NotRead
  /\ run[s].pc = "save" => images = run[s].id
  /\ run[s].pc = "save" /\ run[s].seen \notin {NotRead, post.version} =>
       post.status # "GENERATING"
  /\ run[s].pc = "inspect" => Done \/ post.status \in {"FAILED", "INTENT_SELECTED"}
  /\ run[s].pc = "discard" => Done

BootWhole(s) ==
  /\ boot[s].pc \in {"down", "stop", "stopping"} => ~boot[s].late
  /\ boot[s].seen <= post.version
  /\ boot[s].pc = "stopping" => post.status = "GENERATING"
  /\ boot[s].pc = "recover" /\ boot[s].seen = post.version => post.status = "GENERATING"

Whole == Sound /\ PostWhole /\ \A s \in Servers : RunWhole(s) /\ BootWhole(s)

\* The run that Step leaves, whatever the step changes of it.
LEMMA Stepped ==
  ASSUME Whole, NEW s \in Servers, NEW pc, NEW text, NEW tries, NEW again,
         \/ Step(s, [run[s] EXCEPT !.pc = pc])
         \/ Step(s, [run[s] EXCEPT !.pc = pc, !.wants = text])
         \/ Step(s, [run[s] EXCEPT !.pc = pc, !.body = text])
         \/ Step(s, [run[s] EXCEPT !.pc = pc, !.tries = tries, !.again = again])
  PROVE  run'[s].pc = pc /\ run'[s].id = run[s].id /\ run'[s].seen = NotRead
<1>1. run[s] \in RunState /\ DOMAIN run = Servers
  BY DEF Whole, Sound, TypeOK
<1>2. CASE Step(s, [run[s] EXCEPT !.pc = pc])
  BY <1>1, <1>2 DEF Step, RunState
<1>3. CASE Step(s, [run[s] EXCEPT !.pc = pc, !.wants = text])
  BY <1>1, <1>3 DEF Step, RunState
<1>4. CASE Step(s, [run[s] EXCEPT !.pc = pc, !.body = text])
  BY <1>1, <1>4 DEF Step, RunState
<1>5. CASE Step(s, [run[s] EXCEPT !.pc = pc, !.tries = tries, !.again = again])
  BY <1>1, <1>5 DEF Step, RunState
<1> QED  BY <1>2, <1>3, <1>4, <1>5

\* The run goes to pc, and writes nothing.
LEMMA GoWhole ==
  ASSUME Whole, NEW s \in Servers, NEW pc \in RunSteps \ {"idle"}, Go(s, pc), post' = post,
         run[s].pc # "idle",
         images' = images \/ (~Done /\ pc = "save" /\ images' = run[s].id),
         Done => pc \in AfterDone,
         Done /\ pc \in {"pictures", "save"} => run[s].id = post.final.run,
         pc = "save" => images' = run[s].id,
         pc = "inspect" => Done \/ post.status \in {"FAILED", "INTENT_SELECTED"},
         pc = "discard" => Done
  PROVE  PostWhole' /\ RunWhole(s)' /\ BootWhole(s)'
<1>1. /\ run'[s].pc = pc /\ run'[s].id = run[s].id /\ run'[s].seen = NotRead /\ boot' = boot
  <2>1. run[s] \in RunState /\ boot' = boot /\ run'[s] = [run[s] EXCEPT !.pc = pc, !.seen = NotRead]
    BY GoType DEF Whole, Sound, TypeOK
  <2> QED  BY <2>1 DEF RunState
<1>2. NotRead <= post.version
  BY DEF Whole, Sound, TypeOK, PostState, NotRead
<1> QED  BY <1>1, <1>2 DEF Whole, PostWhole, RunWhole, BootWhole, Done, Serving

\* The run is over.
LEMMA IdleWhole ==
  ASSUME Whole, NEW s \in Servers, Step(s, IdleRun), post' = post, images' = images
  PROVE  PostWhole' /\ RunWhole(s)' /\ BootWhole(s)'
<1>1. run'[s].pc = "idle" /\ run'[s].seen = NotRead /\ boot' = boot
  BY NoneTypes, StepType DEF Whole, Sound, TypeOK, IdleRun
<1>2. NotRead <= post.version
  BY DEF Whole, Sound, TypeOK, PostState, NotRead
<1> QED  BY <1>1, <1>2 DEF Whole, PostWhole, RunWhole, BootWhole, Done, Serving, AfterDone

\* The run writes the post while there is no manuscript, and goes on to pc.
LEMMA WriteWhole ==
  ASSUME Whole, NEW s \in Servers, NEW st \in Statuses \ {"INPUT", "READY_TO_PUBLISH"}, ~Done,
         run[s].pc # "idle", post' = Written([post EXCEPT !.status = st]), images' = images,
         boot' = boot, run'[s].id = run[s].id, run'[s].seen = NotRead,
         run'[s].pc \in {"enter", "hold", "pictures", "release"}
  PROVE  PostWhole' /\ RunWhole(s)' /\ BootWhole(s)'
<1>1. post.version \in Nat /\ boot[s].seen \in Nat
  BY DEF Whole, Sound, TypeOK, PostState, BootState
<1>2. post'.version = post.version + 1 /\ post'.status = st /\ post'.final = post.final
  <2>1. [post EXCEPT !.status = st].status = st /\ [post EXCEPT !.status = st].final = post.final
    BY DEF Whole, Sound, TypeOK, PostState
  <2> QED  BY <2>1, PostTypes, WrittenType DEF Whole, Sound, TypeOK
<1> QED  BY <1>1, <1>2
         DEF Whole, PostWhole, RunWhole, BootWhole, Done, Serving, NotRead

\* The run stores its manuscript, the first.
LEMMA StoreWhole ==
  ASSUME Whole, NEW s \in Servers, run[s].pc = "save", run[s].seen = post.version,
         post' = Written(WithResult(s)), images' = images,
         boot' = boot, run'[s].id = run[s].id, run'[s].seen = NotRead,
         run'[s].pc \in {"pictures", "landed", "discard"}
  PROVE  PostWhole' /\ RunWhole(s)' /\ BootWhole(s)'
<1>1. post.version \in Nat /\ boot[s].seen \in Nat
  BY DEF Whole, Sound, TypeOK, PostState, BootState
<1>2. /\ post'.version = post.version + 1 /\ post'.status = "READY_TO_PUBLISH"
      /\ post'.final.run = run[s].id
  BY ResultType, WrittenType DEF Whole, Sound, TypeOK
<1>3. post'.final # NoManuscript
  BY <1>2 DEF Whole, RunWhole, NoManuscript
<1> QED  BY <1>1, <1>2, <1>3
         DEF Whole, PostWhole, RunWhole, BootWhole, Done, Serving, NotRead, AfterDone

\* No second manuscript: a run that could store one meets the first.
LEMMA SavesOnce ==
  ASSUME Whole, NEW s \in Servers, run[s].pc = "save", run[s].seen = post.version
  PROVE  ~Done
BY DEF Whole, PostWhole, RunWhole

LEMMA RunKeepsWhole ==
  ASSUME Whole, NEW s \in Servers, Run(s)
  PROVE  PostWhole' /\ RunWhole(s)' /\ BootWhole(s)'
<1> DEFINE Goal == PostWhole' /\ RunWhole(s)' /\ BootWhole(s)'
<1>1. /\ run[s] \in RunState /\ run[s].seen \in Nat /\ post.version \in Nat
      /\ PostWhole /\ RunWhole(s) /\ BootWhole(s)
  BY DEF Whole, Sound, TypeOK, RunState, PostState
<1>2. CASE AskLease(s)
  <2>1. CASE Step(s, IdleRun)
    BY <1>2, <2>1, IdleWhole DEF AskLease
  <2>2. CASE Go(s, "revive")
    BY <1>1, <1>2, <2>2, GoWhole, Steps DEF AskLease, RunWhole, AfterDone
  <2> QED  BY <1>2, <2>1, <2>2 DEF AskLease, Go
<1>3. CASE Read(s)
  <2>1. /\ run'[s].pc = run[s].pc /\ run'[s].id = run[s].id /\ run'[s].seen = post.version
    BY <1>1, <1>3 DEF Read, Whole, Sound, TypeOK, RunState
  <2>2. ~(Done /\ run[s].pc = "save")
    BY <1>1, <1>3 DEF Read, Permitted, AllowedTransitions, PostWhole
  <2> QED  BY <1>1, <1>3, <2>1, <2>2 DEF Read, PostWhole, RunWhole, BootWhole, Done, Serving
<1>4. CASE Refused(s)
  <2>1. CASE run[s].pc \in Requesting
    BY <1>4, <2>1, IdleWhole DEF Refused, AfterRefusal, Requesting
  <2>2. CASE run[s].pc = "save" /\ ~run[s].again
    <3>1. Go(s, "inspect")
      BY <1>4, <2>2 DEF Refused, AfterRefusal, Go, Requesting
    <3>2. post.status # "GENERATING"
      BY <1>1, <1>4, <2>2 DEF Refused, Permitted, AllowedTransitions, RunWhole
    <3>3. Done \/ post.status \in {"FAILED", "INTENT_SELECTED"}
      BY <1>1, <3>2 DEF PostWhole, Whole, Sound, TypeOK, PostState, Statuses
    <3> QED  BY <1>4, <2>2, <3>1, <3>3, GoWhole, Steps DEF Refused, AfterDone
  <2>3. CASE run[s].pc \notin Requesting /\ ~(run[s].pc = "save" /\ ~run[s].again)
    <3>1. Go(s, "fail") \/ Go(s, "release")
      BY <1>4, <2>3 DEF Refused, AfterRefusal, Go
    <3>2. run[s].pc # "idle"
      BY <1>4 DEF Refused, Reading
    <3> QED  BY <1>4, <3>1, <3>2, GoWhole, Steps DEF Refused, AfterDone
  <2> QED  BY <2>1, <2>2, <2>3
<1>5. CASE Rewind(s) \/ Enter(s) \/ Reenter(s) \/ Fail(s)
  <2>1. ~Done /\ run[s].pc # "idle"
    BY <1>1, <1>5 DEF Rewind, Enter, Reenter, Fail, RunWhole, AfterDone
  <2>2. PICK st \in Statuses \ {"INPUT", "READY_TO_PUBLISH"} :
          post' = Written([post EXCEPT !.status = st])
    BY <1>5 DEF Rewind, Enter, Reenter, Fail, Apply, Statuses
  <2>3. /\ images' = images /\ boot' = boot /\ run'[s].id = run[s].id
        /\ run'[s].seen = NotRead /\ run'[s].pc \in {"enter", "hold", "pictures", "release"}
    <3>1. \/ Step(s, [run[s] EXCEPT !.pc = "enter"])
          \/ Step(s, [run[s] EXCEPT !.pc = "hold", !.wants = [direction |-> post.direction,
                                                              style |-> run[s].style]])
          \/ Step(s, [run[s] EXCEPT !.pc = "pictures", !.tries = 0, !.again = TRUE])
          \/ Step(s, [run[s] EXCEPT !.pc = "release"])
      BY <1>5 DEF Rewind, Enter, Reenter, Fail, Apply
    <3>2. /\ run'[s].id = run[s].id /\ run'[s].seen = NotRead
          /\ run'[s].pc \in {"enter", "hold", "pictures", "release"}
      <4>1. CASE Step(s, [run[s] EXCEPT !.pc = "enter"]) \/ Step(s, [run[s] EXCEPT !.pc = "release"])
        BY <4>1, Stepped
      <4>2. ASSUME NEW text, Step(s, [run[s] EXCEPT !.pc = "hold", !.wants = text])
            PROVE  run'[s].pc = "hold" /\ run'[s].id = run[s].id /\ run'[s].seen = NotRead
        BY <4>2, Stepped
      <4>3. CASE Step(s, [run[s] EXCEPT !.pc = "pictures", !.tries = 0, !.again = TRUE])
        BY <4>3, Stepped
      <4> QED  BY <3>1, <4>1, <4>2, <4>3
    <3> QED  BY <1>5, <3>2 DEF Rewind, Enter, Reenter, Fail, Apply, Step
  <2> QED  BY <2>1, <2>2, <2>3, WriteWhole
<1>6. CASE Hold(s)
  <2>1. CASE Step(s, IdleRun)
    BY <1>6, <2>1, IdleWhole DEF Hold
  <2>2. CASE Go(s, "load")
    BY <1>1, <1>6, <2>2, GoWhole, Steps DEF Hold, RunWhole, AfterDone
  <2> QED  BY <1>6, <2>1, <2>2 DEF Hold
<1>7. CASE LoadCheckpoint(s) \/ WriteText(s)
  <2>1. ~Done /\ run[s].pc # "idle"
    BY <1>1, <1>7 DEF LoadCheckpoint, WriteText, RunWhole, AfterDone
  <2>2. /\ run'[s].pc \in {"write", "images", "fail"} /\ run'[s].id = run[s].id
        /\ run'[s].seen = NotRead /\ boot' = boot /\ post' = post /\ images' = images
    <3>1. \/ Step(s, [run[s] EXCEPT !.pc = "write"])
          \/ Step(s, [run[s] EXCEPT !.pc = "fail"])
          \/ \E text : Step(s, [run[s] EXCEPT !.pc = "images", !.body = text])
      BY <1>7 DEF LoadCheckpoint, WriteText, Go
    <3>2. run'[s].pc \in {"write", "images", "fail"} /\ run'[s].id = run[s].id
          /\ run'[s].seen = NotRead
      BY <1>1, <3>1, Stepped
    <3> QED  BY <1>7, <3>2 DEF LoadCheckpoint, WriteText, Go, Step
  <2> QED  BY <1>1, <2>1, <2>2 DEF PostWhole, RunWhole, BootWhole, Done, Serving, NotRead
<1>8. CASE Illustrate(s)
  <2>1. ~Done /\ run[s].pc # "idle"
    BY <1>1, <1>8 DEF Illustrate, RunWhole, AfterDone
  <2> QED  BY <1>8, <2>1, GoWhole, Steps DEF Illustrate
<1>9. CASE StoreImages(s)
  <2>1. Done => images = run[s].id
    BY <1>1, <1>9 DEF StoreImages, RunWhole, PostWhole
  <2> QED  BY <1>1, <1>9, <2>1, GoWhole, Steps DEF StoreImages, RunWhole, AfterDone
<1>10. CASE Save(s)
  <2>1. Go(s, "discard")
    BY <1>10 DEF Save, Apply, Go
  <2>2. /\ run'[s].id = run[s].id /\ run'[s].seen = NotRead /\ run'[s].pc = "discard"
        /\ boot' = boot
    BY <1>1, <2>1, Stepped DEF Go, Step
  <2> QED  BY <1>10, <2>2, StoreWhole DEF Save, Apply
<1>11. CASE SaveFault(s)
  <2>1. /\ run'[s].id = run[s].id /\ run'[s].seen = NotRead
        /\ run'[s].pc \in {"pictures", "landed"} /\ boot' = boot
    BY <1>1, <1>11 DEF SaveFault, Step, Whole, Sound, TypeOK, RunState
  <2>2. CASE post' = post
    BY <1>1, <1>11, <2>1, <2>2
       DEF SaveFault, PostWhole, RunWhole, BootWhole, Done, Serving, AfterDone, NotRead
  <2>3. CASE run[s].seen = post.version /\ post' = Written(WithResult(s))
    BY <1>11, <2>1, <2>3, StoreWhole DEF SaveFault
  <2> QED  BY <1>11, <2>2, <2>3 DEF SaveFault
<1>12. CASE Landed(s)
  <2>1. Go(s, "fail") \/ (Done /\ Go(s, "discard"))
    BY <1>12 DEF Landed, Done
  <2> QED  BY <1>12, <2>1, GoWhole, Steps DEF Landed, AfterDone
<1>13. CASE Inspect(s)
  <2>1. (~Done /\ Go(s, "reenter")) \/ (Done /\ Go(s, "discard"))
    BY <1>1, <1>13 DEF Inspect, Done, RunWhole
  <2> QED  BY <1>13, <2>1, GoWhole, Steps DEF Inspect, AfterDone
<1>14. CASE Discard(s)
  BY <1>14, GoWhole, Steps DEF Discard, AfterDone
<1>15. CASE MarkFailed(s)
  <2>1. (post.status = "GENERATING" /\ Go(s, "failing")) \/ Go(s, "release")
    BY <1>15 DEF MarkFailed
  <2> QED  BY <1>1, <1>15, <2>1, GoWhole, Steps DEF MarkFailed, PostWhole, AfterDone
<1>16. CASE Release(s)
  BY <1>16, IdleWhole DEF Release
<1> QED  BY <1>2, <1>3, <1>4, <1>5, <1>6, <1>7, <1>8, <1>9, <1>10, <1>11, <1>12, <1>13, <1>14,
            <1>15, <1>16 DEF Run

LEMMA LifespanKeepsWhole ==
  ASSUME Whole, NEW s \in Servers, Lifespan(s)
  PROVE  PostWhole' /\ RunWhole(s)' /\ BootWhole(s)'
<1>1. /\ boot[s] \in BootState /\ boot[s].seen \in Nat /\ post.version \in Nat
      /\ run[s].seen \in Nat /\ NotRead <= post.version
      /\ PostWhole /\ RunWhole(s) /\ BootWhole(s) /\ run' = run /\ images' = images
  BY LifespanSound DEF Whole, Sound, TypeOK, RunState, BootState, PostState, NotRead
\* A step of the lifespan that leaves the post alone.
<1>2. ASSUME post' = post, boot'[s].seen \in {NotRead, post.version},
             Serving(s) => Serving(s)',
             boot'[s].pc \in {"down", "stop", "stopping"} => ~boot'[s].late,
             boot'[s].pc = "stopping" => post.status = "GENERATING",
             boot'[s].pc = "recover" /\ boot'[s].seen = post.version => post.status = "GENERATING"
      PROVE  PostWhole' /\ RunWhole(s)' /\ BootWhole(s)'
  BY <1>1, <1>2 DEF PostWhole, RunWhole, BootWhole, Done
\* What BootStep leaves.
<1>3. ASSUME NEW next \in BootState, BootStep(s, next)
      PROVE  boot'[s].pc = next.pc /\ boot'[s].late = next.late /\ boot'[s].seen = NotRead
  <2>1. boot'[s] = [next EXCEPT !.seen = NotRead]
    BY <1>3, BootStepType DEF Whole, Sound, TypeOK
  <2> QED  BY <2>1 DEF BootState
<1>4. /\ Swept(s) \in BootState /\ [Swept(s) EXCEPT !.deferred = ~boot[s].late] \in BootState
      /\ \/ boot[s].late /\ Swept(s).pc = "up"
         \/ ~boot[s].late /\ Swept(s).pc = "stop" /\ ~Swept(s).late
  <2>1. CASE boot[s].late
    <3>1. Swept(s) = [Up EXCEPT !.deferred = boot[s].deferred] /\ boot[s].deferred \in BOOLEAN
      BY <1>1, <2>1 DEF Swept, BootState
    <3>2. Swept(s) \in BootState /\ Swept(s).pc = "up"
      BY <3>1, NoneTypes DEF Up
    <3> QED  BY <2>1, <3>2 DEF BootState
  <2>2. CASE ~boot[s].late
    <3>1. Swept(s) = [boot[s] EXCEPT !.pc = "stop"]
      BY <2>2 DEF Swept
    <3>2. Swept(s) \in BootState /\ Swept(s).pc = "stop" /\ ~Swept(s).late
      BY <1>1, <2>2, <3>1 DEF BootState, Booting
    <3> QED  BY <2>2, <3>2 DEF BootState
  <2> QED  BY <1>1, <2>1, <2>2 DEF BootState
<1>5. CASE Sweep(s)
  <2> DEFINE late == boot[s].pc = "up"
             from == [boot[s] EXCEPT !.late = late, !.deferred = FALSE]
  <2>1. /\ from \in BootState /\ [from EXCEPT !.pc = Age] \in BootState
        /\ [from EXCEPT !.pc = "stop"] \in BootState
    BY <1>1 DEF BootState, Booting, Age
  <2>2. \/ BootStep(s, [from EXCEPT !.pc = Age])
        \/ late /\ BootStep(s, Up)
        \/ ~late /\ BootStep(s, [from EXCEPT !.pc = "stop"])
    BY <1>5 DEF Sweep
  <2>3. [from EXCEPT !.pc = Age].late = late /\ [from EXCEPT !.pc = Age].pc \in {"young", "old"}
    BY <1>1 DEF BootState, Age
  <2>4. [from EXCEPT !.pc = "stop"].late = late /\ [from EXCEPT !.pc = "stop"].pc = "stop"
    BY <1>1 DEF BootState
  <2>5. Up.pc = "up" /\ Up \in BootState /\ (~late => ~boot[s].late)
    BY <1>1, <1>5, NoneTypes DEF Up, Sweep, BootWhole
  <2>6. /\ boot'[s].seen = NotRead
        /\ \/ boot'[s].pc \in {"young", "old"} /\ boot'[s].late = late
           \/ late /\ boot'[s].pc = "up"
           \/ ~late /\ boot'[s].pc = "stop" /\ ~boot'[s].late
    BY <1>3, <2>1, <2>2, <2>3, <2>4, <2>5
  <2> QED  BY <1>1, <1>2, <1>5, <2>5, <2>6 DEF Sweep, Serving, PostWhole
<1>6. CASE SweepHeld(s)
  <2>1. \/ BootStep(s, Swept(s))
        \/ BootStep(s, [Swept(s) EXCEPT !.deferred = ~boot[s].late])
        \/ BootStep(s, [boot[s] EXCEPT !.pc = "recover"])
    BY <1>6 DEF SweepHeld
  <2>2. /\ [boot[s] EXCEPT !.pc = "recover"] \in BootState
        /\ [boot[s] EXCEPT !.pc = "recover"].pc = "recover"
        /\ [boot[s] EXCEPT !.pc = "recover"].late = boot[s].late
    BY <1>1 DEF BootState, Booting
  <2>3. /\ [Swept(s) EXCEPT !.deferred = ~boot[s].late].pc = Swept(s).pc
        /\ [Swept(s) EXCEPT !.deferred = ~boot[s].late].late = Swept(s).late
    BY <1>4 DEF BootState
  <2>4. /\ boot'[s].seen = NotRead
        /\ \/ boot'[s].pc = Swept(s).pc /\ boot'[s].late = Swept(s).late
           \/ boot'[s].pc = "recover" /\ boot'[s].late = boot[s].late
    BY <1>3, <1>4, <2>1, <2>2, <2>3
  <2> QED  BY <1>1, <1>2, <1>4, <1>6, <2>4 DEF SweepHeld, Serving, PostWhole
<1>7. CASE BootRead(s)
  <2>1. boot'[s].pc = boot[s].pc /\ boot'[s].late = boot[s].late /\ boot'[s].seen = post.version
    BY <1>1, <1>7 DEF BootRead, Whole, Sound, TypeOK, BootState
  <2>2. boot[s].pc = "recover" => post.status = "GENERATING"
    BY <1>1, <1>7 DEF BootRead, BootWrites, AllowedTransitions, PostWhole, Whole, Sound, TypeOK,
                      PostState, Statuses
  <2> QED  BY <1>1, <1>2, <1>7, <2>1, <2>2 DEF BootRead, Serving, BootWhole
<1>8. CASE BootWrite(s)
  <2>1. post.status = "GENERATING" /\ ~Done
    BY <1>1, <1>8 DEF BootWrite, BootWrites, BootWhole, PostWhole
  <2>2. PICK st \in {"INTENT_SELECTED", "FAILED"} :
          post' = Written([post EXCEPT !.status = st])
    BY <1>8 DEF BootWrite, BootWrites
  <2>3. post'.version = post.version + 1 /\ post'.status = st /\ post'.final = post.final
    <3>1. [post EXCEPT !.status = st].status = st /\ [post EXCEPT !.status = st].final = post.final
      BY DEF Whole, Sound, TypeOK, PostState
    <3>2. st \in Statuses
      BY DEF Statuses
    <3> QED  BY <2>2, <3>1, <3>2, PostTypes, WrittenType DEF Whole, Sound, TypeOK
  <2>4. /\ [Up EXCEPT !.deferred = boot[s].deferred] \in BootState
        /\ [Up EXCEPT !.deferred = boot[s].deferred].pc = "up"
    BY <1>1, NoneTypes DEF Up, BootState
  <2>5. /\ boot'[s].seen = NotRead
        /\ \/ boot'[s].pc = Swept(s).pc /\ boot'[s].late = Swept(s).late
           \/ boot'[s].pc = "up"
    BY <1>3, <1>4, <1>8, <2>4 DEF BootWrite
  <2>6. Serving(s) => Serving(s)'
    BY <1>1, <1>4, <1>8, <2>5 DEF Serving, BootWrite, BootWrites, BootWhole
  <2> QED  BY <1>1, <1>4, <2>1, <2>2, <2>3, <2>5, <2>6
           DEF PostWhole, RunWhole, BootWhole, Done, NotRead
<1>9. CASE BootRefused(s)
  <2>1. [Up EXCEPT !.pc = "down"] \in BootState /\ [Up EXCEPT !.pc = "down"].pc = "down"
        /\ ~[Up EXCEPT !.pc = "down"].late
    BY NoneTypes DEF Up, Booting
  <2>2. /\ boot'[s].seen = NotRead
        /\ \/ boot[s].pc = "recover" /\ boot'[s].pc = Swept(s).pc /\ boot'[s].late = Swept(s).late
           \/ boot[s].pc = "stopping" /\ boot'[s].pc = "down" /\ ~boot'[s].late
    BY <1>3, <1>4, <1>9, <2>1 DEF BootRefused, BootWrites
  <2> QED  BY <1>1, <1>2, <1>4, <1>9, <2>2 DEF BootRefused, Serving, BootWhole, PostWhole
<1>10. CASE StopOrphaned(s)
  <2>1. /\ [Up EXCEPT !.deferred = boot[s].deferred] \in BootState
        /\ [Up EXCEPT !.deferred = boot[s].deferred].pc = "up"
    BY <1>1, NoneTypes DEF Up, BootState
  <2>2. /\ [boot[s] EXCEPT !.pc = "stopping"] \in BootState
        /\ [boot[s] EXCEPT !.pc = "stopping"].pc = "stopping"
        /\ [boot[s] EXCEPT !.pc = "stopping"].late = boot[s].late
    BY <1>1 DEF BootState, Booting
  <2>3. /\ boot'[s].seen = NotRead
        /\ \/ post.status = "GENERATING" /\ boot'[s].pc = "stopping" /\ boot'[s].late = boot[s].late
           \/ boot'[s].pc = "up"
    BY <1>3, <1>10, <2>1, <2>2 DEF StopOrphaned
  <2> QED  BY <1>1, <1>2, <1>10, <2>3 DEF StopOrphaned, Serving, BootWhole, PostWhole
<1> QED  BY <1>5, <1>6, <1>7, <1>8, <1>9, <1>10 DEF Lifespan

LEMMA InitWhole == Init => Whole
<1> SUFFICES ASSUME Init PROVE Whole
  OBVIOUS
<1>1. PostWhole
  BY DEF Init, PostWhole, Done, NotRead
<1>2. ASSUME NEW s \in Servers PROVE RunWhole(s) /\ BootWhole(s)
  <2>1. run[s].pc = "idle" /\ run[s].seen = 0 /\ boot[s].pc = "up" /\ boot[s].seen = 0
    BY DEF Init, IdleRun, Up, NotRead
  <2> QED  BY <2>1 DEF Init, RunWhole, BootWhole, Done, AfterDone
<1> QED  BY <1>1, <1>2, InitSound DEF Whole

LEMMA WholeNext ==
  ASSUME OneServer, Whole, [Next]_vars
  PROVE  Whole'
<1>1. Sound' /\ post.version \in Nat
  BY NextSound DEF Whole, Sound, TypeOK, PostState
<1>2. ASSUME NEW s \in Servers, PostWhole' /\ RunWhole(s)' /\ BootWhole(s)'
      PROVE  Whole'
  <2>1. Servers = {s}
    BY DEF OneServer
  <2> QED  BY <1>1, <1>2, <2>1 DEF Whole
<1>3. ASSUME NEW s \in Servers, Run(s) PROVE Whole'
  BY <1>2, <1>3, RunKeepsWhole
<1>4. ASSUME NEW s \in Servers, Lifespan(s) PROVE Whole'
  BY <1>2, <1>4, LifespanKeepsWhole
<1>5. ASSUME NEW s \in Servers, Start(s) PROVE Whole'
  <2>1. /\ Route \in Requesting /\ Serving(s) /\ run'[s].pc = Route /\ run'[s].seen = NotRead
        /\ run'[s].id # NoRun /\ post' = post /\ images' = images /\ boot' = boot
    BY <1>5, StartSound DEF Whole
  <2>2. ~Done
    BY <1>5 DEF Start, Route, Done, PostWhole, Whole
  <2>3. PostWhole' /\ BootWhole(s)'
    BY <2>1 DEF Whole, PostWhole, BootWhole, Done
  <2>4. RunWhole(s)'
    BY <1>1, <2>1, <2>2 DEF RunWhole, Done, Serving, Requesting, NotRead
  <2> QED  BY <1>2, <2>3, <2>4
<1>6. ASSUME NEW s \in Servers, Crash(s) PROVE Whole'
  <2>1. /\ run'[s].pc = "idle" /\ run'[s].seen = NotRead /\ post' = post /\ images' = images
        /\ boot'[s].pc = "down" /\ ~boot'[s].late /\ boot'[s].seen = NotRead
    BY <1>6, CrashSound DEF Whole, IdleRun, Up
  <2> QED  BY <1>1, <1>2, <2>1 DEF Whole, PostWhole, RunWhole, BootWhole, Done, AfterDone, NotRead
<1>7. CASE Stall \/ Expire \/ GraceEnds \/ (\E s \in Servers : Retake(s)) \/ UNCHANGED vars
  <2>1. post' = post /\ images' = images /\ run' = run /\ boot' = boot
    BY <1>7, ClockSound DEF Whole
  <2> QED  BY <1>1, <2>1 DEF Whole, PostWhole, RunWhole, BootWhole, Done, Serving
<1> QED  BY <1>3, <1>4, <1>5, <1>6, <1>7 DEF Next

\* With one server, however often it crashes, its database fails, its heartbeat
\* stalls and its user asks again: a post with a manuscript is ready to publish,
\* with the pictures of that manuscript.
THEOREM FinishedStays == ASSUME OneServer PROVE Spec => []FinishedIsWhole
<1>1. Init => Whole
  BY InitWhole
<1>2. Whole /\ [Next]_vars => Whole'
  BY WholeNext
<1>3. Whole => FinishedIsWhole
  BY DEF Whole, PostWhole, Done, FinishedIsWhole
<1> QED  BY <1>1, <1>2, <1>3, PTL DEF Spec

\* Likewise, a run gives its checkpoint up only once there is a manuscript.
THEOREM NothingDropped == ASSUME OneServer PROVE Spec => []FinishedIsNotDropped
<1>1. Init => Whole
  BY InitWhole
<1>2. Whole /\ [Next]_vars => Whole'
  BY WholeNext
<1>3. Whole => FinishedIsNotDropped
  BY DEF Whole, RunWhole, Done, FinishedIsNotDropped
<1> QED  BY <1>1, <1>2, <1>3, PTL DEF Spec

\* Likewise, a stored manuscript is never written over by another run.
THEOREM WrittenOnce == ASSUME OneServer PROVE Spec => NotStoredTwice
<1>1. Init => Whole
  BY InitWhole
<1>2. Whole /\ [Next]_vars => Whole'
  BY WholeNext
<1>3. Whole /\ [Next]_vars => [post.final # NoManuscript => post'.final = post.final]_vars
  <2> SUFFICES ASSUME Whole, Next, Done PROVE post'.final = post.final
    BY DEF vars, Done
  <2>1. ASSUME NEW s \in Servers, Run(s) PROVE post'.final = post.final
    <3>1. CASE Rewind(s) \/ Enter(s) \/ Reenter(s) \/ Fail(s)
      BY <3>1 DEF Rewind, Enter, Reenter, Fail, Whole, RunWhole, AfterDone
    <3>2. CASE Save(s) \/ SaveFault(s)
      BY <3>2, SavesOnce DEF Save, SaveFault, Apply
    <3>3. CASE post' = post
      BY <3>3
    <3> QED  BY <2>1, <3>1, <3>2, <3>3 DEF Run, AskLease, Read, Refused, Hold, LoadCheckpoint,
                WriteText, Illustrate, StoreImages, Landed, Inspect, Discard, MarkFailed, Release
  <2>2. ASSUME NEW s \in Servers, Lifespan(s) PROVE post'.final = post.final
    <3>1. CASE BootWrite(s)
      <4>1. post.status = "GENERATING"
        BY <3>1 DEF BootWrite, BootWrites, Whole, BootWhole
      <4> QED  BY <4>1 DEF Whole, PostWhole
    <3>2. CASE post' = post
      BY <3>2
    <3> QED  BY <2>2, <3>1, <3>2 DEF Lifespan, Sweep, SweepHeld, BootRead, BootRefused, StopOrphaned
  <2>3. CASE UNCHANGED post
    BY <2>3
  <2> QED  BY <2>1, <2>2, <2>3 DEF Next, Start, Crash, Retake, Stall, Expire, GraceEnds
<1> QED  BY <1>1, <1>2, <1>3, PTL DEF Spec, NotStoredTwice
=============================================================================
