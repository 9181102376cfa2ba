------------------------ MODULE PostPublishing_proofs ------------------------
(***************************************************************************)
(* Proofs about PostPublishing, for every set of callers and channels.      *)
(*                                                                          *)
(*   TypeCorrect       the type invariant;                                  *)
(*   RecordIsTrue      what the logs and the status say really happened,    *)
(*                     with any number of callers and crashes;              *)
(*   LiveNeverLost,    what one caller at a time may rely on besides,        *)
(*   NoDuplicate                                                            *)
(*   PublishingImplements   and that it implements Publication.              *)
(***************************************************************************)
EXTENDS PostPublishing, TLAPS

\* The locals of a caller that is not publishing are of their type.
LEMMA IdleType == Idle \in Locals /\ Idle.pc = "idle"
<1>1. (CHOOSE c \in Channels : TRUE) \in Channels
  BY PublishingAssumption
<1> QED  BY <1>1 DEF Idle, Locals, Methods, Results, Statuses, NotRead

\* A guarded write keeps the types when what it writes has them.
LEMMA ApplyType ==
  ASSUME TypeOK, NEW p \in Publishers,
         NEW status \in Statuses, NEW logs \in Seq(Log), NEW next \in Locals,
         Apply(p, status, logs, next)
  PROVE  TypeOK'
<1>1. [next EXCEPT !.seen = NotRead] \in Locals
  BY DEF Locals, NotRead
<1>2. pub' \in [Publishers -> Locals]
  BY <1>1 DEF TypeOK, Apply
<1>3. post' \in [status : Statuses, version : Nat \ {NotRead}, logs : Seq(Log)]
  BY DEF TypeOK, Apply, NotRead
<1> QED  BY <1>2, <1>3 DEF TypeOK, Apply

\* Setting a caller's locals keeps the types when nothing else changes.
LEMMA LocalsType ==
  ASSUME TypeOK, NEW p \in Publishers, NEW next \in Locals,
         pub' = [pub EXCEPT ![p] = next],
         UNCHANGED <<post, world, crashes>>, requests' \in Nat
  PROVE  TypeOK'
BY DEF TypeOK

LEMMA StepType ==
  ASSUME TypeOK, NEW p \in Publishers, Step(p)
  PROVE  TypeOK'
<1> USE IdleType
<1>1. pub[p] \in Locals /\ post.logs \in Seq(Log) /\ post.status \in Statuses
  BY DEF TypeOK
<1>2. CASE WriteText(p)
  <2>1. [pub[p] EXCEPT !.pc = IF pub[p].from \in {"POSTED", "FAILED"} THEN "rewind"
                              ELSE "posting"] \in Locals
    BY <1>1 DEF Locals, Writing
  <2> QED  BY <1>2, <2>1, LocalsType DEF WriteText, TypeOK
<1>3. CASE Read(p)
  <2>1. [pub[p] EXCEPT !.seen = post.version] \in Locals
    BY <1>1 DEF Locals, TypeOK
  <2> QED  BY <1>3, <2>1, LocalsType DEF Read, TypeOK
<1>4. CASE Conflict(p)
  BY <1>4, LocalsType DEF Conflict, TypeOK
<1>5. CASE Rewind(p)
  <2>1. [pub[p] EXCEPT !.pc = "posting"] \in Locals
    BY <1>1 DEF Locals, Writing
  <2> QED  BY <1>1, <1>5, <2>1, ApplyType DEF Rewind, Statuses
<1>6. CASE StartPosting(p)
  <2>1. [pub[p] EXCEPT !.pc = "publish"] \in Locals
    BY <1>1 DEF Locals, Writing
  <2> QED  BY <1>1, <1>6, <2>1, ApplyType DEF StartPosting, Statuses
<1>7. CASE Publish(p)
  <2>1. PICK result \in Results, live \in BOOLEAN :
          /\ world' = IF live THEN [world EXCEPT ![pub[p].channel] = @ + 1] ELSE world
          /\ pub' = [pub EXCEPT ![p].result = result, ![p].pc = "log"]
    BY <1>7 DEF Publish
  <2>2. [pub[p] EXCEPT !.result = result, !.pc = "log"] \in Locals
    BY <1>1 DEF Locals, Writing
  <2>3. pub' \in [Publishers -> Locals]
    BY <2>1, <2>2 DEF TypeOK
  <2>4. world' \in [Channels -> Nat]
    BY <1>1, <2>1 DEF TypeOK, Locals
  <2> QED  BY <1>7, <2>3, <2>4 DEF Publish, TypeOK
<1>8. CASE AppendLog(p)
  <2>1. [pub[p] EXCEPT !.pc = "finish"] \in Locals
    BY <1>1 DEF Locals, Writing
  <2>2. [method |-> pub[p].method, channel |-> pub[p].channel, result |-> pub[p].result] \in Log
    BY <1>1, PublishingAssumption DEF Locals, Log
  <2>3. Append(post.logs, [method |-> pub[p].method, channel |-> pub[p].channel,
                           result |-> pub[p].result]) \in Seq(Log)
    BY <1>1, <2>2
  <2> QED  BY <1>1, <1>8, <2>1, <2>3, ApplyType DEF AppendLog
<1>9. CASE Finish(p)
  <2>1. FinalStatus(pub[p].result) \in Statuses
    BY DEF FinalStatus, Statuses
  <2> QED  BY <1>1, <1>9, <2>1, ApplyType DEF Finish, Statuses
<1>10. CASE Refused(p)
  BY <1>10, LocalsType DEF Refused, TypeOK
<1> QED  BY <1>2, <1>3, <1>4, <1>5, <1>6, <1>7, <1>8, <1>9, <1>10 DEF Step

LEMMA RequestType ==
  ASSUME TypeOK, NEW p \in Publishers, Request(p)
  PROVE  TypeOK'
<1>1. PICK m \in Methods, c \in Channels :
        pub' = [pub EXCEPT ![p] = [Idle EXCEPT !.pc = "write", !.from = post.status,
                                               !.method = m, !.channel = c]]
  BY DEF Request
<1>2. [Idle EXCEPT !.pc = "write", !.from = post.status, !.method = m, !.channel = c] \in Locals
  BY IdleType DEF Locals, TypeOK
<1> QED  BY <1>1, <1>2, LocalsType DEF Request, TypeOK

\* The document, the platform counters and every handler keep their types,
\* whatever the callers and the crashes do.
THEOREM TypeCorrect == Spec => []TypeOK
<1>1. Init => TypeOK
  BY IdleType DEF Init, TypeOK, Statuses, NotRead
<1>2. TypeOK /\ [Next]_vars => TypeOK'
  <2> SUFFICES ASSUME TypeOK, [Next]_vars PROVE TypeOK'
    OBVIOUS
  <2>1. CASE \E p \in Publishers : Request(p) \/ Step(p)
    BY <2>1, RequestType, StepType
  <2>2. CASE Crash
    BY <2>2, IdleType DEF Crash, TypeOK
  <2>3. CASE UNCHANGED vars
    BY <2>3 DEF vars, TypeOK
  <2> QED  BY <2>1, <2>2, <2>3 DEF Next
<1> QED  BY <1>1, <1>2, PTL DEF Spec

-----------------------------------------------------------------------------
(* The record.  A log is appended after the publisher answered and before   *)
(* the status moves, so the answer held in a handler between those two       *)
(* writes is part of the invariant.                                          *)

SuccessLogged == \E i \in DOMAIN post.logs : post.logs[i].result = "SUCCESS"

RecordInv ==
  /\ TypeOK
  /\ LoggedSuccessIsReal
  /\ PostedIsBackedByALog
  /\ \A p \in Publishers :
       /\ pub[p].pc = "log" /\ pub[p].method = "auto" /\ pub[p].result = "SUCCESS"
            => world[pub[p].channel] > 0
       /\ pub[p].pc = "finish" /\ pub[p].result = "SUCCESS" => SuccessLogged

\* Appending a log keeps the logs there are and adds the one appended.
LEMMA AppendedLog ==
  ASSUME NEW s \in Seq(Log), NEW l \in Log, NEW i \in DOMAIN Append(s, l)
  PROVE  \/ i \in DOMAIN s /\ Append(s, l)[i] = s[i]
         \/ Append(s, l)[i] = l
  OBVIOUS

LEMMA KeptLogs ==
  ASSUME NEW s \in Seq(Log), NEW l \in Log, NEW i \in DOMAIN s
  PROVE  i \in DOMAIN Append(s, l) /\ Append(s, l)[i] = s[i]
  OBVIOUS

LEMMA LastLog ==
  ASSUME NEW s \in Seq(Log), NEW l \in Log
  PROVE  /\ Len(s) + 1 \in DOMAIN Append(s, l)
         /\ Append(s, l)[Len(s) + 1] = l
  OBVIOUS

\* A step of any other action than AppendLog leaves the logs as they are.
LEMMA OtherSteps ==
  ASSUME TypeOK, NEW p \in Publishers, Step(p), ~AppendLog(p)
  PROVE  post'.logs = post.logs
BY DEF Step, WriteText, Read, Conflict, Rewind, StartPosting, Publish, Finish, Refused, Apply

\* Articles are never taken down, and a step is one caller's.
LEMMA StepFrame ==
  ASSUME TypeOK, NEW p \in Publishers, Step(p)
  PROVE  /\ \A c \in Channels : world'[c] >= world[c]
         /\ \A q \in Publishers \ {p} : pub'[q] = pub[q]
<1>1. \A c \in Channels : world[c] \in Nat
  BY DEF TypeOK
<1>2. CASE Publish(p)
  <2>1. PICK live \in BOOLEAN :
          /\ world' = IF live THEN [world EXCEPT ![pub[p].channel] = @ + 1] ELSE world
          /\ \E result \in Results : pub' = [pub EXCEPT ![p].result = result, ![p].pc = "log"]
    BY <1>2 DEF Publish
  <2>2. \A c \in Channels : world'[c] \in {world[c], world[c] + 1}
    BY <2>1 DEF TypeOK, Locals
  <2> QED  BY <1>1, <2>1, <2>2 DEF TypeOK
<1>3. CASE ~Publish(p)
  <2>1. UNCHANGED world
    BY <1>3 DEF Step, WriteText, Read, Conflict, Rewind, StartPosting, AppendLog, Finish,
                Refused, Apply
  <2>2. \A q \in Publishers \ {p} : pub'[q] = pub[q]
    BY <1>3 DEF Step, WriteText, Read, Conflict, Rewind, StartPosting, AppendLog, Finish,
                Refused, Apply, TypeOK
  <2> QED  BY <1>1, <2>1, <2>2
<1> QED  BY <1>2, <1>3

\* How the answer a handler holds comes and goes: it is set by Publish and kept
\* through the two writes that follow.
LEMMA AnswerKept ==
  ASSUME TypeOK, NEW p \in Publishers, Step(p), ~Publish(p), ~AppendLog(p),
         pub'[p].pc \in {"log", "finish"}
  PROVE  /\ pub'[p].pc = pub[p].pc /\ pub'[p].method = pub[p].method
         /\ pub'[p].channel = pub[p].channel /\ pub'[p].result = pub[p].result
<1>1. pub[p] \in Locals
  BY DEF TypeOK
<1>2. CASE Read(p)
  BY <1>1, <1>2 DEF Read, TypeOK, Locals
<1>3. CASE WriteText(p)
  BY <1>1, <1>3, IdleType DEF WriteText, TypeOK, Locals
<1>4. CASE Conflict(p) \/ Refused(p)
  BY <1>1, <1>4, IdleType DEF Conflict, Refused, TypeOK
<1>5. CASE Rewind(p) \/ StartPosting(p)
  <2>1. CASE Rewind(p)
    <3>1. pub'[p] = [[pub[p] EXCEPT !.pc = "posting"] EXCEPT !.seen = NotRead]
      BY <2>1 DEF Rewind, Apply, TypeOK
    <3> QED  BY <1>1, <3>1 DEF Locals
  <2>2. CASE StartPosting(p)
    <3>1. pub'[p] = [[pub[p] EXCEPT !.pc = "publish"] EXCEPT !.seen = NotRead]
      BY <2>2 DEF StartPosting, Apply, TypeOK
    <3> QED  BY <1>1, <3>1 DEF Locals
  <2> QED  BY <1>5, <2>1, <2>2
<1>6. CASE Finish(p)
  <2>1. pub'[p] = [Idle EXCEPT !.seen = NotRead]
    BY <1>6 DEF Finish, Apply, TypeOK
  <2> QED  BY <2>1, IdleType DEF Locals
<1> QED  BY <1>2, <1>3, <1>4, <1>5, <1>6 DEF Step

\* Only Finish, with a success, makes a post POSTED.
LEMMA PostedByFinish ==
  ASSUME TypeOK, NEW p \in Publishers, Step(p), ~AppendLog(p),
         post'.status = "POSTED", post.status # "POSTED"
  PROVE  pub[p].pc = "finish" /\ pub[p].result = "SUCCESS"
<1>1. ~Finish(p) => post'.status \in {post.status, "READY_TO_PUBLISH", "POSTING"}
  BY DEF Step, WriteText, Read, Conflict, Rewind, StartPosting, Publish, Refused, Apply
<1>2. Finish(p) => post'.status = "READY_TO_PUBLISH" \/ post'.status = FinalStatus(pub[p].result)
  BY DEF Finish, Apply
<1>3. FinalStatus(pub[p].result) = "POSTED" => pub[p].result = "SUCCESS"
  BY DEF FinalStatus
<1> QED  BY <1>1, <1>2, <1>3 DEF Finish

\* The handler's answer and the log it appends agree with the platform.
LEMMA AppendLogKeepsRecord ==
  ASSUME RecordInv, NEW p \in Publishers, AppendLog(p)
  PROVE  RecordInv'
<1> DEFINE l == [method |-> pub[p].method, channel |-> pub[p].channel, result |-> pub[p].result]
<1>1. TypeOK /\ TypeOK'
  BY StepType DEF RecordInv, Step
<1>2. pub[p] \in Locals /\ post.logs \in Seq(Log)
  BY <1>1 DEF TypeOK
<1>3. l \in Log
  BY <1>2, PublishingAssumption DEF Locals, Log
<1>4. /\ post'.logs = Append(post.logs, l) /\ post'.status = post.status
      /\ world' = world
      /\ pub'[p] = [pub[p] EXCEPT !.pc = "finish", !.seen = NotRead]
      /\ \A q \in Publishers \ {p} : pub'[q] = pub[q]
  BY <1>1, <1>2 DEF AppendLog, Apply, TypeOK, Locals
<1> HIDE DEF l
<1>5. \A i \in DOMAIN post.logs : i \in DOMAIN post'.logs /\ post'.logs[i] = post.logs[i]
  BY <1>2, <1>3, <1>4, KeptLogs
<1>6. SuccessLogged => SuccessLogged'
  BY <1>5 DEF SuccessLogged
<1>7. LoggedSuccessIsReal'
  <2> SUFFICES ASSUME NEW c \in Channels, NEW i \in DOMAIN post'.logs,
                      IsAutoSuccess(post'.logs[i], c)
               PROVE  world'[c] > 0
    BY DEF LoggedSuccessIsReal, HasSuccessfulAutoPublish
  <2>1. CASE i \in DOMAIN post.logs /\ post'.logs[i] = post.logs[i]
    BY <1>4, <2>1 DEF RecordInv, LoggedSuccessIsReal, HasSuccessfulAutoPublish
  <2>2. CASE post'.logs[i] = l
    BY <1>4, <2>2 DEF RecordInv, IsAutoSuccess, AppendLog, l
  <2> QED  BY <1>2, <1>3, <1>4, <2>1, <2>2, AppendedLog
<1>8. PostedIsBackedByALog'
  BY <1>4, <1>6 DEF RecordInv, PostedIsBackedByALog, SuccessLogged
<1>9. \A q \in Publishers : pub'[q].pc = "finish" /\ pub'[q].result = "SUCCESS" => SuccessLogged'
  <2>1. l.result = "SUCCESS" => SuccessLogged'
    BY <1>2, <1>3, <1>4, LastLog DEF SuccessLogged
  <2>2. pub'[p].result = l.result
    BY <1>2, <1>4 DEF Locals, l
  <2> QED  BY <1>4, <1>6, <2>1, <2>2 DEF RecordInv
<1>10. \A q \in Publishers :
         pub'[q].pc = "log" /\ pub'[q].method = "auto" /\ pub'[q].result = "SUCCESS"
           => world'[pub'[q].channel] > 0
  <2>1. pub'[p].pc = "finish"
    BY <1>2, <1>4 DEF Locals
  <2> QED  BY <1>4, <2>1 DEF RecordInv
<1> QED  BY <1>1, <1>7, <1>8, <1>9, <1>10 DEF RecordInv

LEMMA StepKeepsRecord ==
  ASSUME RecordInv, NEW p \in Publishers, Step(p)
  PROVE  RecordInv'
<1>1. TypeOK /\ TypeOK'
  BY StepType DEF RecordInv
<1>2. CASE AppendLog(p)
  BY <1>2, AppendLogKeepsRecord
<1>3. CASE ~AppendLog(p)
  <2>1. post'.logs = post.logs
    BY <1>1, <1>3, OtherSteps
  <2>2. SuccessLogged' = SuccessLogged
    BY <2>1 DEF SuccessLogged
  <2>3. /\ \A c \in Channels : world'[c] >= world[c]
        /\ \A q \in Publishers \ {p} : pub'[q] = pub[q]
    BY <1>1, StepFrame
  <2>4. \A c \in Channels : world[c] \in Nat /\ world'[c] \in Nat
    BY <1>1 DEF TypeOK
  <2>5. LoggedSuccessIsReal'
    BY <2>1, <2>3, <2>4 DEF RecordInv, LoggedSuccessIsReal, HasSuccessfulAutoPublish
  <2>6. PostedIsBackedByALog'
    BY <1>1, <1>3, <2>1, PostedByFinish DEF RecordInv, PostedIsBackedByALog, SuccessLogged
  <2>7. \A q \in Publishers : pub'[q].pc = "finish" /\ pub'[q].result = "SUCCESS" => SuccessLogged'
    <3>1. pub'[p].pc = "finish" => pub[p].pc = "finish" /\ pub'[p].result = pub[p].result
      <4>1. Publish(p) => pub'[p].pc = "log"
        BY <1>1 DEF Publish, TypeOK, Locals
      <4> QED  BY <1>1, <1>3, <4>1, AnswerKept
    <3> QED  BY <2>2, <2>3, <3>1 DEF RecordInv
  <2>8. \A q \in Publishers :
          pub'[q].pc = "log" /\ pub'[q].method = "auto" /\ pub'[q].result = "SUCCESS"
            => world'[pub'[q].channel] > 0
    <3>1. \A q \in Publishers : pub[q].channel \in Channels /\ pub'[q].channel \in Channels
      BY <1>1 DEF TypeOK, Locals
    <3>2. CASE Publish(p)
      <4>1. PICK result \in Results, live \in BOOLEAN :
              /\ pub[p].method = "auto" /\ result = "SUCCESS" => live
              /\ world' = IF live THEN [world EXCEPT ![pub[p].channel] = @ + 1] ELSE world
              /\ pub' = [pub EXCEPT ![p].result = result, ![p].pc = "log"]
        BY <3>2 DEF Publish
      <4>2. pub'[p].method = pub[p].method /\ pub'[p].channel = pub[p].channel
            /\ pub'[p].result = result
        BY <1>1, <4>1 DEF TypeOK, Locals
      <4>3. live => world'[pub[p].channel] = world[pub[p].channel] + 1
        BY <1>1, <3>1, <4>1 DEF TypeOK
      <4>4. pub'[p].method = "auto" /\ pub'[p].result = "SUCCESS" => world'[pub'[p].channel] > 0
        BY <2>4, <3>1, <4>1, <4>2, <4>3
      <4> QED  BY <2>3, <2>4, <3>1, <4>4 DEF RecordInv
    <3>3. CASE ~Publish(p)
      <4>1. pub'[p].pc = "log" =>
              /\ pub[p].pc = "log" /\ pub'[p].method = pub[p].method
              /\ pub'[p].channel = pub[p].channel /\ pub'[p].result = pub[p].result
        BY <1>1, <1>3, <3>3, AnswerKept
      <4> QED  BY <2>3, <2>4, <3>1, <4>1 DEF RecordInv
    <3> QED  BY <3>2, <3>3
  <2> QED  BY <1>1, <2>5, <2>6, <2>7, <2>8 DEF RecordInv
<1> QED  BY <1>2, <1>3

LEMMA RecordInvariant == Spec => []RecordInv
<1>1. Init => RecordInv
  <2> SUFFICES ASSUME Init PROVE RecordInv
    OBVIOUS
  <2>1. TypeOK
    BY IdleType DEF Init, TypeOK, Statuses, NotRead
  <2>2. LoggedSuccessIsReal /\ PostedIsBackedByALog
    BY DEF Init, LoggedSuccessIsReal, HasSuccessfulAutoPublish, PostedIsBackedByALog
  <2> QED  BY <2>1, <2>2 DEF Init, Idle, RecordInv
<1>2. RecordInv /\ [Next]_vars => RecordInv'
  <2> SUFFICES ASSUME RecordInv, [Next]_vars PROVE RecordInv'
    OBVIOUS
  <2>1. ASSUME NEW p \in Publishers, Request(p) PROVE RecordInv'
    <3>1. TypeOK /\ TypeOK'
      BY <2>1, RequestType DEF RecordInv
    <3>2. UNCHANGED <<post, world>> /\ pub'[p].pc = "write"
          /\ \A q \in Publishers \ {p} : pub'[q] = pub[q]
      BY <2>1, <3>1 DEF Request, TypeOK, Idle
    <3> QED  BY <3>1, <3>2 DEF RecordInv, LoggedSuccessIsReal, HasSuccessfulAutoPublish,
                               PostedIsBackedByALog, SuccessLogged
  <2>2. ASSUME NEW p \in Publishers, Step(p) PROVE RecordInv'
    BY <2>2, StepKeepsRecord
  <2>3. CASE Crash
    <3>1. TypeOK' /\ UNCHANGED <<post, world>> /\ \A q \in Publishers : pub'[q].pc = "idle"
      BY <2>3, IdleType DEF Crash, RecordInv, TypeOK
    <3> QED  BY <3>1 DEF RecordInv, LoggedSuccessIsReal, HasSuccessfulAutoPublish,
                         PostedIsBackedByALog, SuccessLogged
  <2>4. CASE UNCHANGED vars
    BY <2>4 DEF vars, RecordInv, TypeOK, LoggedSuccessIsReal, HasSuccessfulAutoPublish,
                PostedIsBackedByALog, SuccessLogged
  <2> QED  BY <2>1, <2>2, <2>3, <2>4 DEF Next
<1> QED  BY <1>1, <1>2, PTL DEF Spec

\* Whatever the interleaving of callers and crashes, a logged automatic success
\* is an article the platform shows, and a POSTED post has a log of a success.
THEOREM RecordIsTrue == Spec => [](LoggedSuccessIsReal /\ PostedIsBackedByALog)
<1>1. RecordInv => LoggedSuccessIsReal /\ PostedIsBackedByALog
  BY DEF RecordInv
<1> QED  BY <1>1, RecordInvariant, PTL

\* The second half by itself: a POSTED post has the log of a success, so recovery
\* and the retry guard may rely on the log whenever they see the status.
THEOREM PostedIsLogged == Spec => []PostedIsBackedByALog
BY RecordIsTrue, PTL

-----------------------------------------------------------------------------
(* One caller at a time, and a publisher that reports FAIL only when nothing *)
(* went live: the discipline NoDuplicatePost and LiveIsLoggedOrPosting need. *)
(* Between Publish and AppendLog an article is live and not logged; the post *)
(* is POSTING all that time, and stays so if the process dies there.         *)

Sequential == (\A p, q \in Publishers : p = q) /\ ~Uncertain

Unlogged(c) == world[c] > 0 /\ ~HasSuccessfulAutoPublish(c)

SequentialInv ==
  /\ TypeOK
  /\ LiveIsLoggedOrPosting
  /\ \A p \in Publishers :
       /\ pub[p].pc \in {"write", "rewind", "posting"} => post.status # "POSTING"
       /\ pub[p].pc \in {"publish", "log", "finish"} => post.status = "POSTING"
       /\ pub[p].pc \in {"publish", "finish"} => \A c \in Channels : ~Unlogged(c)
       /\ pub[p].pc = "log" =>
            \A c \in Channels : Unlogged(c) =>
              pub[p].method = "auto" /\ pub[p].channel = c /\ pub[p].result = "SUCCESS"

\* A success that is in the logs stays there.
LEMMA LogsOnlyGrow ==
  ASSUME TypeOK, NEW p \in Publishers, Step(p), NEW c \in Channels, HasSuccessfulAutoPublish(c)
  PROVE  HasSuccessfulAutoPublish(c)'
<1>1. CASE AppendLog(p)
  <2> DEFINE l == [method |-> pub[p].method, channel |-> pub[p].channel,
                   result |-> pub[p].result]
  <2>1. post'.logs = Append(post.logs, l)
    BY <1>1 DEF AppendLog, Apply
  <2>2. post.logs \in Seq(Log) /\ l \in Log
    BY PublishingAssumption DEF TypeOK, Locals, Log
  <2> HIDE DEF l
  <2> QED  BY <2>1, <2>2, KeptLogs DEF HasSuccessfulAutoPublish
<1>2. CASE ~AppendLog(p)
  BY <1>2, OtherSteps DEF HasSuccessfulAutoPublish
<1> QED  BY <1>1, <1>2

\* A step that neither publishes nor logs leaves what is live and unlogged alone.
LEMMA UnloggedFrame ==
  ASSUME NEW p \in Publishers, TypeOK, Step(p), ~Publish(p), ~AppendLog(p), NEW c \in Channels
  PROVE  Unlogged(c)' = Unlogged(c)
<1>1. UNCHANGED world
  BY DEF Step, WriteText, Read, Conflict, Rewind, StartPosting, Finish, Refused, Apply
<1>2. post'.logs = post.logs
  BY OtherSteps
<1> QED  BY <1>1, <1>2 DEF Unlogged, HasSuccessfulAutoPublish

LEMMA StepKeepsSequential ==
  ASSUME Sequential, SequentialInv, NEW p \in Publishers, Step(p)
  PROVE  SequentialInv'
<1>1. TypeOK /\ TypeOK' /\ pub[p] \in Locals
  BY StepType DEF SequentialInv, TypeOK
<1>2. \A q \in Publishers : q = p
  BY DEF Sequential
<1>3. post.status # "POSTING" => \A c \in Channels : ~Unlogged(c)
  BY DEF SequentialInv, LiveIsLoggedOrPosting, Unlogged
\* What has to be shown of the only caller, and of the post.
<1> SUFFICES /\ \A c \in Channels : Unlogged(c)' => post'.status = "POSTING"
             /\ pub'[p].pc \in {"write", "rewind", "posting"} => post'.status # "POSTING"
             /\ pub'[p].pc \in {"publish", "log", "finish"} => post'.status = "POSTING"
             /\ pub'[p].pc \in {"publish", "finish"} => \A c \in Channels : ~Unlogged(c)'
             /\ pub'[p].pc = "log" =>
                  \A c \in Channels : Unlogged(c)' =>
                    pub'[p].method = "auto" /\ pub'[p].channel = c /\ pub'[p].result = "SUCCESS"
  BY <1>1, <1>2 DEF SequentialInv, LiveIsLoggedOrPosting, Unlogged
<1>4. CASE WriteText(p)
  <2>1. \A c \in Channels : Unlogged(c)' = Unlogged(c)
    BY <1>1, <1>4, UnloggedFrame DEF Step, WriteText, Publish, AppendLog
  <2>2. post' = post /\ pub'[p].pc \in {"rewind", "posting", "idle"}
    BY <1>1, <1>4, IdleType DEF WriteText, TypeOK, Locals
  <2> QED  BY <1>3, <1>4, <2>1, <2>2 DEF SequentialInv, WriteText
<1>5. CASE Read(p)
  <2>1. \A c \in Channels : Unlogged(c)' = Unlogged(c)
    BY <1>5 DEF Read, Unlogged, HasSuccessfulAutoPublish
  <2>2. post' = post /\ pub'[p] = [pub[p] EXCEPT !.seen = post.version]
    BY <1>1, <1>5 DEF Read, TypeOK
  <2>3. /\ pub'[p].pc = pub[p].pc /\ pub'[p].method = pub[p].method
        /\ pub'[p].channel = pub[p].channel /\ pub'[p].result = pub[p].result
    BY <1>1, <2>2 DEF Locals
  <2> QED  BY <1>3, <2>1, <2>2, <2>3 DEF SequentialInv
<1>6. CASE Conflict(p) \/ Refused(p)
  <2>1. \A c \in Channels : Unlogged(c)' = Unlogged(c)
    BY <1>6 DEF Conflict, Refused, Unlogged, HasSuccessfulAutoPublish
  <2>2. post' = post /\ pub'[p].pc = "idle"
    BY <1>1, <1>6, IdleType DEF Conflict, Refused, TypeOK
  <2> QED  BY <1>3, <2>1, <2>2
<1>7. CASE Rewind(p)
  <2>1. \A c \in Channels : Unlogged(c)' = Unlogged(c)
    BY <1>1, <1>7, UnloggedFrame DEF Step, Rewind, Publish, AppendLog
  <2>2. /\ post'.status = "READY_TO_PUBLISH"
        /\ pub'[p] = [[pub[p] EXCEPT !.pc = "posting"] EXCEPT !.seen = NotRead]
    BY <1>1, <1>7 DEF Rewind, Apply, TypeOK
  <2>3. pub'[p].pc = "posting"
    BY <1>1, <2>2 DEF Locals
  <2>4. \A c \in Channels : ~Unlogged(c)
    BY <1>3, <1>7 DEF Rewind, SequentialInv
  <2> QED  BY <2>1, <2>2, <2>3, <2>4
<1>8. CASE StartPosting(p)
  <2>1. \A c \in Channels : Unlogged(c)' = Unlogged(c)
    BY <1>1, <1>8, UnloggedFrame DEF Step, StartPosting, Publish, AppendLog
  <2>2. /\ post'.status = "POSTING"
        /\ pub'[p] = [[pub[p] EXCEPT !.pc = "publish"] EXCEPT !.seen = NotRead]
    BY <1>1, <1>8 DEF StartPosting, Apply, TypeOK
  <2>3. pub'[p].pc = "publish"
    BY <1>1, <2>2 DEF Locals
  <2>4. \A c \in Channels : ~Unlogged(c)
    BY <1>3, <1>8 DEF StartPosting, SequentialInv
  <2> QED  BY <2>1, <2>2, <2>3, <2>4
<1>9. CASE Publish(p)
  <2>1. PICK result \in Results, live \in BOOLEAN :
          /\ live => pub[p].method = "auto" /\ (result = "SUCCESS" \/ (Uncertain /\ result = "FAIL"))
          /\ world' = IF live THEN [world EXCEPT ![pub[p].channel] = @ + 1] ELSE world
          /\ pub' = [pub EXCEPT ![p].result = result, ![p].pc = "log"]
    BY <1>9 DEF Publish
  <2>2. post' = post /\ post.status = "POSTING" /\ \A c \in Channels : ~Unlogged(c)
    BY <1>9 DEF Publish, SequentialInv
  <2>3. /\ pub'[p].pc = "log" /\ pub'[p].method = pub[p].method
        /\ pub'[p].channel = pub[p].channel /\ pub'[p].result = result
    BY <1>1, <2>1 DEF TypeOK, Locals
  <2>4. \A c \in Channels : Unlogged(c)' => live /\ c = pub[p].channel
    BY <1>1, <2>1, <2>2 DEF Unlogged, HasSuccessfulAutoPublish, TypeOK
  <2> QED  BY <2>1, <2>2, <2>3, <2>4 DEF Sequential
<1>10. CASE AppendLog(p)
  <2> DEFINE l == [method |-> pub[p].method, channel |-> pub[p].channel,
                   result |-> pub[p].result]
  <2>1. /\ post'.logs = Append(post.logs, l) /\ post'.status = "POSTING" /\ world' = world
        /\ pub'[p] = [[pub[p] EXCEPT !.pc = "finish"] EXCEPT !.seen = NotRead]
    BY <1>1, <1>10 DEF AppendLog, Apply, TypeOK, SequentialInv
  <2>2. post.logs \in Seq(Log) /\ l \in Log
    BY <1>1, PublishingAssumption DEF TypeOK, Locals, Log
  <2>3. pub'[p].pc = "finish"
    BY <1>1, <2>1 DEF Locals
  <2>4. ASSUME NEW c \in Channels PROVE ~Unlogged(c)'
    <3>1. CASE Unlogged(c)
      <4>1. IsAutoSuccess(l, c)
        BY <1>10, <3>1 DEF AppendLog, SequentialInv, IsAutoSuccess
      <4> HIDE DEF l
      <4> QED  BY <2>1, <2>2, <4>1, LastLog DEF Unlogged, HasSuccessfulAutoPublish
    <3>2. CASE ~Unlogged(c)
      BY <1>1, <2>1, <3>2, LogsOnlyGrow, <1>10 DEF Unlogged, Step
    <3> QED  BY <3>1, <3>2
  <2> QED  BY <2>1, <2>3, <2>4
<1>11. CASE Finish(p)
  <2>1. \A c \in Channels : Unlogged(c)' = Unlogged(c)
    BY <1>1, <1>11, UnloggedFrame DEF Step, Finish, Publish, AppendLog
  <2>2. pub'[p] = [Idle EXCEPT !.seen = NotRead]
    BY <1>1, <1>11 DEF Finish, Apply, TypeOK
  <2>3. pub'[p].pc = "idle"
    BY <2>2, IdleType DEF Locals
  <2>4. \A c \in Channels : ~Unlogged(c)
    BY <1>11 DEF Finish, SequentialInv
  <2> QED  BY <2>1, <2>3, <2>4
<1> QED  BY <1>4, <1>5, <1>6, <1>7, <1>8, <1>9, <1>10, <1>11 DEF Step

\* With one caller at a time and a truthful publisher, crashes included, a live
\* article is logged or its post is still POSTING.
THEOREM LiveNeverLost == Sequential => (Spec => []LiveIsLoggedOrPosting)
<1> SUFFICES ASSUME Sequential PROVE Spec => []LiveIsLoggedOrPosting
  OBVIOUS
<1>1. Init => SequentialInv
  <2> SUFFICES ASSUME Init PROVE SequentialInv
    OBVIOUS
  <2>1. TypeOK
    BY IdleType DEF Init, TypeOK, Statuses, NotRead
  <2>2. LiveIsLoggedOrPosting /\ \A p \in Publishers : pub[p].pc = "idle"
    BY IdleType DEF Init, LiveIsLoggedOrPosting
  <2> QED  BY <2>1, <2>2 DEF SequentialInv
<1>2. SequentialInv /\ [Next]_vars => SequentialInv'
  <2> SUFFICES ASSUME SequentialInv, [Next]_vars PROVE SequentialInv'
    OBVIOUS
  <2>1. ASSUME NEW p \in Publishers, Request(p) PROVE SequentialInv'
    <3>1. TypeOK /\ TypeOK'
      BY <2>1, RequestType DEF SequentialInv
    <3>2. UNCHANGED <<post, world>> /\ pub'[p].pc = "write" /\ post.status # "POSTING"
      BY <2>1, <3>1 DEF Request, Publishable, TypeOK, Idle
    <3>3. \A q \in Publishers : q = p
      BY DEF Sequential
    <3> QED  BY <3>1, <3>2, <3>3 DEF SequentialInv, LiveIsLoggedOrPosting, HasSuccessfulAutoPublish
  <2>2. ASSUME NEW p \in Publishers, Step(p) PROVE SequentialInv'
    BY <2>2, StepKeepsSequential
  <2>3. CASE Crash
    <3>1. TypeOK' /\ UNCHANGED <<post, world>> /\ \A q \in Publishers : pub'[q].pc = "idle"
      BY <2>3, IdleType DEF Crash, SequentialInv, TypeOK
    <3> QED  BY <3>1 DEF SequentialInv, LiveIsLoggedOrPosting, HasSuccessfulAutoPublish
  <2>4. CASE UNCHANGED vars
    BY <2>4 DEF vars, SequentialInv, TypeOK, LiveIsLoggedOrPosting, HasSuccessfulAutoPublish, Unlogged
  <2> QED  BY <2>1, <2>2, <2>3, <2>4 DEF Next
<1>3. SequentialInv => LiveIsLoggedOrPosting
  BY DEF SequentialInv
<1> QED  BY <1>1, <1>2, <1>3, PTL DEF Spec

-----------------------------------------------------------------------------
(* One channel as well: once its success is logged the status never leaves   *)
(* POSTING and POSTED, where publish_blog_task refuses the channel.  With two *)
(* channels the failure of the other one moves the status on to FAILED.      *)

OneChannel == \A c, d \in Channels : c = d

DuplicateInv ==
  /\ SequentialInv
  /\ NoDuplicatePost
  /\ \A c \in Channels : HasSuccessfulAutoPublish(c) => post.status \in {"POSTED", "POSTING"}
  /\ \A p \in Publishers, c \in Channels :
       HasSuccessfulAutoPublish(c) =>
         /\ pub[p].pc \in {"idle", "finish"}
         /\ pub[p].pc = "finish" => pub[p].method = "auto" /\ pub[p].result = "SUCCESS"

LEMMA StepKeepsSingle ==
  ASSUME Sequential, OneChannel, DuplicateInv, NEW p \in Publishers, Step(p)
  PROVE  DuplicateInv'
<1>1. SequentialInv /\ SequentialInv'
  BY StepKeepsSequential DEF DuplicateInv
<1>2. TypeOK /\ TypeOK' /\ pub[p] \in Locals /\ post.logs \in Seq(Log)
  BY <1>1 DEF SequentialInv, TypeOK
<1> SUFFICES ASSUME NEW c \in Channels
             PROVE  /\ world'[c] <= 1
                    /\ HasSuccessfulAutoPublish(c)' =>
                         /\ post'.status \in {"POSTED", "POSTING"}
                         /\ pub'[p].pc \in {"idle", "finish"}
                         /\ pub'[p].pc = "finish" =>
                              pub'[p].method = "auto" /\ pub'[p].result = "SUCCESS"
  BY <1>1 DEF DuplicateInv, NoDuplicatePost, Sequential
<1>3. pub[p].channel = c
  BY <1>2 DEF OneChannel, Locals
<1>4. world[c] \in Nat /\ world[c] <= 1
  BY <1>2 DEF DuplicateInv, NoDuplicatePost, TypeOK
<1>5. CASE Publish(p)
  <2>1. world[c] = 0
    <3>1. ~Unlogged(c) /\ ~HasSuccessfulAutoPublish(c)
      BY <1>5 DEF Publish, DuplicateInv, SequentialInv
    <3> QED  BY <1>4, <3>1 DEF Unlogged
  <2>2. world'[c] <= 1
    BY <1>2, <1>5, <2>1 DEF Publish, TypeOK
  <2>3. ~HasSuccessfulAutoPublish(c)'
    BY <1>5 DEF Publish, DuplicateInv, HasSuccessfulAutoPublish
  <2> QED  BY <2>2, <2>3
<1>6. CASE AppendLog(p)
  <2> DEFINE l == [method |-> pub[p].method, channel |-> pub[p].channel,
                   result |-> pub[p].result]
  <2>1. /\ post'.logs = Append(post.logs, l) /\ post'.status = "POSTING" /\ world' = world
        /\ pub'[p] = [[pub[p] EXCEPT !.pc = "finish"] EXCEPT !.seen = NotRead]
    BY <1>1, <1>2, <1>6 DEF AppendLog, Apply, TypeOK, SequentialInv
  <2>2. /\ pub'[p].pc = "finish" /\ pub'[p].method = l.method /\ pub'[p].result = l.result
    BY <1>2, <2>1 DEF Locals
  <2>3. l \in Log
    BY <1>2, PublishingAssumption DEF Locals, Log
  <2>4. ~HasSuccessfulAutoPublish(c)
    BY <1>6 DEF AppendLog, DuplicateInv
  <2>5. HasSuccessfulAutoPublish(c)' => IsAutoSuccess(l, c)
    <3> HIDE DEF l
    <3> QED  BY <1>2, <2>1, <2>3, <2>4, AppendedLog DEF HasSuccessfulAutoPublish
  <2> QED  BY <1>4, <2>1, <2>2, <2>5 DEF IsAutoSuccess
<1>7. CASE ~Publish(p) /\ ~AppendLog(p)
  <2>1. world' = world
    BY <1>7 DEF Step, WriteText, Read, Conflict, Rewind, StartPosting, Finish, Refused, Apply
  <2>2. HasSuccessfulAutoPublish(c)' = HasSuccessfulAutoPublish(c)
    BY <1>2, <1>7, OtherSteps DEF HasSuccessfulAutoPublish
  <2> SUFFICES ASSUME HasSuccessfulAutoPublish(c)
               PROVE  /\ post'.status \in {"POSTED", "POSTING"}
                      /\ pub'[p].pc \in {"idle", "finish"}
                      /\ pub'[p].pc = "finish" =>
                           pub'[p].method = "auto" /\ pub'[p].result = "SUCCESS"
    BY <1>4, <2>1, <2>2
  <2>3. /\ post.status \in {"POSTED", "POSTING"} /\ pub[p].pc \in {"idle", "finish"}
        /\ pub[p].pc = "finish" => pub[p].method = "auto" /\ pub[p].result = "SUCCESS"
    BY DEF DuplicateInv
  <2>4. CASE Finish(p)
    <3>1. post'.status = "POSTED"
      BY <2>3, <2>4 DEF Finish, Apply, FinalStatus
    <3>2. pub'[p] = [Idle EXCEPT !.seen = NotRead]
      BY <1>2, <2>4 DEF Finish, Apply, TypeOK
    <3>3. pub'[p].pc = "idle"
      BY <3>2, IdleType DEF Locals
    <3> QED  BY <3>1, <3>3
  <2>5. CASE Read(p)
    <3>1. post' = post /\ pub'[p] = [pub[p] EXCEPT !.seen = post.version]
      BY <1>2, <2>5 DEF Read, TypeOK
    <3> QED  BY <1>2, <2>3, <3>1 DEF Locals
  <2>6. CASE Conflict(p) \/ Refused(p)
    <3>1. post' = post /\ pub'[p].pc = "idle"
      BY <1>2, <2>6, IdleType DEF Conflict, Refused, TypeOK
    <3> QED  BY <2>3, <3>1
  <2> QED  BY <1>7, <2>3, <2>4, <2>5, <2>6 DEF Step, WriteText, Rewind, StartPosting
<1> QED  BY <1>5, <1>6, <1>7

LEMMA DuplicateInvariant == Sequential /\ OneChannel => (Spec => []DuplicateInv)
<1> SUFFICES ASSUME Sequential, OneChannel PROVE Spec => []DuplicateInv
  OBVIOUS
<1>1. Init => DuplicateInv
  <2> SUFFICES ASSUME Init PROVE DuplicateInv
    OBVIOUS
  <2>1. TypeOK
    BY IdleType DEF Init, TypeOK, Statuses, NotRead
  <2>2. SequentialInv
    BY <2>1, IdleType DEF Init, LiveIsLoggedOrPosting, SequentialInv
  <2> QED  BY <2>2 DEF Init, DuplicateInv, NoDuplicatePost, HasSuccessfulAutoPublish
<1>2. DuplicateInv /\ [Next]_vars => DuplicateInv'
  <2> SUFFICES ASSUME DuplicateInv, [Next]_vars PROVE DuplicateInv'
    OBVIOUS
  <2>1. ASSUME NEW p \in Publishers, Request(p) PROVE DuplicateInv'
    <3>1. TypeOK /\ TypeOK'
      BY <2>1, RequestType DEF DuplicateInv, SequentialInv
    <3>2. UNCHANGED <<post, world>> /\ pub'[p].pc = "write" /\ post.status # "POSTING"
      BY <2>1, <3>1 DEF Request, Publishable, TypeOK, Idle
    <3>3. \A c \in Channels : ~HasSuccessfulAutoPublish(c)
      BY <2>1 DEF Request, Publishable, DuplicateInv, OneChannel
    <3>4. (\A q \in Publishers : q = p) /\ \A c \in Channels : ~HasSuccessfulAutoPublish(c)'
      BY <3>2, <3>3 DEF Sequential, HasSuccessfulAutoPublish
    <3>5. SequentialInv'
      BY <3>1, <3>2, <3>4 DEF DuplicateInv, SequentialInv, LiveIsLoggedOrPosting,
                              HasSuccessfulAutoPublish
    <3> QED  BY <3>2, <3>4, <3>5 DEF DuplicateInv, NoDuplicatePost
  <2>2. ASSUME NEW p \in Publishers, Step(p) PROVE DuplicateInv'
    BY <2>2, StepKeepsSingle
  <2>3. CASE Crash
    <3>1. UNCHANGED <<post, world>> /\ \A q \in Publishers : pub'[q].pc = "idle"
      BY <2>3, IdleType DEF Crash, TypeOK
    <3>2. TypeOK'
      BY <2>3, IdleType DEF Crash, DuplicateInv, SequentialInv, TypeOK
    <3>3. SequentialInv'
      BY <3>1, <3>2 DEF DuplicateInv, SequentialInv, LiveIsLoggedOrPosting, HasSuccessfulAutoPublish
    <3> QED  BY <3>1, <3>3 DEF DuplicateInv, NoDuplicatePost, HasSuccessfulAutoPublish
  <2>4. CASE UNCHANGED vars
    BY <2>4 DEF vars, DuplicateInv, SequentialInv, NoDuplicatePost, TypeOK,
                LiveIsLoggedOrPosting, HasSuccessfulAutoPublish, Unlogged
  <2> QED  BY <2>1, <2>2, <2>3, <2>4 DEF Next
<1> QED  BY <1>1, <1>2, PTL DEF Spec

\* With one caller at a time, one channel and a truthful publisher, no number of
\* requests and crashes puts the same manuscript on the channel twice.
THEOREM NoDuplicate == Sequential /\ OneChannel => (Spec => []NoDuplicatePost)
<1>1. DuplicateInv => NoDuplicatePost
  BY DEF DuplicateInv
<1> QED  BY <1>1, DuplicateInvariant, PTL

-----------------------------------------------------------------------------
(* The promise of Publication: under the same discipline, every step of a     *)
(* handler is one of its steps or leaves what it shows as it is.              *)

LEMMA StepImplements ==
  ASSUME Sequential, OneChannel, RecordInv, DuplicateInv, NEW p \in Publishers, Step(p)
  PROVE  [Abs!Next]_(Abs!vars)
<1> DEFINE c == Channel
           logged == HasSuccessfulAutoPublish(c)
<1>1. c \in Channels
  BY PublishingAssumption DEF Channel
<1>2. SequentialInv /\ TypeOK /\ pub[p] \in Locals /\ post.logs \in Seq(Log) /\ world[c] \in Nat
  BY <1>1 DEF DuplicateInv, SequentialInv, TypeOK
<1>3. pub[p].channel = c /\ world[c] \in {0, 1}
  BY <1>1, <1>2 DEF OneChannel, Locals, DuplicateInv, NoDuplicatePost
<1>4. /\ logged => world[c] = 1 /\ pub[p].pc \in {"idle", "finish"}
      /\ logged /\ pub[p].pc = "finish" => pub[p].method = "auto" /\ pub[p].result = "SUCCESS"
  BY <1>1, <1>3 DEF RecordInv, LoggedSuccessIsReal, DuplicateInv
<1>5. /\ pub[p].pc \in {"rewind", "posting"} => post.status # "POSTING" /\ world[c] = 0
      /\ pub[p].pc \in {"publish", "log", "finish"} => post.status = "POSTING"
      /\ pub[p].pc \in {"publish", "finish"} => ~(world[c] = 1 /\ ~logged)
  BY <1>1, <1>2, <1>3, <1>4 DEF SequentialInv, LiveIsLoggedOrPosting, Unlogged
<1>6. logged => logged'
  BY <1>1, <1>2, LogsOnlyGrow
<1>7. ~AppendLog(p) => logged' = logged
  BY <1>2, OtherSteps DEF HasSuccessfulAutoPublish
<1>8. ~Publish(p) => world' = world
  BY DEF Step, WriteText, Read, Conflict, Rewind, StartPosting, AppendLog, Finish, Refused, Apply
<1>9. CASE WriteText(p) \/ Read(p) \/ Conflict(p) \/ Refused(p)
  <2>1. post' = post /\ world' = world
    BY <1>9 DEF WriteText, Read, Conflict, Refused
  <2> QED  BY <2>1 DEF Abs!vars, Shown, HasSuccessfulAutoPublish
<1>10. CASE Rewind(p)
  <2>1. /\ post'.status = "READY_TO_PUBLISH" /\ world' = world /\ logged' = logged
        /\ post.status # "POSTING" /\ world[c] = 0
    BY <1>5, <1>7, <1>8, <1>10 DEF Rewind, Apply, AppendLog, Publish
  <2>2. Shown' = "open" /\ Shown \in {"open", "posted"}
    BY <2>1 DEF Shown
  <2> QED  BY <2>1, <2>2 DEF Abs!Next, Abs!Reopen, Abs!vars
<1>11. CASE StartPosting(p)
  <2>1. /\ post'.status = "POSTING" /\ world' = world /\ logged' = logged
        /\ post.status # "POSTING" /\ world[c] = 0
    BY <1>5, <1>7, <1>8, <1>11 DEF StartPosting, Apply, AppendLog, Publish
  <2>2. post.status # "POSTED"
    BY <1>11 DEF StartPosting, AllowedTransitions
  <2>3. Shown' = "posting" /\ Shown = "open"
    BY <2>1, <2>2 DEF Shown
  <2> QED  BY <2>1, <2>3 DEF Abs!Next, Abs!Start
<1>12. CASE Publish(p)
  <2>1. post' = post /\ logged' = logged /\ post.status = "POSTING" /\ world[c] = 0
    BY <1>3, <1>4, <1>5, <1>7, <1>12 DEF Publish, AppendLog
  <2>2. world'[c] \in {0, 1}
    BY <1>1, <1>2, <1>3, <1>12, <2>1 DEF Publish, TypeOK
  <2>3. Shown' = Shown /\ Shown = "posting"
    BY <2>1 DEF Shown
  <2>4. (world[c])' = world'[c]
    BY DEF Channel
  <2> QED  BY <2>1, <2>2, <2>3, <2>4 DEF Abs!Next, Abs!GoLive, Abs!vars
<1>13. CASE AppendLog(p)
  <2>1. post'.status = post.status /\ world' = world /\ post.status = "POSTING" /\ ~logged
    BY <1>4, <1>5, <1>8, <1>13 DEF AppendLog, Apply, Publish
  <2>2. logged' => world[c] = 1
    <3> DEFINE l == [method |-> pub[p].method, channel |-> pub[p].channel,
                     result |-> pub[p].result]
    <3>1. post'.logs = Append(post.logs, l) /\ l \in Log
      BY <1>2, <1>13, PublishingAssumption DEF AppendLog, Apply, Locals, Log
    <3>2. IsAutoSuccess(l, c) => world[c] = 1
      BY <1>3, <1>13 DEF IsAutoSuccess, AppendLog, RecordInv
    <3>3. logged' => IsAutoSuccess(l, c)
      <4> HIDE DEF l
      <4> QED  BY <1>2, <2>1, <3>1, AppendedLog DEF HasSuccessfulAutoPublish
    <3> QED  BY <3>2, <3>3
  <2>3. Shown' = Shown /\ Shown = "posting"
    BY <2>1 DEF Shown
  <2>4. world[Channel]' = world[Channel]
    BY <2>1 DEF Channel
  <2>5. CASE logged'
    <3>1. HasSuccessfulAutoPublish(Channel)' = TRUE
      BY <2>5 DEF HasSuccessfulAutoPublish
    <3>2. world[Channel] = 1
      BY <2>2, <2>5
    <3>3. Abs!Record
      BY <2>3, <2>4, <3>1, <3>2 DEF Abs!Record
    <3> QED  BY <3>3 DEF Abs!Next
  <2>6. CASE ~logged'
    <3>1. HasSuccessfulAutoPublish(Channel)' = HasSuccessfulAutoPublish(Channel)
      BY <2>1, <2>6 DEF HasSuccessfulAutoPublish
    <3>2. Abs!vars' = Abs!vars
      BY <2>3, <2>4, <3>1 DEF Abs!vars
    <3> QED  BY <3>2
  <2> QED  BY <2>5, <2>6
<1>14. CASE Finish(p)
  <2>1. /\ world' = world /\ logged' = logged /\ post.status = "POSTING" /\ pub[p].pc = "finish"
        /\ post'.status \in {"READY_TO_PUBLISH", FinalStatus(pub[p].result)}
        /\ pub[p].method = "auto" => post'.status = FinalStatus(pub[p].result)
    BY <1>5, <1>7, <1>8, <1>14 DEF Finish, Apply, AppendLog, Publish
  <2>2. post'.status # "POSTING" /\ (logged => post'.status = "POSTED")
    BY <1>4, <2>1 DEF FinalStatus
  <2>3. Shown = "posting" /\ Shown' \in {"open", "posted"} /\ (logged => Shown' = "posted")
    BY <2>1, <2>2 DEF Shown
  <2>4. world[c] = 1 => logged
    BY <1>5, <2>1
  <2> QED  BY <1>3, <2>1, <2>3, <2>4 DEF Abs!Next, Abs!Leave
<1> QED  BY <1>9, <1>10, <1>11, <1>12, <1>13, <1>14 DEF Step

LEMMA NextImplements ==
  ASSUME Sequential, OneChannel, RecordInv, DuplicateInv, [Next]_vars
  PROVE  [Abs!Next]_(Abs!vars)
<1>1. CASE UNCHANGED <<post, world>>
  BY <1>1 DEF Abs!vars, Shown, HasSuccessfulAutoPublish
<1>2. CASE \E p \in Publishers : Step(p)
  BY <1>2, StepImplements
<1> QED  BY <1>1, <1>2 DEF Next, Request, Crash, vars

\* With one caller at a time, one channel and a truthful publisher, publish_blog_task
\* does what Publication promises: one article, in POSTING, on record before POSTED.
THEOREM PublishingImplements == Sequential /\ OneChannel => (Spec => Implements)
<1> SUFFICES ASSUME Sequential, OneChannel PROVE Spec => Implements
  OBVIOUS
<1>1. Init => Abs!Init
  <2>1. Channel \in Channels
    BY PublishingAssumption DEF Channel
  <2> QED  BY <2>1 DEF Init, Abs!Init, Shown, HasSuccessfulAutoPublish
<1>2. RecordInv /\ DuplicateInv /\ [Next]_vars => [Abs!Next]_(Abs!vars)
  BY NextImplements
<1> QED  BY <1>1, <1>2, RecordInvariant, DuplicateInvariant, PTL DEF Spec, Implements, Abs!Spec
=============================================================================
