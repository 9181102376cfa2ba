--------------------------- MODULE PostPublishing ---------------------------
(***************************************************************************)
(* Publishing one finished manuscript: BlogTaskService.publish_blog_task    *)
(* over the optimistically locked BlogTask document.                        *)
(*                                                                          *)
(* Every step between two awaits of the handler is one action.  A write to  *)
(* the document is two steps: the read that loads a version (Read) and the  *)
(* find_one_and_update that only applies if the version is still the one    *)
(* read (Rewind, StartPosting, AppendLog, Finish), so requests interleave    *)
(* the way they do against the database.  The platform (Naver, Threads) is  *)
(* external: world[c] counts the articles it really shows.                  *)
(***************************************************************************)
EXTENDS Naturals, Sequences

CONSTANTS
  Publishers,    \* concurrent callers: API requests and the scheduled worker
  Channels,      \* channels the callers publish to
  Uncertain,     \* may an article go live although the publisher reports FAIL?
  MaxRequests,   \* bound on publish requests in a behaviour
  MaxCrashes     \* bound on process crashes in a behaviour

ASSUME PublishingAssumption ==
  /\ Channels \subseteq {"naver", "threads"} /\ Channels # {}
  /\ Uncertain \in BOOLEAN
  /\ MaxRequests \in Nat
  /\ MaxCrashes \in Nat

VARIABLES
  post,      \* the BlogTask document: status, version, postingLogs
  world,     \* articles really published, per channel
  pub,       \* the handler of each caller: program counter and locals
  requests,  \* requests made so far
  crashes    \* crashes so far

vars == <<post, world, pub, requests, crashes>>

Methods == {"copy", "draft", "auto"}
Results == {"SUCCESS", "NEEDS_HUMAN", "FAIL"}
Statuses == {"READY_TO_PUBLISH", "POSTING", "POSTED", "POSTING_NEEDS_HUMAN", "FAILED"}
Log == [method : Methods, channel : Channels, result : Results]

\* The statuses transition_status may move to, restricted to a finished manuscript.
AllowedTransitions ==
  [READY_TO_PUBLISH    |-> {"POSTING", "FAILED"},
   POSTING             |-> {"POSTED", "POSTING_NEEDS_HUMAN", "FAILED"},
   POSTED              |-> {},
   POSTING_NEEDS_HUMAN |-> {"POSTING", "FAILED"},
   FAILED              |-> {}]

NotRead == 0   \* versions start at 1
Writing == {"rewind", "posting", "log", "finish"}   \* the handler's four writes

Idle == [pc |-> "idle", from |-> "READY_TO_PUBLISH", method |-> "copy",
         channel |-> CHOOSE c \in Channels : TRUE, result |-> "FAIL", seen |-> NotRead]

IsAutoSuccess(l, c) == l.method = "auto" /\ l.channel = c /\ l.result = "SUCCESS"

HasSuccessfulAutoPublish(c) ==
  \E i \in DOMAIN post.logs : IsAutoSuccess(post.logs[i], c)

\* Mutant: a POSTED post is publishable whatever its logs say.
Publishable_IgnoresLogs(c) ==
  post.status \in {"READY_TO_PUBLISH", "POSTING_NEEDS_HUMAN", "FAILED", "POSTED"}

Publishable(c) ==
  \/ post.status \in {"READY_TO_PUBLISH", "POSTING_NEEDS_HUMAN", "FAILED"}
  \/ post.status = "POSTED" /\ ~HasSuccessfulAutoPublish(c)

Init ==
  /\ post = [status |-> "READY_TO_PUBLISH", version |-> 1, logs |-> <<>>]
  /\ world = [c \in Channels |-> 0]
  /\ pub = [p \in Publishers |-> Idle]
  /\ requests = 0
  /\ crashes = 0

-----------------------------------------------------------------------------
\* The request is validated and the document read; what was read decides later
\* whether the status is rewound, and is never read again for that.
Request(p) ==
  /\ pub[p].pc = "idle"
  /\ requests < MaxRequests
  /\ \E m \in Methods, c \in Channels :
       /\ c = "threads" => m = "auto"
       /\ Publishable(c)
       /\ pub' = [pub EXCEPT ![p] =
            [Idle EXCEPT !.pc = "write", !.from = post.status, !.method = m, !.channel = c]]
  /\ requests' = requests + 1
  /\ UNCHANGED <<post, world, crashes>>

\* A Threads publication first writes its own text, before any status moves;
\* when that fails the post stays as it is.
WriteText(p) ==
  /\ pub[p].pc = "write"
  /\ \/ pub' = [pub EXCEPT ![p].pc =
                  IF pub[p].from \in {"POSTED", "FAILED"} THEN "rewind" ELSE "posting"]
     \/ pub[p].channel = "threads" /\ pub' = [pub EXCEPT ![p] = Idle]
  /\ UNCHANGED <<post, world, requests, crashes>>

\* _require_task: load the version the next write is conditional on.
Read(p) ==
  /\ pub[p].pc \in Writing /\ pub[p].seen = NotRead
  /\ pub' = [pub EXCEPT ![p].seen = post.version]
  /\ UNCHANGED <<post, world, requests, crashes>>

\* _apply: the write happens only if nobody wrote since the read.
Apply(p, status, logs, next) ==
  /\ pub[p].seen = post.version
  /\ post' = [status |-> status, version |-> post.version + 1, logs |-> logs]
  /\ pub' = [pub EXCEPT ![p] = [next EXCEPT !.seen = NotRead]]
  /\ UNCHANGED <<world, requests, crashes>>

\* _apply found another version: the handler raises and its caller gets an error.
Conflict(p) ==
  /\ pub[p].seen # NotRead /\ pub[p].seen # post.version
  /\ pub' = [pub EXCEPT ![p] = Idle]
  /\ UNCHANGED <<post, world, requests, crashes>>

\* Mutant: the manuscript is sent back to its input, as when an input is replaced.
Rewind_ToInput(p) ==
  /\ pub[p].pc = "rewind"
  /\ Apply(p, "INPUT", post.logs, [pub[p] EXCEPT !.pc = "posting"])

\* rewind_status has no edge check: it writes whatever the status is now.
Rewind(p) ==
  /\ pub[p].pc = "rewind"
  /\ Apply(p, "READY_TO_PUBLISH", post.logs, [pub[p] EXCEPT !.pc = "posting"])

StartPosting(p) ==
  /\ pub[p].pc = "posting"
  /\ "POSTING" \in AllowedTransitions[post.status]
  /\ Apply(p, "POSTING", post.logs, [pub[p] EXCEPT !.pc = "publish"])

\* Mutant: an automatic publication counts as done once the button was pressed.
Publish_Optimistic(p) ==
  /\ pub[p].pc = "publish"
  /\ pub' = [pub EXCEPT ![p].result = "SUCCESS", ![p].pc = "log"]
  /\ UNCHANGED <<post, world, requests, crashes>>

\* Mutant: an exception of the publisher escapes the handler.
Publish_Escapes(p) ==
  /\ pub[p].pc = "publish"
  /\ pub' = [pub EXCEPT ![p] = Idle]
  /\ UNCHANGED <<post, world, requests, crashes>>

\* The posting worker (external): an article may go live; a failure is
\* reported as FAIL, also when the final click went through but the address of
\* the article did not come up in time (Uncertain).
Publish(p) ==
  /\ pub[p].pc = "publish"
  /\ \E result \in Results, live \in BOOLEAN :
       /\ pub[p].method = "copy" => result = "SUCCESS"
       /\ live => pub[p].method = "auto" /\ (result = "SUCCESS" \/ (Uncertain /\ result = "FAIL"))
       /\ pub[p].method = "auto" /\ result = "SUCCESS" => live
       /\ world' = IF live THEN [world EXCEPT ![pub[p].channel] = @ + 1] ELSE world
       /\ pub' = [pub EXCEPT ![p].result = result, ![p].pc = "log"]
  /\ UNCHANGED <<post, requests, crashes>>

\* Mutant: only automatic publications are logged.
AppendLog_AutoOnly(p) ==
  /\ pub[p].pc = "log"
  /\ Apply(p, post.status,
           IF pub[p].method = "auto"
           THEN Append(post.logs, [method |-> pub[p].method, channel |-> pub[p].channel,
                                   result |-> pub[p].result])
           ELSE post.logs,
           [pub[p] EXCEPT !.pc = "finish"])

AppendLog(p) ==
  /\ pub[p].pc = "log"
  /\ Apply(p, post.status,
           Append(post.logs, [method |-> pub[p].method, channel |-> pub[p].channel,
                              result |-> pub[p].result]),
           [pub[p] EXCEPT !.pc = "finish"])

FinalStatus(result) ==
  CASE result = "SUCCESS" -> "POSTED"
    [] result = "NEEDS_HUMAN" -> "POSTING_NEEDS_HUMAN"
    [] OTHER -> "FAILED"

\* A saved Naver draft is not a publication: the manuscript is rewound.
Finish(p) ==
  /\ pub[p].pc = "finish"
  /\ \/ /\ pub[p].method = "draft" /\ pub[p].result = "SUCCESS"
        /\ Apply(p, "READY_TO_PUBLISH", post.logs, Idle)
     \/ /\ ~(pub[p].method = "draft" /\ pub[p].result = "SUCCESS")
        /\ FinalStatus(pub[p].result) \in AllowedTransitions[post.status]
        /\ Apply(p, FinalStatus(pub[p].result), post.logs, Idle)

\* _require_transition refuses: the status read has no such edge.
Refused(p) ==
  /\ pub[p].seen = post.version
  /\ \/ pub[p].pc = "posting" /\ "POSTING" \notin AllowedTransitions[post.status]
     \/ /\ pub[p].pc = "finish" /\ ~(pub[p].method = "draft" /\ pub[p].result = "SUCCESS")
        /\ FinalStatus(pub[p].result) \notin AllowedTransitions[post.status]
  /\ pub' = [pub EXCEPT ![p] = Idle]
  /\ UNCHANGED <<post, world, requests, crashes>>

\* Mutant: the start-up sweep also fails the posts it finds in POSTING.
Crash_Sweeps ==
  /\ crashes < MaxCrashes
  /\ crashes' = crashes + 1
  /\ pub' = [p \in Publishers |-> Idle]
  /\ post' = IF post.status = "POSTING" THEN [post EXCEPT !.status = "FAILED"] ELSE post
  /\ UNCHANGED <<world, requests>>

\* The process dies and starts again.  The document stays as it is: neither
\* start-up sweep (recover_orphaned_tasks, stop_orphaned_generations) looks at
\* a post that is POSTING.
Crash ==
  /\ crashes < MaxCrashes
  /\ crashes' = crashes + 1
  /\ pub' = [p \in Publishers |-> Idle]
  /\ UNCHANGED <<post, world, requests>>

Step(p) ==
  WriteText(p) \/ Read(p) \/ Conflict(p) \/ Rewind(p) \/ StartPosting(p) \/ Publish(p)
    \/ AppendLog(p) \/ Finish(p) \/ Refused(p)

Next == (\E p \in Publishers : Request(p) \/ Step(p)) \/ Crash

Spec == Init /\ [][Next]_vars

\* A handler that has started is driven to its end by the event loop; nobody
\* is obliged to make a request, and nothing is obliged to crash.
FairSpec == Spec /\ \A p \in Publishers : WF_vars(Step(p))

\* The same, with users who keep asking for as long as a request is accepted.
RetryingSpec == FairSpec /\ \A p \in Publishers : WF_vars(Request(p))

-----------------------------------------------------------------------------
Locals == [pc : {"idle", "write", "publish"} \cup Writing, from : Statuses,
           method : Methods, channel : Channels, result : Results, seen : Nat]

\* Type invariant of the document, the platform and the handlers.
TypeOK ==
  /\ post \in [status : Statuses, version : Nat \ {NotRead}, logs : Seq(Log)]
  /\ world \in [Channels -> Nat]
  /\ pub \in [Publishers -> Locals]
  /\ requests \in Nat
  /\ crashes \in Nat

\* A logged automatic success is real: the platform shows at least one article
\* on that channel, whatever the interleaving of requests and crashes.  The
\* guards against publishing again trust these logs.
LoggedSuccessIsReal ==
  \A c \in Channels : HasSuccessfulAutoPublish(c) => world[c] > 0

\* A post shown as POSTED has the log that says where it went: publish_blog_task
\* appends the log before it moves the status, so no crash or conflict can leave
\* a published post without a record.
PostedIsBackedByALog ==
  post.status = "POSTED" => \E i \in DOMAIN post.logs : post.logs[i].result = "SUCCESS"

\* The same manuscript is never put on the same channel twice.
NoDuplicatePost == \A c \in Channels : world[c] <= 1

\* With one caller and a publisher that tells the truth, an article the platform
\* shows is either logged or its post is still POSTING, the one status every
\* later request is refused in: a crash never makes a live article look unpublished.
LiveIsLoggedOrPosting ==
  \A c \in Channels :
    world[c] > 0 => HasSuccessfulAutoPublish(c) \/ post.status = "POSTING"

\* Without a crash nobody leaves the post in POSTING: whichever request wins the
\* versioned writes also moves the status on.
PostingEnds ==
  (post.status = "POSTING" /\ crashes = 0) ~> (post.status # "POSTING" \/ crashes > 0)

\* A publication interrupted by a crash can be tried again by a user who keeps
\* asking (as recovery.py's message invites the user to do).
InterruptedPublishCanBeRetried ==
  (post.status = "POSTING" /\ requests < MaxRequests)
    ~> (post.status # "POSTING" \/ requests = MaxRequests)

\* One channel, as whoever asks for a publication sees it.
Channel == CHOOSE c \in Channels : TRUE
Shown ==
  CASE post.status = "POSTING" -> "posting"
    [] post.status = "POSTED" -> "posted"
    [] OTHER -> "open"
Abs == INSTANCE Publication
         WITH shown <- Shown, live <- world[Channel], logged <- HasSuccessfulAutoPublish(Channel)

\* publish_blog_task implements the promise of Publication, for one caller at a time,
\* one channel and a publisher that reports what became of the article.
Implements == Abs!Spec
=============================================================================
