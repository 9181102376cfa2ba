---------------------------- MODULE ExclusiveWork ----------------------------
(***************************************************************************)
(* What a job lease promises its users, without saying how: two processes   *)
(* do not run the same job at once.  The promise is kept until the first    *)
(* fault of the lease service or of the clock (the lease modules count       *)
(* them): from then on the implementation prefers running a job twice to     *)
(* not running it, and says so.                                              *)
(***************************************************************************)
CONSTANT Workers

VARIABLES
  working,   \* the workers running the job
  degraded   \* has a fault happened?

vars == <<working, degraded>>

Init == working = {} /\ degraded = FALSE

Begin(w) ==
  /\ w \notin working
  /\ working = {} \/ degraded
  /\ working' = working \cup {w}
  /\ UNCHANGED degraded

\* The job is over, or its process died.
End(w) ==
  /\ w \in working
  /\ working' = working \ {w}
  /\ UNCHANGED degraded

\* A fault; whoever was being told about it may start as well.
Degrade ==
  /\ degraded' = TRUE
  /\ \E W \in SUBSET Workers : working' = W

Next == Degrade \/ \E w \in Workers : Begin(w) \/ End(w)

Spec == Init /\ [][Next]_vars
=============================================================================
