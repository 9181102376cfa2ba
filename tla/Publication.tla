---------------------------- MODULE Publication ----------------------------
(***************************************************************************)
(* What publishing a manuscript on one channel promises to whoever asks for  *)
(* it, without handlers, versions and crashes: the article goes live once,   *)
(* only while the post is shown as being posted, and the post does not leave  *)
(* that status with a live article before the record says so; from then on it *)
(* is posted for good.                                                       *)
(***************************************************************************)
EXTENDS Naturals

VARIABLES
  shown,    \* may it be published ("open"), is it being posted, is it posted?
  live,     \* how often the article is live
  logged    \* does the record have a success?

vars == <<shown, live, logged>>

Init == shown = "open" /\ live = 0 /\ logged = FALSE

Start ==
  /\ shown = "open" /\ live = 0
  /\ shown' = "posting"
  /\ UNCHANGED <<live, logged>>

GoLive ==
  /\ shown = "posting" /\ live = 0
  /\ live' = 1
  /\ UNCHANGED <<shown, logged>>

Record ==
  /\ shown = "posting" /\ live = 1
  /\ logged' = TRUE
  /\ UNCHANGED <<shown, live>>

Leave ==
  /\ shown = "posting"
  /\ IF live = 0 THEN shown' \in {"open", "posted"} ELSE logged /\ shown' = "posted"
  /\ UNCHANGED <<live, logged>>

\* A post handed out by hand (copied) may be published after all.
Reopen ==
  /\ shown = "posted" /\ live = 0
  /\ shown' = "open"
  /\ UNCHANGED <<live, logged>>

Next == Start \/ GoLive \/ Record \/ Leave \/ Reopen

Spec == Init /\ [][Next]_vars
=============================================================================
