------------------------- MODULE MCScheduledPosting -------------------------
(* Instances of ScheduledPosting for TLC.                                    *)
EXTENDS ScheduledPosting
CONSTANTS j1, j2
=============================================================================
