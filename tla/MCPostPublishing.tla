-------------------------- MODULE MCPostPublishing --------------------------
(***************************************************************************)
(* Instances of PostPublishing for TLC.  The callers are model values given *)
(* in the cfg; the channels are the strings the code uses.                  *)
(***************************************************************************)
EXTENDS PostPublishing

NaverOnly == {"naver"}
BothChannels == {"naver", "threads"}
=============================================================================
