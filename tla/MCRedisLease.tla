---------------------------- MODULE MCRedisLease ----------------------------
(***************************************************************************)
(* Instance of RedisLease for TLC: as many tokens as can be in use, and one. *)
(***************************************************************************)
EXTENDS RedisLease

CONSTANTS t1, t2, t3, t4, t5, t6, t7, t8

EnoughTokens == {t1, t2, t3, t4, t5, t6, t7, t8}
=============================================================================
