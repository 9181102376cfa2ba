----------------------------- MODULE RedisLease -----------------------------
(***************************************************************************)
(* The job lease over Redis: RedisJobLease (one server command per call) and *)
(* HeldLease, the handle whose heartbeat renews the lease while a job runs.  *)
(* One key, that of one job; a worker is a coroutine of one of the           *)
(* processes.                                                                *)
(*                                                                          *)
(* A command takes effect at the server and is answered later, and the       *)
(* worker may be cancelled or die in between.  Time passes in Ticks.  A       *)
(* heartbeat is at most MaxLag late; a Stall (the event loop blocked for      *)
(* longer) and a command that raises are faults, and counted.               *)
(***************************************************************************)
EXTENDS Integers, FiniteSets

CONSTANTS
  Workers,
  Tokens,      \* uuid4 tokens: fresh ones are chosen among those not in use
  NoToken,     \* no token: the key does not exist, the call answered None
  Seconds,     \* the lease's lifetime, in ticks
  Interval,    \* time between heartbeats, Seconds \div 3 in the code
  MaxLag,      \* how late a heartbeat of a responsive process may be
  MaxFaults,   \* bound on faults
  MaxCrashes   \* bound on process deaths

ASSUME LeaseAssumption ==
  /\ NoToken \notin Tokens
  /\ Seconds \in Nat /\ Interval \in Nat \ {0} /\ MaxLag \in Nat
  /\ Interval + MaxLag < Seconds
  /\ MaxFaults \in Nat /\ MaxCrashes \in Nat

VARIABLES
  key,      \* the Redis key: its token and the time it has left (0: no expiry)
  pc,       \* idle, asked (SET sent, not answered) or running the job
  hb,       \* heartbeat: sleep, lapsed (renew failed), retaken (SET sent)
  tok,      \* HeldLease._token
  answer,   \* the token the pending command will answer, or NoToken
  timer,    \* time since the last heartbeat, or acquisition, took effect
  faults,
  crashes

vars == <<key, pc, hb, tok, answer, timer, faults, crashes>>

Free == [token |-> NoToken, ttl |-> 0]

InUse == {key.token} \cup {tok[w] : w \in Workers} \cup {answer[w] : w \in Workers}
Fresh == Tokens \ InUse
NewToken == CHOOSE t \in Fresh : TRUE

Working(w) == pc[w] = "running"
Engaged(w) == Working(w) \/ (pc[w] = "asked" /\ answer[w] # NoToken)

Init ==
  /\ key = Free
  /\ pc = [w \in Workers |-> "idle"]
  /\ hb = [w \in Workers |-> "sleep"]
  /\ tok = [w \in Workers |-> NoToken]
  /\ answer = [w \in Workers |-> NoToken]
  /\ timer = [w \in Workers |-> 0]
  /\ faults = 0
  /\ crashes = 0

-----------------------------------------------------------------------------
\* Mutant: SET without NX.
SetIfFree_Overwrites(w) ==
  /\ Fresh # {}
  /\ key' = [token |-> NewToken, ttl |-> Seconds]
  /\ answer' = [answer EXCEPT ![w] = NewToken]

\* Mutant: EX is given milliseconds.
SetIfFree_Milliseconds(w) ==
  /\ Fresh # {}
  /\ IF key = Free
     THEN /\ key' = [token |-> NewToken, ttl |-> 1000 * Seconds]
          /\ answer' = [answer EXCEPT ![w] = NewToken]
     ELSE /\ answer' = [answer EXCEPT ![w] = NoToken]
          /\ UNCHANGED key

\* Mutant: SET without EX.
SetIfFree_NoExpiry(w) ==
  /\ Fresh # {}
  /\ IF key = Free
     THEN /\ key' = [token |-> NewToken, ttl |-> 0]
          /\ answer' = [answer EXCEPT ![w] = NewToken]
     ELSE /\ answer' = [answer EXCEPT ![w] = NoToken]
          /\ UNCHANGED key

\* SET key token EX Seconds NX, at the server: the token if it was set.
SetIfFree(w) ==
  /\ Fresh # {}
  /\ IF key = Free
     THEN /\ key' = [token |-> NewToken, ttl |-> Seconds]
          /\ answer' = [answer EXCEPT ![w] = NewToken]
     ELSE /\ answer' = [answer EXCEPT ![w] = NoToken]
          /\ UNCHANGED key

Acquire(w) ==
  /\ pc[w] = "idle"
  /\ SetIfFree(w)
  /\ pc' = [pc EXCEPT ![w] = "asked"]
  /\ timer' = [timer EXCEPT ![w] = 0]
  /\ UNCHANGED <<hb, tok, faults, crashes>>

\* Mutant: the answer of acquire is not looked at.
Hold_Anyway(w) ==
  /\ pc[w] = "asked"
  /\ pc' = [pc EXCEPT ![w] = "running"]
  /\ tok' = [tok EXCEPT ![w] = answer[w]]
  /\ answer' = [answer EXCEPT ![w] = NoToken]
  /\ UNCHANGED <<key, hb, timer, faults, crashes>>

\* hold(): a handle if the lease was acquired, None if somebody has it.
Hold(w) ==
  /\ pc[w] = "asked"
  /\ IF answer[w] # NoToken
     THEN /\ pc' = [pc EXCEPT ![w] = "running"]
          /\ tok' = [tok EXCEPT ![w] = answer[w]]
          /\ hb' = [hb EXCEPT ![w] = "sleep"]
     ELSE pc' = [pc EXCEPT ![w] = "idle"] /\ UNCHANGED <<tok, hb>>
  /\ answer' = [answer EXCEPT ![w] = NoToken]
  /\ UNCHANGED <<key, timer, faults, crashes>>

\* Mutant: the renewal checks the token and forgets to extend.
Renew_NoExtend(w) ==
  /\ Working(w) /\ hb[w] = "sleep" /\ timer[w] >= Interval
  /\ IF key.token = tok[w]
     THEN timer' = [timer EXCEPT ![w] = 0] /\ UNCHANGED hb
     ELSE hb' = [hb EXCEPT ![w] = "lapsed"] /\ UNCHANGED timer
  /\ UNCHANGED <<key, pc, tok, answer, faults, crashes>>

\* The heartbeat after its sleep: compare the token and extend, in one script.
Renew(w) ==
  /\ Working(w) /\ hb[w] = "sleep" /\ timer[w] >= Interval
  /\ IF key.token = tok[w]
     THEN /\ key' = [key EXCEPT !.ttl = Seconds]
          /\ timer' = [timer EXCEPT ![w] = 0]
          /\ UNCHANGED hb
     ELSE hb' = [hb EXCEPT ![w] = "lapsed"] /\ UNCHANGED <<key, timer>>
  /\ UNCHANGED <<pc, tok, answer, faults, crashes>>

\* Mutant: the heartbeat ends at the first failed renewal, as it once did.
Retake_GivesUp(w) == Working(w) /\ hb[w] = "lapsed" /\ UNCHANGED vars

\* Renewal failed and the job still runs: take the lease again.
Retake(w) ==
  /\ Working(w) /\ hb[w] = "lapsed"
  /\ SetIfFree(w)
  /\ hb' = [hb EXCEPT ![w] = "retaken"]
  /\ timer' = [timer EXCEPT ![w] = 0]
  /\ UNCHANGED <<pc, tok, faults, crashes>>

\* Its answer: the new token is this job's, or somebody else has the lease and
\* the heartbeat goes on trying after another sleep.
Retaken(w) ==
  /\ Working(w) /\ hb[w] = "retaken"
  /\ tok' = IF answer[w] # NoToken THEN [tok EXCEPT ![w] = answer[w]] ELSE tok
  /\ answer' = [answer EXCEPT ![w] = NoToken]
  /\ hb' = [hb EXCEPT ![w] = "sleep"]
  /\ UNCHANGED <<key, pc, timer, faults, crashes>>

\* The worker's side of a lease forgotten.
Gone(w) ==
  /\ pc' = [pc EXCEPT ![w] = "idle"]
  /\ hb' = [hb EXCEPT ![w] = "sleep"]
  /\ tok' = [tok EXCEPT ![w] = NoToken]
  /\ answer' = [answer EXCEPT ![w] = NoToken]
  /\ timer' = [timer EXCEPT ![w] = 0]

\* Mutant: the key is deleted without comparing tokens.
Exit_DeletesAny(w) ==
  /\ Working(w)
  /\ Gone(w)
  /\ key' = Free
  /\ UNCHANGED <<faults, crashes>>

\* __aexit__: the heartbeat is cancelled wherever it is, and the script deletes
\* the key if it still holds this handle's token.
Exit(w) ==
  /\ Working(w)
  /\ Gone(w)
  /\ key' = IF key.token = tok[w] THEN Free ELSE key
  /\ UNCHANGED <<faults, crashes>>

\* The process dies: nobody releases.
Die(w) ==
  /\ pc[w] # "idle"
  /\ crashes < MaxCrashes
  /\ crashes' = crashes + 1
  /\ Gone(w)
  /\ UNCHANGED <<key, faults>>

-----------------------------------------------------------------------------
\* Redis raises.  Acquiring goes on as if the lease was held, renewing counts
\* as failed, releasing leaves the key to its expiry.
Fault == faults < MaxFaults /\ faults' = faults + 1

AcquireFault(w) ==
  /\ pc[w] = "idle" /\ Fault /\ Fresh # {}
  /\ pc' = [pc EXCEPT ![w] = "running"]
  /\ tok' = [tok EXCEPT ![w] = NewToken]
  /\ timer' = [timer EXCEPT ![w] = 0]
  /\ UNCHANGED <<key, hb, answer, crashes>>

RenewFault(w) ==
  /\ Working(w) /\ hb[w] = "sleep" /\ timer[w] >= Interval /\ Fault
  /\ hb' = [hb EXCEPT ![w] = "lapsed"]
  /\ UNCHANGED <<key, pc, tok, answer, timer, crashes>>

RetakeFault(w) ==
  /\ Working(w) /\ hb[w] = "lapsed" /\ Fault /\ Fresh # {}
  /\ tok' = [tok EXCEPT ![w] = NewToken]
  /\ hb' = [hb EXCEPT ![w] = "sleep"]
  /\ timer' = [timer EXCEPT ![w] = 0]
  /\ UNCHANGED <<key, pc, answer, crashes>>

ReleaseFault(w) ==
  /\ Working(w) /\ Fault
  /\ Gone(w)
  /\ UNCHANGED <<key, crashes>>

\* Time passes at the server and for every worker.
Elapse ==
  /\ key' = CASE key.ttl = 0 -> key
              [] key.ttl = 1 -> Free
              [] OTHER -> [key EXCEPT !.ttl = @ - 1]
  /\ timer' = [w \in Workers |-> IF Engaged(w) /\ timer[w] < Seconds
                                 THEN timer[w] + 1 ELSE timer[w]]
  /\ UNCHANGED <<pc, hb, tok, answer, crashes>>

OnTime == \A w \in Workers : Engaged(w) => timer[w] < Interval + MaxLag

Tick == OnTime /\ Elapse /\ UNCHANGED faults

\* A blocked event loop lets the time of a heartbeat pass.
Stall == ~OnTime /\ Fault /\ Elapse

-----------------------------------------------------------------------------
Heartbeat(w) == Renew(w) \/ Retake(w) \/ Retaken(w)
Faulty(w) == AcquireFault(w) \/ RenewFault(w) \/ RetakeFault(w) \/ ReleaseFault(w)

Next ==
  \/ \E w \in Workers :
       Acquire(w) \/ Hold(w) \/ Heartbeat(w) \/ Exit(w) \/ Die(w) \/ Faulty(w)
  \/ Tick \/ Stall

Spec == Init /\ [][Next]_vars

\* Answers arrive, heartbeats run and time passes; a job need not end, and
\* nobody need ask for the lease.
FairSpec ==
  /\ Spec
  /\ \A w \in Workers : WF_vars(Hold(w)) /\ WF_vars(Heartbeat(w))
  /\ WF_vars(Tick)

-----------------------------------------------------------------------------
\* Type invariant of the key, the handles and the counters.
TypeOK ==
  /\ key \in [token : Tokens \cup {NoToken}, ttl : 0..Seconds]
  /\ pc \in [Workers -> {"idle", "asked", "running"}]
  /\ hb \in [Workers -> {"sleep", "lapsed", "retaken"}]
  /\ tok \in [Workers -> Tokens \cup {NoToken}]
  /\ answer \in [Workers -> Tokens \cup {NoToken}]
  /\ timer \in [Workers -> 0..Seconds]
  /\ faults \in Nat /\ crashes \in Nat

\* Two workers never run the same job, as long as heartbeats are on time and
\* Redis answers (locks.py:1): deaths, lost answers and takeovers after expiry
\* included.
MutualExclusion ==
  faults = 0 => \A u, w \in Workers : Working(u) /\ Working(w) => u = w

\* The absence of a lease means that whoever ran the job is dead, which is what
\* the recovery sweep concludes from is_held (locks.py:8-9, recovery.py:110).
NoLeaseMeansDead ==
  faults = 0 /\ key = Free => \A w \in Workers : ~Working(w)

\* While a job runs under its lease, only the clock takes the lease away: never
\* another worker's exit, takeover or late release, faults or not.
OnlyTheClockTakes ==
  [][\A w \in Workers :
       Working(w) /\ key.token = tok[w] /\ pc'[w] = pc[w] /\ tok'[w] = tok[w]
         => key'.token = key.token \/ (key.ttl = 1 /\ key' = Free)]_vars

\* A token nobody holds any more leaves the key: the job of a dead worker, and a
\* lease whose answer was lost, can be taken over.
DeadLeaseLapses ==
  \A t \in Tokens :
    (key.token = t /\ \A w \in Workers : t \notin {tok[w], answer[w]}) ~> key.token # t

\* After a stall or a failed command, a job that keeps running is marked again
\* (_keep_alive does not give up): the sweep takes it for dead only meanwhile.
LapsedIsRemarked ==
  \A w \in Workers :
    Working(w) ~> \/ key.token = tok[w]
                  \/ ~Working(w)
                  \/ \E u \in Workers \ {w} : pc[u] # "idle"

Running == {w \in Workers : Working(w)}
Abs == INSTANCE ExclusiveWork WITH working <- Running, degraded <- faults > 0

\* RedisJobLease and HeldLease implement the promise of ExclusiveWork.
Implements == Abs!Spec
=============================================================================
