-------------------------- MODULE RedisLease_proofs --------------------------
(***************************************************************************)
(* Proofs about RedisLease, for every set of workers and every lifetime and  *)
(* heartbeat with Interval + MaxLag < Seconds.                               *)
(*                                                                          *)
(*   LeaseTypes            the type invariant;                              *)
(*   LeaseExcludes         two workers never run the job;                   *)
(*   LeaseTellsTheLiving   a missing lease means that nobody runs it;       *)
(*   LeaseImplements       the lease implements ExclusiveWork;              *)
(*   OnlyExpiryTakes       faults or not, nobody else takes a lease away.   *)
(***************************************************************************)
EXTENDS RedisLease, TLAPS

\* A token that is taken is one of the tokens, and not the absence of one.
LEMMA NewTokenType ==
  ASSUME Fresh # {}
  PROVE  NewToken \in Tokens /\ NewToken # NoToken
<1>1. NewToken \in Fresh
  BY DEF NewToken
<1> QED  BY <1>1, LeaseAssumption DEF Fresh

LEMMA GoneType ==
  ASSUME TypeOK, NEW w \in Workers, Gone(w), key' \in {key, Free}, faults' \in Nat, crashes' \in Nat
  PROVE  TypeOK'
BY LeaseAssumption DEF TypeOK, Gone, Free

LEMMA ElapseType ==
  ASSUME TypeOK, Elapse, faults' \in Nat
  PROVE  TypeOK'
<1>1. key' \in [token : Tokens \cup {NoToken}, ttl : 0..Seconds]
  <2>1. CASE key.ttl = 0
    BY <2>1 DEF Elapse, TypeOK
  <2>2. CASE key.ttl = 1
    BY <2>2, LeaseAssumption DEF Elapse, TypeOK, Free
  <2>3. CASE key.ttl # 0 /\ key.ttl # 1
    <3>1. key.ttl \in 2..Seconds /\ key' = [key EXCEPT !.ttl = key.ttl - 1]
      BY <2>3, LeaseAssumption DEF Elapse, TypeOK
    <3> QED  BY <3>1, LeaseAssumption DEF TypeOK
  <2> QED  BY <2>1, <2>2, <2>3
<1>2. timer' \in [Workers -> 0..Seconds]
  BY LeaseAssumption DEF Elapse, TypeOK
<1> QED  BY <1>1, <1>2 DEF Elapse, TypeOK

LEMMA SetIfFreeType ==
  ASSUME TypeOK, NEW w \in Workers, SetIfFree(w)
  PROVE  /\ key' \in [token : Tokens \cup {NoToken}, ttl : 0..Seconds]
         /\ answer' \in [Workers -> Tokens \cup {NoToken}]
BY NewTokenType, LeaseAssumption DEF TypeOK, SetIfFree

LEMMA NextType ==
  ASSUME TypeOK, [Next]_vars
  PROVE  TypeOK'
<1>1. ASSUME NEW w \in Workers, Acquire(w) PROVE TypeOK'
  BY <1>1, SetIfFreeType, LeaseAssumption DEF Acquire, TypeOK
<1>2. ASSUME NEW w \in Workers, Hold(w) PROVE TypeOK'
  BY <1>2 DEF Hold, TypeOK
<1>3. ASSUME NEW w \in Workers, Renew(w) PROVE TypeOK'
  BY <1>3, LeaseAssumption DEF Renew, TypeOK
<1>4. ASSUME NEW w \in Workers, Retake(w) PROVE TypeOK'
  BY <1>4, SetIfFreeType, LeaseAssumption DEF Retake, TypeOK
<1>5. ASSUME NEW w \in Workers, Retaken(w) PROVE TypeOK'
  BY <1>5 DEF Retaken, TypeOK
<1>6. ASSUME NEW w \in Workers, Exit(w) PROVE TypeOK'
  <2>1. faults' = faults /\ crashes' = crashes
    BY <1>6 DEF Exit
  <2> QED  BY <1>6, <2>1, GoneType DEF Exit, TypeOK
<1>7. ASSUME NEW w \in Workers, Die(w) PROVE TypeOK'
  <2>1. faults' = faults /\ crashes' = crashes + 1
    BY <1>7 DEF Die
  <2> QED  BY <1>7, <2>1, GoneType DEF Die, TypeOK
<1>8. ASSUME NEW w \in Workers, Faulty(w) PROVE TypeOK'
  <2>1. CASE AcquireFault(w)
    BY <2>1, NewTokenType, LeaseAssumption DEF AcquireFault, Fault, TypeOK
  <2>2. CASE RenewFault(w)
    BY <2>2 DEF RenewFault, Fault, TypeOK
  <2>3. CASE RetakeFault(w)
    BY <2>3, NewTokenType, LeaseAssumption DEF RetakeFault, Fault, TypeOK
  <2>4. CASE ReleaseFault(w)
    <3>1. faults' = faults + 1 /\ crashes' = crashes
      BY <2>4 DEF ReleaseFault, Fault
    <3> QED  BY <2>4, <3>1, GoneType DEF ReleaseFault, TypeOK
  <2> QED  BY <1>8, <2>1, <2>2, <2>3, <2>4 DEF Faulty
<1>9. CASE Tick \/ Stall
  BY <1>9, ElapseType DEF Tick, Stall, Fault, TypeOK
<1>10. CASE UNCHANGED vars
  BY <1>10 DEF vars, TypeOK
<1> QED  BY <1>1, <1>2, <1>3, <1>4, <1>5, <1>6, <1>7, <1>8, <1>9, <1>10 DEF Next, Heartbeat

LEMMA InitType == Init => TypeOK
BY LeaseAssumption DEF Init, TypeOK, Free

\* The key, the handles and the timers keep their types.
THEOREM LeaseTypes == Spec => []TypeOK
BY InitType, NextType, PTL DEF Spec

-----------------------------------------------------------------------------
(* Before the first fault, whoever runs the job, or is about to be told that  *)
(* it may, is the one whose token the key holds, and the key has as long left *)
(* as the heartbeat is away from the end of the lease.                       *)

Claim(w) == IF Working(w) THEN tok[w] ELSE answer[w]

Backed(w) ==
  /\ key.token = Claim(w) /\ Claim(w) # NoToken
  /\ key.ttl = Seconds - timer[w]
  /\ timer[w] <= Interval + MaxLag
  /\ Working(w) => hb[w] = "sleep"

Covered ==
  /\ \A w \in Workers : Engaged(w) => Backed(w)
  /\ \A u, w \in Workers : Engaged(u) /\ Engaged(w) => u = w

LeaseInv == TypeOK /\ (faults = 0 => Covered)

\* Taking a free key leaves its taker the only engaged worker.
LEMMA TakenByOne ==
  ASSUME TypeOK, Covered, NEW w \in Workers, Acquire(w)
  PROVE  Covered'
<1>1. key = Free => \A u \in Workers : ~Engaged(u)
  BY DEF Covered, Backed, Free
<1>2. \A u \in Workers \ {w} : Engaged(u)' = Engaged(u) /\ Claim(u)' = Claim(u)
  BY DEF Acquire, SetIfFree, Engaged, Claim, Working, TypeOK
<1>3. pc'[w] = "asked" /\ timer'[w] = 0
  BY DEF Acquire, TypeOK
<1>4. CASE key = Free
  <2>1. /\ key'.token = NewToken /\ key'.ttl = Seconds /\ answer'[w] = NewToken
        /\ NewToken # NoToken
    BY <1>4, NewTokenType DEF Acquire, SetIfFree, TypeOK
  <2>2. Backed(w)'
    BY <1>3, <2>1, LeaseAssumption DEF Backed, Claim, Working
  <2> QED  BY <1>1, <1>2, <1>4, <2>2 DEF Covered
<1>5. CASE key # Free
  <2>1. UNCHANGED <<key, hb>> /\ answer'[w] = NoToken
    BY <1>5 DEF Acquire, SetIfFree, TypeOK
  <2>2. ~Engaged(w)'
    BY <1>3, <2>1 DEF Engaged, Working
  <2>3. ASSUME NEW u \in Workers \ {w}, Engaged(u) PROVE Backed(u)'
    BY <1>2, <2>1, <2>3 DEF Covered, Backed, Acquire, Working, TypeOK
  <2> QED  BY <1>2, <2>2, <2>3 DEF Covered
<1> QED  BY <1>4, <1>5

\* When the only engaged worker goes, nobody is engaged.
LEMMA GoneCovers ==
  ASSUME TypeOK, Covered, NEW w \in Workers, Gone(w), Engaged(w) \/ UNCHANGED key
  PROVE  Covered'
<1>1. ~Engaged(w)' /\ \A u \in Workers \ {w} : Engaged(u)' = Engaged(u) /\ Claim(u)' = Claim(u)
  BY DEF Gone, Engaged, Claim, Working, TypeOK
<1>2. ASSUME NEW u \in Workers \ {w}, Engaged(u) PROVE Backed(u)'
  BY <1>1, <1>2 DEF Covered, Backed, Gone, Working, TypeOK
<1> QED  BY <1>1, <1>2 DEF Covered

\* A timely tick leaves every engaged worker the time it counts on.
LEMMA TickCovers ==
  ASSUME TypeOK, Covered, Tick
  PROVE  Covered'
<1>1. \A u \in Workers : Engaged(u)' = Engaged(u) /\ Claim(u)' = Claim(u) /\ Working(u)' = Working(u)
  BY DEF Tick, Elapse, Engaged, Claim, Working
<1>2. ASSUME NEW u \in Workers, Engaged(u) PROVE Backed(u)'
  <2>1. /\ key.token = Claim(u) /\ Claim(u) # NoToken /\ key.ttl = Seconds - timer[u]
        /\ timer[u] \in Nat /\ timer[u] < Interval + MaxLag
        /\ Working(u) => hb[u] = "sleep"
    BY <1>2 DEF Covered, Backed, Tick, OnTime, TypeOK
  <2>2. timer'[u] = timer[u] + 1
    BY <1>2, <2>1, LeaseAssumption DEF Tick, Elapse
  <2>3. key.ttl \in Int /\ key.ttl > 1
    BY <2>1, LeaseAssumption
  <2>4. key' = [key EXCEPT !.ttl = key.ttl - 1]
    BY <2>3 DEF Tick, Elapse
  <2>5. key'.token = key.token /\ key'.ttl = key.ttl - 1
    BY <2>4 DEF TypeOK
  <2>6. timer'[u] <= Interval + MaxLag /\ key'.ttl = Seconds - timer'[u]
    BY <2>1, <2>2, <2>5, LeaseAssumption
  <2> QED  BY <1>1, <2>1, <2>5, <2>6 DEF Backed, Tick, Elapse
<1> QED  BY <1>1, <1>2 DEF Covered

LEMMA NextCovers ==
  ASSUME LeaseInv, [Next]_vars, faults' = 0
  PROVE  Covered'
<1>1. TypeOK /\ TypeOK' /\ faults \in Nat
  BY NextType DEF LeaseInv, TypeOK
<1>2. ~Fault
  BY <1>1 DEF Fault
<1>3. Covered
  <2>1. faults' \in {faults, faults + 1}
    BY DEF Next, vars, Acquire, Hold, Heartbeat, Renew, Retake, Retaken, Exit, Die, Faulty, Fault,
           AcquireFault, RenewFault, RetakeFault, ReleaseFault, Tick, Stall
  <2> QED  BY <1>1, <2>1 DEF LeaseInv
<1>4. ASSUME NEW w \in Workers, Acquire(w) PROVE Covered'
  BY <1>1, <1>3, <1>4, TakenByOne
<1>5. ASSUME NEW w \in Workers, Hold(w) PROVE Covered'
  <2>1. \A u \in Workers \ {w} : Engaged(u)' = Engaged(u) /\ Claim(u)' = Claim(u)
    BY <1>1, <1>5 DEF Hold, Engaged, Claim, Working, TypeOK
  <2>2. Engaged(w)' => Engaged(w) /\ Claim(w)' = Claim(w) /\ hb'[w] = "sleep"
    BY <1>1, <1>5 DEF Hold, Engaged, Claim, Working, TypeOK
  <2>3. ASSUME NEW u \in Workers, Engaged(u)' PROVE Backed(u)'
    BY <1>1, <1>3, <1>5, <2>1, <2>2, <2>3 DEF Covered, Backed, Hold, Working, TypeOK
  <2> QED  BY <1>3, <2>1, <2>2, <2>3 DEF Covered
<1>6. ASSUME NEW w \in Workers, Renew(w) PROVE Covered'
  <2>1. Engaged(w) /\ Backed(w) /\ key.token = tok[w]
    BY <1>3, <1>6 DEF Renew, Engaged, Covered, Backed, Claim
  <2>2. \A u \in Workers : Engaged(u)' = Engaged(u) /\ Claim(u)' = Claim(u)
    BY <1>6 DEF Renew, Engaged, Claim, Working
  <2>3. /\ key'.token = key.token /\ key'.ttl = Seconds /\ timer'[w] = 0 /\ hb' = hb
        /\ pc' = pc
    BY <1>1, <1>6, <2>1 DEF Renew, TypeOK
  <2>4. Backed(w)'
    <3>1. key'.token = Claim(w)' /\ Claim(w)' # NoToken
      BY <2>1, <2>2, <2>3 DEF Backed
    <3>2. key'.ttl = Seconds - timer'[w] /\ timer'[w] <= Interval + MaxLag
      BY <2>3, LeaseAssumption
    <3>3. hb'[w] = "sleep"
      BY <1>6, <2>3 DEF Renew
    <3> QED  BY <3>1, <3>2, <3>3 DEF Backed
  <2> QED  BY <1>3, <2>1, <2>2, <2>4 DEF Covered
<1>7. ASSUME NEW w \in Workers, Retake(w) \/ Retaken(w) PROVE Covered'
  BY <1>3, <1>7 DEF Retake, Retaken, Covered, Backed, Engaged
<1>8. ASSUME NEW w \in Workers, Exit(w) PROVE Covered'
  BY <1>1, <1>3, <1>8, GoneCovers DEF Exit, Engaged
<1>9. ASSUME NEW w \in Workers, Die(w) PROVE Covered'
  BY <1>1, <1>3, <1>9, GoneCovers DEF Die
<1>10. ASSUME NEW w \in Workers, Faulty(w) PROVE FALSE
  BY <1>2, <1>10 DEF Faulty, AcquireFault, RenewFault, RetakeFault, ReleaseFault
<1>11. CASE Tick
  BY <1>1, <1>3, <1>11, TickCovers
<1>12. CASE Stall
  BY <1>2, <1>12 DEF Stall
<1>13. CASE UNCHANGED vars
  BY <1>3, <1>13 DEF vars, Covered, Backed, Engaged, Claim, Working
<1> QED  BY <1>4, <1>5, <1>6, <1>7, <1>8, <1>9, <1>10, <1>11, <1>12, <1>13 DEF Next, Heartbeat

LEMMA LeaseInvariant == Spec => []LeaseInv
<1>1. Init => LeaseInv
  <2> SUFFICES ASSUME Init PROVE Covered
    BY InitType DEF LeaseInv
  <2> QED  BY DEF Init, Covered, Engaged, Working
<1>2. LeaseInv /\ [Next]_vars => LeaseInv'
  BY NextType, NextCovers DEF LeaseInv
<1> QED  BY <1>1, <1>2, PTL DEF Spec

\* Two workers never run the same job while heartbeats are on time and Redis answers.
THEOREM LeaseExcludes == Spec => []MutualExclusion
<1>1. LeaseInv => MutualExclusion
  BY DEF LeaseInv, Covered, MutualExclusion, Engaged
<1> QED  BY <1>1, LeaseInvariant, PTL

\* Then the recovery sweep is right to take a job without a lease for dead.
THEOREM LeaseTellsTheLiving == Spec => []NoLeaseMeansDead
<1>1. LeaseInv => NoLeaseMeansDead
  BY DEF LeaseInv, Covered, Backed, Claim, NoLeaseMeansDead, Engaged, Working, Free
<1> QED  BY <1>1, LeaseInvariant, PTL

-----------------------------------------------------------------------------
(* The step simulation: hold() is Begin, an exit or a death is End, a fault   *)
(* is Degrade, and every other step is invisible.                            *)

LEMMA InitImplements == Init => Abs!Init
BY DEF Init, Abs!Init, Running, Working

LEMMA StepImplements ==
  ASSUME LeaseInv, [Next]_vars
  PROVE  [Abs!Next]_(Abs!vars)
<1>1. TypeOK /\ TypeOK' /\ faults \in Nat
  BY NextType DEF LeaseInv, TypeOK
<1>2. ASSUME NEW w \in Workers, Hold(w) PROVE [Abs!Next]_(Abs!vars)
  <2>1. CASE answer[w] # NoToken
    <3>1. Running' = Running \cup {w} /\ w \notin Running
      BY <1>1, <1>2, <2>1 DEF Hold, Running, Working, TypeOK
    <3>2. faults = 0 => Running = {}
      BY <1>2, <2>1 DEF Hold, LeaseInv, Covered, Engaged, Running, Working
    <3>3. Running = {} \/ faults > 0
      BY <1>1, <3>2
    <3>4. faults' = faults
      BY <1>2 DEF Hold
    <3> QED  BY <3>1, <3>3, <3>4 DEF Abs!Next, Abs!Begin
  <2>2. CASE answer[w] = NoToken
    BY <1>1, <1>2, <2>2 DEF Hold, Running, Working, TypeOK, Abs!vars
  <2> QED  BY <2>1, <2>2
<1>3. ASSUME NEW w \in Workers, Exit(w) \/ Die(w) PROVE [Abs!Next]_(Abs!vars)
  <2>1. Running' = Running \ {w} /\ faults' = faults
    BY <1>1, <1>3 DEF Exit, Die, Gone, Running, Working, TypeOK
  <2>2. CASE w \in Running
    BY <2>1, <2>2 DEF Abs!Next, Abs!End
  <2>3. CASE w \notin Running
    BY <2>1, <2>3 DEF Abs!vars
  <2> QED  BY <2>2, <2>3
<1>4. CASE Fault
  <2>1. faults' > 0 /\ Running' \in SUBSET Workers
    BY <1>1, <1>4 DEF Fault, Running
  <2>2. (faults > 0)' = TRUE
    BY <2>1
  <2> QED  BY <2>1, <2>2 DEF Abs!Next, Abs!Degrade
<1>5. ASSUME UNCHANGED <<pc, faults>> PROVE [Abs!Next]_(Abs!vars)
  BY <1>5 DEF Running, Working, Abs!vars
<1>6. ASSUME NEW w \in Workers, Acquire(w) PROVE [Abs!Next]_(Abs!vars)
  <2>1. Running' = Running /\ faults' = faults
    BY <1>1, <1>6 DEF Acquire, Running, Working, TypeOK
  <2> QED  BY <2>1 DEF Abs!vars
<1> QED
  BY <1>2, <1>3, <1>4, <1>5, <1>6
     DEF Next, vars, Heartbeat, Renew, Retake, Retaken, Faulty, AcquireFault, RenewFault,
         RetakeFault, ReleaseFault, Tick, Stall, Elapse

\* Every behaviour of the Redis lease is one ExclusiveWork allows.
THEOREM LeaseImplements == Spec => Implements
<1>1. LeaseInv /\ [Next]_vars => [Abs!Next]_(Abs!vars)
  BY StepImplements
<1> QED  BY InitImplements, LeaseInvariant, <1>1, PTL DEF Spec, Implements, Abs!Spec
-----------------------------------------------------------------------------
(* Faults or not, a token has one owner: the worker that holds it, or that is   *)
(* about to be told that it does.                                            *)

OneOwner ==
  /\ \A w \in Workers : Working(w) => tok[w] # NoToken
  /\ \A u \in Workers : \A w \in Workers \ {u} :
       /\ tok[u] # NoToken => tok[u] # tok[w] /\ tok[u] # answer[w]
       /\ answer[u] # NoToken => answer[u] # answer[w]

OwnedInv == TypeOK /\ OneOwner

\* A new token is nobody's.
LEMMA NewTokenUnused ==
  ASSUME Fresh # {}
  PROVE  NewToken # key.token /\ \A w \in Workers : NewToken # tok[w] /\ NewToken # answer[w]
<1>1. NewToken \in Fresh
  BY DEF NewToken
<1> QED  BY <1>1 DEF Fresh, InUse

LEMMA NextOwned ==
  ASSUME OwnedInv, [Next]_vars
  PROVE  OneOwner'
<1>1. TypeOK /\ OneOwner
  BY DEF OwnedInv
<1>2. ASSUME NEW w \in Workers, Acquire(w) PROVE OneOwner'
  <2>1. Fresh # {} /\ answer' \in {[answer EXCEPT ![w] = NewToken], [answer EXCEPT ![w] = NoToken]}
    BY <1>2 DEF Acquire, SetIfFree
  <2>2. tok' = tok /\ \A u \in Workers \ {w} : pc'[u] = pc[u]
    BY <1>1, <1>2 DEF Acquire, TypeOK
  <2>3. ~Working(w)'
    BY <1>1, <1>2 DEF Acquire, TypeOK, Working
  <2> QED  BY <1>1, <2>1, <2>2, <2>3, NewTokenUnused DEF OneOwner, TypeOK, Working
<1>3. ASSUME NEW w \in Workers, Hold(w) PROVE OneOwner'
  <2>1. CASE answer[w] # NoToken
    BY <1>1, <1>3, <2>1 DEF Hold, OneOwner, TypeOK, Working
  <2>2. CASE answer[w] = NoToken
    BY <1>1, <1>3, <2>2 DEF Hold, OneOwner, TypeOK, Working
  <2> QED  BY <2>1, <2>2
<1>4. ASSUME NEW w \in Workers, Retake(w) PROVE OneOwner'
  <2>1. Fresh # {} /\ answer' \in {[answer EXCEPT ![w] = NewToken], [answer EXCEPT ![w] = NoToken]}
    BY <1>4 DEF Retake, SetIfFree
  <2>2. tok' = tok /\ pc' = pc
    BY <1>4 DEF Retake
  <2> QED  BY <1>1, <2>1, <2>2, NewTokenUnused DEF OneOwner, TypeOK, Working
<1>5. ASSUME NEW w \in Workers, Retaken(w) PROVE OneOwner'
  BY <1>1, <1>5 DEF Retaken, OneOwner, TypeOK, Working
<1>6. ASSUME NEW w \in Workers, Gone(w) PROVE OneOwner'
  BY <1>1, <1>6 DEF Gone, OneOwner, TypeOK, Working
<1>7. ASSUME NEW w \in Workers, AcquireFault(w) \/ RetakeFault(w) PROVE OneOwner'
  <2>1. Fresh # {} /\ tok' = [tok EXCEPT ![w] = NewToken] /\ answer' = answer
    BY <1>7 DEF AcquireFault, RetakeFault
  <2>2. \A u \in Workers \ {w} : pc'[u] = pc[u]
    BY <1>1, <1>7 DEF AcquireFault, RetakeFault, TypeOK
  <2> QED  BY <1>1, <2>1, <2>2, NewTokenUnused, NewTokenType DEF OneOwner, TypeOK, Working
<1>8. CASE UNCHANGED <<pc, tok, answer>>
  BY <1>1, <1>8 DEF OneOwner, Working
<1> QED
  BY <1>2, <1>3, <1>4, <1>5, <1>6, <1>7, <1>8
     DEF Next, vars, Heartbeat, Renew, Exit, Die, Faulty, RenewFault, ReleaseFault, Tick, Stall, Elapse

LEMMA OwnedInvariant == Spec => []OwnedInv
<1>1. Init => OwnedInv
  BY InitType DEF OwnedInv, Init, OneOwner, Working
<1>2. OwnedInv /\ [Next]_vars => OwnedInv'
  BY NextType, NextOwned DEF OwnedInv
<1> QED  BY <1>1, <1>2, PTL DEF Spec

\* What another worker, or the clock, does to the key that holds w's token.
LEMMA KeyIsKept ==
  ASSUME OwnedInv, [Next]_vars, NEW w \in Workers, Working(w), key.token = tok[w],
         pc'[w] = pc[w], tok'[w] = tok[w]
  PROVE  key'.token = key.token \/ (key.ttl = 1 /\ key' = Free)
<1>1. TypeOK /\ OneOwner /\ tok[w] # NoToken
  BY DEF OwnedInv, OneOwner
<1>2. key # Free
  BY <1>1 DEF Free
<1>3. ASSUME NEW u \in Workers, SetIfFree(u) PROVE key' = key
  BY <1>2, <1>3 DEF SetIfFree
<1>4. ASSUME NEW u \in Workers, Renew(u) PROVE key'.token = key.token
  BY <1>1, <1>4 DEF Renew, TypeOK
<1>5. ASSUME NEW u \in Workers, Exit(u) PROVE key' = key
  <2>1. u # w
    BY <1>1, <1>5 DEF Exit, Gone, Working, TypeOK
  <2> QED  BY <1>1, <1>5, <2>1 DEF Exit, OneOwner
<1>6. CASE Elapse
  BY <1>1, <1>6 DEF Elapse, TypeOK
<1> QED
  BY <1>3, <1>4, <1>5, <1>6
     DEF Next, vars, Acquire, Hold, Heartbeat, Retake, Retaken, Die, Faulty, AcquireFault,
         RenewFault, RetakeFault, ReleaseFault, Tick, Stall

\* While a job runs under its lease, nobody but the clock takes the lease away.
THEOREM OnlyExpiryTakes == Spec => OnlyTheClockTakes
<1>1. OwnedInv /\ [Next]_vars =>
        [\A w \in Workers :
           Working(w) /\ key.token = tok[w] /\ pc'[w] = pc[w] /\ tok'[w] = tok[w]
             => key'.token = key.token \/ (key.ttl = 1 /\ key' = Free)]_vars
  BY KeyIsKept
<1> QED  BY <1>1, OwnedInvariant, PTL DEF Spec, OnlyTheClockTakes
=============================================================================
