------------------------------ MODULE FileLease ------------------------------
(***************************************************************************)
(* The job lease without Redis: FileJobLease, one file per job, held through  *)
(* HeldLease.  A worker is a process; inside a process a lease operation is   *)
(* not interrupted, but two processes interleave at every system call, and a *)
(* process may die between any two.                                          *)
(*                                                                          *)
(* A file just created, or truncated by a renewal, cannot be parsed until its *)
(* payload is written.  A write goes to the inode that was opened, which may  *)
(* have been unlinked since.                                                 *)
(***************************************************************************)
EXTENDS Integers

CONSTANTS
  Workers,
  Tokens,      \* uuid4 tokens: fresh ones are chosen among those not in use
  NoToken,     \* no token, or a file whose content does not parse
  Inodes,      \* file identities: fresh ones are chosen among those not in use
  NoInode,     \* no file at the path, no file open
  Seconds,     \* the lease's lifetime, in ticks
  Interval,    \* time between heartbeats
  MaxLag,      \* how late a heartbeat of a responsive process may be
  MaxFaults,   \* bound on failing system calls and stalls
  MaxCrashes   \* bound on process deaths

ASSUME FileLeaseAssumption ==
  /\ NoToken \notin Tokens /\ NoInode \notin Inodes
  /\ Seconds \in Nat /\ Interval \in Nat \ {0} /\ MaxLag \in Nat
  /\ Interval + MaxLag < Seconds
  /\ MaxFaults \in Nat /\ MaxCrashes \in Nat

VARIABLES
  file,    \* what is at the path: inode, token it holds, time left
  job,     \* the workers that run the job
  op,      \* the lease operation each worker is in the middle of
  tok,     \* HeldLease._token
  new,     \* token of the acquisition in progress
  fd,      \* inode open for writing
  stamp,   \* time left in the payload about to be written
  timer,   \* time since the last heartbeat ended
  faults,
  crashes,
  removed, \* history: an acquiring process has unlinked a live lease
  torn     \* history: a process has died between opening the file and writing it

vars == <<file, job, op, tok, new, fd, stamp, timer, faults, crashes>>
history == <<removed, torn>>

NoFile == [inode |-> NoInode, token |-> NoToken, left |-> 0]

\* No operation; acquire: create, write, read, unlink, recreate; renew: open,
\* rewrite; release: drop.
Ops == {"none", "create", "write", "read", "unlink", "recreate", "open", "rewrite", "drop"}

FreshTokens ==
  {t \in Tokens : t # file.token /\ \A w \in Workers : t # tok[w] /\ t # new[w]}
FreshToken == CHOOSE t \in FreshTokens : TRUE
FreshInodes == {i \in Inodes : i # file.inode /\ \A w \in Workers : i # fd[w]}
FreshInode == CHOOSE i \in FreshInodes : TRUE

Exists == file.inode # NoInode
Readable == Exists /\ file.token # NoToken

\* MUTANT: the lease is held as long as its file is there.
Unexpired_ByExistence == Exists

\* _read, compared with the clock: a file that does not parse counts as held.
Unexpired == Exists /\ (Readable => file.left > 0)

Init ==
  /\ file = NoFile
  /\ job = {}
  /\ op = [w \in Workers |-> "none"]
  /\ tok = [w \in Workers |-> NoToken]
  /\ new = [w \in Workers |-> NoToken]
  /\ fd = [w \in Workers |-> NoInode]
  /\ stamp = [w \in Workers |-> 0]
  /\ timer = [w \in Workers |-> 0]
  /\ faults = 0
  /\ crashes = 0
  /\ removed = FALSE
  /\ torn = FALSE

-----------------------------------------------------------------------------
Goto(w, o) == op' = [op EXCEPT ![w] = o]

\* acquire ends: the job starts, or the heartbeat of the running job has a new
\* token; or the job is refused, or goes on and tries at the next heartbeat.
Acquired(w) ==
  /\ Goto(w, "none")
  /\ job' = job \cup {w}
  /\ tok' = [tok EXCEPT ![w] = new[w]]
  /\ new' = [new EXCEPT ![w] = NoToken]
  /\ fd' = [fd EXCEPT ![w] = NoInode]
  /\ timer' = [timer EXCEPT ![w] = 0]

NotAcquired(w) ==
  /\ Goto(w, "none")
  /\ new' = [new EXCEPT ![w] = NoToken]
  /\ timer' = [timer EXCEPT ![w] = 0]
  /\ UNCHANGED <<job, tok, fd>>

\* MUTANT: the lifetime is added in milliseconds to a clock in seconds.
Open_Milliseconds(w) ==
  /\ FreshInodes # {}
  /\ file' = [inode |-> FreshInode, token |-> NoToken, left |-> 0]
  /\ fd' = [fd EXCEPT ![w] = FreshInode]
  /\ stamp' = [stamp EXCEPT ![w] = Seconds * 1000]

\* open(O_CREAT|O_EXCL): the file is there, and empty.
Open(w) ==
  /\ FreshInodes # {}
  /\ file' = [inode |-> FreshInode, token |-> NoToken, left |-> 0]
  /\ fd' = [fd EXCEPT ![w] = FreshInode]
  /\ stamp' = [stamp EXCEPT ![w] = Seconds]

Acquire(w) ==
  /\ w \notin job /\ op[w] = "none" /\ FreshTokens # {}
  /\ new' = [new EXCEPT ![w] = FreshToken]
  /\ Goto(w, "create")
  /\ UNCHANGED <<file, job, tok, fd, stamp, timer, faults, crashes>>

\* MUTANT: opened without O_EXCL.
Create_NotExclusive(w) ==
  /\ op[w] = "create"
  /\ Goto(w, "write") /\ Open(w)
  /\ UNCHANGED <<job, tok, new, timer, faults, crashes>>

Create(w) ==
  /\ op[w] = "create"
  /\ IF Exists
     THEN Goto(w, "read") /\ UNCHANGED <<file, fd, stamp>>
     ELSE Goto(w, "write") /\ Open(w)
  /\ UNCHANGED <<job, tok, new, timer, faults, crashes>>

\* The payload reaches the file if the inode is still the one at the path.
Payload(w, t) ==
  file' = IF file.inode = fd[w] THEN [file EXCEPT !.token = t, !.left = stamp[w]] ELSE file

Write(w) ==
  /\ op[w] = "write"
  /\ Payload(w, new[w])
  /\ Acquired(w)
  /\ stamp' = [stamp EXCEPT ![w] = 0]
  /\ UNCHANGED <<faults, crashes>>

Read(w) ==
  /\ op[w] = "read"
  /\ IF Unexpired
     THEN NotAcquired(w)
     ELSE Goto(w, "unlink") /\ UNCHANGED <<job, tok, new, fd, timer>>
  /\ UNCHANGED <<file, stamp, faults, crashes>>

\* The expired lease is removed; whatever is at the path by now is.
Unlink(w) ==
  /\ op[w] = "unlink"
  /\ file' = NoFile
  /\ Goto(w, "recreate")
  /\ UNCHANGED <<job, tok, new, fd, stamp, timer, faults, crashes>>

Recreate(w) ==
  /\ op[w] = "recreate"
  /\ IF Exists
     THEN NotAcquired(w) /\ UNCHANGED <<file, stamp>>
     ELSE Goto(w, "write") /\ Open(w) /\ UNCHANGED <<job, tok, new, timer>>
  /\ UNCHANGED <<faults, crashes>>

-----------------------------------------------------------------------------
\* The heartbeat: is the file still this handle's?  If not, acquire again.
Renew(w) ==
  /\ w \in job /\ op[w] = "none" /\ timer[w] >= Interval
  /\ IF Readable /\ file.token = tok[w]
     THEN Goto(w, "open") /\ UNCHANGED new
     ELSE /\ FreshTokens # {}
          /\ Goto(w, "create") /\ new' = [new EXCEPT ![w] = FreshToken]
  /\ UNCHANGED <<file, job, tok, fd, stamp, timer, faults, crashes>>

\* MUTANT: the renewal writes the old expiry back.
OpenTruncated_KeepsExpiry(w) ==
  /\ op[w] = "open" /\ Exists
  /\ file' = [file EXCEPT !.token = NoToken, !.left = 0]
  /\ fd' = [fd EXCEPT ![w] = file.inode]
  /\ stamp' = [stamp EXCEPT ![w] = file.left]
  /\ Goto(w, "rewrite")
  /\ UNCHANGED <<job, tok, new, timer, faults, crashes>>

\* write_text opens with truncation, and creates the file if it is gone.
OpenTruncated(w) ==
  /\ op[w] = "open"
  /\ IF Exists
     THEN /\ file' = [file EXCEPT !.token = NoToken, !.left = 0]
          /\ fd' = [fd EXCEPT ![w] = file.inode]
          /\ stamp' = [stamp EXCEPT ![w] = Seconds]
     ELSE Open(w)
  /\ Goto(w, "rewrite")
  /\ UNCHANGED <<job, tok, new, timer, faults, crashes>>

Rewrite(w) ==
  /\ op[w] = "rewrite"
  /\ Payload(w, tok[w])
  /\ fd' = [fd EXCEPT ![w] = NoInode]
  /\ stamp' = [stamp EXCEPT ![w] = 0]
  /\ timer' = [timer EXCEPT ![w] = 0]
  /\ Goto(w, "none")
  /\ UNCHANGED <<job, tok, new, faults, crashes>>

\* __aexit__: the job is over; the file is removed if it was this handle's when
\* it was read.
Exit(w) ==
  /\ w \in job /\ op[w] = "none"
  /\ job' = job \ {w}
  /\ tok' = [tok EXCEPT ![w] = NoToken]
  /\ timer' = [timer EXCEPT ![w] = 0]
  /\ Goto(w, IF Readable /\ file.token = tok[w] THEN "drop" ELSE "none")
  /\ UNCHANGED <<file, new, fd, stamp, faults, crashes>>

Drop(w) ==
  /\ op[w] = "drop"
  /\ file' = NoFile
  /\ Goto(w, "none")
  /\ UNCHANGED <<job, tok, new, fd, stamp, timer, faults, crashes>>

\* The process dies between any two system calls.
Die(w) ==
  /\ w \in job \/ op[w] # "none"
  /\ crashes < MaxCrashes
  /\ crashes' = crashes + 1
  /\ job' = job \ {w}
  /\ Goto(w, "none")
  /\ tok' = [tok EXCEPT ![w] = NoToken]
  /\ new' = [new EXCEPT ![w] = NoToken]
  /\ fd' = [fd EXCEPT ![w] = NoInode]
  /\ stamp' = [stamp EXCEPT ![w] = 0]
  /\ timer' = [timer EXCEPT ![w] = 0]
  /\ UNCHANGED <<file, faults>>

-----------------------------------------------------------------------------
Fault == faults < MaxFaults /\ faults' = faults + 1

\* open fails: acquire goes on as if the lease was held.
CreateFault(w) ==
  /\ op[w] \in {"create", "recreate"} /\ Fault
  /\ Acquired(w)
  /\ UNCHANGED <<file, stamp, crashes>>

\* read_text or unlink fails: acquire is refused, release leaves the file to its
\* expiry.
UnlinkFault(w) ==
  /\ op[w] \in {"read", "unlink", "drop"} /\ Fault
  /\ NotAcquired(w)
  /\ UNCHANGED <<file, stamp, crashes>>

\* read_text or write_text cannot open the file: renewal failed, acquire again.
OpenFault(w) ==
  /\ \/ op[w] = "open"
     \/ w \in job /\ op[w] = "none" /\ timer[w] >= Interval
  /\ Fault /\ FreshTokens # {}
  /\ Goto(w, "create") /\ new' = [new EXCEPT ![w] = FreshToken]
  /\ UNCHANGED <<file, job, tok, fd, stamp, timer, crashes>>

Elapse ==
  /\ file' = [file EXCEPT !.left = IF @ > 0 THEN @ - 1 ELSE 0]
  /\ stamp' = [w \in Workers |-> IF stamp[w] > 0 THEN stamp[w] - 1 ELSE 0]
  /\ timer' = [w \in Workers |-> IF w \in job /\ timer[w] < Seconds
                                 THEN timer[w] + 1 ELSE timer[w]]
  /\ UNCHANGED <<job, op, tok, new, fd, crashes>>

\* A holder's system calls take no time, nor do those between reading or opening
\* the file and changing it; heartbeats are at most MaxLag late.
OnTime ==
  \A w \in Workers :
    IF w \in job THEN op[w] = "none" /\ timer[w] < Interval + MaxLag
                 ELSE op[w] \in {"none", "create", "read"}

Tick == OnTime /\ Elapse /\ UNCHANGED faults

\* A process is suspended, in the middle of an operation or not.
Stall == ~OnTime /\ Fault /\ Elapse

-----------------------------------------------------------------------------
\* What a worker does once it is in an operation, and its heartbeat.
Continue(w) ==
  \/ Create(w) \/ Write(w) \/ Read(w) \/ Unlink(w) \/ Recreate(w)
  \/ Renew(w) \/ OpenTruncated(w) \/ Rewrite(w) \/ Drop(w)

RemovesLive == Unexpired /\ \E w \in Workers : Unlink(w)
TearsFile == \E w \in Workers : op[w] \in {"write", "rewrite"} /\ Die(w)

Next ==
  /\ \/ \E w \in Workers :
          \/ Acquire(w) \/ Continue(w) \/ Exit(w) \/ Die(w)
          \/ CreateFault(w) \/ UnlinkFault(w) \/ OpenFault(w)
     \/ Tick \/ Stall
  /\ removed' = (removed \/ RemovesLive)
  /\ torn' = (torn \/ TearsFile)

Spec == Init /\ [][Next]_<<vars, history>>

\* Operations come to their end, heartbeats run and time passes, however often
\* somebody asks for the lease meanwhile.
FairSpec == Spec /\ (\A w \in Workers : WF_vars(Continue(w))) /\ SF_vars(Tick)

-----------------------------------------------------------------------------
\* Type invariant of the file, the handles and the operations.
TypeOK ==
  /\ file \in [inode : Inodes \cup {NoInode}, token : Tokens \cup {NoToken}, left : 0..Seconds]
  /\ job \in SUBSET Workers
  /\ op \in [Workers -> Ops]
  /\ tok \in [Workers -> Tokens \cup {NoToken}]
  /\ new \in [Workers -> Tokens \cup {NoToken}]
  /\ fd \in [Workers -> Inodes \cup {NoInode}]
  /\ stamp \in [Workers -> 0..Seconds]
  /\ timer \in [Workers -> 0..Seconds]
  /\ faults \in Nat /\ crashes \in Nat
  /\ removed \in BOOLEAN /\ torn \in BOOLEAN

\* Two processes never run the same job (locks.py:90-93, and 161-163 on what
\* happens when two of them find the lease free at once).  The code keeps this
\* only until a takeover unlinks a live lease: see ExclusiveUnlessRemoved.
MutualExclusion == faults = 0 => \A u, w \in job : u = w

\* Two processes run the same job only after an acquiring one has unlinked a live
\* lease: expiry, O_EXCL creation, renewal over the same inode and release by
\* token leave no other way, wherever processes die (locks.py:136-194).
ExclusiveUnlessRemoved == ~removed => MutualExclusion

\* A missing or expired lease means that nobody runs the job, with the same
\* exception: what the recovery sweep concludes from is_held (recovery.py:110).
NoLeaseMeansDead == faults = 0 /\ ~removed /\ ~Unexpired => job = {}

\* A lease that nobody runs a job under, released or left by the dead, comes to be
\* absent or expired, unless its file was left without a payload (locks.py:7-8).
LapsesUnlessTorn ==
  (Exists /\ job = {} /\ ~torn) ~> (~Unexpired \/ job # {} \/ torn)

\* Faults, and the takeover that unlinks a live lease, are what ExclusiveWork calls
\* degraded.
Abs == INSTANCE ExclusiveWork WITH working <- job, degraded <- (faults > 0 \/ removed)

\* FileJobLease and HeldLease keep the promise that RedisJobLease keeps, but for the
\* takeover above.
Implements == Abs!Spec
=============================================================================
