--------------------------- MODULE FileLease_proofs ---------------------------
(***************************************************************************)
(* Proofs about FileLease, for every set of workers, tokens and inodes, and   *)
(* every lifetime and heartbeat with Interval + MaxLag < Seconds.            *)
(*                                                                          *)
(*   FileTypes            the type invariant;                               *)
(*   FileExcludes         two processes run one job only after an acquiring   *)
(*                        one has unlinked a live lease;                     *)
(*   FileTellsTheLiving   until then a missing or expired lease means that    *)
(*                        nobody runs the job;                               *)
(*   FileImplements       the lease implements ExclusiveWork.                *)
(***************************************************************************)
EXTENDS FileLease, TLAPS

Files == [inode : Inodes \cup {NoInode}, token : Tokens \cup {NoToken}, left : 0..Seconds]

LEMMA NoFileType == NoFile \in Files
BY FileLeaseAssumption DEF NoFile, Files

LEMMA FreshTokenType ==
  ASSUME FreshTokens # {}
  PROVE  FreshToken \in Tokens /\ FreshToken # NoToken
<1>1. FreshToken \in FreshTokens
  BY DEF FreshToken
<1> QED  BY <1>1, FileLeaseAssumption DEF FreshTokens

LEMMA FreshInodeType ==
  ASSUME FreshInodes # {}
  PROVE  FreshInode \in Inodes /\ FreshInode # NoInode
<1>1. FreshInode \in FreshInodes
  BY DEF FreshInode
<1> QED  BY <1>1, FileLeaseAssumption DEF FreshInodes

LEMMA OpenType ==
  ASSUME TypeOK, NEW w \in Workers, Open(w)
  PROVE  /\ file' \in Files
         /\ fd' \in [Workers -> Inodes \cup {NoInode}]
         /\ stamp' \in [Workers -> 0..Seconds]
<1>1. FreshInode \in Inodes
  BY FreshInodeType DEF Open
<1> QED  BY <1>1, FileLeaseAssumption DEF Open, TypeOK, Files

LEMMA PayloadType ==
  ASSUME TypeOK, NEW w \in Workers, NEW t \in Tokens \cup {NoToken}, Payload(w, t)
  PROVE  file' \in Files
BY DEF Payload, TypeOK, Files

LEMMA OutcomeType ==
  ASSUME TypeOK, NEW w \in Workers, Acquired(w) \/ NotAcquired(w)
  PROVE  /\ job' \in SUBSET Workers /\ op' \in [Workers -> Ops]
         /\ tok' \in [Workers -> Tokens \cup {NoToken}]
         /\ new' \in [Workers -> Tokens \cup {NoToken}]
         /\ fd' \in [Workers -> Inodes \cup {NoInode}]
         /\ timer' \in [Workers -> 0..Seconds]
BY FileLeaseAssumption DEF TypeOK, Acquired, NotAcquired, Goto, Ops

LEMMA ElapseType ==
  ASSUME TypeOK, Elapse
  PROVE  /\ file' \in Files
         /\ stamp' \in [Workers -> 0..Seconds]
         /\ timer' \in [Workers -> 0..Seconds]
<1>1. file' \in Files
  <2>1. file.left \in 0..Seconds
    BY DEF TypeOK
  <2>2. (IF file.left > 0 THEN file.left - 1 ELSE 0) \in 0..Seconds
    BY <2>1, FileLeaseAssumption
  <2> QED  BY <2>2 DEF Elapse, TypeOK, Files
<1>2. stamp' \in [Workers -> 0..Seconds]
  <2>1. \A w \in Workers : (IF stamp[w] > 0 THEN stamp[w] - 1 ELSE 0) \in 0..Seconds
    BY FileLeaseAssumption DEF TypeOK
  <2> QED  BY <2>1 DEF Elapse
<1>3. timer' \in [Workers -> 0..Seconds]
  <2>1. \A w \in Workers : (IF w \in job /\ timer[w] < Seconds THEN timer[w] + 1 ELSE timer[w])
                             \in 0..Seconds
    BY FileLeaseAssumption DEF TypeOK
  <2> QED  BY <2>1 DEF Elapse
<1> QED  BY <1>1, <1>2, <1>3

LEMMA NextType ==
  ASSUME TypeOK, [Next]_<<vars, history>>
  PROVE  TypeOK'
<1> USE DEF Files
<1> SUFFICES ASSUME Next PROVE TypeOK'
  BY DEF TypeOK, vars, history
<1>1. removed' \in BOOLEAN /\ torn' \in BOOLEAN
  BY DEF Next, TypeOK
<1>2. ASSUME NEW w \in Workers, Acquire(w) PROVE TypeOK'
  BY <1>1, <1>2, FreshTokenType DEF Acquire, Goto, Ops, TypeOK
<1>3. ASSUME NEW w \in Workers, Create(w) PROVE TypeOK'
  BY <1>1, <1>3, OpenType DEF Create, Goto, Ops, TypeOK
<1>4. ASSUME NEW w \in Workers, Write(w) PROVE TypeOK'
  <2>1. file' \in Files
    BY <1>4, PayloadType DEF Write, TypeOK
  <2>2. stamp' \in [Workers -> 0..Seconds]
    BY <1>4, FileLeaseAssumption DEF Write, TypeOK
  <2> QED  BY <1>1, <1>4, <2>1, <2>2, OutcomeType DEF Write, TypeOK
<1>5. ASSUME NEW w \in Workers, Read(w) PROVE TypeOK'
  BY <1>1, <1>5, OutcomeType DEF Read, Goto, Ops, TypeOK
<1>6. ASSUME NEW w \in Workers, Unlink(w) PROVE TypeOK'
  BY <1>1, <1>6, NoFileType DEF Unlink, Goto, Ops, TypeOK
<1>7. ASSUME NEW w \in Workers, Recreate(w) PROVE TypeOK'
  BY <1>1, <1>7, OpenType, OutcomeType DEF Recreate, Goto, Ops, TypeOK
<1>8. ASSUME NEW w \in Workers, Renew(w) PROVE TypeOK'
  BY <1>1, <1>8, FreshTokenType DEF Renew, Goto, Ops, TypeOK
<1>9. ASSUME NEW w \in Workers, OpenTruncated(w) PROVE TypeOK'
  <2>1. op' \in [Workers -> Ops]
    BY <1>9 DEF OpenTruncated, Goto, Ops, TypeOK
  <2>2. CASE Exists
    <3>1. file' \in Files
      <4>1. file' = [file EXCEPT !.token = NoToken, !.left = 0] /\ 0 \in 0..Seconds
        BY <1>9, <2>2, FileLeaseAssumption DEF OpenTruncated
      <4> QED  BY <4>1 DEF TypeOK
    <3>2. fd' \in [Workers -> Inodes \cup {NoInode}] /\ stamp' \in [Workers -> 0..Seconds]
      BY <1>9, <2>2, FileLeaseAssumption DEF OpenTruncated, TypeOK
    <3> QED  BY <1>1, <1>9, <2>1, <3>1, <3>2 DEF OpenTruncated, TypeOK
  <2>3. CASE ~Exists
    BY <1>1, <1>9, <2>1, <2>3, OpenType DEF OpenTruncated, TypeOK
  <2> QED  BY <2>2, <2>3
<1>10. ASSUME NEW w \in Workers, Rewrite(w) PROVE TypeOK'
  <2>1. file' \in Files
    BY <1>10, PayloadType DEF Rewrite, TypeOK
  <2> QED  BY <1>1, <1>10, <2>1, FileLeaseAssumption DEF Rewrite, Goto, Ops, TypeOK
<1>11. ASSUME NEW w \in Workers, Exit(w) PROVE TypeOK'
  BY <1>1, <1>11, FileLeaseAssumption DEF Exit, Goto, Ops, TypeOK
<1>12. ASSUME NEW w \in Workers, Drop(w) PROVE TypeOK'
  BY <1>1, <1>12, NoFileType DEF Drop, Goto, Ops, TypeOK
<1>13. ASSUME NEW w \in Workers, Die(w) PROVE TypeOK'
  BY <1>1, <1>13, FileLeaseAssumption DEF Die, Goto, Ops, TypeOK
<1>14. ASSUME NEW w \in Workers, CreateFault(w) \/ UnlinkFault(w) PROVE TypeOK'
  <2>1. faults' \in Nat
    BY <1>14 DEF CreateFault, UnlinkFault, Fault, TypeOK
  <2> QED  BY <1>1, <1>14, <2>1, OutcomeType DEF CreateFault, UnlinkFault, TypeOK
<1>15. ASSUME NEW w \in Workers, OpenFault(w) PROVE TypeOK'
  BY <1>1, <1>15, FreshTokenType DEF OpenFault, Fault, Goto, Ops, TypeOK
<1>16. CASE Tick \/ Stall
  <2>1. Elapse /\ faults' \in Nat
    BY <1>16 DEF Tick, Stall, Fault, TypeOK
  <2> QED  BY <1>1, <2>1, ElapseType DEF Elapse, TypeOK
<1> QED
  BY <1>2, <1>3, <1>4, <1>5, <1>6, <1>7, <1>8, <1>9, <1>10, <1>11, <1>12, <1>13, <1>14,
     <1>15, <1>16 DEF Next, Continue

LEMMA InitType == Init => TypeOK
<1>1. 0 \in 0..Seconds
  BY FileLeaseAssumption
<1> SUFFICES ASSUME Init PROVE TypeOK
  OBVIOUS
<1>2. file \in Files /\ job \in SUBSET Workers /\ op \in [Workers -> Ops]
  BY NoFileType DEF Init, Ops
<1>3. tok \in [Workers -> Tokens \cup {NoToken}] /\ new \in [Workers -> Tokens \cup {NoToken}]
  BY DEF Init
<1>4. fd \in [Workers -> Inodes \cup {NoInode}]
  BY DEF Init
<1>5. stamp \in [Workers -> 0..Seconds] /\ timer \in [Workers -> 0..Seconds]
  BY <1>1 DEF Init
<1> QED  BY <1>2, <1>3, <1>4, <1>5 DEF Init, TypeOK, Files

\* The file, the handles and the operations keep their types.
THEOREM FileTypes == Spec => []TypeOK
BY InitType, NextType, PTL DEF Spec

-----------------------------------------------------------------------------
(* Until the first fault, and until a live lease is unlinked, whoever runs the *)
(* job, has just created the file or is about to remove it is alone, and the   *)
(* file is his: with his token and the time his heartbeat counts on, or, while *)
(* he writes it, without a payload and under the inode he has open.           *)

Acquiring == {"create", "write", "read", "unlink", "recreate"}
Engaged(w) == w \in job \/ op[w] \in {"write", "drop"}

Backed(w) ==
  /\ w \in job => /\ op[w] \in {"none", "open", "rewrite"} /\ tok[w] # NoToken
                  /\ timer[w] <= Interval + MaxLag
  /\ w \in job /\ op[w] # "rewrite" =>
       file.inode # NoInode /\ file.token = tok[w] /\ file.left = Seconds - timer[w]
  /\ op[w] \in {"write", "rewrite"} =>
       /\ file.inode = fd[w] /\ fd[w] # NoInode /\ file.token = NoToken
       /\ stamp[w] = Seconds
  /\ op[w] = "drop" => file.inode # NoInode /\ file.left > 0

Covered ==
  /\ \A w \in Workers : Engaged(w) => Backed(w)
  /\ \A u, w \in Workers : Engaged(u) /\ Engaged(w) => u = w

\* An operation of an acquisition has its token, one of a renewal its job.
Pending ==
  \A w \in Workers : /\ op[w] \in Acquiring => new[w] # NoToken
                     /\ op[w] \in {"open", "rewrite"} => w \in job

FileInv == TypeOK /\ Pending /\ (faults = 0 /\ ~removed => Covered)

LEMMA NextPending ==
  ASSUME TypeOK, Pending, [Next]_<<vars, history>>
  PROVE  Pending'
<1> SUFFICES ASSUME Next PROVE Pending'
  BY DEF Pending, vars, history
<1>1. ASSUME NEW w \in Workers, Acquire(w) \/ Renew(w) \/ OpenFault(w) PROVE Pending'
  BY <1>1, FreshTokenType DEF Acquire, Renew, OpenFault, Goto, Pending, Acquiring, TypeOK
<1>2. ASSUME NEW w \in Workers, Create(w) \/ Unlink(w) PROVE Pending'
  BY <1>2 DEF Create, Unlink, Goto, Pending, Acquiring, TypeOK
<1>3. ASSUME NEW w \in Workers, Write(w) \/ CreateFault(w) PROVE Pending'
  BY <1>3 DEF Write, CreateFault, Acquired, Goto, Pending, Acquiring, TypeOK
<1>4. ASSUME NEW w \in Workers, Read(w) \/ Recreate(w) \/ UnlinkFault(w) PROVE Pending'
  BY <1>4 DEF Read, Recreate, UnlinkFault, NotAcquired, Goto, Pending, Acquiring, TypeOK
<1>5. ASSUME NEW w \in Workers, OpenTruncated(w) \/ Rewrite(w) PROVE Pending'
  BY <1>5 DEF OpenTruncated, Rewrite, Goto, Pending, Acquiring, TypeOK
<1>6. ASSUME NEW w \in Workers, Exit(w) \/ Drop(w) \/ Die(w) PROVE Pending'
  BY <1>6 DEF Exit, Drop, Die, Goto, Pending, Acquiring, TypeOK
<1>7. CASE Tick \/ Stall
  BY <1>7 DEF Tick, Stall, Elapse, Pending
<1> QED  BY <1>1, <1>2, <1>3, <1>4, <1>5, <1>6, <1>7 DEF Next, Continue

\* The file of an engaged worker is read as held.
LEMMA EngagedIsHeld ==
  ASSUME TypeOK, Covered, NEW w \in Workers, Engaged(w)
  PROVE  Unexpired
<1>1. Backed(w)
  BY DEF Covered
<1>2. CASE w \in job /\ op[w] # "rewrite"
  <2>1. file.left = Seconds - timer[w] /\ timer[w] <= Interval + MaxLag /\ timer[w] \in Nat
    BY <1>1, <1>2, FileLeaseAssumption DEF Backed, TypeOK
  <2>2. file.left > 0
    BY <2>1, FileLeaseAssumption
  <2> QED  BY <1>1, <1>2, <2>2 DEF Backed, Unexpired, Exists
<1>3. CASE op[w] \in {"write", "rewrite"}
  BY <1>1, <1>3 DEF Backed, Unexpired, Exists, Readable
<1>4. CASE op[w] = "drop"
  BY <1>1, <1>4 DEF Backed, Unexpired, Exists
<1> QED  BY <1>2, <1>3, <1>4 DEF Engaged

\* u is where it was.
Kept(u) ==
  /\ u \in job' <=> u \in job
  /\ op'[u] = op[u] /\ tok'[u] = tok[u] /\ fd'[u] = fd[u] /\ stamp'[u] = stamp[u]
  /\ timer'[u] = timer[u]

LEMMA BystanderCovers ==
  ASSUME Covered, NEW w \in Workers, ~Engaged(w)', UNCHANGED file,
         \A u \in Workers \ {w} : Kept(u)
  PROVE  Covered'
<1>1. \A u \in Workers : Engaged(u)' => u # w /\ Engaged(u)
  BY DEF Kept, Engaged
<1>2. ASSUME NEW u \in Workers, Engaged(u)' PROVE Backed(u)'
  <2>1. Backed(u) /\ Kept(u)
    BY <1>1, <1>2 DEF Covered
  <2> QED  BY <2>1 DEF Backed, Kept
<1> QED  BY <1>1, <1>2 DEF Covered

LEMMA OnlyOneCovers ==
  ASSUME Covered, NEW w \in Workers, Engaged(w) \/ \A u \in Workers : ~Engaged(u),
         \A u \in Workers \ {w} : Kept(u), Engaged(w)' => Backed(w)'
  PROVE  Covered'
<1>1. \A u \in Workers : Engaged(u)' => u = w
  BY DEF Kept, Engaged, Covered
<1> QED  BY <1>1 DEF Covered

\* A worker that creates the file, or opens it anew, is the only engaged one.
LEMMA OpenCovers ==
  ASSUME TypeOK, Pending, Covered, NEW w \in Workers, Create(w) \/ Recreate(w)
  PROVE  Covered'
<1>1. \A u \in Workers \ {w} : Kept(u)
  BY DEF Create, Recreate, Open, NotAcquired, Goto, Kept, TypeOK
<1>2. w \notin job /\ ~Engaged(w)
  BY DEF Create, Recreate, Covered, Backed, Engaged
<1>3. CASE Exists
  <2>1. ~Engaged(w)' /\ UNCHANGED file
    BY <1>2, <1>3 DEF Create, Recreate, NotAcquired, Goto, Engaged, TypeOK
  <2> QED  BY <1>1, <2>1, BystanderCovers
<1>4. CASE ~Exists
  <2>1. \A u \in Workers : ~Engaged(u)
    BY <1>4, EngagedIsHeld DEF Unexpired
  <2>2. /\ FreshInodes # {} /\ op'[w] = "write" /\ job' = job
        /\ file' = [inode |-> FreshInode, token |-> NoToken, left |-> 0]
        /\ fd'[w] = FreshInode /\ stamp'[w] = Seconds
    BY <1>4 DEF Create, Recreate, Open, Goto, TypeOK
  <2>3. Backed(w)'
    BY <1>2, <2>2, FreshInodeType DEF Backed
  <2> QED  BY <1>1, <2>1, <2>3, OnlyOneCovers
<1> QED  BY <1>3, <1>4

\* So is one whose payload reaches the file, under his token and with all its time.
LEMMA WriteCovers ==
  ASSUME TypeOK, Pending, Covered, NEW w \in Workers, Write(w) \/ Rewrite(w)
  PROVE  Covered'
<1>1. \A u \in Workers \ {w} : Kept(u)
  BY DEF Write, Rewrite, Acquired, Goto, Kept, TypeOK
<1>2. Engaged(w) /\ Backed(w)
  BY DEF Write, Rewrite, Pending, Engaged, Covered
<1>3. file.inode = fd[w] /\ fd[w] # NoInode /\ stamp[w] = Seconds
  BY <1>2 DEF Write, Rewrite, Backed
<1>4. w \in job' /\ op'[w] = "none" /\ timer'[w] = 0
  BY DEF Write, Rewrite, Acquired, Goto, Pending, TypeOK
<1>5. tok'[w] # NoToken /\ file' = [file EXCEPT !.token = tok'[w], !.left = Seconds]
  <2>1. CASE Write(w)
    BY <1>3, <2>1 DEF Write, Acquired, Payload, Pending, Acquiring, TypeOK
  <2>2. CASE Rewrite(w)
    BY <1>2, <1>3, <2>2 DEF Rewrite, Payload, Pending, Backed, TypeOK
  <2> QED  BY <2>1, <2>2
<1>6. file'.inode = file.inode /\ file'.token = tok'[w] /\ file'.left = Seconds - timer'[w]
  BY <1>4, <1>5, FileLeaseAssumption DEF TypeOK
<1>7. Backed(w)'
  BY <1>3, <1>4, <1>5, <1>6, FileLeaseAssumption DEF Backed
<1> QED  BY <1>1, <1>2, <1>7, OnlyOneCovers

\* The heartbeat finds the file, and opens it.
LEMMA RenewCovers ==
  ASSUME TypeOK, Pending, Covered, NEW w \in Workers, Renew(w) \/ OpenTruncated(w)
  PROVE  Covered'
<1>1. \A u \in Workers \ {w} : Kept(u)
  BY DEF Renew, OpenTruncated, Open, Goto, Kept, TypeOK
<1>2. w \in job /\ Engaged(w) /\ Backed(w) /\ op[w] \in {"none", "open"}
  BY DEF Renew, OpenTruncated, Pending, Engaged, Covered
<1>3. Exists /\ Readable /\ file.token = tok[w]
  BY <1>2 DEF Backed, Exists, Readable
<1>4. CASE Renew(w)
  BY <1>1, <1>2, <1>3, <1>4, OnlyOneCovers DEF Renew, Goto, Backed, TypeOK
<1>5. CASE OpenTruncated(w)
  <2>1. /\ file' = [file EXCEPT !.token = NoToken, !.left = 0]
        /\ fd'[w] = file.inode /\ stamp'[w] = Seconds /\ op'[w] = "rewrite"
        /\ UNCHANGED <<job, tok, timer>>
    BY <1>3, <1>5 DEF OpenTruncated, Goto, TypeOK
  <2>2. file'.inode = file.inode /\ file'.token = NoToken
    BY <2>1 DEF TypeOK
  <2>3. Backed(w)'
    BY <1>2, <1>3, <2>1, <2>2 DEF Backed, Exists
  <2> QED  BY <1>1, <1>2, <2>3, OnlyOneCovers
<1> QED  BY <1>4, <1>5

\* A job that ends removes its file next; a worker that goes leaves the rest alone.
LEMMA EndCovers ==
  ASSUME TypeOK, Pending, Covered, NEW w \in Workers, Exit(w) \/ Drop(w) \/ Die(w)
  PROVE  Covered'
<1>1. \A u \in Workers \ {w} : Kept(u)
  BY DEF Exit, Drop, Die, Goto, Kept, TypeOK
<1>2. CASE Exit(w)
  <2>1. w \in job /\ Engaged(w) /\ Backed(w) /\ op[w] = "none" /\ Unexpired
    BY <1>2, EngagedIsHeld DEF Exit, Engaged, Covered
  <2>2. file.left > 0 /\ file.inode # NoInode /\ file' = file
    BY <1>2, <2>1 DEF Exit, Backed, Unexpired, Exists, Readable
  <2>3. w \notin job' /\ op'[w] \in {"none", "drop"}
    BY <1>2 DEF Exit, Goto, TypeOK
  <2>4. Backed(w)'
    BY <2>2, <2>3 DEF Backed
  <2> QED  BY <1>1, <2>1, <2>4, OnlyOneCovers
<1>3. CASE Drop(w)
  <2>1. Engaged(w) /\ w \notin job
    BY <1>3 DEF Drop, Engaged, Covered, Backed
  <2>2. ~Engaged(w)'
    BY <1>3, <2>1 DEF Drop, Goto, Engaged, TypeOK
  <2> QED  BY <1>1, <2>1, <2>2, OnlyOneCovers
<1>4. CASE Die(w)
  <2>1. ~Engaged(w)' /\ UNCHANGED file
    BY <1>4 DEF Die, Goto, Engaged, TypeOK
  <2> QED  BY <1>1, <2>1, BystanderCovers
<1> QED  BY <1>2, <1>3, <1>4

\* A timely tick finds no operation of an engaged worker under way, and leaves him
\* the time he counts on.
LEMMA TickCovers ==
  ASSUME TypeOK, Covered, Tick
  PROVE  Covered'
<1>1. \A u \in Workers : Engaged(u)' = Engaged(u)
  BY DEF Tick, Elapse, Engaged
<1>2. ASSUME NEW u \in Workers, Engaged(u) PROVE Backed(u)'
  <2>1. Backed(u) /\ u \in job /\ op[u] = "none" /\ timer[u] < Interval + MaxLag
    BY <1>2 DEF Covered, Tick, OnTime, Engaged
  <2>2. /\ file.inode # NoInode /\ file.token = tok[u] /\ tok[u] # NoToken
        /\ file.left = Seconds - timer[u] /\ timer[u] \in Nat
    BY <2>1, FileLeaseAssumption DEF Backed, TypeOK
  <2>3. file.left > 0 /\ timer[u] < Seconds
    BY <2>1, <2>2, FileLeaseAssumption
  <2>4. file' = [file EXCEPT !.left = file.left - 1] /\ timer'[u] = timer[u] + 1
    BY <2>1, <2>3 DEF Tick, Elapse
  <2>5. file'.inode = file.inode /\ file'.token = file.token /\ file'.left = file.left - 1
    BY <2>4 DEF TypeOK
  <2>6. file'.left = Seconds - timer'[u] /\ timer'[u] <= Interval + MaxLag
    BY <2>1, <2>2, <2>4, <2>5, FileLeaseAssumption
  <2> QED  BY <2>1, <2>2, <2>5, <2>6 DEF Backed, Tick, Elapse
<1> QED  BY <1>1, <1>2 DEF Covered

LEMMA NextCovers ==
  ASSUME FileInv, [Next]_<<vars, history>>, faults' = 0, ~removed'
  PROVE  Covered'
<1>1. TypeOK /\ TypeOK' /\ Pending /\ faults \in Nat
  BY NextType DEF FileInv, TypeOK
<1>2. ~Fault
  BY <1>1 DEF Fault
<1>3. CASE UNCHANGED <<vars, history>>
  BY <1>3 DEF FileInv, vars, history, Covered, Backed, Engaged
<1>4. CASE Next
  <2>1. ~removed /\ ~RemovesLive
    BY <1>1, <1>4 DEF Next, TypeOK
  <2>2. \A w \in Workers : ~CreateFault(w) /\ ~UnlinkFault(w) /\ ~OpenFault(w)
    BY <1>2 DEF CreateFault, UnlinkFault, OpenFault
  <2>3. ~Stall
    BY <1>2 DEF Stall
  <2>4. faults = 0
    BY <1>4, <2>2, <2>3 DEF Next, Continue, Acquire, Create, Write, Read, Unlink, Recreate, Renew,
         OpenTruncated, Rewrite, Drop, Exit, Die, Tick
  <2>5. Covered
    BY <2>1, <2>4 DEF FileInv
  <2>6. ASSUME NEW w \in Workers, Acquire(w) PROVE Covered'
    <3>1. ~Engaged(w)' /\ UNCHANGED file /\ \A u \in Workers \ {w} : Kept(u)
      BY <1>1, <2>6 DEF Acquire, Goto, Engaged, Kept, TypeOK
    <3> QED  BY <2>5, <3>1, BystanderCovers
  <2>7. ASSUME NEW w \in Workers, Read(w) PROVE Covered'
    <3>1. w \notin job
      BY <2>5, <2>7 DEF Read, Covered, Backed, Engaged
    <3>2. ~Engaged(w)' /\ UNCHANGED file /\ \A u \in Workers \ {w} : Kept(u)
      BY <1>1, <2>7, <3>1 DEF Read, NotAcquired, Goto, Engaged, Kept, TypeOK
    <3> QED  BY <2>5, <3>2, BystanderCovers
  <2>8. ASSUME NEW w \in Workers, Unlink(w) PROVE Covered'
    <3>1. \A u \in Workers : ~Engaged(u)
      BY <1>1, <2>1, <2>5, <2>8, EngagedIsHeld DEF RemovesLive
    <3>2. ~Engaged(w)' /\ \A u \in Workers \ {w} : Kept(u)
      BY <1>1, <2>8, <3>1 DEF Unlink, Goto, Engaged, Kept, TypeOK
    <3> QED  BY <2>5, <3>1, <3>2, OnlyOneCovers
  <2> QED
    BY <1>1, <1>4, <2>2, <2>3, <2>5, <2>6, <2>7, <2>8, OpenCovers, WriteCovers, RenewCovers,
       EndCovers, TickCovers DEF Next, Continue
<1> QED  BY <1>3, <1>4

LEMMA FileInvariant == Spec => []FileInv
<1>1. Init => FileInv
  <2> SUFFICES ASSUME Init PROVE Pending /\ Covered
    BY InitType DEF FileInv
  <2> QED  BY DEF Init, Pending, Acquiring, Covered, Engaged
<1>2. FileInv /\ [Next]_<<vars, history>> => FileInv'
  BY NextType, NextPending, NextCovers DEF FileInv
<1> QED  BY <1>1, <1>2, PTL DEF Spec

\* Whatever the processes do and whenever they die: while heartbeats are on time
\* and system calls succeed, two processes run the job only after an acquiring one
\* has unlinked a live lease.
THEOREM FileExcludes == Spec => []ExclusiveUnlessRemoved
<1>1. FileInv => ExclusiveUnlessRemoved
  BY DEF FileInv, TypeOK, Covered, Engaged, ExclusiveUnlessRemoved, MutualExclusion
<1> QED  BY <1>1, FileInvariant, PTL

\* Until then the sweep is right to take a job without a live lease for dead.
THEOREM FileTellsTheLiving == Spec => []NoLeaseMeansDead
<1>1. FileInv => NoLeaseMeansDead
  BY EngagedIsHeld DEF FileInv, TypeOK, Engaged, NoLeaseMeansDead
<1> QED  BY <1>1, FileInvariant, PTL

-----------------------------------------------------------------------------
(* The step simulation.  Once degraded, every step is Degrade; before, a payload   *)
(* that reaches the file is Begin, an exit or a death is End, and the rest is        *)
(* invisible.                                                                  *)

Degraded == faults > 0 \/ removed

LEMMA StaysDegraded ==
  ASSUME TypeOK, [Next]_<<vars, history>>, ~Degraded'
  PROVE  ~Degraded
<1>1. faults' \in {faults, faults + 1} /\ (removed => removed')
  BY DEF TypeOK, Next, vars, history, Continue, Acquire, Create, Write, Read, Unlink, Recreate,
         Renew, OpenTruncated, Rewrite, Drop, Exit, Die, CreateFault, UnlinkFault, OpenFault,
         Fault, Tick, Stall
<1> QED  BY <1>1 DEF Degraded, TypeOK

\* A worker whose payload is under way is the only one that may run the job.
LEMMA WriteBegins ==
  ASSUME TypeOK, Covered, NEW w \in Workers, Write(w)
  PROVE  job' = job \cup {w} /\ job \subseteq {w}
BY DEF TypeOK, Covered, Engaged, Write, Acquired

LEMMA StepImplements ==
  ASSUME FileInv, [Next]_<<vars, history>>
  PROVE  [Abs!Next]_(Abs!vars)
<1> DEFINE fallen == faults > 0 \/ removed
<1>1. TypeOK /\ TypeOK'
  BY NextType DEF FileInv
<1>2. CASE fallen'
  <2>1. job' \in SUBSET Workers
    BY <1>1 DEF TypeOK
  <2>2. fallen' = TRUE
    BY <1>2
  <2> QED  BY <2>1, <2>2 DEF Abs!Next, Abs!Degrade
<1>3. CASE ~fallen'
  <2>1. ~fallen
    BY <1>1, <1>3, StaysDegraded DEF Degraded
  <2>2. fallen' = fallen
    BY <1>3, <2>1
  <2>3. Covered
    BY <1>1, <2>1 DEF FileInv, TypeOK
  <2>4. ~Fault
    BY <1>1, <1>3, <2>1 DEF Fault, TypeOK
  <2>5. ASSUME NEW w \in Workers, Write(w) PROVE [Abs!Next]_(Abs!vars)
    <3>1. job' = job \cup {w} /\ job \subseteq {w}
      BY <1>1, <2>3, <2>5, WriteBegins
    <3>2. CASE w \in job
      BY <2>2, <3>1, <3>2 DEF Abs!vars
    <3>3. CASE w \notin job
      BY <2>2, <3>1, <3>3 DEF Abs!Next, Abs!Begin
    <3> QED  BY <3>2, <3>3
  <2>6. ASSUME NEW w \in Workers, Exit(w) \/ Die(w) PROVE [Abs!Next]_(Abs!vars)
    <3>1. job' = job \ {w}
      BY <2>6 DEF Exit, Die
    <3>2. CASE w \in job
      BY <2>2, <3>1, <3>2 DEF Abs!Next, Abs!End
    <3>3. CASE w \notin job
      BY <2>2, <3>1, <3>3 DEF Abs!vars
    <3> QED  BY <3>2, <3>3
  <2>7. CASE job' = job
    BY <2>2, <2>7 DEF Abs!vars
  <2> QED
    BY <2>4, <2>5, <2>6, <2>7
       DEF Next, vars, history, Continue, Acquire, Create, Read, Unlink, Recreate, NotAcquired,
           Renew, OpenTruncated, Rewrite, Drop, CreateFault, UnlinkFault, OpenFault, Tick, Stall,
           Elapse
<1> QED  BY <1>2, <1>3

LEMMA InitImplements == Init => Abs!Init
BY DEF Init, Abs!Init

\* Every behaviour of the file lease is one ExclusiveWork allows.
THEOREM FileImplements == Spec => Implements
<1>1. FileInv /\ [Next]_<<vars, history>> => [Abs!Next]_(Abs!vars)
  BY StepImplements
<1> QED  BY InitImplements, FileInvariant, <1>1, PTL DEF Spec, Implements, Abs!Spec
=============================================================================
