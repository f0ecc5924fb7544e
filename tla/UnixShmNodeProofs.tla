------------------------- MODULE UnixShmNodeProofs -------------------------
(***************************************************************************)
(* Proofs about UnixShmNode for every set of processes and connections,    *)
(* every region size and every number of regions per mapping.              *)
(*                                                                         *)
(* That no stale contents are used and that what is mapped is backed both  *)
(* rest on what each step of a call may count on (CallOK), on the state of *)
(* the node (NodeOK) and on the kernel's locks (KernelOK); the counting of *)
(* the references rests on the two mutexes (MutexOK).  IInv, the           *)
(* conjunction, is inductive.  A step of a connection disturbs its own     *)
(* process and the file only, so the proof shows once what the other       *)
(* processes need (OthersKept) and then, action by action, what becomes of *)
(* the process that steps.                                                 *)
(***************************************************************************)
EXTENDS UnixShmNode, FiniteSetTheorems, TLAPS

Steps ==
  {"idle", "open", "link", "linkFail", "enter", "size", "grow", "mmap", "unref"} \cup LockSteps

TypeOK ==
  /\ size \in Int /\ size >= Absent /\ trusted \in {0, 1}
  /\ dms \in [Process -> LockType]
  /\ node \in [Process -> {"none", "new", "ready"}]
  /\ isReadonly \subseteq Process /\ isUnlocked \subseteq Process
  /\ nRef \in [Process -> Nat] /\ nRegion \in [Process -> Nat]
  /\ pFirst \subseteq Conn /\ pShm \subseteq Conn /\ bExtend \subseteq Conn
  /\ pc \in [Conn -> Steps]
  /\ iRegion \in [Conn -> Nat] /\ iPg \in [Conn -> Int]

(* A node that is ready is counted, one that is being opened has somebody  *)
(* opening it under unixBigLock, and one that is used holds the DMS lock.  *)
NodeOK(p) ==
  /\ node[p] = "ready" <=> nRef[p] > 0
  /\ node[p] = "new" <=> \E c \in Conn : ProcOf[c] = p /\ HoldsBigLock(c)
  /\ node[p] = "none" => dms[p] = F_UNLCK /\ p \notin isReadonly
  /\ node[p] # "ready" => p \notin isUnlocked
  /\ p \in isUnlocked => p \in isReadonly /\ dms[p] = F_UNLCK
  /\ Using(p) <=> dms[p] = F_RDLCK
  /\ ~Using(p) => nRegion[p] = 0

(* What each step of a call may count on.                                  *)
CallOK(c) ==
  LET p == ProcOf[c] IN
  /\ pc[c] \in {"open", "unref", "wrlck", "truncate"} => c \notin pShm
  /\ pc[c] \in {"link", "linkFail", "enter"} => c \in pShm
  /\ pc[c] \in {"size", "grow", "mmap"} => c \in pShm /\ Using(p)
  /\ pc[c] \in LockSteps /\ c \in pShm => p \in isUnlocked
  /\ pc[c] \in {"getlk", "wrlck"} => dms[p] = F_UNLCK
  /\ pc[c] = "truncate" => dms[p] = F_WRLCK
  /\ pc[c] \in {"wrlck", "truncate"} => p \notin isReadonly
  /\ pc[c] = "rdlck" => trusted = 1 /\ dms[p] # F_RDLCK
  /\ pc[c] = "grow" => iPg[c] <= size
  /\ pc[c] = "mmap" => ReqPages(c) <= size

(* unixBigLock and pShmMutex each have one holder in a process.            *)
MutexOK(c, d) ==
  c # d /\ ProcOf[c] = ProcOf[d] =>
    ~(HoldsBigLock(c) /\ HoldsBigLock(d)) /\ ~(HoldsShmMutex(c) /\ HoldsShmMutex(d))

(* Who holds the DMS byte for writing holds it alone.                      *)
KernelOK(p, q) == p # q /\ dms[p] = F_WRLCK => dms[q] = F_UNLCK

(* Regions are mapped ShmPerMap at a time.                                 *)
RegionsOK(p) == \E k \in Nat : nRegion[p] = k * ShmPerMap

IInv ==
  /\ TypeOK
  /\ \A p \in Process : NodeOK(p) /\ RegionsOK(p)
  /\ \A c \in Conn : CallOK(c)
  /\ \A c, d \in Conn : MutexOK(c, d)
  /\ \A p, q \in Process : KernelOK(p, q)
  /\ NoStaleShm /\ RefsCounted /\ MappedIsBacked

(***************************************************************************)
(* Initially.                                                              *)
(***************************************************************************)
LEMMA InitInv == Init => IInv
<1> SUFFICES ASSUME Init PROVE IInv
  OBVIOUS
<1> USE DEF Init
<1>1. TypeOK
  BY UnixShmNodeAssumption DEF TypeOK, Steps, LockType, F_UNLCK, Absent
<1>2. ASSUME NEW p \in Process PROVE NodeOK(p) /\ RegionsOK(p)
  BY UnixShmNodeAssumption DEF NodeOK, RegionsOK, HoldsBigLock, LockSteps, Using, F_UNLCK, F_RDLCK
<1>3. ASSUME NEW c \in Conn PROVE CallOK(c)
  BY UnixShmNodeAssumption DEF CallOK, LockSteps
<1>4. ASSUME NEW c \in Conn, NEW d \in Conn PROVE MutexOK(c, d)
  BY DEF MutexOK, HoldsBigLock, LockSteps, HoldsShmMutex
<1>5. ASSUME NEW p \in Process, NEW q \in Process PROVE KernelOK(p, q)
  BY DEF KernelOK, F_UNLCK, F_WRLCK
<1>6. NoStaleShm /\ MappedIsBacked
  BY DEF NoStaleShm, MappedIsBacked
<1>7. RefsCounted
  <2>1. \A p \in Process : Referencing(p) = {}
    BY DEF Referencing
  <2> QED
    BY <2>1, FS_EmptySet DEF RefsCounted
<1> QED
  BY <1>1, <1>2, <1>3, <1>4, <1>5, <1>6, <1>7 DEF IInv

(***************************************************************************)
(* Connections count their node.                                           *)
(***************************************************************************)
LEMMA RefFacts ==
  ASSUME IInv, NEW p \in Process
  PROVE  /\ IsFiniteSet(Referencing(p)) /\ nRef[p] = Cardinality(Referencing(p))
         /\ node[p] # "ready" => Referencing(p) = {}
         /\ nRef[p] = 1 => \A c, d \in Referencing(p) : c = d
<1>1. IsFiniteSet(Referencing(p))
  BY UnixShmNodeAssumption, FS_Subset DEF Referencing
<1>2. nRef[p] = Cardinality(Referencing(p)) /\ (node[p] = "ready" <=> nRef[p] > 0)
  BY DEF IInv, RefsCounted
<1>3. Cardinality(Referencing(p)) = 0 <=> Referencing(p) = {}
  BY <1>1, FS_EmptySet
<1>4. Cardinality(Referencing(p)) \in Nat
  BY <1>1, FS_CardinalityType
<1>5. ASSUME nRef[p] = 1, NEW c \in Referencing(p), NEW d \in Referencing(p) PROVE c = d
  <2>1. \E x : Referencing(p) = {x}
    BY <1>1, <1>2, <1>5, FS_Singleton
  <2> QED
    BY <2>1
<1> QED
  BY <1>1, <1>2, <1>3, <1>4, <1>5

(***************************************************************************)
(* A step of one process, or the death of some, leaves the others alone.   *)
(***************************************************************************)
SameRow(p) ==
  /\ dms'[p] = dms[p] /\ node'[p] = node[p] /\ nRef'[p] = nRef[p] /\ nRegion'[p] = nRegion[p]
  /\ p \in isReadonly' <=> p \in isReadonly
  /\ p \in isUnlocked' <=> p \in isUnlocked
SameCall(c) ==
  /\ pc'[c] = pc[c] /\ iRegion'[c] = iRegion[c] /\ iPg'[c] = iPg[c]
  /\ c \in pShm' <=> c \in pShm
Same(p) == SameRow(p) /\ \A c \in Conn : ProcOf[c] = p => SameCall(c)

(* What happened to the file is fit for the users of a process.            *)
FileFits(p) == Using(p) => size <= size'

ProcInv(p) ==
  /\ NodeOK(p) /\ RegionsOK(p)
  /\ Using(p) => trusted = 1
  /\ nRef[p] = Cardinality(Referencing(p))
  /\ nRegion[p] > 0 => nRegion[p] * RegionPages <= size
  /\ \A c \in Conn : ProcOf[c] = p => CallOK(c)
  /\ \A c, d \in Conn : ProcOf[c] = p => MutexOK(c, d)

InvByProcess ==
  /\ TypeOK
  /\ \A p \in Process : ProcInv(p)
  /\ \A p, q \in Process : KernelOK(p, q)

LEMMA ByProcess == IInv <=> InvByProcess
<1>1. ASSUME IInv, NEW p \in Process PROVE ProcInv(p)
  BY <1>1 DEF IInv, ProcInv, NoStaleShm, RefsCounted, MappedIsBacked
<1>2. ASSUME InvByProcess PROVE IInv
  <2> USE <1>2 DEF InvByProcess
  <2>1. \A c \in Conn : ProcOf[c] \in Process
    BY UnixShmNodeAssumption
  <2>2. ASSUME NEW c \in Conn PROVE CallOK(c) /\ \A d \in Conn : MutexOK(c, d)
    BY <2>1 DEF ProcInv
  <2>3. NoStaleShm /\ RefsCounted /\ MappedIsBacked
    BY DEF ProcInv, NoStaleShm, RefsCounted, MappedIsBacked, NodeOK
  <2> QED
    BY <2>2, <2>3 DEF IInv, ProcInv
<1> QED
  BY <1>1, <1>2 DEF IInv, InvByProcess

LEMMA OthersKept ==
  ASSUME IInv, TypeOK', NEW p \in Process, Same(p), FileFits(p), trusted = 1 => trusted' = 1
  PROVE  ProcInv(p)'
<1>1. ProcInv(p)
  BY ByProcess DEF InvByProcess
<1>2. Using(p)' <=> Using(p)
  BY DEF Same, SameRow, Using
<1>3. Referencing(p)' = Referencing(p)
  BY DEF Same, SameCall, Referencing
<1>4. ASSUME NEW c \in Conn, ProcOf[c] = p
      PROVE (HoldsBigLock(c)' <=> HoldsBigLock(c)) /\ (HoldsShmMutex(c)' <=> HoldsShmMutex(c))
  BY <1>4 DEF Same, SameCall, HoldsBigLock, HoldsShmMutex
<1>5. NodeOK(p)' /\ RegionsOK(p)'
  BY <1>1, <1>2, <1>4 DEF ProcInv, NodeOK, RegionsOK, Same, SameRow
<1>6. ASSUME NEW c \in Conn, ProcOf[c] = p PROVE CallOK(c)'
  <2>1. CallOK(c) /\ SameCall(c) /\ SameRow(p)
    BY <1>1, <1>6 DEF ProcInv, Same
  <2>2. ReqPages(c)' = ReqPages(c) /\ ReqPages(c) \in Int
    BY <2>1, UnixShmNodeAssumption DEF ReqPages, ReqRegions, SameCall, IInv, TypeOK
  <2>3. pc[c] \in {"grow", "mmap"} => size <= size'
    BY <1>6, <2>1 DEF CallOK, FileFits
  <2>4. size \in Int /\ size' \in Int /\ iPg[c] \in Int
    BY DEF IInv, TypeOK
  <2>5. pc[c] = "grow" => iPg[c] <= size'
    BY <2>1, <2>3, <2>4 DEF CallOK
  <2>6. pc[c] = "mmap" => ReqPages(c) <= size'
    BY <2>1, <2>2, <2>3, <2>4 DEF CallOK
  <2> QED
    BY <1>2, <1>6, <2>1, <2>2, <2>5, <2>6 DEF CallOK, SameCall, SameRow
<1>7. ASSUME NEW c \in Conn, NEW d \in Conn, ProcOf[c] = p PROVE MutexOK(c, d)'
  BY <1>1, <1>4, <1>7 DEF ProcInv, MutexOK
<1>8. nRegion'[p] > 0 => nRegion'[p] * RegionPages <= size'
  <2>1. nRegion[p] \in Nat /\ nRegion'[p] = nRegion[p] /\ size \in Int /\ size' \in Int
    BY DEF IInv, TypeOK, Same, SameRow
  <2>2. nRegion[p] * RegionPages \in Int
    BY <2>1, UnixShmNodeAssumption
  <2>3. nRegion[p] > 0 => Using(p)
    BY <1>1, <2>1 DEF ProcInv, NodeOK
  <2> QED
    BY <1>1, <2>1, <2>2, <2>3 DEF ProcInv, FileFits
<1>9. (Using(p) => trusted = 1)'
  BY <1>1, <1>2 DEF ProcInv
<1>10. (nRef[p] = Cardinality(Referencing(p)))'
  BY <1>1, <1>3 DEF ProcInv, Same, SameRow
<1> QED
  BY <1>5, <1>6, <1>7, <1>8, <1>9, <1>10 DEF ProcInv

(***************************************************************************)
(* A step of one connection.                                               *)
(***************************************************************************)
StepOf(c) ==
  /\ \A d \in Conn \ {c} : SameCall(d)
  /\ \A q \in Process \ {ProcOf[c]} : SameRow(q)

LEMMA StepInv ==
  ASSUME IInv, TypeOK', NEW c \in Conn, StepOf(c), trusted = 1 => trusted' = 1,
         \A q \in Process \ {ProcOf[c]} : FileFits(q),
         \A q \in Process : KernelOK(ProcOf[c], q)' /\ KernelOK(q, ProcOf[c])',
         ProcInv(ProcOf[c])'
  PROVE  IInv'
<1>1. ASSUME NEW q \in Process PROVE ProcInv(q)'
  <2>1. CASE q = ProcOf[c]
    BY <2>1
  <2>2. CASE q # ProcOf[c]
    <3>1. Same(q) /\ FileFits(q)
      BY <2>2 DEF Same, StepOf
    <3> QED
      BY <3>1, OthersKept
  <2> QED
    BY <2>1, <2>2
<1>2. ASSUME NEW q \in Process, NEW r \in Process PROVE KernelOK(q, r)'
  <2>1. CASE q = ProcOf[c] \/ r = ProcOf[c]
    BY <2>1
  <2>2. CASE q # ProcOf[c] /\ r # ProcOf[c]
    BY <2>2 DEF IInv, KernelOK, StepOf, SameRow
  <2> QED
    BY <2>1, <2>2
<1>3. InvByProcess'
  BY <1>1, <1>2 DEF InvByProcess
<1> QED
  BY <1>3, ByProcess, PTL

(* A step that changes nothing of the node.                                *)
LEMMA CallStepInv ==
  ASSUME IInv, TypeOK', NEW c \in Conn, StepOf(c), SameRow(ProcOf[c]), trusted = 1 => trusted' = 1,
         \A q \in Process : FileFits(q),
         CallOK(c)',
         HoldsBigLock(c)' <=> HoldsBigLock(c),
         HoldsShmMutex(c)' => HoldsShmMutex(c) \/ ShmMutexFree(ProcOf[c]),
         c \in pShm' \/ pc'[c] = "unref" <=> c \in pShm \/ pc[c] = "unref"
  PROVE  IInv'
<1> DEFINE p == ProcOf[c]
<1>1. p \in Process /\ ProcInv(p)
  BY ByProcess, UnixShmNodeAssumption DEF InvByProcess
<1>2. \A q \in Process : KernelOK(p, q)' /\ KernelOK(q, p)'
  BY <1>1 DEF IInv, KernelOK, StepOf, SameRow
<1>3. Using(p)' <=> Using(p)
  BY DEF SameRow, Using
<1>4. Referencing(p)' = Referencing(p)
  BY DEF StepOf, SameCall, Referencing
<1>5. ASSUME NEW d \in Conn, d # c
      PROVE  /\ HoldsBigLock(d)' <=> HoldsBigLock(d)
             /\ HoldsShmMutex(d)' <=> HoldsShmMutex(d)
  BY <1>5 DEF StepOf, SameCall, HoldsBigLock, HoldsShmMutex
<1>6. NodeOK(p)'
  <2>1. (\E d \in Conn : ProcOf[d] = p /\ HoldsBigLock(d))'
          <=> \E d \in Conn : ProcOf[d] = p /\ HoldsBigLock(d)
    BY <1>5
  <2> QED
    BY <1>1, <1>3, <2>1 DEF ProcInv, NodeOK, SameRow
<1>7. RegionsOK(p)'
  BY <1>1 DEF ProcInv, RegionsOK, SameRow
<1>8. ASSUME NEW d \in Conn, ProcOf[d] = p PROVE CallOK(d)'
  <2>1. CASE d = c
    BY <2>1
  <2>2. CASE d # c
    <3>1. CallOK(d) /\ SameCall(d) /\ SameRow(p)
      BY <1>1, <1>8, <2>2 DEF ProcInv, StepOf
    <3>2. ReqPages(d)' = ReqPages(d) /\ ReqPages(d) \in Int
      BY <3>1, UnixShmNodeAssumption DEF ReqPages, ReqRegions, SameCall, IInv, TypeOK
    <3>3. pc[d] \in {"grow", "mmap"} => size <= size'
      BY <1>1, <1>8, <3>1 DEF CallOK, FileFits
    <3>4. size \in Int /\ size' \in Int /\ iPg[d] \in Int
      BY DEF IInv, TypeOK
    <3>5. pc[d] = "grow" => iPg[d] <= size'
      BY <3>1, <3>3, <3>4 DEF CallOK
    <3>6. pc[d] = "mmap" => ReqPages(d) <= size'
      BY <3>1, <3>2, <3>3, <3>4 DEF CallOK
    <3> QED
      BY <1>3, <1>8, <3>1, <3>2, <3>5, <3>6 DEF CallOK, SameCall, SameRow
  <2> QED
    BY <2>1, <2>2
<1>9. ASSUME NEW d \in Conn, NEW e \in Conn, ProcOf[d] = p PROVE MutexOK(d, e)'
  <2>1. MutexOK(d, e) /\ MutexOK(e, d)
    BY DEF IInv
  <2> QED
    BY <1>5, <1>9, <2>1 DEF MutexOK, ShmMutexFree
<1>10. nRegion'[p] > 0 => nRegion'[p] * RegionPages <= size'
  <2>1. nRegion[p] \in Nat /\ nRegion'[p] = nRegion[p] /\ size \in Int /\ size' \in Int
    BY <1>1 DEF IInv, TypeOK, SameRow
  <2>2. nRegion[p] * RegionPages \in Int
    BY <2>1, UnixShmNodeAssumption
  <2>3. nRegion[p] > 0 => Using(p)
    BY <1>1, <2>1 DEF ProcInv, NodeOK
  <2> QED
    BY <1>1, <2>1, <2>2, <2>3 DEF ProcInv, FileFits
<1>11. (Using(p) => trusted = 1)' /\ (nRef[p] = Cardinality(Referencing(p)))'
  BY <1>1, <1>3, <1>4 DEF ProcInv, SameRow
<1>12. ProcInv(p)'
  BY <1>6, <1>7, <1>8, <1>9, <1>10, <1>11 DEF ProcInv
<1> QED
  BY <1>2, <1>12, StepInv

(* Connections that cannot be in a call on a node that is not open.        *)
LEMMA Quiet ==
  ASSUME IInv, NEW d \in Conn, node[ProcOf[d]] # "ready", ~HoldsBigLock(d)
  PROVE  pc[d] \in {"idle", "open"} /\ d \notin pShm
<1>1. ProcOf[d] \in Process
  BY UnixShmNodeAssumption
<1>2. d \notin Referencing(ProcOf[d])
  BY <1>1, RefFacts
<1>3. d \notin pShm /\ pc[d] # "unref"
  BY <1>2 DEF Referencing
<1>4. CallOK(d) /\ pc[d] \in Steps
  BY DEF IInv, TypeOK
<1> QED
  BY <1>3, <1>4 DEF CallOK, HoldsBigLock, Steps

LEMMA BigLockHolder ==
  ASSUME IInv, NEW c \in Conn, HoldsBigLock(c)
  PROVE  /\ node[ProcOf[c]] = "new" /\ nRef[ProcOf[c]] = 0 /\ Referencing(ProcOf[c]) = {}
         /\ ~Using(ProcOf[c])
         /\ \A d \in Conn : ProcOf[d] = ProcOf[c] /\ d # c => ~HoldsBigLock(d)
<1>1. ProcOf[c] \in Process
  BY UnixShmNodeAssumption
<1>2. NodeOK(ProcOf[c]) /\ \A d \in Conn : MutexOK(d, c)
  BY <1>1 DEF IInv
<1>3. node[ProcOf[c]] = "new"
  BY <1>2 DEF NodeOK
<1>4. Referencing(ProcOf[c]) = {} /\ nRef[ProcOf[c]] = Cardinality(Referencing(ProcOf[c]))
  BY <1>1, <1>3, RefFacts
<1>5. nRef[ProcOf[c]] = 0
  BY <1>4, FS_EmptySet
<1> QED
  BY <1>2, <1>3, <1>4, <1>5 DEF Using, MutexOK

(***************************************************************************)
(* Steps that change nothing of the node.                                  *)
(***************************************************************************)
LEMMA LinkInv ==
  ASSUME IInv, NEW c \in Conn, Link(c)
  PROVE  IInv'
<1> USE DEF Link, Goto
<1>1. TypeOK'
  BY DEF IInv, TypeOK, Steps, fileVars, argVars
<1>2. StepOf(c) /\ SameRow(ProcOf[c]) /\ \A q \in Process : FileFits(q)
  BY DEF IInv, TypeOK, StepOf, SameRow, SameCall, FileFits, fileVars, argVars
<1>3. CallOK(c)'
  BY DEF IInv, TypeOK, CallOK, LockSteps, argVars
<1> QED
  BY <1>1, <1>2, <1>3, CallStepInv
     DEF IInv, TypeOK, HoldsBigLock, HoldsShmMutex, LockSteps, fileVars

LEMMA ShmMapInv ==
  ASSUME IInv, NEW c \in Conn, NEW region \in Regions, NEW extend \in BOOLEAN, ShmMap(c, region, extend)
  PROVE  IInv'
<1> USE DEF ShmMap, Goto
<1>1. TypeOK'
  BY UnixShmNodeAssumption DEF IInv, TypeOK, Steps, fileVars, nodeVars
<1>2. StepOf(c) /\ SameRow(ProcOf[c]) /\ \A q \in Process : FileFits(q)
  BY DEF IInv, TypeOK, StepOf, SameRow, SameCall, FileFits, fileVars, nodeVars
<1>3. CallOK(c)'
  BY DEF IInv, TypeOK, CallOK, LockSteps
<1> QED
  BY <1>1, <1>2, <1>3, CallStepInv
     DEF IInv, TypeOK, HoldsBigLock, HoldsShmMutex, LockSteps, fileVars, nodeVars

LEMMA EnterInv ==
  ASSUME IInv, NEW c \in Conn, Enter(c)
  PROVE  IInv'
<1> USE DEF Enter, Goto
<1>1. TypeOK'
  BY DEF IInv, TypeOK, Steps, LockSteps, fileVars, nodeVars, argVars
<1>2. StepOf(c) /\ SameRow(ProcOf[c]) /\ \A q \in Process : FileFits(q)
  BY DEF IInv, TypeOK, StepOf, SameRow, SameCall, FileFits, fileVars, nodeVars, argVars
<1>3. CallOK(c)'
  <2>1. ProcOf[c] \in Process /\ c \in pShm
    BY UnixShmNodeAssumption DEF IInv, CallOK
  <2>2. c \in Referencing(ProcOf[c])
    BY <2>1 DEF Referencing
  <2>3. node[ProcOf[c]] = "ready" /\ NodeOK(ProcOf[c])
    BY <2>1, <2>2, RefFacts DEF IInv
  <2> QED
    BY <2>1, <2>3 DEF IInv, TypeOK, CallOK, NodeOK, Using, LockSteps, nodeVars, fileVars
<1> QED
  BY <1>1, <1>2, <1>3, CallStepInv
     DEF IInv, TypeOK, CallOK, HoldsBigLock, HoldsShmMutex, LockSteps, fileVars, nodeVars

LEMMA ReqPagesNat ==
  ASSUME TypeOK, NEW c \in Conn
  PROVE  /\ ReqPages(c) \in Nat
         /\ \E k \in Nat : ReqRegions(c) = k * ShmPerMap
<1>1. (iRegion[c] + ShmPerMap) \div ShmPerMap \in Nat
  BY UnixShmNodeAssumption, SMTT(30) DEF TypeOK
<1> QED
  BY <1>1, UnixShmNodeAssumption DEF ReqPages, ReqRegions

LEMMA SizeInv ==
  ASSUME IInv, NEW c \in Conn, Size(c)
  PROVE  IInv'
<1> USE DEF Size, Goto, ReturnFromMap
<1>1. TypeOK'
  BY UnixShmNodeAssumption DEF IInv, TypeOK, Steps, fileVars, nodeVars
<1>2. StepOf(c) /\ SameRow(ProcOf[c]) /\ \A q \in Process : FileFits(q)
  BY DEF IInv, TypeOK, StepOf, SameRow, SameCall, FileFits, fileVars, nodeVars
<1>3. CallOK(c)'
  <2>1. ReqPages(c) \in Nat
    BY ReqPagesNat DEF IInv
  <2>2. pc'[c] \in {"grow", "mmap"} => ReqPages(c)' = ReqPages(c)
    BY DEF ReqPages, ReqRegions, IInv, TypeOK
  <2> QED
    BY <2>1, <2>2 DEF IInv, TypeOK, CallOK, Using, LockSteps, fileVars, nodeVars
<1> QED
  BY <1>1, <1>2, <1>3, CallStepInv
     DEF IInv, TypeOK, CallOK, HoldsBigLock, HoldsShmMutex, LockSteps, fileVars, nodeVars

LEMMA GrowInv ==
  ASSUME IInv, NEW c \in Conn, Grow(c)
  PROVE  IInv'
<1> USE DEF Grow, Goto, ReturnFromMap
<1>1. TypeOK'
  BY DEF IInv, TypeOK, Steps, Absent, nodeVars
<1>2. StepOf(c) /\ SameRow(ProcOf[c]) /\ \A q \in Process : FileFits(q)
  BY DEF IInv, TypeOK, StepOf, SameRow, SameCall, FileFits, nodeVars
<1>3. CallOK(c)'
  <2>1. ReqPages(c) \in Nat
    BY ReqPagesNat DEF IInv
  <2>2. pc'[c] \in {"grow", "mmap"} => ReqPages(c)' = ReqPages(c)
    BY DEF ReqPages, ReqRegions, IInv, TypeOK
  <2>3. CallOK(c) /\ size \in Int /\ iPg[c] \in Int
    BY DEF IInv, TypeOK
  <2> QED
    BY <2>1, <2>2, <2>3 DEF IInv, TypeOK, CallOK, Using, LockSteps, nodeVars
<1> QED
  BY <1>1, <1>2, <1>3, CallStepInv
     DEF IInv, TypeOK, CallOK, HoldsBigLock, HoldsShmMutex, LockSteps, nodeVars

LEMMA UnmapInv ==
  ASSUME IInv, NEW c \in Conn, Unmap(c)
  PROVE  IInv'
<1> USE DEF Unmap, Goto
<1>1. TypeOK'
  BY DEF IInv, TypeOK, Steps, fileVars, argVars
<1>2. StepOf(c) /\ SameRow(ProcOf[c]) /\ \A q \in Process : FileFits(q)
  BY DEF IInv, TypeOK, StepOf, SameRow, SameCall, FileFits, fileVars, argVars
<1>3. CallOK(c)'
  BY DEF IInv, TypeOK, CallOK, LockSteps, argVars
<1> QED
  BY <1>1, <1>2, <1>3, CallStepInv
     DEF IInv, TypeOK, HoldsBigLock, HoldsShmMutex, LockSteps, fileVars

(***************************************************************************)
(* Steps that purge a node.                                                *)
(***************************************************************************)
NoNode(p) ==
  /\ node[p] = "none" /\ dms[p] = F_UNLCK /\ p \notin isReadonly /\ p \notin isUnlocked
  /\ nRef[p] = 0 /\ nRegion[p] = 0
  /\ \A c \in Conn : ProcOf[c] = p => pc[c] \in {"idle", "open"} /\ c \notin pShm

LEMMA NoNodeInv ==
  ASSUME NEW p \in Process, NoNode(p)'
  PROVE  ProcInv(p)' /\ \A q \in Process : KernelOK(p, q)' /\ KernelOK(q, p)'
<1> USE DEF NoNode
<1>1. \A c \in Conn : ProcOf[c] = p => ~HoldsBigLock(c)' /\ ~HoldsShmMutex(c)'
  BY DEF HoldsBigLock, HoldsShmMutex, LockSteps
<1>2. NodeOK(p)'
  BY <1>1 DEF NodeOK, Using, F_UNLCK, F_RDLCK
<1>3. RegionsOK(p)'
  BY UnixShmNodeAssumption DEF RegionsOK
<1>4. Cardinality(Referencing(p))' = 0
  <2>1. Referencing(p)' = {}
    BY DEF Referencing
  <2> QED
    BY <2>1, FS_EmptySet
<1>5. \A c \in Conn : ProcOf[c] = p => CallOK(c)'
  BY DEF CallOK, LockSteps
<1>6. \A c, d \in Conn : ProcOf[c] = p => MutexOK(c, d)'
  BY <1>1 DEF MutexOK
<1> QED
  BY <1>2, <1>3, <1>4, <1>5, <1>6 DEF ProcInv, KernelOK, Using, F_UNLCK, F_WRLCK

LEMMA PurgeInv ==
  ASSUME IInv, TypeOK', NEW c \in Conn, StepOf(c), trusted = 1 => trusted' = 1,
         \A q \in Process \ {ProcOf[c]} : FileFits(q),
         NoNode(ProcOf[c])'
  PROVE  IInv'
<1>1. ProcOf[c] \in Process
  BY UnixShmNodeAssumption
<1> QED
  BY <1>1, NoNodeInv, StepInv

LEMMA FailInv ==
  ASSUME IInv, NEW c \in Conn, pc[c] \in LockSteps, Fail(c), UNCHANGED <<size, trusted, pFirst, argVars>>
  PROVE  IInv'
<1> USE DEF Fail, Goto
<1>1. TypeOK'
  BY UnixShmNodeAssumption DEF IInv, TypeOK, Steps, Purge, LockType, argVars
<1>2. StepOf(c) /\ \A q \in Process : FileFits(q)
  BY DEF IInv, TypeOK, StepOf, SameRow, SameCall, FileFits, Purge, argVars
<1>3. CASE c \in pShm
  <2>1. SameRow(ProcOf[c])
    BY <1>3 DEF SameRow
  <2>2. CallOK(c)'
    BY DEF IInv, TypeOK, CallOK, LockSteps, argVars
  <2>3. HoldsBigLock(c)' <=> HoldsBigLock(c)
    BY <1>3 DEF IInv, TypeOK, HoldsBigLock, LockSteps
  <2> QED
    BY <1>1, <1>2, <1>3, <2>1, <2>2, <2>3, CallStepInv DEF IInv, TypeOK, HoldsShmMutex, LockSteps
<1>4. CASE c \notin pShm
  <2>1. HoldsBigLock(c)
    BY <1>4 DEF HoldsBigLock
  <2>2. node[ProcOf[c]] = "new" /\ nRef[ProcOf[c]] = 0 /\ ProcOf[c] \in Process
    BY <2>1, BigLockHolder, UnixShmNodeAssumption
  <2>3. ASSUME NEW d \in Conn, ProcOf[d] = ProcOf[c], d # c
        PROVE  pc[d] \in {"idle", "open"} /\ d \notin pShm
    BY <2>1, <2>2, <2>3, BigLockHolder, Quiet
  <2>4. NoNode(ProcOf[c])'
    BY <1>4, <2>2, <2>3 DEF IInv, TypeOK, NoNode, Purge
  <2> QED
    BY <1>1, <1>2, <2>4, PurgeInv
<1> QED
  BY <1>3, <1>4

(***************************************************************************)
(* Steps that attach a connection to a node.                               *)
(***************************************************************************)
LEMMA AttachRefs ==
  ASSUME IInv, TypeOK', NEW c \in Conn, StepOf(c), c \notin Referencing(ProcOf[c]),
         nRef'[ProcOf[c]] = nRef[ProcOf[c]] + 1, c \in pShm'
  PROVE  (nRef[ProcOf[c]] = Cardinality(Referencing(ProcOf[c])))' /\ nRef'[ProcOf[c]] > 0
<1> DEFINE p == ProcOf[c]
<1>1. p \in Process
  BY UnixShmNodeAssumption
<1>2. Referencing(p)' = Referencing(p) \cup {c}
  BY DEF Referencing, StepOf, SameCall
<1>3. IsFiniteSet(Referencing(p)) /\ nRef[p] = Cardinality(Referencing(p)) /\ nRef[p] \in Nat
  BY <1>1, RefFacts DEF IInv, TypeOK
<1>4. Cardinality(Referencing(p) \cup {c}) = Cardinality(Referencing(p)) + 1
  BY <1>3, FS_AddElement
<1> QED
  BY <1>2, <1>3, <1>4

(* The first connection of a node, when it has the lock or does without.   *)
LEMMA AttachNewInv ==
  ASSUME IInv, TypeOK', NEW c \in Conn, HoldsBigLock(c), StepOf(c),
         NEW step \in {"link", "linkFail"}, Attach(c, step), UNCHANGED <<size, trusted>>,
         \A q \in Process : KernelOK(ProcOf[c], q)' /\ KernelOK(q, ProcOf[c])',
         Using(ProcOf[c])' <=> dms'[ProcOf[c]] = F_RDLCK,
         Using(ProcOf[c])' => trusted = 1,
         ProcOf[c] \in isUnlocked' => ProcOf[c] \in isReadonly' /\ dms'[ProcOf[c]] = F_UNLCK,
         nRegion'[ProcOf[c]] = nRegion[ProcOf[c]]
  PROVE  IInv'
<1> DEFINE p == ProcOf[c]
<1> USE DEF Attach, Goto
<1>1. /\ p \in Process /\ node[p] = "new" /\ Referencing(p) = {} /\ nRef[p] = 0 /\ ~Using(p)
      /\ NodeOK(p)
  BY BigLockHolder, UnixShmNodeAssumption DEF IInv
<1>2. node'[p] = "ready" /\ pc'[c] = step /\ c \in pShm' /\ nRef'[p] = nRef[p] + 1
  BY <1>1 DEF IInv, TypeOK
<1>3. (nRef[p] = Cardinality(Referencing(p)))' /\ nRef'[p] > 0
  BY <1>1, <1>2, AttachRefs
<1>4. ASSUME NEW d \in Conn, ProcOf[d] = p, d # c
      PROVE  pc'[d] \in {"idle", "open"} /\ d \notin pShm'
  <2>1. pc[d] \in {"idle", "open"} /\ d \notin pShm
    BY <1>1, <1>4, BigLockHolder, Quiet
  <2> QED
    BY <1>4, <2>1 DEF StepOf, SameCall
<1>5. \A d \in Conn : ProcOf[d] = p => ~HoldsBigLock(d)' /\ ~HoldsShmMutex(d)' /\ CallOK(d)'
  BY <1>2, <1>4 DEF HoldsBigLock, HoldsShmMutex, LockSteps, CallOK
<1>6. NodeOK(p)'
  BY <1>1, <1>2, <1>3, <1>5 DEF NodeOK
<1>7. RegionsOK(p)' /\ nRegion'[p] = 0
  BY <1>1, UnixShmNodeAssumption DEF RegionsOK, NodeOK
<1>8. \A d, e \in Conn : ProcOf[d] = p => MutexOK(d, e)'
  BY <1>5 DEF MutexOK
<1>9. ProcInv(p)'
  BY <1>3, <1>5, <1>6, <1>7, <1>8 DEF ProcInv
<1>10. \A q \in Process : FileFits(q)
  BY DEF FileFits, IInv, TypeOK
<1> QED
  BY <1>9, <1>10, StepInv

(* A second connection to a node.                                          *)
LEMMA AttachMoreInv ==
  ASSUME IInv, TypeOK', NEW c \in Conn, pc[c] = "open", node[ProcOf[c]] = "ready", StepOf(c),
         Attach(c, "link"), UNCHANGED <<size, trusted, isReadonly, dms, isUnlocked, nRegion, argVars>>
  PROVE  IInv'
<1> DEFINE p == ProcOf[c]
<1> USE DEF Attach, Goto
<1>1. p \in Process /\ NodeOK(p) /\ ProcInv(p) /\ c \notin pShm
  BY ByProcess, UnixShmNodeAssumption DEF InvByProcess, IInv, CallOK
<1>2. node' = node /\ pc'[c] = "link" /\ c \in pShm' /\ nRef'[p] = nRef[p] + 1
  BY <1>1 DEF IInv, TypeOK
<1>3. (nRef[p] = Cardinality(Referencing(p)))' /\ nRef'[p] > 0
  BY <1>1, <1>2, AttachRefs DEF Referencing
<1>4. ASSUME NEW d \in Conn, d # c
      PROVE  /\ HoldsBigLock(d)' <=> HoldsBigLock(d)
             /\ HoldsShmMutex(d)' <=> HoldsShmMutex(d)
  BY <1>4 DEF StepOf, SameCall, HoldsBigLock, HoldsShmMutex
<1>5. ~HoldsBigLock(c)' /\ ~HoldsShmMutex(c)' /\ ~HoldsBigLock(c)
  BY <1>2 DEF HoldsBigLock, HoldsShmMutex, LockSteps
<1>6. Using(p)' <=> Using(p)
  BY <1>2 DEF Using
<1>7. NodeOK(p)'
  BY <1>1, <1>2, <1>3, <1>4, <1>5, <1>6 DEF NodeOK
<1>8. RegionsOK(p)'
  BY <1>1 DEF RegionsOK, ProcInv
<1>9. ASSUME NEW d \in Conn, ProcOf[d] = p PROVE CallOK(d)'
  <2>1. CASE d = c
    BY <1>2, <2>1 DEF CallOK, LockSteps
  <2>2. CASE d # c
    BY <1>1, <1>6, <1>9, <2>2 DEF ProcInv, CallOK, StepOf, SameCall, ReqPages, ReqRegions, argVars
  <2> QED
    BY <2>1, <2>2
<1>10. \A d, e \in Conn : ProcOf[d] = p => MutexOK(d, e)'
  BY <1>1, <1>4, <1>5 DEF ProcInv, MutexOK
<1>11. ProcInv(p)'
  BY <1>1, <1>3, <1>6, <1>7, <1>8, <1>9, <1>10 DEF ProcInv
<1>12. \A q \in Process : FileFits(q) /\ KernelOK(p, q)' /\ KernelOK(q, p)'
  BY <1>1 DEF FileFits, IInv, TypeOK, KernelOK
<1> QED
  BY <1>11, <1>12, StepInv

(***************************************************************************)
(* unixOpenSharedMemory and unixLockSharedMemory.                          *)
(***************************************************************************)
LEMMA OpenInv ==
  ASSUME IInv, NEW c \in Conn, Open(c)
  PROVE  IInv'
<1> DEFINE p == ProcOf[c]
<1> USE DEF Open, Goto
<1>1. p \in Process /\ NodeOK(p) /\ CallOK(c)
  BY UnixShmNodeAssumption DEF IInv
<1>2. TypeOK'
  BY <1>1 DEF IInv, TypeOK, Steps, LockSteps, Attach, OpenFile, Absent, argVars
<1>3. StepOf(c)
  BY <1>1 DEF IInv, TypeOK, StepOf, SameRow, SameCall, Attach, OpenFile, argVars
<1>4. CASE node[p] # "none" /\ Attach(c, "link") /\ UNCHANGED <<size, trusted, isReadonly>>
  <2>1. node[p] = "ready"
    BY <1>1, <1>4 DEF IInv, TypeOK, NodeOK, BigLockFree
  <2> QED
    BY <1>2, <1>3, <1>4, <2>1, AttachMoreInv
<1>5. CASE node[p] = "none" /\ OpenFile(c)
  <2> USE DEF OpenFile
  <2>1. node'[p] = "new" /\ pc'[c] = "getlk" /\ c \notin pShm'
    BY <1>1, <1>5 DEF IInv, TypeOK, CallOK
  <2>2. ASSUME NEW d \in Conn, ProcOf[d] = p, d # c
        PROVE  pc'[d] \in {"idle", "open"} /\ d \notin pShm'
    BY <1>5, <2>2, Quiet DEF BigLockFree, IInv, TypeOK
  <2>3. HoldsBigLock(c)' /\ ~HoldsShmMutex(c)'
    BY <2>1 DEF HoldsBigLock, HoldsShmMutex, LockSteps
  <2>4. \A d \in Conn : ProcOf[d] = p /\ d # c => ~HoldsBigLock(d)' /\ ~HoldsShmMutex(d)' /\ CallOK(d)'
    BY <2>2 DEF HoldsBigLock, HoldsShmMutex, LockSteps, CallOK
  <2>5. NodeOK(p)'
    BY <1>1, <1>5, <2>1, <2>3 DEF NodeOK, Using, F_UNLCK, F_RDLCK
  <2>6. RegionsOK(p)' /\ nRegion'[p] = 0
    BY <1>1, <1>5, UnixShmNodeAssumption DEF RegionsOK, NodeOK, Using
  <2>7. CallOK(c)'
    BY <1>1, <1>5, <2>1 DEF CallOK, NodeOK, LockSteps
  <2>8. \A d, e \in Conn : ProcOf[d] = p => MutexOK(d, e)'
    BY <2>3, <2>4 DEF MutexOK
  <2>9. (nRef[p] = Cardinality(Referencing(p)))'
    <3>1. Referencing(p) = {} /\ nRef[p] = Cardinality(Referencing(p))
      BY <1>1, <1>5, RefFacts
    <3>2. Referencing(p)' = {}
      BY <2>1, <2>2 DEF Referencing
    <3> QED
      BY <1>5, <3>1, <3>2
  <2>10. ~Using(p)'
    BY <2>1 DEF Using
  <2>11. ProcInv(p)'
    BY <2>4, <2>5, <2>6, <2>7, <2>8, <2>9, <2>10 DEF ProcInv
  <2>12. \A q \in Process : FileFits(q) /\ KernelOK(p, q)' /\ KernelOK(q, p)'
    BY <1>1, <1>5 DEF FileFits, IInv, TypeOK, KernelOK, Absent
  <2>13. trusted = 1 => trusted' = 1
    BY <1>5
  <2> QED
    BY <1>2, <1>3, <2>11, <2>12, <2>13, StepInv
<1>6. CASE Goto(c, "idle") /\ UNCHANGED <<size, trusted, isReadonly, node, nRef, pShm>>
  <2>1. SameRow(p) /\ \A q \in Process : FileFits(q)
    BY <1>6 DEF SameRow, FileFits, IInv, TypeOK
  <2>2. CallOK(c)'
    BY <1>6 DEF IInv, TypeOK, CallOK, LockSteps, argVars
  <2> QED
    BY <1>2, <1>3, <1>6, <2>1, <2>2, CallStepInv DEF IInv, TypeOK, HoldsBigLock, HoldsShmMutex, LockSteps
<1> QED
  BY <1>4, <1>5, <1>6

LEMMA GetLkInv ==
  ASSUME IInv, NEW c \in Conn, GetLk(c)
  PROVE  IInv'
<1> DEFINE p == ProcOf[c]
<1> USE DEF GetLk, Goto
<1>1. p \in Process /\ NodeOK(p) /\ CallOK(c) /\ pc[c] \in LockSteps
  BY UnixShmNodeAssumption DEF IInv, LockSteps
<1>2. CASE Fail(c)
  BY <1>1, <1>2, FailInv
<1>3. CASE /\ UNCHANGED <<node, isReadonly, isUnlocked, nRegion, dms, nRef, pShm>>
           /\ \/ ~BeingInitialized(p) /\ InUse(p) /\ Goto(c, "rdlck")
              \/ ~InUse(p) /\ p \notin isReadonly /\ Goto(c, "wrlck")
  <2>1. TypeOK'
    BY <1>3 DEF IInv, TypeOK, Steps, LockSteps, argVars
  <2>2. StepOf(c) /\ SameRow(p) /\ \A q \in Process : FileFits(q)
    BY <1>3 DEF IInv, TypeOK, StepOf, SameRow, SameCall, FileFits, argVars
  <2>3. ~BeingInitialized(p) /\ InUse(p) => trusted = 1
    <3>1. SUFFICES ASSUME NEW q \in Process, dms[q] = F_RDLCK PROVE trusted = 1
      BY DEF BeingInitialized, InUse, IInv, TypeOK, LockType
    <3> QED
      BY <3>1 DEF IInv, NodeOK, NoStaleShm
  <2>4. CallOK(c)'
    <3>1. p \in isUnlocked => p \in isReadonly
      BY <1>1 DEF NodeOK
    <3> QED
      BY <1>1, <1>3, <2>3, <3>1 DEF IInv, TypeOK, CallOK, LockSteps, argVars, F_UNLCK, F_RDLCK
  <2> QED
    BY <1>3, <2>1, <2>2, <2>4, CallStepInv DEF IInv, TypeOK, HoldsBigLock, HoldsShmMutex, LockSteps
<1>4. CASE ~InUse(p) /\ p \in isReadonly /\ CannotInit(c)
  <2> USE DEF CannotInit
  <2>1. TypeOK'
    BY <1>1, <1>4 DEF IInv, TypeOK, Steps, LockSteps, Attach, argVars
  <2>2. StepOf(c)
    BY <1>1, <1>4 DEF IInv, TypeOK, StepOf, SameRow, SameCall, Attach, argVars
  <2>3. CASE c \in pShm
    <3>1. SameRow(p) /\ \A q \in Process : FileFits(q)
      BY <1>1, <1>4, <2>3 DEF SameRow, FileFits, IInv, TypeOK, CallOK
    <3>2. CallOK(c)'
      BY <1>4, <2>3 DEF IInv, TypeOK, CallOK, LockSteps, argVars
    <3> QED
      BY <1>4, <2>1, <2>2, <2>3, <3>1, <3>2, CallStepInv
         DEF IInv, TypeOK, HoldsBigLock, HoldsShmMutex, LockSteps
  <2>4. CASE c \notin pShm
    <3>1. HoldsBigLock(c) /\ Attach(c, "linkFail")
      BY <1>1, <1>4, <2>4 DEF HoldsBigLock
    <3>2. ~Using(p)' /\ dms'[p] = F_UNLCK /\ p \in isReadonly'
      BY <1>1, <1>4 DEF Using, CallOK
    <3>3. \A q \in Process : KernelOK(p, q)' /\ KernelOK(q, p)'
      BY <1>1, <1>4 DEF IInv, KernelOK
    <3> QED
      BY <1>4, <2>1, <2>2, <3>1, <3>2, <3>3, AttachNewInv DEF F_UNLCK, F_RDLCK
  <2> QED
    BY <2>3, <2>4
<1> QED
  BY <1>2, <1>3, <1>4

LEMMA WrLockInv ==
  ASSUME IInv, NEW c \in Conn, WrLock(c)
  PROVE  IInv'
<1> DEFINE p == ProcOf[c]
<1> USE DEF WrLock, Goto
<1>1. /\ p \in Process /\ NodeOK(p) /\ CallOK(c) /\ pc[c] \in LockSteps /\ c \notin pShm
      /\ HoldsBigLock(c) /\ ProcInv(p)
  BY ByProcess, UnixShmNodeAssumption DEF InvByProcess, IInv, LockSteps, CallOK, HoldsBigLock
<1>2. CASE Fail(c)
  BY <1>1, <1>2, FailInv
<1>3. CASE ~Fail(c)
  <2>1. TypeOK'
    BY <1>1, <1>3 DEF IInv, TypeOK, Steps, LockSteps, LockType, argVars
  <2>2. StepOf(c) /\ \A q \in Process : FileFits(q)
    BY <1>1, <1>3 DEF IInv, TypeOK, StepOf, SameRow, SameCall, FileFits, argVars
  <2>3. dms'[p] = F_WRLCK /\ pc'[c] = "truncate" /\ node[p] = "new" /\ ~Using(p)
    BY <1>1, <1>3, BigLockHolder DEF IInv, TypeOK
  <2>4. ASSUME NEW d \in Conn, ProcOf[d] = p, d # c
        PROVE  pc'[d] \in {"idle", "open"} /\ d \notin pShm'
    BY <1>1, <1>3, <2>2, <2>3, <2>4, BigLockHolder, Quiet DEF StepOf, SameCall
  <2>5. HoldsBigLock(c)' /\ ~HoldsShmMutex(c)'
    BY <1>1, <1>3, <2>3 DEF HoldsBigLock, HoldsShmMutex, LockSteps
  <2>6. \A d \in Conn : ProcOf[d] = p /\ d # c => ~HoldsBigLock(d)' /\ ~HoldsShmMutex(d)' /\ CallOK(d)'
    BY <2>4 DEF HoldsBigLock, HoldsShmMutex, LockSteps, CallOK
  <2>7. NodeOK(p)' /\ ~Using(p)'
    BY <1>1, <1>3, <2>3, <2>5 DEF NodeOK, Using, F_WRLCK, F_RDLCK
  <2>8. CallOK(c)'
    BY <1>1, <1>3, <2>3 DEF CallOK, LockSteps
  <2>9. (nRef[p] = Cardinality(Referencing(p)))'
    <3>1. Referencing(p)' = Referencing(p)
      BY <1>1, <1>3, <2>2, <2>3 DEF Referencing, StepOf, SameCall
    <3> QED
      BY <1>1, <1>3, <3>1 DEF ProcInv
  <2>10. RegionsOK(p)' /\ nRegion'[p] = 0
    BY <1>1, <1>3, <2>3 DEF ProcInv, RegionsOK, NodeOK
  <2>11. \A d, e \in Conn : ProcOf[d] = p => MutexOK(d, e)'
    BY <2>5, <2>6 DEF MutexOK
  <2>12. ProcInv(p)'
    BY <2>6, <2>7, <2>8, <2>9, <2>10, <2>11 DEF ProcInv
  <2>13. ASSUME NEW q \in Process PROVE KernelOK(p, q)' /\ KernelOK(q, p)'
    <3>1. q # p => dms'[q] = F_UNLCK
      BY <1>1, <1>3 DEF DmsGrantable, Compatible, IInv, TypeOK, F_UNLCK, F_RDLCK, F_WRLCK
    <3> QED
      BY <3>1 DEF KernelOK, F_UNLCK, F_WRLCK
  <2> QED
    BY <1>3, <2>1, <2>2, <2>12, <2>13, StepInv
<1> QED
  BY <1>2, <1>3

(* Nobody else uses the file that is cut.                                  *)
LEMMA TruncateAlone ==
  ASSUME IInv, NEW c \in Conn, pc[c] = "truncate", NEW q \in Process
  PROVE  ~Using(q)
<1>1. ProcOf[c] \in Process /\ CallOK(c) /\ NodeOK(ProcOf[c]) /\ NodeOK(q) /\ KernelOK(ProcOf[c], q)
  BY UnixShmNodeAssumption DEF IInv
<1> QED
  BY <1>1 DEF CallOK, NodeOK, KernelOK, F_UNLCK, F_RDLCK, F_WRLCK

LEMMA TruncateInv ==
  ASSUME IInv, NEW c \in Conn, Truncate(c)
  PROVE  IInv'
<1> DEFINE p == ProcOf[c]
<1> USE DEF Truncate, Goto
<1>1. p \in Process /\ CallOK(c) /\ pc[c] \in LockSteps /\ c \notin pShm
  BY UnixShmNodeAssumption DEF IInv, LockSteps, CallOK
<1>2. CASE Fail(c) /\ UNCHANGED <<size, trusted>>
  BY <1>1, <1>2, FailInv
<1>3. CASE /\ size' = 0 /\ trusted' = 1 /\ Goto(c, "rdlck")
           /\ UNCHANGED <<node, isReadonly, isUnlocked, nRegion, dms, nRef, pShm>>
  <2>1. TypeOK'
    BY <1>3 DEF IInv, TypeOK, Steps, LockSteps, Absent, argVars
  <2>2. StepOf(c) /\ SameRow(p)
    BY <1>3 DEF IInv, TypeOK, StepOf, SameRow, SameCall, argVars
  <2>3. \A q \in Process : FileFits(q)
    BY TruncateAlone DEF FileFits
  <2>4. CallOK(c)'
    BY <1>1, <1>3 DEF IInv, TypeOK, CallOK, LockSteps, F_WRLCK, F_RDLCK
  <2> QED
    BY <1>3, <2>1, <2>2, <2>3, <2>4, CallStepInv DEF IInv, TypeOK, HoldsBigLock, HoldsShmMutex, LockSteps
<1> QED
  BY <1>2, <1>3

LEMMA RdLockInv ==
  ASSUME IInv, NEW c \in Conn, RdLock(c)
  PROVE  IInv'
<1> DEFINE p == ProcOf[c]
<1> USE DEF RdLock, Goto
<1>1. p \in Process /\ NodeOK(p) /\ CallOK(c) /\ pc[c] \in LockSteps /\ ProcInv(p)
  BY ByProcess, UnixShmNodeAssumption DEF InvByProcess, IInv, LockSteps
<1>2. CASE Fail(c)
  BY <1>1, <1>2, FailInv
<1>3. CASE ~Fail(c)
  <2>1. TypeOK'
    BY <1>1, <1>3 DEF IInv, TypeOK, Steps, LockSteps, LockType, Attach, argVars
  <2>2. StepOf(c) /\ \A q \in Process : FileFits(q)
    BY <1>1, <1>3 DEF IInv, TypeOK, StepOf, SameRow, SameCall, FileFits, Attach, argVars
  <2>3. dms'[p] = F_RDLCK /\ p \notin isUnlocked' /\ trusted = 1 /\ nRegion' = nRegion
    BY <1>1, <1>3 DEF IInv, TypeOK, CallOK
  <2>4. ASSUME NEW q \in Process PROVE KernelOK(p, q)' /\ KernelOK(q, p)'
    <3>1. q # p => dms'[q] # F_WRLCK
      BY <1>1, <1>3 DEF DmsGrantable, Compatible, IInv, TypeOK, F_UNLCK, F_RDLCK, F_WRLCK
    <3> QED
      BY <2>3, <3>1 DEF KernelOK, F_RDLCK, F_WRLCK
  <2>5. CASE c \notin pShm
    <3>1. HoldsBigLock(c) /\ Attach(c, "link")
      BY <1>1, <1>3, <2>5 DEF HoldsBigLock
    <3>2. Using(p)'
      BY <1>1, <2>3, <3>1 DEF Using, Attach, IInv, TypeOK
    <3> QED
      BY <1>3, <2>1, <2>2, <2>3, <2>4, <3>1, <3>2, AttachNewInv
  <2>6. CASE c \in pShm
    <3>1. p \in isUnlocked /\ node[p] = "ready" /\ ~Using(p) /\ nRegion[p] = 0
      BY <1>1, <2>6 DEF CallOK, NodeOK, Using, IInv, TypeOK
    <3>2. /\ pc'[c] = "size" /\ c \in pShm' /\ HoldsShmMutex(c) /\ HoldsShmMutex(c)'
          /\ ~HoldsBigLock(c)' /\ ~HoldsBigLock(c)
      BY <1>1, <1>3, <2>6 DEF IInv, TypeOK, HoldsShmMutex, HoldsBigLock, LockSteps
    <3>3. node' = node /\ nRef' = nRef /\ pShm' = pShm /\ Using(p)'
      BY <1>3, <2>3, <2>6, <3>1 DEF Using
    <3>4. ASSUME NEW d \in Conn, d # c
          PROVE  /\ HoldsBigLock(d)' <=> HoldsBigLock(d)
                 /\ HoldsShmMutex(d)' <=> HoldsShmMutex(d)
      BY <2>2, <3>4 DEF StepOf, SameCall, HoldsBigLock, HoldsShmMutex
    <3>5. NodeOK(p)'
      BY <1>1, <2>3, <3>1, <3>2, <3>3, <3>4 DEF NodeOK
    <3>6. ASSUME NEW d \in Conn, ProcOf[d] = p PROVE CallOK(d)'
      <4>1. CASE d = c
        BY <2>3, <3>2, <3>3, <4>1 DEF CallOK, LockSteps
      <4>2. CASE d # c
        <5>1. CallOK(d) /\ SameCall(d) /\ ~HoldsShmMutex(d)
          BY <1>1, <2>2, <3>2, <3>6, <4>2 DEF ProcInv, StepOf, MutexOK
        <5>2. ~HoldsBigLock(d)
          BY <1>1, <3>1, <3>6 DEF NodeOK
        <5> QED
          BY <5>1, <5>2 DEF CallOK, SameCall, HoldsShmMutex, HoldsBigLock, LockSteps
      <4> QED
        BY <4>1, <4>2
    <3>7. \A d, e \in Conn : ProcOf[d] = p => MutexOK(d, e)'
      BY <1>1, <3>2, <3>4 DEF ProcInv, MutexOK
    <3>8. (nRef[p] = Cardinality(Referencing(p)))'
      <4>1. Referencing(p)' = Referencing(p)
        BY <2>2, <2>6, <3>3 DEF Referencing, StepOf, SameCall
      <4> QED
        BY <1>1, <3>3, <4>1 DEF ProcInv
    <3>9. RegionsOK(p)' /\ nRegion'[p] = 0
      BY <1>1, <2>3, <3>1 DEF ProcInv, RegionsOK
    <3>10. ProcInv(p)'
      BY <1>3, <2>3, <3>5, <3>6, <3>7, <3>8, <3>9 DEF ProcInv
    <3> QED
      BY <1>3, <2>1, <2>2, <2>4, <3>10, StepInv
  <2> QED
    BY <2>5, <2>6
<1> QED
  BY <1>2, <1>3

(***************************************************************************)
(* Mapping.                                                                *)
(***************************************************************************)
LEMMA MulMonotone ==
  ASSUME NEW a \in Nat, NEW b \in Nat, NEW m \in Nat, a <= b
  PROVE  a * m <= b * m
<1>1. b = a + (b - a) /\ b - a \in Nat
  OBVIOUS
<1>2. (a + (b - a)) * m = a * m + (b - a) * m
  BY <1>1
<1>3. (b - a) * m \in Nat /\ a * m \in Nat
  BY <1>1
<1> QED
  BY <1>1, <1>2, <1>3

LEMMA NextMultiple ==
  ASSUME NEW j \in Nat, NEW k \in Nat, NEW m \in Nat, j * m < k * m
  PROVE  j * m + m <= k * m
<1>1. j < k
  BY MulMonotone
<1>2. (j + 1) * m <= k * m
  BY <1>1, MulMonotone
<1> QED
  BY <1>2

LEMMA MmapInv ==
  ASSUME IInv, NEW c \in Conn, Mmap(c)
  PROVE  IInv'
<1> DEFINE p == ProcOf[c]
<1> USE DEF Mmap, Goto, ReturnFromMap
<1>1. p \in Process /\ NodeOK(p) /\ CallOK(c) /\ ProcInv(p) /\ c \in pShm /\ Using(p)
  BY ByProcess, UnixShmNodeAssumption DEF InvByProcess, IInv, CallOK
<1>2. TypeOK'
  BY <1>1, UnixShmNodeAssumption DEF IInv, TypeOK, Steps, fileVars
<1>3. StepOf(c) /\ \A q \in Process : FileFits(q)
  BY <1>1 DEF IInv, TypeOK, StepOf, SameRow, SameCall, FileFits, fileVars
<1>4. CASE ReturnFromMap(c) /\ UNCHANGED nRegion
  <2>1. SameRow(p)
    BY <1>4 DEF SameRow, fileVars
  <2>2. CallOK(c)'
    BY <1>4 DEF IInv, TypeOK, CallOK, LockSteps, fileVars
  <2> QED
    BY <1>2, <1>3, <1>4, <2>1, <2>2, CallStepInv
       DEF IInv, TypeOK, HoldsBigLock, HoldsShmMutex, LockSteps, fileVars
<1>5. CASE /\ nRegion[p] < ReqRegions(c) /\ nRegion' = [nRegion EXCEPT ![p] = @ + ShmPerMap]
           /\ UNCHANGED <<pc, iRegion>>
  <2>1. PICK j \in Nat : nRegion[p] = j * ShmPerMap
    BY <1>1 DEF ProcInv, RegionsOK
  <2>2. PICK k \in Nat : ReqRegions(c) = k * ShmPerMap
    BY ReqPagesNat DEF IInv
  <2>3. nRegion'[p] = j * ShmPerMap + ShmPerMap
    BY <1>1, <1>5, <2>1 DEF IInv, TypeOK
  <2>4. nRegion'[p] <= ReqRegions(c)
    <3>1. j * ShmPerMap < k * ShmPerMap
      BY <1>5, <2>1, <2>2
    <3> QED
      BY <2>2, <2>3, <3>1, NextMultiple, UnixShmNodeAssumption
  <2>5. nRegion'[p] * RegionPages <= size'
    <3>1. nRegion'[p] \in Nat /\ ReqRegions(c) \in Nat
      BY <1>1, <1>2, <2>2, UnixShmNodeAssumption DEF TypeOK
    <3>2. nRegion'[p] * RegionPages <= ReqPages(c) /\ ReqPages(c) \in Nat
      BY <2>4, <3>1, MulMonotone, UnixShmNodeAssumption DEF ReqPages
    <3>3. ReqPages(c) <= size /\ size' = size /\ size \in Int /\ nRegion'[p] * RegionPages \in Nat
      BY <1>1, <3>1, UnixShmNodeAssumption DEF CallOK, IInv, TypeOK, fileVars
    <3> QED
      BY <3>2, <3>3
  <2>6. RegionsOK(p)'
    <3>1. nRegion'[p] = (j + 1) * ShmPerMap
      BY <2>3, UnixShmNodeAssumption
    <3> QED
      BY <3>1 DEF RegionsOK
  <2>7. UNCHANGED <<size, trusted, dms, node, isReadonly, isUnlocked, nRef, pShm, pc, iRegion, iPg>>
    BY <1>5 DEF fileVars
  <2>8. Using(p)' /\ NodeOK(p)'
    BY <1>1, <2>7 DEF Using, NodeOK, HoldsBigLock
  <2>9. ASSUME NEW d \in Conn, ProcOf[d] = p PROVE CallOK(d)'
    BY <1>1, <2>7, <2>8, <2>9 DEF ProcInv, CallOK, ReqPages, ReqRegions
  <2>10. \A d, e \in Conn : ProcOf[d] = p => MutexOK(d, e)'
    BY <1>1, <2>7 DEF ProcInv, MutexOK, HoldsBigLock, HoldsShmMutex
  <2>11. (nRef[p] = Cardinality(Referencing(p)))' /\ trusted' = 1
    BY <1>1, <2>7 DEF ProcInv, Referencing
  <2>12. ProcInv(p)'
    BY <2>5, <2>6, <2>8, <2>9, <2>10, <2>11 DEF ProcInv
  <2>13. \A q \in Process : KernelOK(p, q)' /\ KernelOK(q, p)'
    BY <1>1, <2>7 DEF IInv, KernelOK
  <2> QED
    BY <1>2, <1>3, <2>11, <2>12, <2>13, StepInv
<1> QED
  BY <1>4, <1>5

(***************************************************************************)
(* The end of a connection, of a process and of all of them.               *)
(***************************************************************************)
LEMMA UnrefInv ==
  ASSUME IInv, NEW c \in Conn, Unref(c)
  PROVE  IInv'
<1> DEFINE p == ProcOf[c]
<1> USE DEF Unref, Goto
<1>1. p \in Process /\ NodeOK(p) /\ CallOK(c) /\ ProcInv(p) /\ c \notin pShm /\ c \in Referencing(p)
  BY ByProcess, UnixShmNodeAssumption DEF InvByProcess, IInv, CallOK, Referencing
<1>2. nRef[p] \in Nat /\ nRef[p] > 0 /\ node[p] = "ready"
  BY <1>1, RefFacts DEF IInv, TypeOK, NodeOK
<1>3. TypeOK'
  BY <1>1, <1>2 DEF IInv, TypeOK, Steps, Purge, LockType, Absent, fileVars, argVars
<1>4. StepOf(c)
  BY <1>1 DEF IInv, TypeOK, StepOf, SameRow, SameCall, Purge, argVars, fileVars
<1>5. ASSUME NEW d \in Conn, ProcOf[d] = p PROVE ~HoldsBigLock(d)
  BY <1>2, <1>5, <1>1 DEF NodeOK
<1>6. pc'[c] = "idle" /\ pShm' = pShm /\ nRef'[p] = nRef[p] - 1
  BY <1>1 DEF IInv, TypeOK
<1>7. CASE LastRef(p)
  <2>1. \A d \in Referencing(p) : d = c
    BY <1>1, <1>7, RefFacts DEF LastRef
  <2>2. ASSUME NEW d \in Conn, ProcOf[d] = p, d # c PROVE pc'[d] \in {"idle", "open"} /\ d \notin pShm'
    <3>1. d \notin Referencing(p) /\ ~HoldsBigLock(d) /\ CallOK(d) /\ pc[d] \in Steps
      BY <1>5, <2>1, <2>2 DEF IInv, TypeOK
    <3>2. pc[d] \in {"idle", "open"} /\ d \notin pShm
      BY <2>2, <3>1 DEF Referencing, CallOK, HoldsBigLock, Steps
    <3> QED
      BY <1>6, <2>2, <3>2 DEF IInv, TypeOK
  <2>3. Purge(p)
    BY <1>7
  <2>4. NoNode(p)'
    BY <1>1, <1>6, <1>7, <2>2, <2>3 DEF IInv, TypeOK, NoNode, Purge, LastRef
  <2>5. \A q \in Process \ {p} : FileFits(q)
    BY <1>7 DEF FileFits, MayDelete, Using, IInv, TypeOK
  <2>6. trusted = 1 => trusted' = 1
    BY <1>7
  <2> QED
    BY <1>3, <1>4, <2>4, <2>5, <2>6, PurgeInv
<1>8. CASE ~LastRef(p)
  <2>1. UNCHANGED <<size, trusted, dms, node, isReadonly, isUnlocked, nRegion>>
    BY <1>8 DEF fileVars
  <2>2. nRef'[p] > 0
    BY <1>2, <1>6, <1>8 DEF LastRef
  <2>3. (nRef[p] = Cardinality(Referencing(p)))'
    <3>1. Referencing(p)' = Referencing(p) \ {c}
      BY <1>1, <1>4, <1>6 DEF Referencing, StepOf, SameCall
    <3>2. IsFiniteSet(Referencing(p)) /\ nRef[p] = Cardinality(Referencing(p))
      BY <1>1, RefFacts
    <3>3. Cardinality(Referencing(p) \ {c}) = Cardinality(Referencing(p)) - 1
      BY <1>1, <3>2, FS_RemoveElement
    <3> QED
      BY <1>6, <3>1, <3>2, <3>3
  <2>4. Using(p)' <=> Using(p)
    BY <2>1 DEF Using
  <2>5. ASSUME NEW d \in Conn, d # c
        PROVE  /\ HoldsBigLock(d)' <=> HoldsBigLock(d)
               /\ HoldsShmMutex(d)' <=> HoldsShmMutex(d)
    BY <1>4, <2>5 DEF StepOf, SameCall, HoldsBigLock, HoldsShmMutex
  <2>6. ~HoldsBigLock(c)' /\ ~HoldsShmMutex(c)'
    BY <1>6 DEF HoldsBigLock, HoldsShmMutex, LockSteps
  <2>7. NodeOK(p)'
    BY <1>1, <1>2, <1>5, <2>1, <2>2, <2>4, <2>5, <2>6 DEF NodeOK
  <2>8. ASSUME NEW d \in Conn, ProcOf[d] = p PROVE CallOK(d)'
    <3>1. CASE d = c
      BY <1>1, <1>6, <3>1 DEF CallOK, LockSteps
    <3>2. CASE d # c
      BY <1>1, <1>4, <2>1, <2>4, <2>8, <3>2 DEF ProcInv, CallOK, StepOf, SameCall, ReqPages, ReqRegions
    <3> QED
      BY <3>1, <3>2
  <2>9. \A d, e \in Conn : ProcOf[d] = p => MutexOK(d, e)'
    BY <1>1, <2>5, <2>6 DEF ProcInv, MutexOK
  <2>10. RegionsOK(p)' /\ (nRegion'[p] > 0 => nRegion'[p] * RegionPages <= size')
    BY <1>1, <2>1 DEF ProcInv, RegionsOK
  <2>11. ProcInv(p)'
    BY <1>1, <2>1, <2>3, <2>4, <2>7, <2>8, <2>9, <2>10 DEF ProcInv
  <2>12. \A q \in Process : FileFits(q) /\ KernelOK(p, q)' /\ KernelOK(q, p)'
    BY <1>1, <2>1 DEF IInv, TypeOK, FileFits, KernelOK
  <2> QED
    BY <1>3, <1>4, <2>1, <2>11, <2>12, StepInv
<1> QED
  BY <1>7, <1>8

LEMMA DieInv ==
  ASSUME IInv, NEW procs \in SUBSET Process, Die(procs), size' \in Int, size' >= Absent,
         \/ UNCHANGED <<size, trusted>>
         \/ procs = Process /\ trusted' \in {0, 1}
  PROVE  IInv'
<1> USE DEF Die
<1>1. TypeOK'
  BY UnixShmNodeAssumption DEF IInv, TypeOK, Steps, LockType
<1>2. ASSUME NEW q \in Process, q \in procs
      PROVE  ProcInv(q)' /\ \A r \in Process : KernelOK(q, r)' /\ KernelOK(r, q)'
  <2>1. NoNode(q)'
    BY <1>2 DEF NoNode
  <2> QED
    BY <2>1, NoNodeInv
<1>3. ASSUME NEW q \in Process, q \notin procs PROVE ProcInv(q)'
  <2>1. Same(q)
    BY <1>3 DEF Same, SameRow, SameCall
  <2>2. FileFits(q) /\ (trusted = 1 => trusted' = 1)
    BY <1>3 DEF FileFits, IInv, TypeOK
  <2> QED
    BY <1>1, <2>1, <2>2, OthersKept
<1>4. ASSUME NEW q \in Process, NEW r \in Process PROVE KernelOK(q, r)'
  <2>1. CASE q \in procs \/ r \in procs
    BY <1>2, <2>1
  <2>2. CASE q \notin procs /\ r \notin procs
    BY <2>2 DEF IInv, KernelOK
  <2> QED
    BY <2>1, <2>2
<1>5. InvByProcess'
  BY <1>1, <1>2, <1>3, <1>4 DEF InvByProcess
<1> QED
  BY <1>5, ByProcess, PTL

LEMMA CrashInv ==
  ASSUME IInv, NEW p \in Process, Crash(p)
  PROVE  IInv'
<1>1. size' \in Int /\ size' >= Absent /\ UNCHANGED <<size, trusted>>
  BY DEF Crash, IInv, TypeOK
<1> QED
  BY <1>1, DieInv DEF Crash

LEMMA PowerFailureInv ==
  ASSUME IInv, PowerFailure
  PROVE  IInv'
<1>1. size' \in Int /\ size' >= Absent /\ trusted' \in {0, 1}
  BY DEF PowerFailure, SizesAfterFailure, Absent, IInv, TypeOK
<1> QED
  BY <1>1, DieInv DEF PowerFailure

(***************************************************************************)
(* The theorems.                                                           *)
(***************************************************************************)
LEMMA NextInv == IInv /\ [Next]_vars => IInv'
<1> SUFFICES ASSUME IInv, [Next]_vars PROVE IInv'
  OBVIOUS
<1>1. ASSUME NEW c \in Conn,
             \/ \E region \in Regions, extend \in BOOLEAN : ShmMap(c, region, extend)
             \/ Open(c) \/ GetLk(c) \/ WrLock(c) \/ Truncate(c) \/ RdLock(c) \/ Link(c)
             \/ Enter(c) \/ Size(c) \/ Grow(c) \/ Mmap(c)
             \/ Unmap(c) \/ Unref(c)
      PROVE  IInv'
  BY <1>1, ShmMapInv, OpenInv, GetLkInv, WrLockInv, TruncateInv, RdLockInv, LinkInv, EnterInv, SizeInv,
     GrowInv, MmapInv, UnmapInv, UnrefInv
<1>2. ASSUME NEW p \in Process, Crash(p) PROVE IInv'
  BY <1>2, CrashInv
<1>3. CASE PowerFailure
  BY <1>3, PowerFailureInv
<1>4. CASE UNCHANGED vars
  <2> USE <1>4 DEF vars, fileVars, nodeVars, argVars
  <2>1. TypeOK' /\ \A q \in Process : Same(q) /\ FileFits(q)
    BY DEF IInv, TypeOK, Same, SameRow, SameCall, FileFits
  <2>2. \A q \in Process : ProcInv(q)'
    BY <2>1, OthersKept
  <2>3. InvByProcess'
    BY <2>1, <2>2 DEF InvByProcess, IInv, KernelOK
  <2> QED
    BY <2>3, ByProcess, PTL
<1> QED
  BY <1>1, <1>2, <1>3, <1>4 DEF Next

(* In every reachable state the node, the calls, the mutexes and the locks *)
(* agree with each other.                                                  *)
THEOREM Invariant == Spec => []IInv
  BY InitInv, NextInv, PTL DEF Spec

(* The variables keep their types.                                         *)
THEOREM TypeCorrect == Spec => []TypeOK
<1>1. IInv => TypeOK
  BY DEF IInv
<1> QED
  BY <1>1, Invariant, PTL

(* unixLockSharedMemory: no process uses a shared-memory file whose contents *)
(* stem from before the last power failure.                                *)
THEOREM NeverStale == Spec => []NoStaleShm
<1>1. IInv => NoStaleShm
  BY DEF IInv
<1> QED
  BY <1>1, Invariant, PTL

(* unixOpenSharedMemory, unixShmUnmap: nRef is the number of connections   *)
(* that may still touch the node, and the node lives exactly as long as    *)
(* that is not zero.                                                       *)
THEOREM AlwaysCounted == Spec => []RefsCounted
<1>1. IInv => RefsCounted
  BY DEF IInv
<1> QED
  BY <1>1, Invariant, PTL

(* unixShmMap: what a process has mapped lies inside the file.             *)
THEOREM AlwaysBacked == Spec => []MappedIsBacked
<1>1. IInv => MappedIsBacked
  BY DEF IInv
<1> QED
  BY <1>1, Invariant, PTL

(* What TruncatedWhileUnused says of one step.                             *)
CutWhileUnused == size' < size => \A p \in Process : Using(p) => node'[p] = "none"

(* unixLockSharedMemory, unixShmUnmap: the file is cut short or deleted only *)
(* when every process that used it has let go of its node.                 *)
THEOREM NeverCut == Spec => TruncatedWhileUnused
<1>1. ASSUME IInv, [Next]_vars PROVE [CutWhileUnused]_vars
  <2> SUFFICES ASSUME Next, size' < size, NEW q \in Process, Using(q) PROVE node'[q] = "none"
    BY <1>1 DEF CutWhileUnused
  <2> USE <1>1
  <2>1. TypeOK
    BY DEF IInv
  <2>2. ASSUME NEW c \in Conn, Unref(c) PROVE node'[q] = "none"
    <3>1. ProcOf[c] \in Process /\ LastRef(ProcOf[c]) /\ MayDelete(ProcOf[c]) /\ Purge(ProcOf[c])
      BY <2>1, <2>2, UnixShmNodeAssumption DEF Unref, TypeOK, fileVars
    <3>2. q = ProcOf[c]
      BY <3>1 DEF MayDelete, Using
    <3> QED
      BY <2>1, <3>1, <3>2 DEF Purge, TypeOK
  <2>3. ASSUME NEW c \in Conn, Truncate(c) PROVE FALSE
    BY <2>3, TruncateAlone DEF Truncate
  <2>4. CASE PowerFailure
    BY <2>1, <2>4 DEF PowerFailure, Die
  <2>5. ASSUME NEW c \in Conn, Grow(c) PROVE FALSE
    BY <2>1, <2>5 DEF Grow, TypeOK
  <2>6. ASSUME NEW c \in Conn, Open(c) PROVE FALSE
    BY <2>1, <2>6 DEF Open, OpenFile, TypeOK, Absent
  <2>7. ASSUME UNCHANGED size PROVE FALSE
    BY <2>1, <2>7 DEF TypeOK
  <2> QED
    BY <2>2, <2>3, <2>4, <2>5, <2>6, <2>7
       DEF Next, ShmMap, GetLk, WrLock, RdLock, Link, Enter, Size, Mmap, Unmap, Crash, fileVars
<1> QED
  BY <1>1, Invariant, PTL DEF Spec, TruncatedWhileUnused, CutWhileUnused
=============================================================================
