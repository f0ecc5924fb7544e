--------------------------- MODULE WinShmProofs ---------------------------
(***************************************************************************)
(* Proofs about the shared memory on Windows.  IInv relates the nodes, the *)
(* calls that work on them, the mutexes and the locks on the DMS byte; it  *)
(* is inductive, and from it follow how the file is truncated and what of  *)
(* it is mapped.  On top of it SlotInv relates the locks on the slots in   *)
(* the kernel with the masks of the connections: this gives KernelMatches, *)
(* and that the slots implement ShmSlots.                                  *)
(***************************************************************************)
EXTENDS WinShm, FiniteSetTheorems, TLAPS

Steps == {"idle", "link", "linkFail", "enter", "size", "extend", "mmap", "unref"} \cup LockSteps

(* The steps between taking the DMS byte exclusively and giving it up.     *)
WriteSteps == {"truncate", "unlock", "unlockFail"}

SlotLock == [slots : SUBSET Slot, type : {"RDLCK", "WRLCK"}]

TypeOK ==
  /\ size \in Int /\ size >= Absent /\ trusted \in {0, 1} /\ missed \in {0, 1}
  /\ dms \in [Process -> LockType]
  /\ klock \in [Process -> SUBSET SlotLock]
  /\ node \in [Process -> {"none", "new", "ready"}]
  /\ isReadonly \subseteq Process /\ isUnlocked \subseteq Process
  /\ nRef \in [Process -> Nat] /\ nRegion \in [Process -> Nat]
  /\ pFirst \subseteq Conn /\ pShm \subseteq Conn
  /\ sharedMask \in [Conn -> SUBSET Slot] /\ exclMask \in [Conn -> SUBSET Slot]
  /\ pc \in [Conn -> Steps] /\ iRegion \in [Conn -> Nat]

(* A node that is ready is counted, one that is being opened has somebody  *)
(* opening it under winBigLock, and one that is used holds the DMS byte as *)
(* a reader.                                                               *)
NodeOK(p) ==
  /\ node[p] = "ready" <=> nRef[p] > 0
  /\ node[p] = "new" <=> \E c \in Conn : ProcOf[c] = p /\ HoldsBigLock(c)
  /\ node[p] = "none" => dms[p] = "UNLCK" /\ p \notin isReadonly /\ p \notin isUnlocked
  /\ p \in isUnlocked => p \in isReadonly
  /\ Using(p) <=> dms[p] = "RDLCK"
  /\ ~Using(p) => nRegion[p] = 0
  /\ dms[p] = "WRLCK" => \E c \in Conn : ProcOf[c] = p /\ pc[c] \in WriteSteps

(* What each step of a call may count on.                                  *)
CallOK(c) ==
  LET p == ProcOf[c] IN
  /\ pc[c] = "unref" => c \notin pShm
  /\ pc[c] \in {"link", "linkFail", "enter"} => c \in pShm
  /\ pc[c] \in {"size", "extend", "mmap"} => c \in pShm /\ Using(p)
  /\ pc[c] \in LockSteps /\ c \in pShm => p \in isUnlocked
  /\ pc[c] \in {"wrlck", "rdlck", "refused"} => dms[p] = "UNLCK"
  /\ pc[c] \in WriteSteps => dms[p] = "WRLCK"
  /\ pc[c] \in {"truncate", "unlock", "rdlck"} => c \notin pShm
  /\ pc[c] \in {"truncate", "unlock"} => p \notin isReadonly
  /\ pc[c] = "unlockFail" => (p \in isReadonly <=> p \in isUnlocked)
  /\ pc[c] \in {"unlock", "rdlck"} => trusted = 1

(* winBigLock and the mutex of the node each have one holder in a process. *)
MutexOK(c, d) ==
  c # d /\ ProcOf[c] = ProcOf[d] =>
    ~(HoldsBigLock(c) /\ HoldsBigLock(d)) /\ ~(HoldsNodeMutex(c) /\ HoldsNodeMutex(d))

(* Who holds the DMS byte exclusively holds it alone.                      *)
KernelOK(p, q) == p # q /\ dms[p] = "WRLCK" => dms[q] = "UNLCK"

(* A process that was refused the DMS byte goes on to use the file, unless *)
(* the one that has it still may truncate.                                 *)
Fresh == trusted = 1 \/ missed = 1
RefusedOK(c) == pc[c] = "refused" => Fresh \/ WriteLocked(ProcOf[c])

ProcInv(p) ==
  /\ NodeOK(p)
  /\ Using(p) => Fresh
  /\ nRef[p] = Cardinality(Referencing(p))
  /\ nRegion[p] > 0 => nRegion[p] <= size
  /\ \A c \in Conn : ProcOf[c] = p => CallOK(c)
  /\ \A c, d \in Conn : ProcOf[c] = p => MutexOK(c, d)

IInv ==
  /\ TypeOK
  /\ \A p \in Process : ProcInv(p)
  /\ \A p, q \in Process : KernelOK(p, q)
  /\ \A c \in Conn : RefusedOK(c)

LEMMA ProcOfType ==
  ASSUME NEW c \in Conn
  PROVE  ProcOf[c] \in Process
  BY WinShmAssumption

(***************************************************************************)
(* Initially.                                                              *)
(***************************************************************************)
LEMMA InitInv == Init => IInv
<1> SUFFICES ASSUME Init PROVE IInv
  OBVIOUS
<1> USE DEF Init
<1>1. TypeOK
  BY DEF TypeOK, Steps, LockType, Absent
<1>2. ASSUME NEW p \in Process PROVE NodeOK(p)
  BY DEF NodeOK, HoldsBigLock, LockSteps, Using
<1>3. ASSUME NEW c \in Conn PROVE CallOK(c) /\ RefusedOK(c)
  BY DEF CallOK, RefusedOK, LockSteps, WriteSteps
<1>4. ASSUME NEW c \in Conn, NEW d \in Conn PROVE MutexOK(c, d)
  BY DEF MutexOK, HoldsBigLock, LockSteps, HoldsNodeMutex
<1>5. ASSUME NEW p \in Process PROVE nRef[p] = Cardinality(Referencing(p))
  <2>1. Referencing(p) = {}
    BY DEF Referencing
  <2>2. QED
    BY <2>1, FS_EmptySet
<1>6. ASSUME NEW p \in Process PROVE ProcInv(p)
  BY <1>2, <1>3, <1>4, <1>5, <1>6 DEF ProcInv, Fresh
<1>7. QED
  BY <1>1, <1>3, <1>6 DEF IInv, KernelOK

(***************************************************************************)
(* Connections count their node.                                           *)
(***************************************************************************)
LEMMA RefFacts ==
  ASSUME IInv, NEW p \in Process
  PROVE  /\ IsFiniteSet(Referencing(p)) /\ nRef[p] = Cardinality(Referencing(p))
         /\ node[p] # "ready" => Referencing(p) = {}
         /\ nRef[p] = 1 => \A c, d \in Referencing(p) : c = d
<1>1. IsFiniteSet(Referencing(p))
  BY WinShmAssumption, FS_Subset DEF Referencing
<1>2. nRef[p] = Cardinality(Referencing(p)) /\ (node[p] = "ready" <=> nRef[p] > 0)
  BY DEF IInv, ProcInv, NodeOK
<1>3. Cardinality(Referencing(p)) = 0 <=> Referencing(p) = {}
  BY <1>1, FS_EmptySet
<1>4. Cardinality(Referencing(p)) \in Nat
  BY <1>1, FS_CardinalityType
<1>5. ASSUME nRef[p] = 1, NEW c \in Referencing(p), NEW d \in Referencing(p) PROVE c = d
  <2>1. \E x : Referencing(p) = {x}
    BY <1>1, <1>2, <1>5, FS_Singleton
  <2>2. QED
    BY <2>1
<1>6. QED
  BY <1>1, <1>2, <1>3, <1>4, <1>5

(***************************************************************************)
(* A step of one process, or the death of some, leaves the others alone.   *)
(***************************************************************************)
SameRow(p) ==
  /\ dms'[p] = dms[p] /\ node'[p] = node[p] /\ nRef'[p] = nRef[p] /\ nRegion'[p] = nRegion[p]
  /\ p \in isReadonly' <=> p \in isReadonly
  /\ p \in isUnlocked' <=> p \in isUnlocked
SameCall(c) == pc'[c] = pc[c] /\ (c \in pShm' <=> c \in pShm)
Same(p) == SameRow(p) /\ \A c \in Conn : ProcOf[c] = p => SameCall(c)

(* What happened to the file is fit for those who use it.                  *)
FileFits(p) == nRegion[p] > 0 => nRegion[p] <= size'
FileKept == (trusted = 1 => trusted' = 1) /\ (Fresh => Fresh')

LEMMA OthersKept ==
  ASSUME IInv, TypeOK', NEW p \in Process, Same(p), FileFits(p), FileKept
  PROVE  ProcInv(p)'
<1>1. ProcInv(p)
  BY DEF IInv
<1>2. Using(p)' <=> Using(p)
  BY DEF Same, SameRow, Using
<1>3. Referencing(p)' = Referencing(p)
  BY DEF Same, SameCall, Referencing
<1>4. ASSUME NEW c \in Conn, ProcOf[c] = p
      PROVE (HoldsBigLock(c)' <=> HoldsBigLock(c)) /\ (HoldsNodeMutex(c)' <=> HoldsNodeMutex(c))
  BY <1>4 DEF Same, SameCall, HoldsBigLock, HoldsNodeMutex
<1>5. NodeOK(p)'
  <2>1. /\ (\E c \in Conn : ProcOf[c] = p /\ HoldsBigLock(c)') <=> \E c \in Conn : ProcOf[c] = p /\ HoldsBigLock(c)
        /\ (\E c \in Conn : ProcOf[c] = p /\ pc'[c] \in WriteSteps)
             <=> \E c \in Conn : ProcOf[c] = p /\ pc[c] \in WriteSteps
    BY <1>4 DEF Same, SameCall
  <2>2. QED
    BY <1>1, <1>2, <2>1 DEF ProcInv, NodeOK, Same, SameRow
<1>6. ASSUME NEW c \in Conn, ProcOf[c] = p PROVE CallOK(c)'
  <2>1. CallOK(c) /\ SameCall(c) /\ SameRow(p)
    BY <1>1, <1>6 DEF ProcInv, Same
  <2>2. QED
    BY <1>2, <1>6, <2>1 DEF CallOK, SameCall, SameRow, FileKept
<1>7. ASSUME NEW c \in Conn, NEW d \in Conn, ProcOf[c] = p PROVE MutexOK(c, d)'
  BY <1>1, <1>4, <1>7 DEF ProcInv, MutexOK
<1>8. nRegion'[p] > 0 => nRegion'[p] <= size'
  BY DEF Same, SameRow, FileFits
<1>9. (Using(p) => Fresh)'
  BY <1>1, <1>2 DEF ProcInv, FileKept
<1>10. (nRef[p] = Cardinality(Referencing(p)))'
  BY <1>1, <1>3 DEF ProcInv, Same, SameRow
<1>11. QED
  BY <1>5, <1>6, <1>7, <1>8, <1>9, <1>10 DEF ProcInv

(***************************************************************************)
(* A step of one connection.                                               *)
(***************************************************************************)
StepOf(c) ==
  /\ \A d \in Conn \ {c} : SameCall(d)
  /\ \A q \in Process \ {ProcOf[c]} : SameRow(q)

(* Who gives up the DMS byte has truncated, or nobody was refused it, or   *)
(* it is on record.                                                        *)
LeavesOK(p) == dms[p] = "WRLCK" /\ dms'[p] # "WRLCK" => Fresh' \/ ~Refused

LEMMA StepInv ==
  ASSUME IInv, TypeOK', NEW c \in Conn, StepOf(c), FileKept,
         \A q \in Process \ {ProcOf[c]} : FileFits(q),
         \A q \in Process : KernelOK(ProcOf[c], q)' /\ KernelOK(q, ProcOf[c])',
         LeavesOK(ProcOf[c]), RefusedOK(c)',
         ProcInv(ProcOf[c])'
  PROVE  IInv'
<1>1. ASSUME NEW q \in Process PROVE ProcInv(q)'
  <2>1. CASE q = ProcOf[c]
    BY <2>1
  <2>2. CASE q # ProcOf[c]
    <3>1. Same(q) /\ FileFits(q)
      BY <2>2 DEF Same, StepOf
    <3>2. QED
      BY <3>1, OthersKept
  <2>3. QED
    BY <2>1, <2>2
<1>2. ASSUME NEW q \in Process, NEW r \in Process PROVE KernelOK(q, r)'
  <2>1. CASE q = ProcOf[c] \/ r = ProcOf[c]
    BY <2>1
  <2>2. CASE q # ProcOf[c] /\ r # ProcOf[c]
    BY <2>2 DEF IInv, KernelOK, StepOf, SameRow
  <2>3. QED
    BY <2>1, <2>2
<1>3. ASSUME NEW d \in Conn PROVE RefusedOK(d)'
  <2>1. CASE d = c
    BY <2>1
  <2>2. CASE d # c
    <3>1. SUFFICES ASSUME pc[d] = "refused", ~Fresh' PROVE WriteLocked(ProcOf[d])'
      BY <2>2 DEF StepOf, SameCall, RefusedOK
    <3>2. ~Fresh /\ Refused
      BY <3>1 DEF FileKept, Refused
    <3>3. PICK q \in Process \ {ProcOf[d]} : dms[q] = "WRLCK"
      BY <3>1, <3>2 DEF IInv, RefusedOK, WriteLocked
    <3>4. dms'[q] = "WRLCK"
      <4>1. CASE q = ProcOf[c]
        BY <3>1, <3>2, <3>3, <4>1 DEF LeavesOK
      <4>2. CASE q # ProcOf[c]
        BY <3>3, <4>2 DEF StepOf, SameRow
      <4>3. QED
        BY <4>1, <4>2
    <3>5. QED
      BY <3>4 DEF WriteLocked
  <2>3. QED
    BY <2>1, <2>2
<1>4. QED
  BY <1>1, <1>2, <1>3 DEF IInv

(* A step that changes nothing of the node.                                *)
LEMMA CallStepInv ==
  ASSUME IInv, TypeOK', NEW c \in Conn, StepOf(c), SameRow(ProcOf[c]), FileKept,
         \A q \in Process : FileFits(q),
         CallOK(c)', RefusedOK(c)',
         pc[c] \in WriteSteps => pc'[c] \in WriteSteps,
         HoldsBigLock(c)' <=> HoldsBigLock(c),
         HoldsNodeMutex(c)' => HoldsNodeMutex(c) \/ NodeMutexFree(ProcOf[c]),
         c \in pShm' \/ pc'[c] = "unref" <=> c \in pShm \/ pc[c] = "unref"
  PROVE  IInv'
<1> DEFINE p == ProcOf[c]
<1>1. p \in Process /\ ProcInv(p)
  BY ProcOfType DEF IInv
<1>2. \A q \in Process : KernelOK(p, q)' /\ KernelOK(q, p)'
  BY <1>1 DEF IInv, KernelOK, StepOf, SameRow
<1>3. Using(p)' <=> Using(p)
  BY DEF SameRow, Using
<1>4. Referencing(p)' = Referencing(p)
  BY DEF StepOf, SameCall, Referencing
<1>5. ASSUME NEW d \in Conn, d # c
      PROVE  /\ HoldsBigLock(d)' <=> HoldsBigLock(d)
             /\ HoldsNodeMutex(d)' <=> HoldsNodeMutex(d)
  BY <1>5 DEF StepOf, SameCall, HoldsBigLock, HoldsNodeMutex
<1>6. NodeOK(p)'
  <2>1. (\E d \in Conn : ProcOf[d] = p /\ HoldsBigLock(d))'
          <=> \E d \in Conn : ProcOf[d] = p /\ HoldsBigLock(d)
    BY <1>5
  <2>2. (\E d \in Conn : ProcOf[d] = p /\ pc[d] \in WriteSteps)
          => \E d \in Conn : ProcOf[d] = p /\ pc'[d] \in WriteSteps
    BY DEF StepOf, SameCall
  <2>3. QED
    BY <1>1, <1>3, <2>1, <2>2 DEF ProcInv, NodeOK, SameRow
<1>7. ASSUME NEW d \in Conn, ProcOf[d] = p PROVE CallOK(d)'
  <2>1. CASE d = c
    BY <2>1
  <2>2. CASE d # c
    <3>1. CallOK(d) /\ SameCall(d) /\ SameRow(p)
      BY <1>1, <1>7, <2>2 DEF ProcInv, StepOf
    <3>2. QED
      BY <1>3, <1>7, <3>1 DEF CallOK, SameCall, SameRow, FileKept
  <2>3. QED
    BY <2>1, <2>2
<1>8. ASSUME NEW d \in Conn, NEW e \in Conn, ProcOf[d] = p PROVE MutexOK(d, e)'
  <2>1. MutexOK(d, e) /\ MutexOK(e, d)
    BY ProcOfType DEF IInv, ProcInv
  <2>2. QED
    BY <1>5, <1>8, <2>1 DEF MutexOK, NodeMutexFree
<1>9. nRegion'[p] > 0 => nRegion'[p] <= size'
  BY <1>1 DEF SameRow, FileFits
<1>10. (Using(p) => Fresh)' /\ (nRef[p] = Cardinality(Referencing(p)))'
  BY <1>1, <1>3, <1>4 DEF ProcInv, SameRow, FileKept
<1>11. ProcInv(p)'
  BY <1>6, <1>7, <1>8, <1>9, <1>10 DEF ProcInv
<1>12. LeavesOK(p)
  BY DEF LeavesOK, SameRow
<1>13. QED
  BY <1>2, <1>11, <1>12, StepInv

(* Connections that cannot be in a call on a node that is not open.        *)
LEMMA Quiet ==
  ASSUME IInv, NEW d \in Conn, node[ProcOf[d]] # "ready", ~HoldsBigLock(d)
  PROVE  pc[d] = "idle" /\ d \notin pShm
<1>1. ProcOf[d] \in Process
  BY ProcOfType
<1>2. d \notin Referencing(ProcOf[d])
  BY <1>1, RefFacts
<1>3. d \notin pShm /\ pc[d] # "unref"
  BY <1>2 DEF Referencing
<1>4. CallOK(d) /\ pc[d] \in Steps
  BY <1>1 DEF IInv, ProcInv, TypeOK
<1>5. QED
  BY <1>3, <1>4 DEF CallOK, HoldsBigLock, Steps

LEMMA BigLockHolder ==
  ASSUME IInv, NEW c \in Conn, HoldsBigLock(c)
  PROVE  /\ node[ProcOf[c]] = "new" /\ nRef[ProcOf[c]] = 0 /\ Referencing(ProcOf[c]) = {}
         /\ ~Using(ProcOf[c]) /\ nRegion[ProcOf[c]] = 0
         /\ \A d \in Conn : ProcOf[d] = ProcOf[c] /\ d # c =>
              ~HoldsBigLock(d) /\ pc[d] = "idle" /\ d \notin pShm
<1>1. ProcOf[c] \in Process
  BY ProcOfType
<1>2. NodeOK(ProcOf[c]) /\ \A d \in Conn : ProcOf[d] = ProcOf[c] => MutexOK(d, c)
  BY <1>1 DEF IInv, ProcInv
<1>3. node[ProcOf[c]] = "new"
  BY <1>2 DEF NodeOK
<1>4. Referencing(ProcOf[c]) = {} /\ nRef[ProcOf[c]] = Cardinality(Referencing(ProcOf[c]))
  BY <1>1, <1>3, RefFacts
<1>5. nRef[ProcOf[c]] = 0
  BY <1>4, FS_EmptySet
<1>6. ~Using(ProcOf[c]) /\ nRegion[ProcOf[c]] = 0
  BY <1>2, <1>3 DEF NodeOK, Using
<1>7. ASSUME NEW d \in Conn, ProcOf[d] = ProcOf[c], d # c
      PROVE  ~HoldsBigLock(d) /\ pc[d] = "idle" /\ d \notin pShm
  <2>1. ~HoldsBigLock(d)
    BY <1>2, <1>7 DEF MutexOK
  <2>2. QED
    BY <1>3, <1>7, <2>1, Quiet
<1>8. QED
  BY <1>3, <1>4, <1>5, <1>6, <1>7

(* While a connection works under the mutex of an open node, the others    *)
(* are not locking or mapping.                                             *)
LEMMA NodeMutexHolder ==
  ASSUME IInv, NEW c \in Conn, c \in pShm, HoldsNodeMutex(c)
  PROVE  /\ node[ProcOf[c]] = "ready"
         /\ \A d \in Conn : ProcOf[d] = ProcOf[c] => ~HoldsBigLock(d)
         /\ \A d \in Conn : ProcOf[d] = ProcOf[c] /\ d # c =>
              ~HoldsNodeMutex(d) /\ pc[d] \in {"idle", "link", "linkFail", "enter", "unref"}
<1>1. ProcOf[c] \in Process /\ c \in Referencing(ProcOf[c])
  BY ProcOfType DEF Referencing
<1>2. node[ProcOf[c]] = "ready" /\ NodeOK(ProcOf[c])
  BY <1>1, RefFacts DEF IInv, ProcInv
<1>3. \A d \in Conn : ProcOf[d] = ProcOf[c] => ~HoldsBigLock(d)
  BY <1>2 DEF NodeOK
<1>4. ASSUME NEW d \in Conn, ProcOf[d] = ProcOf[c], d # c
      PROVE  ~HoldsNodeMutex(d) /\ pc[d] \in {"idle", "link", "linkFail", "enter", "unref"}
  <2>1. MutexOK(d, c) /\ pc[d] \in Steps
    BY <1>1, <1>4 DEF IInv, ProcInv, TypeOK
  <2>2. ~HoldsNodeMutex(d)
    BY <1>4, <2>1 DEF MutexOK
  <2>3. QED
    BY <1>3, <1>4, <2>1, <2>2 DEF HoldsBigLock, HoldsNodeMutex, Steps
<1>5. QED
  BY <1>2, <1>3, <1>4


(***************************************************************************)
(* Steps that change nothing of the node.                                  *)
(***************************************************************************)
LEMMA Longer ==
  ASSUME IInv, size' >= size, size' \in Int
  PROVE  \A q \in Process : FileFits(q)
<1>1. ASSUME NEW q \in Process PROVE FileFits(q)
  BY DEF IInv, ProcInv, TypeOK, FileFits
<1> QED
  BY <1>1

LEMMA Kept ==
  ASSUME UNCHANGED <<trusted, missed>>
  PROVE  FileKept
  BY DEF FileKept, Fresh

LEMMA LinkInv ==
  ASSUME IInv, NEW c \in Conn, Link(c)
  PROVE  IInv'
<1> USE DEF Link, Goto, Enter
<1>1. TypeOK'
  BY DEF IInv, TypeOK, Steps, fileVars, maskVars
<1>2. StepOf(c) /\ SameRow(ProcOf[c]) /\ \A q \in Process : FileFits(q)
  BY Longer DEF IInv, TypeOK, StepOf, SameRow, SameCall, fileVars
<1>3. CallOK(c)
  BY ProcOfType DEF IInv, ProcInv
<1>4. CallOK(c)' /\ RefusedOK(c)'
  BY <1>3 DEF IInv, TypeOK, CallOK, LockSteps, WriteSteps, RefusedOK, fileVars
<1> QED
  BY <1>1, <1>2, <1>4, Kept, CallStepInv
     DEF IInv, TypeOK, HoldsBigLock, HoldsNodeMutex, LockSteps, WriteSteps, fileVars

LEMMA ShmMapInv ==
  ASSUME IInv, NEW c \in Conn, NEW region \in Regions, ShmMap(c, region)
  PROVE  IInv'
<1> DEFINE p == ProcOf[c]
<1> USE DEF ShmMap, Enter
<1>1. TypeOK'
  BY WinShmAssumption DEF IInv, TypeOK, Steps, LockSteps, fileVars, nodeVars, maskVars
<1>2. StepOf(c) /\ SameRow(p) /\ \A q \in Process : FileFits(q)
  BY Longer DEF IInv, TypeOK, StepOf, SameRow, SameCall, fileVars, nodeVars
<1>3. CallOK(c) /\ NodeOK(p) /\ p \in Process
  BY ProcOfType DEF IInv, ProcInv
<1>4. c \in pShm /\ pc[c] \in {"enter", "idle"}
  BY <1>3 DEF CallOK
<1>5. node[p] = "ready"
  BY <1>3, <1>4, RefFacts DEF Referencing
<1>6. p \in isUnlocked => dms[p] = "UNLCK"
  <2>1. SUFFICES ASSUME dms[p] = "WRLCK" PROVE FALSE
    BY <1>3 DEF NodeOK, Using, IInv, TypeOK, LockType
  <2>2. PICK d \in Conn : ProcOf[d] = p /\ pc[d] \in WriteSteps
    BY <1>3, <2>1 DEF NodeOK
  <2>3. HoldsBigLock(d) \/ HoldsNodeMutex(d)
    BY <2>2 DEF HoldsBigLock, HoldsNodeMutex, LockSteps, WriteSteps
  <2> QED
    BY <1>3, <1>5, <2>2, <2>3 DEF NodeMutexFree, NodeOK
<1>7. pc'[c] = IF p \in isUnlocked THEN "wrlck" ELSE "size"
  BY DEF IInv, TypeOK
<1>8. CallOK(c)' /\ RefusedOK(c)'
  BY <1>4, <1>5, <1>6, <1>7 DEF CallOK, LockSteps, WriteSteps, RefusedOK, Using, nodeVars
<1>9. HoldsBigLock(c)' <=> HoldsBigLock(c)
  BY <1>4 DEF HoldsBigLock, LockSteps
<1> QED
  BY <1>1, <1>2, <1>4, <1>7, <1>8, <1>9, Kept, CallStepInv DEF WriteSteps, fileVars

LEMMA SizeInv ==
  ASSUME IInv, NEW c \in Conn, Size(c)
  PROVE  IInv'
<1> USE DEF Size, Goto, Enter
<1>1. TypeOK'
  BY DEF IInv, TypeOK, Steps, fileVars, nodeVars, maskVars
<1>2. StepOf(c) /\ SameRow(ProcOf[c]) /\ \A q \in Process : FileFits(q)
  BY Longer DEF IInv, TypeOK, StepOf, SameRow, SameCall, fileVars, nodeVars
<1>3. CallOK(c) /\ c \in pShm
  BY ProcOfType DEF IInv, ProcInv, CallOK
<1>4. pc'[c] \in {"idle", "mmap", "extend"}
  BY DEF IInv, TypeOK
<1>5. CallOK(c)' /\ RefusedOK(c)'
  BY <1>3, <1>4 DEF CallOK, LockSteps, WriteSteps, RefusedOK, Using, nodeVars
<1>6. (HoldsBigLock(c)' <=> HoldsBigLock(c)) /\ HoldsNodeMutex(c)
  BY <1>3, <1>4 DEF HoldsBigLock, LockSteps, HoldsNodeMutex
<1> QED
  BY <1>1, <1>2, <1>3, <1>4, <1>5, <1>6, Kept, CallStepInv DEF WriteSteps, fileVars

LEMMA ExtendInv ==
  ASSUME IInv, NEW c \in Conn, Extend(c)
  PROVE  IInv'
<1> USE DEF Extend, Goto, Enter
<1>1. size' \in Int /\ size' >= Absent
  BY DEF IInv, TypeOK, Absent
<1>2. TypeOK'
  BY <1>1 DEF IInv, TypeOK, Steps, nodeVars, maskVars
<1>3. StepOf(c) /\ SameRow(ProcOf[c])
  BY DEF IInv, TypeOK, StepOf, SameRow, SameCall, nodeVars
<1>4. \A q \in Process : FileFits(q)
  <2>1. CASE size' = size
    BY <2>1, Longer DEF IInv, TypeOK
  <2>2. CASE CanEndAt(iRegion[c] + 1) /\ size' = iRegion[c] + 1
    BY <2>2 DEF CanEndAt, FileFits
  <2> QED
    BY <2>1, <2>2
<1>5. CallOK(c) /\ c \in pShm
  BY ProcOfType DEF IInv, ProcInv, CallOK
<1>6. pc'[c] \in {"idle", "mmap"}
  BY DEF IInv, TypeOK
<1>7. CallOK(c)' /\ RefusedOK(c)'
  BY <1>5, <1>6 DEF CallOK, LockSteps, WriteSteps, RefusedOK, Using, nodeVars
<1>8. (HoldsBigLock(c)' <=> HoldsBigLock(c)) /\ HoldsNodeMutex(c)
  BY <1>5, <1>6 DEF HoldsBigLock, LockSteps, HoldsNodeMutex
<1> QED
  BY <1>2, <1>3, <1>4, <1>5, <1>6, <1>7, <1>8, Kept, CallStepInv DEF WriteSteps

LEMMA UnmapInv ==
  ASSUME IInv, NEW c \in Conn, Unmap(c)
  PROVE  IInv'
<1> USE DEF Unmap, Goto, Enter
<1>1. TypeOK'
  BY DEF IInv, TypeOK, Steps, fileVars, maskVars
<1>2. StepOf(c) /\ SameRow(ProcOf[c]) /\ \A q \in Process : FileFits(q)
  BY Longer DEF IInv, TypeOK, StepOf, SameRow, SameCall, fileVars
<1>3. CallOK(c)' /\ RefusedOK(c)'
  BY DEF IInv, TypeOK, CallOK, LockSteps, WriteSteps, RefusedOK
<1> QED
  BY <1>1, <1>2, <1>3, Kept, CallStepInv
     DEF IInv, TypeOK, HoldsBigLock, HoldsNodeMutex, LockSteps, WriteSteps, fileVars

(* The locks on slots are beside the point here.                           *)
LEMMA SlotStepInv ==
  ASSUME IInv, NEW c \in Conn, lockUnchanged,
         klock' \in [Process -> SUBSET SlotLock],
         sharedMask' \in [Conn -> SUBSET Slot], exclMask' \in [Conn -> SUBSET Slot]
  PROVE  IInv'
<1> USE DEF lockUnchanged
<1>1. TypeOK'
  BY DEF IInv, TypeOK, fileVars, nodeVars
<1>2. StepOf(c) /\ SameRow(ProcOf[c]) /\ \A q \in Process : FileFits(q)
  BY Longer DEF IInv, TypeOK, StepOf, SameRow, SameCall, fileVars, nodeVars
<1>3. CallOK(c)
  BY ProcOfType DEF IInv, ProcInv
<1>4. CallOK(c)'
  BY <1>3 DEF CallOK, Using, fileVars, nodeVars
<1>5. RefusedOK(c)'
  BY DEF IInv, RefusedOK, Fresh, WriteLocked, fileVars
<1> QED
  BY <1>1, <1>2, <1>4, <1>5, Kept, CallStepInv DEF HoldsBigLock, HoldsNodeMutex, fileVars

LEMMA LockSharedInv ==
  ASSUME IInv, NEW c \in Conn, NEW s \in Slot, LockShared(c, s)
  PROVE  IInv'
<1>1. klock' \in [Process -> SUBSET SlotLock]
  <2>1. [slots |-> {s}, type |-> "RDLCK"] \in SlotLock
    BY DEF SlotLock
  <2>2. CASE klock' = klock
    BY <2>2 DEF IInv, TypeOK
  <2>3. CASE SystemLock(ProcOf[c], {s}, "RDLCK")
    BY <2>1, <2>3, ProcOfType DEF SystemLock, IInv, TypeOK
  <2> QED
    BY <2>2, <2>3 DEF LockShared
<1>2. sharedMask' \in [Conn -> SUBSET Slot] /\ exclMask' = exclMask /\ lockUnchanged
  BY DEF LockShared, IInv, TypeOK
<1> QED
  BY <1>1, <1>2, SlotStepInv DEF IInv, TypeOK

LEMMA LockExclusiveInv ==
  ASSUME IInv, NEW c \in Conn, NEW slots \in Ranges, LockExclusive(c, slots)
  PROVE  IInv'
<1>1. slots \in SUBSET Slot
  BY WinShmAssumption DEF Ranges, Slot
<1>2. klock' \in [Process -> SUBSET SlotLock]
  <2>1. [slots |-> slots, type |-> "WRLCK"] \in SlotLock
    BY <1>1 DEF SlotLock
  <2> QED
    BY <2>1, ProcOfType DEF LockExclusive, SystemLock, IInv, TypeOK
<1>3. exclMask' \in [Conn -> SUBSET Slot] /\ sharedMask' = sharedMask /\ lockUnchanged
  BY <1>1 DEF LockExclusive, IInv, TypeOK
<1> QED
  BY <1>2, <1>3, SlotStepInv DEF IInv, TypeOK

LEMMA UnlockInv ==
  ASSUME IInv, NEW c \in Conn, NEW slots \in Ranges, Unlock(c, slots)
  PROVE  IInv'
<1>1. klock' \in [Process -> SUBSET SlotLock]
  <2>1. CASE klock' = klock
    BY <2>1 DEF IInv, TypeOK
  <2>2. CASE SystemUnlock(ProcOf[c], slots)
    <3>1. PICK l : klock' = [klock EXCEPT ![ProcOf[c]] = @ \ {l}]
      BY <2>2 DEF SystemUnlock
    <3> QED
      BY <3>1, ProcOfType DEF IInv, TypeOK
  <2> QED
    BY <2>1, <2>2 DEF Unlock
<1>2. exclMask' \in [Conn -> SUBSET Slot] /\ sharedMask' \in [Conn -> SUBSET Slot] /\ lockUnchanged
  BY DEF Unlock, IInv, TypeOK
<1> QED
  BY <1>1, <1>2, SlotStepInv

(***************************************************************************)
(* The file is cut when nobody uses it.                                    *)
(***************************************************************************)
LEMMA WriterAlone ==
  ASSUME IInv, NEW c \in Conn, pc[c] \in WriteSteps
  PROVE  /\ \A q \in Process : ~Using(q) /\ nRegion[q] = 0
         /\ \A q \in Process \ {ProcOf[c]} : dms[q] = "UNLCK"
<1>1. ProcOf[c] \in Process /\ CallOK(c)
  BY ProcOfType DEF IInv, ProcInv
<1>2. dms[ProcOf[c]] = "WRLCK"
  BY <1>1 DEF CallOK
<1>3. ASSUME NEW q \in Process \ {ProcOf[c]} PROVE dms[q] = "UNLCK"
  BY <1>1, <1>2 DEF IInv, KernelOK
<1>4. ASSUME NEW q \in Process PROVE ~Using(q) /\ nRegion[q] = 0
  <2>1. NodeOK(q)
    BY DEF IInv, ProcInv
  <2>2. dms[q] # "RDLCK"
    BY <1>2, <1>3
  <2> QED
    BY <2>1, <2>2 DEF NodeOK
<1> QED
  BY <1>3, <1>4

LEMMA TruncateInv ==
  ASSUME IInv, NEW c \in Conn, Truncate(c)
  PROVE  IInv'
<1> USE DEF Truncate, Goto, Enter
<1>1. CallOK(c) /\ c \notin pShm
  BY ProcOfType DEF IInv, ProcInv, CallOK
<1>2. TypeOK'
  BY DEF IInv, TypeOK, Steps, LockSteps, Absent, fileVars, nodeVars, maskVars
<1>3. StepOf(c) /\ SameRow(ProcOf[c])
  BY DEF IInv, TypeOK, StepOf, SameRow, SameCall, nodeVars
<1>4. \A q \in Process : FileFits(q)
  BY WriterAlone DEF WriteSteps, FileFits, IInv, TypeOK
<1>5. FileKept
  BY Kept DEF FileKept, Fresh, fileVars
<1>6. pc'[c] \in {"unlock", "unlockFail"} /\ (pc'[c] = "unlock" => trusted' = 1)
  BY DEF IInv, TypeOK
<1>7. ProcOf[c] \in isUnlocked => ProcOf[c] \in isReadonly
  BY ProcOfType DEF IInv, ProcInv, NodeOK
<1>8. CallOK(c)' /\ RefusedOK(c)'
  BY <1>1, <1>6, <1>7 DEF CallOK, LockSteps, WriteSteps, RefusedOK, Using, nodeVars
<1>9. (HoldsBigLock(c)' <=> HoldsBigLock(c)) /\ ~HoldsNodeMutex(c)'
  BY <1>1, <1>6 DEF HoldsBigLock, LockSteps, HoldsNodeMutex
<1> QED
  BY <1>1, <1>2, <1>3, <1>4, <1>5, <1>6, <1>8, <1>9, CallStepInv DEF WriteSteps


(***************************************************************************)
(* Steps that purge a node.                                                *)
(***************************************************************************)
NoNode(p) ==
  /\ node[p] = "none" /\ dms[p] = "UNLCK" /\ p \notin isReadonly /\ p \notin isUnlocked
  /\ nRef[p] = 0 /\ nRegion[p] = 0
  /\ \A c \in Conn : ProcOf[c] = p => pc[c] = "idle" /\ c \notin pShm

LEMMA NoNodeInv ==
  ASSUME NEW p \in Process, NoNode(p)'
  PROVE  ProcInv(p)'
<1> USE DEF NoNode
<1>1. \A c \in Conn : ProcOf[c] = p => ~HoldsBigLock(c)' /\ ~HoldsNodeMutex(c)'
  BY DEF HoldsBigLock, HoldsNodeMutex, LockSteps
<1>2. NodeOK(p)' /\ ~Using(p)'
  BY <1>1 DEF NodeOK, Using
<1>3. Cardinality(Referencing(p))' = 0
  <2>1. Referencing(p)' = {}
    BY DEF Referencing
  <2> QED
    BY <2>1, FS_EmptySet
<1>4. \A c \in Conn : ProcOf[c] = p => CallOK(c)'
  BY DEF CallOK, LockSteps, WriteSteps
<1>5. \A c, d \in Conn : ProcOf[c] = p => MutexOK(c, d)'
  BY <1>1 DEF MutexOK
<1> QED
  BY <1>2, <1>3, <1>4, <1>5 DEF ProcInv

LEMMA PurgeInv ==
  ASSUME IInv, TypeOK', NEW c \in Conn, StepOf(c), FileKept,
         \A q \in Process \ {ProcOf[c]} : FileFits(q),
         LeavesOK(ProcOf[c]),
         NoNode(ProcOf[c])'
  PROVE  IInv'
<1>1. ProcOf[c] \in Process
  BY ProcOfType
<1>2. ProcInv(ProcOf[c])' /\ RefusedOK(c)'
  BY <1>1, NoNodeInv DEF NoNode, RefusedOK
<1>3. \A q \in Process : KernelOK(ProcOf[c], q)' /\ KernelOK(q, ProcOf[c])'
  BY DEF KernelOK, NoNode
<1> QED
  BY <1>2, <1>3, StepInv

LEMMA FailInv ==
  ASSUME IInv, NEW c \in Conn, pc[c] \in LockSteps, Fail(c), UNCHANGED <<size, trusted, pFirst, maskVars>>,
         missed' \in {0, 1}, FileKept, LeavesOK(ProcOf[c]),
         pc[c] \in WriteSteps => ProcOf[c] \notin isReadonly
  PROVE  IInv'
<1> DEFINE p == ProcOf[c]
<1> USE DEF Fail, Goto, Enter
<1>1. TypeOK'
  BY DEF IInv, TypeOK, Steps, Purge, LockType, maskVars
<1>2. StepOf(c) /\ \A q \in Process : FileFits(q)
  <2>1. \A q \in Process \ {p} : SameRow(q)
    BY DEF IInv, TypeOK, SameRow, Purge
  <2>2. \A q \in Process : FileFits(q)
    BY Longer DEF IInv, TypeOK
  <2> QED
    BY <2>1, <2>2 DEF IInv, TypeOK, StepOf, SameCall
<1>3. CallOK(c) /\ p \in Process /\ NodeOK(p) /\ pc'[c] = "idle"
  BY ProcOfType DEF IInv, ProcInv, TypeOK
<1>4. CASE c \in pShm
  <2>1. SameRow(p)
    BY <1>4 DEF SameRow
  <2>2. CallOK(c)' /\ RefusedOK(c)'
    BY <1>3 DEF CallOK, RefusedOK, LockSteps, WriteSteps
  <2>3. HoldsBigLock(c)' <=> HoldsBigLock(c)
    BY <1>3, <1>4 DEF HoldsBigLock, LockSteps
  <2>4. pc[c] \notin WriteSteps /\ ~HoldsNodeMutex(c)' /\ c \in pShm'
    BY <1>3, <1>4 DEF CallOK, NodeOK, HoldsNodeMutex, LockSteps
  <2> QED
    BY <1>1, <1>2, <1>4, <2>1, <2>2, <2>3, <2>4, CallStepInv
<1>5. CASE c \notin pShm
  <2>1. HoldsBigLock(c)
    BY <1>5 DEF HoldsBigLock
  <2>2. nRef[p] = 0 /\ \A d \in Conn : ProcOf[d] = p /\ d # c => pc[d] = "idle" /\ d \notin pShm
    BY <2>1, BigLockHolder
  <2>3. NoNode(p)'
    BY <1>3, <1>5, <2>2 DEF IInv, TypeOK, NoNode, Purge
  <2> QED
    BY <1>1, <1>2, <2>3, PurgeInv
<1> QED
  BY <1>4, <1>5

(***************************************************************************)
(* Steps that attach a connection to a node.                               *)
(***************************************************************************)
LEMMA AttachRefs ==
  ASSUME IInv, TypeOK', NEW c \in Conn, StepOf(c), c \notin Referencing(ProcOf[c]),
         nRef'[ProcOf[c]] = nRef[ProcOf[c]] + 1, c \in pShm'
  PROVE  (nRef[ProcOf[c]] = Cardinality(Referencing(ProcOf[c])))' /\ nRef'[ProcOf[c]] > 0
<1> DEFINE p == ProcOf[c]
<1>1. p \in Process
  BY ProcOfType
<1>2. Referencing(p)' = Referencing(p) \cup {c}
  BY DEF Referencing, StepOf, SameCall
<1>3. IsFiniteSet(Referencing(p)) /\ nRef[p] = Cardinality(Referencing(p)) /\ nRef[p] \in Nat
  BY <1>1, RefFacts DEF IInv, TypeOK
<1>4. Cardinality(Referencing(p) \cup {c}) = Cardinality(Referencing(p)) + 1
  BY <1>3, FS_AddElement
<1> QED
  BY <1>2, <1>3, <1>4

(* The first connection of a node, when it has the lock or does without.   *)
LEMMA AttachNewInv ==
  ASSUME IInv, TypeOK', NEW c \in Conn, HoldsBigLock(c), StepOf(c), FileKept, size' = size,
         Attach(c), pc'[c] \in {"link", "linkFail"},
         \A q \in Process : KernelOK(ProcOf[c], q)' /\ KernelOK(q, ProcOf[c])',
         LeavesOK(ProcOf[c]),
         dms'[ProcOf[c]] = IF ProcOf[c] \in isUnlocked' THEN "UNLCK" ELSE "RDLCK",
         ProcOf[c] \in isUnlocked' => ProcOf[c] \in isReadonly',
         ProcOf[c] \in isUnlocked' \/ Fresh',
         nRegion' = nRegion
  PROVE  IInv'
<1> DEFINE p == ProcOf[c]
<1> USE DEF Attach
<1>1. p \in Process /\ node[p] = "new" /\ Referencing(p) = {} /\ nRef[p] = 0 /\ nRegion[p] = 0
  BY BigLockHolder, ProcOfType
<1>2. node'[p] = "ready" /\ c \in pShm' /\ nRef'[p] = nRef[p] + 1
  BY <1>1 DEF IInv, TypeOK
<1>3. (nRef[p] = Cardinality(Referencing(p)))' /\ nRef'[p] > 0
  BY <1>1, <1>2, AttachRefs
<1>4. ASSUME NEW d \in Conn, ProcOf[d] = p, d # c
      PROVE  pc'[d] = "idle" /\ d \notin pShm'
  <2>1. pc[d] = "idle" /\ d \notin pShm
    BY <1>4, BigLockHolder
  <2> QED
    BY <1>4, <2>1 DEF StepOf, SameCall
<1>5. ASSUME NEW d \in Conn, ProcOf[d] = p PROVE ~HoldsBigLock(d)' /\ ~HoldsNodeMutex(d)' /\ CallOK(d)'
  <2>1. CASE d = c
    BY <1>2, <2>1 DEF HoldsBigLock, HoldsNodeMutex, LockSteps, CallOK, WriteSteps
  <2>2. CASE d # c
    BY <1>4, <1>5, <2>2 DEF HoldsBigLock, HoldsNodeMutex, LockSteps, CallOK, WriteSteps
  <2> QED
    BY <2>1, <2>2
<1>6. NodeOK(p)' /\ (Using(p) => Fresh)'
  BY <1>1, <1>2, <1>3, <1>5 DEF NodeOK, Using
<1>7. \A d, e \in Conn : ProcOf[d] = p => MutexOK(d, e)'
  BY <1>5 DEF MutexOK
<1>8. ProcInv(p)'
  BY <1>1, <1>3, <1>5, <1>6, <1>7 DEF ProcInv
<1>9. \A q \in Process : FileFits(q)
  BY Longer DEF IInv, TypeOK
<1>10. RefusedOK(c)'
  BY DEF RefusedOK
<1> QED
  BY <1>8, <1>9, <1>10, StepInv

(* A second connection to a node.                                          *)
LEMMA AttachMoreInv ==
  ASSUME IInv, TypeOK', NEW c \in Conn, pc[c] = "idle", c \notin pShm, node[ProcOf[c]] = "ready",
         StepOf(c), Attach(c), pc'[c] = "link",
         UNCHANGED <<fileVars, dms, isReadonly, isUnlocked, nRegion>>
  PROVE  IInv'
<1> DEFINE p == ProcOf[c]
<1> USE DEF Attach
<1>1. p \in Process /\ NodeOK(p) /\ ProcInv(p)
  BY ProcOfType DEF IInv, ProcInv
<1>2. node' = node /\ c \in pShm' /\ nRef'[p] = nRef[p] + 1
  BY <1>1 DEF IInv, TypeOK
<1>3. (nRef[p] = Cardinality(Referencing(p)))' /\ nRef'[p] > 0
  BY <1>1, <1>2, AttachRefs DEF Referencing
<1>4. ASSUME NEW d \in Conn, d # c
      PROVE  /\ HoldsBigLock(d)' <=> HoldsBigLock(d)
             /\ HoldsNodeMutex(d)' <=> HoldsNodeMutex(d)
             /\ pc'[d] \in WriteSteps <=> pc[d] \in WriteSteps
  BY <1>4 DEF StepOf, SameCall, HoldsBigLock, HoldsNodeMutex
<1>5. ~HoldsBigLock(c)' /\ ~HoldsNodeMutex(c)' /\ ~HoldsBigLock(c) /\ pc[c] \notin WriteSteps
  BY <1>2 DEF HoldsBigLock, HoldsNodeMutex, LockSteps, WriteSteps
<1>6. Using(p)' <=> Using(p)
  BY <1>2 DEF Using
<1>7. NodeOK(p)'
  BY <1>1, <1>2, <1>3, <1>4, <1>5, <1>6 DEF NodeOK
<1>8. ASSUME NEW d \in Conn, ProcOf[d] = p PROVE CallOK(d)'
  <2>1. CASE d = c
    BY <1>2, <2>1 DEF CallOK, LockSteps, WriteSteps
  <2>2. CASE d # c
    <3>1. CallOK(d) /\ SameCall(d)
      BY <1>1, <1>8, <2>2 DEF ProcInv, StepOf
    <3> QED
      BY <1>6, <1>8, <3>1 DEF CallOK, SameCall, fileVars
  <2> QED
    BY <2>1, <2>2
<1>9. \A d, e \in Conn : ProcOf[d] = p => MutexOK(d, e)'
  BY <1>1, <1>4, <1>5 DEF ProcInv, MutexOK
<1>10. ProcInv(p)'
  BY <1>1, <1>3, <1>6, <1>7, <1>8, <1>9 DEF ProcInv, Fresh, fileVars
<1>11. \A q \in Process : KernelOK(p, q)' /\ KernelOK(q, p)'
  BY <1>1 DEF IInv, KernelOK
<1>12. \A q \in Process : FileFits(q)
  BY Longer DEF fileVars, IInv, TypeOK
<1>13. LeavesOK(p) /\ RefusedOK(c)' /\ FileKept
  BY Kept DEF LeavesOK, RefusedOK, fileVars
<1> QED
  BY <1>10, <1>11, <1>12, <1>13, StepInv

LEMMA OpenInv ==
  ASSUME IInv, NEW c \in Conn, NEW region \in Regions, Open(c, region)
  PROVE  IInv'
<1> DEFINE p == ProcOf[c]
<1> USE DEF Open, Enter
<1>1. p \in Process /\ NodeOK(p) /\ CallOK(c)
  BY ProcOfType DEF IInv, ProcInv
<1>2. /\ pc' = [pc EXCEPT ![c] = IF node[p] = "none" THEN "wrlck" ELSE "link"]
      /\ iRegion' \in [Conn -> Nat]
  BY WinShmAssumption DEF IInv, TypeOK
<1>3. pc' \in [Conn -> Steps] /\ \A d \in Conn \ {c} : pc'[d] = pc[d]
  BY <1>2 DEF IInv, TypeOK, Steps, LockSteps
<1>4. CASE node[p] # "none"
  <2>1. node[p] = "ready" /\ Attach(c) /\ UNCHANGED <<size, trusted, isReadonly>>
    BY <1>1, <1>4 DEF IInv, TypeOK, NodeOK, BigLockFree
  <2>2. TypeOK'
    <3>2. UNCHANGED <<fileVars, isReadonly, dms, klock, isUnlocked, nRegion, pFirst, maskVars>>
      BY <2>1 DEF fileVars
    <3> HIDE DEF Open, Enter
    <3>3. nRef[p] + 1 \in Nat
      BY <1>1 DEF IInv, TypeOK
    <3>1. /\ node' \in [Process -> {"none", "new", "ready"}] /\ nRef' \in [Process -> Nat]
          /\ pShm' \subseteq Conn
      BY <2>1, <3>3 DEF Attach, IInv, TypeOK
    <3> QED
      BY <1>2, <1>3, <3>1, <3>2 DEF IInv, TypeOK, fileVars, maskVars
  <2>3. StepOf(c) /\ pc'[c] = "link"
    BY <1>2, <1>3, <1>4, <2>1 DEF IInv, TypeOK, StepOf, SameRow, SameCall, Attach
  <2> QED
    BY <2>1, <2>2, <2>3, AttachMoreInv DEF fileVars
<1>5. CASE node[p] = "none"
  <2>1. OpenFile(c) /\ pc'[c] = "wrlck"
    BY <1>2, <1>5 DEF IInv, TypeOK
  <2> USE DEF OpenFile
  <2>2. TypeOK'
    BY <1>1, <1>2, <1>3, <2>1 DEF IInv, TypeOK, Absent, maskVars
  <2>3. StepOf(c)
    BY <1>3, <2>1 DEF IInv, TypeOK, StepOf, SameRow, SameCall
  <2>4. node'[p] = "new" /\ c \notin pShm'
    BY <1>1, <2>1 DEF IInv, TypeOK
  <2>5. ASSUME NEW d \in Conn, ProcOf[d] = p, d # c
        PROVE  pc'[d] = "idle" /\ d \notin pShm'
    <3>1. pc[d] = "idle" /\ d \notin pShm
      BY <1>5, <2>5, Quiet DEF BigLockFree
    <3> QED
      BY <1>3, <2>1, <2>5, <3>1
  <2>6. HoldsBigLock(c)' /\ ~HoldsNodeMutex(c)'
    BY <2>1, <2>4 DEF HoldsBigLock, HoldsNodeMutex, LockSteps
  <2>7. ASSUME NEW d \in Conn, ProcOf[d] = p, d # c
        PROVE ~HoldsBigLock(d)' /\ ~HoldsNodeMutex(d)' /\ CallOK(d)'
    BY <2>5, <2>7 DEF HoldsBigLock, HoldsNodeMutex, LockSteps, CallOK, WriteSteps
  <2>8. NodeOK(p)' /\ ~Using(p)' /\ nRegion'[p] = 0
    BY <1>1, <1>5, <2>1, <2>4, <2>6 DEF NodeOK, Using
  <2>9. CallOK(c)' /\ RefusedOK(c)'
    BY <1>1, <1>5, <2>1, <2>4 DEF CallOK, NodeOK, LockSteps, WriteSteps, RefusedOK
  <2>10. \A d, e \in Conn : ProcOf[d] = p => MutexOK(d, e)'
    BY <2>6, <2>7 DEF MutexOK
  <2>11. (nRef[p] = Cardinality(Referencing(p)))'
    <3>1. Referencing(p) = {} /\ nRef[p] = Cardinality(Referencing(p))
      BY <1>1, <1>5, RefFacts
    <3>2. Referencing(p)' = {}
      BY <2>1, <2>4, <2>5 DEF Referencing
    <3> QED
      BY <2>1, <3>1, <3>2
  <2>12. ProcInv(p)'
    BY <2>7, <2>8, <2>9, <2>10, <2>11 DEF ProcInv
  <2>13. size' \in Int /\ size' >= size
    BY <2>1 DEF IInv, TypeOK, Absent
  <2>14. \A q \in Process : KernelOK(p, q)' /\ KernelOK(q, p)'
    BY <1>1 DEF IInv, KernelOK
  <2>15. FileKept /\ LeavesOK(p)
    BY <2>1 DEF FileKept, Fresh, LeavesOK
  <2> QED
    BY <2>2, <2>3, <2>9, <2>12, <2>13, <2>14, <2>15, Longer, StepInv
<1> QED
  BY <1>4, <1>5


(***************************************************************************)
(* winLockSharedMemory for a node that is being opened, under winBigLock,  *)
(* and for one that is open, under its mutex.                              *)
(***************************************************************************)
NodeKept(p) ==
  /\ node'[p] = node[p] /\ nRef'[p] = nRef[p] /\ nRegion'[p] = nRegion[p]
  /\ p \in isUnlocked' => p \in isReadonly'

LEMMA BigHolderInv ==
  ASSUME IInv, TypeOK', NEW c \in Conn, HoldsBigLock(c), StepOf(c), FileKept, size' = size,
         pc'[c] \in LockSteps, c \notin pShm', NodeKept(ProcOf[c]),
         \A q \in Process : KernelOK(ProcOf[c], q)' /\ KernelOK(q, ProcOf[c])',
         LeavesOK(ProcOf[c]), CallOK(c)', RefusedOK(c)',
         dms'[ProcOf[c]] # "RDLCK",
         dms'[ProcOf[c]] = "WRLCK" => pc'[c] \in WriteSteps
  PROVE  IInv'
<1> DEFINE p == ProcOf[c]
<1> USE DEF NodeKept
<1>1. p \in Process /\ node[p] = "new" /\ Referencing(p) = {} /\ nRef[p] = 0 /\ nRegion[p] = 0
  BY BigLockHolder, ProcOfType
<1>2. HoldsBigLock(c)' /\ ~HoldsNodeMutex(c)' /\ pc'[c] # "unref"
  BY DEF HoldsBigLock, HoldsNodeMutex, LockSteps
<1>3. ASSUME NEW d \in Conn, ProcOf[d] = p, d # c
      PROVE  pc'[d] = "idle" /\ d \notin pShm' /\ ~HoldsBigLock(d)' /\ ~HoldsNodeMutex(d)' /\ CallOK(d)'
  <2>1. pc[d] = "idle" /\ d \notin pShm
    BY <1>3, BigLockHolder
  <2>2. pc'[d] = "idle" /\ d \notin pShm'
    BY <1>3, <2>1 DEF StepOf, SameCall
  <2> QED
    BY <2>2 DEF HoldsBigLock, HoldsNodeMutex, LockSteps, CallOK, WriteSteps
<1>4. NodeOK(p)' /\ ~Using(p)'
  BY <1>1, <1>2 DEF NodeOK, Using
<1>5. (nRef[p] = Cardinality(Referencing(p)))'
  <2>1. Referencing(p)' = {}
    BY <1>2, <1>3 DEF Referencing
  <2> QED
    BY <1>1, <2>1, FS_EmptySet
<1>6. \A d, e \in Conn : ProcOf[d] = p => MutexOK(d, e)'
  BY <1>2, <1>3 DEF MutexOK
<1>7. ASSUME NEW d \in Conn, ProcOf[d] = p PROVE CallOK(d)'
  BY <1>3, <1>7
<1>8. ProcInv(p)'
  BY <1>1, <1>4, <1>5, <1>6, <1>7 DEF ProcInv
<1>9. \A q \in Process : FileFits(q)
  BY Longer DEF IInv, TypeOK
<1> QED
  BY <1>8, <1>9, StepInv

LEMMA MutexHolderInv ==
  ASSUME IInv, TypeOK', NEW c \in Conn, pc[c] \in LockSteps, c \in pShm, StepOf(c), FileKept, size' = size,
         c \in pShm', pc'[c] # "unref", NodeKept(ProcOf[c]),
         \A q \in Process : KernelOK(ProcOf[c], q)' /\ KernelOK(q, ProcOf[c])',
         LeavesOK(ProcOf[c]), CallOK(c)', RefusedOK(c)',
         dms'[ProcOf[c]] = "WRLCK" => pc'[c] \in WriteSteps,
         dms'[ProcOf[c]] = "RDLCK" <=> ProcOf[c] \notin isUnlocked',
         dms'[ProcOf[c]] = "RDLCK" => Fresh'
  PROVE  IInv'
<1> DEFINE p == ProcOf[c]
<1> USE DEF NodeKept
<1>1. p \in Process /\ ProcInv(p) /\ NodeOK(p) /\ p \in isUnlocked
  BY ProcOfType DEF IInv, ProcInv, CallOK
<1>2. nRegion[p] = 0 /\ HoldsNodeMutex(c)
  BY <1>1 DEF NodeOK, Using, HoldsNodeMutex
<1>3. /\ node[p] = "ready"
      /\ \A d \in Conn : ProcOf[d] = p => ~HoldsBigLock(d)
  BY <1>2, NodeMutexHolder
<1>4. Using(p)' <=> dms'[p] = "RDLCK"
  BY <1>3 DEF Using
<1>5. ~HoldsBigLock(c)'
  BY DEF HoldsBigLock
<1>6. ASSUME NEW d \in Conn, ProcOf[d] = p, d # c
      PROVE  ~HoldsBigLock(d)' /\ ~HoldsNodeMutex(d)' /\ CallOK(d)'
  <2>1. /\ ~HoldsNodeMutex(d) /\ ~HoldsBigLock(d) /\ SameCall(d) /\ CallOK(d)
        /\ pc[d] \in {"idle", "link", "linkFail", "enter", "unref"}
    BY <1>1, <1>2, <1>3, <1>6, NodeMutexHolder DEF StepOf, ProcInv
  <2> QED
    BY <2>1 DEF SameCall, HoldsBigLock, HoldsNodeMutex, LockSteps, CallOK, WriteSteps
<1>7. NodeOK(p)'
  <2>1. ~ \E d \in Conn : ProcOf[d] = p /\ HoldsBigLock(d)'
    BY <1>5, <1>6
  <2> QED
    BY <1>1, <1>2, <1>3, <1>4, <2>1 DEF NodeOK
<1>8. (nRef[p] = Cardinality(Referencing(p)))'
  <2>1. Referencing(p)' = Referencing(p)
    BY DEF Referencing, StepOf, SameCall
  <2> QED
    BY <1>1, <2>1 DEF ProcInv
<1>9. \A d, e \in Conn : ProcOf[d] = p => MutexOK(d, e)'
  BY <1>5, <1>6 DEF MutexOK
<1>10. ASSUME NEW d \in Conn, ProcOf[d] = p PROVE CallOK(d)'
  BY <1>6, <1>10
<1>11. ProcInv(p)'
  BY <1>2, <1>4, <1>7, <1>8, <1>9, <1>10 DEF ProcInv
<1>12. \A q \in Process : FileFits(q)
  BY Longer DEF IInv, TypeOK
<1> QED
  BY <1>11, <1>12, StepInv

LEMMA InUseFacts ==
  ASSUME IInv, NEW c \in Conn, InUse(ProcOf[c])
  PROVE  Fresh \/ WriteLocked(ProcOf[c])
<1>1. PICK q \in Process \ {ProcOf[c]} : dms[q] # "UNLCK"
  BY DEF InUse
<1>2. CASE dms[q] = "WRLCK"
  BY <1>1, <1>2 DEF WriteLocked
<1>3. CASE dms[q] = "RDLCK"
  BY <1>1, <1>3 DEF IInv, ProcInv, NodeOK
<1> QED
  BY <1>1, <1>2, <1>3 DEF IInv, TypeOK, LockType

LEMMA WrLockInv ==
  ASSUME IInv, NEW c \in Conn, WrLock(c)
  PROVE  IInv'
<1> DEFINE p == ProcOf[c]
<1> USE DEF WrLock, Goto, Enter
<1>1. p \in Process /\ CallOK(c) /\ NodeOK(p) /\ pc[c] = "wrlck" /\ dms[p] = "UNLCK"
  BY ProcOfType DEF IInv, ProcInv, CallOK
<1>2. TypeOK'
  BY <1>1 DEF IInv, TypeOK, Steps, LockSteps, LockType, fileVars, maskVars
<1>3. StepOf(c) /\ NodeKept(p) /\ FileKept /\ size' = size /\ LeavesOK(p) /\ pShm' = pShm
  <2>1. \A q \in Process \ {p} : SameRow(q)
    BY DEF IInv, TypeOK, SameRow
  <2>2. \A d \in Conn \ {c} : SameCall(d)
    BY DEF IInv, TypeOK, SameCall
  <2>3. NodeKept(p) /\ FileKept /\ LeavesOK(p)
    BY <1>1, Kept DEF NodeKept, NodeOK, LeavesOK, fileVars
  <2> QED
    BY <2>1, <2>2, <2>3 DEF StepOf, fileVars
<1>4. CASE pc'[c] = "refused" /\ InUse(p) /\ UNCHANGED <<dms, isUnlocked>>
  <2>1. SameRow(p) /\ \A q \in Process : FileFits(q)
    BY <1>4, Longer DEF SameRow, IInv, TypeOK, fileVars
  <2>2. CallOK(c)' /\ (HoldsBigLock(c)' <=> HoldsBigLock(c)) /\ (HoldsNodeMutex(c)' <=> HoldsNodeMutex(c))
    BY <1>1, <1>4 DEF CallOK, LockSteps, WriteSteps, HoldsBigLock, HoldsNodeMutex
  <2>3. RefusedOK(c)'
    BY <1>4, InUseFacts DEF RefusedOK, Fresh, WriteLocked, fileVars
  <2> QED
    BY <1>1, <1>2, <1>3, <1>4, <2>1, <2>2, <2>3, CallStepInv DEF WriteSteps
<1>5. CASE /\ ~InUse(p) /\ dms' = [dms EXCEPT ![p] = "WRLCK"]
           /\ isUnlocked' = IF p \in isReadonly THEN isUnlocked \cup {p} ELSE isUnlocked
           /\ pc'[c] = IF p \in isReadonly THEN "unlockFail" ELSE "truncate"
  <2>1. dms'[p] = "WRLCK" /\ \A q \in Process \ {p} : dms'[q] = "UNLCK"
    BY <1>1, <1>5 DEF InUse, IInv, TypeOK
  <2>2. \A q \in Process : KernelOK(p, q)' /\ KernelOK(q, p)'
    BY <2>1 DEF KernelOK
  <2>3. p \notin isReadonly => c \notin pShm
    BY <1>1 DEF CallOK, NodeOK, LockSteps
  <2>4. CallOK(c)' /\ RefusedOK(c)' /\ pc'[c] \in WriteSteps \cap LockSteps
    BY <1>1, <1>3, <1>5, <2>1, <2>3 DEF CallOK, NodeOK, LockSteps, WriteSteps, RefusedOK
  <2>5. CASE c \in pShm
    <3>1. p \in isUnlocked' /\ pc[c] \in LockSteps /\ pc'[c] # "unref"
      BY <1>1, <1>5, <2>3, <2>5 DEF CallOK, LockSteps
    <3> QED
      BY <1>2, <1>3, <2>1, <2>2, <2>4, <2>5, <3>1, MutexHolderInv
  <2>6. CASE c \notin pShm
    <3>1. HoldsBigLock(c)
      BY <1>1, <2>6 DEF HoldsBigLock, LockSteps
    <3> QED
      BY <1>2, <1>3, <2>1, <2>2, <2>4, <2>6, <3>1, BigHolderInv
  <2> QED
    BY <2>5, <2>6
<1>6. pc'[c] \in {"refused", "unlockFail", "truncate"}
  BY DEF IInv, TypeOK
<1>7. \/ pc' = [pc EXCEPT ![c] = "refused"] /\ InUse(p) /\ UNCHANGED <<dms, isUnlocked>>
      \/ /\ ~InUse(p) /\ dms' = [dms EXCEPT ![p] = "WRLCK"]
         /\ isUnlocked' = IF p \in isReadonly THEN isUnlocked \cup {p} ELSE isUnlocked
         /\ pc' = [pc EXCEPT ![c] = IF p \in isReadonly THEN "unlockFail" ELSE "truncate"]
  OBVIOUS
<1> HIDE DEF WrLock
<1>8. pc \in [Conn -> Steps]
  BY DEF IInv, TypeOK
<1> QED
  BY <1>4, <1>5, <1>7, <1>8

LEMMA DropWriteLockInv ==
  ASSUME IInv, NEW c \in Conn, DropWriteLock(c)
  PROVE  IInv'
<1> DEFINE p == ProcOf[c]
<1> USE DEF DropWriteLock, Goto, Enter
<1>1. /\ p \in Process /\ CallOK(c) /\ NodeOK(p) /\ pc[c] = "unlock" /\ trusted = 1 /\ c \notin pShm
      /\ HoldsBigLock(c)
  BY ProcOfType DEF IInv, ProcInv, CallOK, HoldsBigLock, LockSteps
<1>2. TypeOK'
  BY <1>1 DEF IInv, TypeOK, Steps, LockSteps, LockType, fileVars, nodeVars, maskVars
<1>3. StepOf(c) /\ NodeKept(p) /\ FileKept /\ size' = size /\ LeavesOK(p)
  <2>1. \A q \in Process \ {p} : SameRow(q)
    BY DEF IInv, TypeOK, SameRow, nodeVars
  <2>2. \A d \in Conn \ {c} : SameCall(d)
    BY DEF IInv, TypeOK, SameCall
  <2>3. NodeKept(p) /\ FileKept /\ LeavesOK(p)
    BY <1>1, Kept DEF NodeKept, NodeOK, LeavesOK, fileVars, nodeVars, Fresh
  <2> QED
    BY <2>1, <2>2, <2>3 DEF StepOf, fileVars
<1>4. dms'[p] = "UNLCK" /\ pc'[c] = "rdlck" /\ pShm' = pShm
  BY <1>1 DEF IInv, TypeOK
<1>5. CallOK(c)' /\ RefusedOK(c)'
  BY <1>1, <1>4 DEF CallOK, RefusedOK, LockSteps, WriteSteps, fileVars
<1>6. \A q \in Process : KernelOK(p, q)' /\ KernelOK(q, p)'
  BY <1>4 DEF KernelOK
<1> QED
  BY <1>1, <1>2, <1>3, <1>4, <1>5, <1>6, BigHolderInv DEF LockSteps


(* Giving up the DMS byte without having truncated is put on record.       *)
LEMMA Recorded ==
  ASSUME TypeOK, LeaveUntruncated, trusted' = trusted
  PROVE  FileKept /\ (Fresh' \/ ~Refused) /\ missed' \in {0, 1}
  BY DEF TypeOK, LeaveUntruncated, FileKept, Fresh

LEMMA AbandonInv ==
  ASSUME IInv, NEW c \in Conn, Abandon(c)
  PROVE  IInv'
<1> DEFINE p == ProcOf[c]
<1>1. p \in Process /\ CallOK(c) /\ pc[c] = "unlockFail" /\ (p \in isReadonly <=> p \in isUnlocked)
  BY ProcOfType DEF IInv, ProcInv, CallOK, Abandon
<1>2. UNCHANGED <<size, trusted, pFirst, maskVars>> /\ LeaveUntruncated
  BY DEF Abandon
<1>3. FileKept /\ LeavesOK(p) /\ missed' \in {0, 1}
  BY <1>2, Recorded DEF IInv, LeavesOK
<1>4. pc \in [Conn -> Steps] /\ iRegion \in [Conn -> Nat] /\ TypeOK
  BY DEF IInv, TypeOK
<1>5. CASE p \notin isReadonly
  <2>1. Fail(c) /\ pc[c] \in LockSteps
    BY <1>1, <1>5 DEF Abandon, LockSteps
  <2> QED
    BY <1>2, <1>3, <1>5, <2>1, FailInv
<1>6. CASE p \in isReadonly
  <2>1. /\ dms' = [dms EXCEPT ![p] = "UNLCK"] /\ UNCHANGED <<klock, isReadonly, isUnlocked, nRegion>>
        /\ IF c \in pShm THEN Goto(c, "idle") /\ UNCHANGED <<node, nRef, pShm>>
           ELSE Attach(c) /\ Goto(c, "linkFail")
    BY <1>6 DEF Abandon
  <2>2. dms'[p] = "UNLCK" /\ dms' \in [Process -> LockType] /\ \A q \in Process \ {p} : dms'[q] = dms[q]
    BY <1>1, <2>1 DEF IInv, TypeOK, LockType
  <2>3. \A q \in Process : KernelOK(p, q)' /\ KernelOK(q, p)'
    BY <2>2 DEF KernelOK
  <2>4. CASE c \in pShm
    <3>1. Goto(c, "idle") /\ UNCHANGED <<node, nRef, pShm>>
      BY <2>1, <2>4
    <3>2. pc' = [pc EXCEPT ![c] = "idle"] /\ pc' \in [Conn -> Steps] /\ iRegion' \in [Conn -> Nat]
      BY <1>4, <3>1 DEF Goto, Enter, Steps
    <3>3. TypeOK'
      BY <1>2, <1>3, <1>4, <2>1, <2>2, <3>1, <3>2 DEF TypeOK, maskVars
    <3>4. StepOf(c)
      BY <1>4, <2>1, <2>2, <3>1, <3>2 DEF StepOf, SameRow, SameCall
    <3>5. CallOK(c)' /\ RefusedOK(c)' /\ pc'[c] = "idle"
      BY <1>4, <3>2 DEF CallOK, RefusedOK, LockSteps, WriteSteps
    <3>6. NodeKept(p) /\ p \in isUnlocked' /\ size' = size /\ c \in pShm' /\ pc[c] \in LockSteps
      BY <1>1, <1>2, <1>6, <2>1, <2>4, <3>1 DEF NodeKept, LockSteps
    <3> QED
      BY <1>3, <2>2, <2>3, <2>4, <3>3, <3>4, <3>5, <3>6, MutexHolderInv
  <2>5. CASE c \notin pShm
    <3>1. Attach(c) /\ Goto(c, "linkFail")
      BY <2>1, <2>5
    <3>2. pc' = [pc EXCEPT ![c] = "linkFail"] /\ pc' \in [Conn -> Steps] /\ iRegion' \in [Conn -> Nat]
      BY <1>4, <3>1 DEF Goto, Enter, Steps
    <3>3. /\ node' \in [Process -> {"none", "new", "ready"}] /\ nRef' \in [Process -> Nat]
          /\ pShm' \subseteq Conn
      <4>1. nRef[p] + 1 \in Nat
        BY <1>1, <1>4 DEF TypeOK
      <4> QED
        BY <1>4, <3>1, <4>1 DEF Attach, TypeOK
    <3>4. TypeOK'
      BY <1>2, <1>3, <1>4, <2>1, <2>2, <3>2, <3>3 DEF TypeOK, maskVars
    <3>5. StepOf(c)
      <4>1. \A q \in Process \ {p} : SameRow(q)
        BY <1>4, <2>1, <2>2, <3>1 DEF SameRow, Attach, TypeOK
      <4>2. \A d \in Conn \ {c} : SameCall(d)
        BY <1>4, <3>1, <3>2 DEF SameCall, Attach
      <4> QED
        BY <4>1, <4>2 DEF StepOf
    <3>6. HoldsBigLock(c) /\ pc'[c] \in {"link", "linkFail"}
      BY <1>1, <1>4, <2>5, <3>2 DEF HoldsBigLock, LockSteps
    <3>7. p \in isUnlocked' /\ p \in isReadonly' /\ nRegion' = nRegion /\ size' = size
      BY <1>1, <1>2, <1>6, <2>1
    <3> QED
      BY <1>3, <2>2, <2>3, <3>1, <3>4, <3>5, <3>6, <3>7, AttachNewInv
  <2> QED
    BY <2>4, <2>5
<1> QED
  BY <1>5, <1>6

LEMMA RdLockInv ==
  ASSUME IInv, NEW c \in Conn, RdLock(c)
  PROVE  IInv'
<1> DEFINE p == ProcOf[c]
<1>1. /\ p \in Process /\ CallOK(c) /\ NodeOK(p) /\ pc[c] \in {"rdlck", "refused"} /\ dms[p] = "UNLCK"
      /\ pc[c] \in LockSteps
  BY ProcOfType DEF IInv, ProcInv, CallOK, RdLock, LockSteps
<1>2. UNCHANGED <<size, trusted, missed, pFirst, maskVars>> /\ FileKept /\ LeavesOK(p)
  BY <1>1, Kept DEF RdLock, fileVars, LeavesOK
<1>3. pc \in [Conn -> Steps] /\ iRegion \in [Conn -> Nat] /\ TypeOK
  BY DEF IInv, TypeOK
<1>4. CASE Fail(c)
  BY <1>1, <1>2, <1>3, <1>4, FailInv DEF WriteSteps, TypeOK
<1>5. CASE /\ ~WriteLocked(p) /\ dms' = [dms EXCEPT ![p] = "RDLCK"] /\ isUnlocked' = isUnlocked \ {p}
           /\ Goto(c, IF c \in pShm THEN "size" ELSE "link")
           /\ IF c \in pShm THEN UNCHANGED <<node, nRef, pShm>> ELSE Attach(c)
           /\ UNCHANGED <<klock, isReadonly, nRegion>>
  <2>1. Fresh'
    <3>1. Fresh
      BY <1>1, <1>5 DEF IInv, RefusedOK, CallOK, Fresh
    <3> QED
      BY <1>2, <3>1 DEF Fresh
  <2>2. dms'[p] = "RDLCK" /\ dms' \in [Process -> LockType] /\ \A q \in Process \ {p} : dms'[q] = dms[q]
    BY <1>1, <1>5 DEF IInv, TypeOK, LockType
  <2>3. \A q \in Process : KernelOK(p, q)' /\ KernelOK(q, p)'
    BY <1>5, <2>2 DEF KernelOK, WriteLocked
  <2>4. CASE c \in pShm
    <3>1. Goto(c, "size") /\ UNCHANGED <<node, nRef, pShm>>
      BY <1>5, <2>4
    <3>2. pc' = [pc EXCEPT ![c] = "size"] /\ pc' \in [Conn -> Steps] /\ iRegion' \in [Conn -> Nat]
      BY <1>3, <3>1 DEF Goto, Enter, Steps
    <3>3. TypeOK'
      BY <1>2, <1>3, <1>5, <2>2, <3>1, <3>2 DEF TypeOK, maskVars
    <3>4. StepOf(c)
      BY <1>3, <1>5, <2>2, <3>1, <3>2 DEF StepOf, SameRow, SameCall
    <3>5. node[p] = "ready"
      BY <1>1, <2>4, RefFacts DEF Referencing
    <3>6. CallOK(c)' /\ RefusedOK(c)' /\ pc'[c] = "size" /\ c \in pShm'
      BY <1>3, <1>5, <2>4, <3>1, <3>2, <3>5 DEF CallOK, RefusedOK, LockSteps, WriteSteps, Using
    <3>7. NodeKept(p) /\ p \notin isUnlocked' /\ size' = size
      BY <1>2, <1>5, <3>1 DEF NodeKept
    <3> QED
      BY <1>1, <1>2, <2>1, <2>2, <2>3, <2>4, <3>3, <3>4, <3>6, <3>7, MutexHolderInv
  <2>5. CASE c \notin pShm
    <3>1. Attach(c) /\ Goto(c, "link")
      BY <1>5, <2>5
    <3>2. pc' = [pc EXCEPT ![c] = "link"] /\ pc' \in [Conn -> Steps] /\ iRegion' \in [Conn -> Nat]
      BY <1>3, <3>1 DEF Goto, Enter, Steps
    <3>3. /\ node' \in [Process -> {"none", "new", "ready"}] /\ nRef' \in [Process -> Nat]
          /\ pShm' \subseteq Conn
      <4>1. nRef[p] + 1 \in Nat
        BY <1>1, <1>3 DEF TypeOK
      <4> QED
        BY <1>3, <3>1, <4>1 DEF Attach, TypeOK
    <3>4. TypeOK'
      BY <1>2, <1>3, <1>5, <2>2, <3>2, <3>3 DEF TypeOK, maskVars
    <3>5. StepOf(c)
      <4>1. \A q \in Process \ {p} : SameRow(q)
        BY <1>3, <1>5, <2>2, <3>1 DEF SameRow, Attach, TypeOK
      <4>2. \A d \in Conn \ {c} : SameCall(d)
        BY <1>3, <3>1, <3>2 DEF SameCall, Attach
      <4> QED
        BY <4>1, <4>2 DEF StepOf
    <3>6. HoldsBigLock(c) /\ pc'[c] \in {"link", "linkFail"}
      BY <1>1, <1>3, <2>5, <3>2 DEF HoldsBigLock
    <3>7. p \notin isUnlocked' /\ nRegion' = nRegion /\ size' = size
      BY <1>2, <1>5
    <3> QED
      BY <1>2, <2>1, <2>2, <2>3, <3>1, <3>4, <3>5, <3>6, <3>7, AttachNewInv
  <2> QED
    BY <2>4, <2>5
<1> QED
  BY <1>4, <1>5 DEF RdLock

LEMMA MmapInv ==
  ASSUME IInv, NEW c \in Conn, Mmap(c)
  PROVE  IInv'
<1> DEFINE p == ProcOf[c]
<1> USE DEF Mmap, Goto, Enter
<1>1. p \in Process /\ NodeOK(p) /\ CallOK(c) /\ ProcInv(p) /\ c \in pShm /\ Using(p)
  BY ProcOfType DEF IInv, ProcInv, CallOK
<1>2. size' \in Int /\ size' >= size
  BY DEF IInv, TypeOK, SizeOfMapping
<1>3. TypeOK'
  <2>1. size' >= Absent
    BY <1>2 DEF IInv, TypeOK, Absent
  <2>2. nRegion' \in [Process -> Nat]
    BY <1>1 DEF IInv, TypeOK
  <2>3. pc' \in [Conn -> Steps] /\ iRegion' \in [Conn -> Nat]
    BY DEF IInv, TypeOK, Steps
  <2> QED
    BY <1>2, <2>1, <2>2, <2>3 DEF IInv, TypeOK, maskVars
<1>4. StepOf(c) /\ FileKept /\ \A q \in Process : FileFits(q)
  BY <1>2, Longer, Kept DEF IInv, TypeOK, StepOf, SameRow, SameCall
<1>5. CASE pc' = [pc EXCEPT ![c] = "idle"] /\ UNCHANGED nRegion
  <2>1. SameRow(p) /\ pc'[c] = "idle"
    BY <1>5 DEF SameRow, IInv, TypeOK
  <2>2. CallOK(c)' /\ RefusedOK(c)'
    BY <2>1 DEF CallOK, RefusedOK, LockSteps, WriteSteps
  <2>3. (HoldsBigLock(c)' <=> HoldsBigLock(c)) /\ HoldsNodeMutex(c) /\ pc[c] \notin WriteSteps
    BY <1>1, <2>1 DEF HoldsBigLock, LockSteps, HoldsNodeMutex, WriteSteps
  <2>4. c \in pShm' \/ pc'[c] = "unref" <=> c \in pShm \/ pc[c] = "unref"
    BY <1>1
  <2> QED
    BY <1>3, <1>4, <2>1, <2>2, <2>3, <2>4, CallStepInv
<1>6. CASE /\ nRegion[p] <= iRegion[c] /\ nRegion' = [nRegion EXCEPT ![p] = @ + 1]
           /\ size' = SizeOfMapping(c) /\ UNCHANGED <<pc, iRegion>>
  <2>1. nRegion'[p] <= size'
    BY <1>1, <1>6 DEF IInv, TypeOK, SizeOfMapping
  <2>2. UNCHANGED <<trusted, missed, dms, node, isReadonly, isUnlocked, nRef, pShm, pc, iRegion>>
    BY <1>6
  <2> HIDE DEF Mmap
  <2>3. Using(p)' /\ NodeOK(p)'
    BY <1>1, <2>2 DEF Using, NodeOK, HoldsBigLock
  <2>4. ASSUME NEW d \in Conn, ProcOf[d] = p PROVE CallOK(d)'
    BY <1>1, <2>2, <2>3, <2>4 DEF ProcInv, CallOK
  <2>5. \A d, e \in Conn : ProcOf[d] = p => MutexOK(d, e)'
    BY <1>1, <2>2 DEF ProcInv, MutexOK, HoldsBigLock, HoldsNodeMutex
  <2>6. (nRef[p] = Cardinality(Referencing(p)))' /\ Fresh'
    BY <1>1, <2>2 DEF ProcInv, Referencing, Fresh
  <2>7. ProcInv(p)'
    BY <2>1, <2>3, <2>4, <2>5, <2>6 DEF ProcInv
  <2>8. \A q \in Process : KernelOK(p, q)' /\ KernelOK(q, p)'
    BY <1>1, <2>2 DEF IInv, KernelOK
  <2>9. LeavesOK(p) /\ RefusedOK(c)'
    BY <2>2, <2>6 DEF LeavesOK, RefusedOK
  <2> QED
    BY <1>3, <1>4, <2>7, <2>8, <2>9, StepInv
<1> QED
  BY <1>5, <1>6


(***************************************************************************)
(* The end of a connection, of a process and of all of them.               *)
(***************************************************************************)
(* While connections hold a node that is open, nobody is opening it; with  *)
(* the last of them between calls, nobody has the DMS byte exclusively.    *)
LEMMA LastRefFacts ==
  ASSUME IInv, NEW c \in Conn, pc[c] = "unref", LastRef(ProcOf[c])
  PROVE  /\ dms[ProcOf[c]] # "WRLCK"
         /\ \A d \in Conn : ProcOf[d] = ProcOf[c] /\ d # c => pc[d] = "idle" /\ d \notin pShm
<1> DEFINE p == ProcOf[c]
<1>1. p \in Process /\ NodeOK(p) /\ c \in Referencing(p)
  BY ProcOfType DEF IInv, ProcInv, Referencing
<1>2. node[p] = "ready" /\ \A d \in Referencing(p) : d = c
  BY <1>1, RefFacts DEF LastRef
<1>3. ASSUME NEW d \in Conn, ProcOf[d] = p, d # c PROVE pc[d] = "idle" /\ d \notin pShm
  <2>1. d \notin Referencing(p) /\ ~HoldsBigLock(d) /\ CallOK(d) /\ pc[d] \in Steps
    BY <1>1, <1>2, <1>3 DEF IInv, ProcInv, TypeOK, NodeOK
  <2> QED
    BY <1>3, <2>1 DEF Referencing, CallOK, HoldsBigLock, Steps
<1>4. dms[p] # "WRLCK"
  BY <1>1, <1>3 DEF NodeOK, WriteSteps
<1> QED
  BY <1>3, <1>4

LEMMA UnrefInv ==
  ASSUME IInv, NEW c \in Conn, Unref(c)
  PROVE  IInv'
<1> DEFINE p == ProcOf[c]
<1>1. /\ p \in Process /\ NodeOK(p) /\ CallOK(c) /\ ProcInv(p) /\ c \notin pShm /\ c \in Referencing(p)
      /\ pc[c] = "unref"
  BY ProcOfType DEF IInv, ProcInv, CallOK, Referencing, Unref
<1>2. nRef[p] \in Nat /\ nRef[p] > 0 /\ node[p] = "ready" /\ TypeOK
  BY <1>1, RefFacts DEF IInv, TypeOK, NodeOK
<1>3. /\ nRef' = [nRef EXCEPT ![p] = @ - 1] /\ pc' = [pc EXCEPT ![c] = "idle"]
      /\ iRegion' = [iRegion EXCEPT ![c] = 0] /\ UNCHANGED <<pFirst, pShm, sharedMask, exclMask>>
  BY DEF Unref, Goto, Enter, maskVars
<1>4. /\ nRef' \in [Process -> Nat] /\ nRef'[p] = nRef[p] - 1 /\ \A q \in Process \ {p} : nRef'[q] = nRef[q]
      /\ pc' \in [Conn -> Steps] /\ pc'[c] = "idle" /\ \A d \in Conn \ {c} : SameCall(d)
      /\ iRegion' \in [Conn -> Nat]
  BY <1>1, <1>2, <1>3 DEF TypeOK, Steps, SameCall
<1>5. CASE LastRef(p)
  <2>1. /\ Purge(p)
        /\ UNCHANGED fileVars \/ (CanDelete(p) /\ size' = Absent /\ trusted' = 1 /\ missed' = 0)
    BY <1>5 DEF Unref
  <2>2. size' \in Int /\ size' >= Absent /\ trusted' \in {0, 1} /\ missed' \in {0, 1} /\ FileKept
    BY <1>2, <2>1, Kept DEF TypeOK, Absent, FileKept, Fresh, fileVars
  <2>3. TypeOK'
    BY <1>2, <1>3, <1>4, <2>1, <2>2 DEF TypeOK, Purge, LockType
  <2>4. StepOf(c)
    BY <1>2, <1>4, <2>1 DEF TypeOK, StepOf, SameRow, Purge
  <2>5. ASSUME NEW d \in Conn, ProcOf[d] = p PROVE pc'[d] = "idle" /\ d \notin pShm'
    BY <1>1, <1>3, <1>4, <1>5, <2>5, LastRefFacts DEF SameCall
  <2>6. NoNode(p)'
    BY <1>1, <1>2, <1>4, <1>5, <2>1, <2>5 DEF TypeOK, NoNode, Purge, LastRef
  <2>7. \A q \in Process \ {p} : FileFits(q)
    <3>1. CASE UNCHANGED fileVars
      BY <1>2, <3>1, Longer DEF fileVars, TypeOK
    <3>2. CASE CanDelete(p)
      BY <1>2, <3>2 DEF CanDelete, IInv, ProcInv, NodeOK, Using, FileFits, TypeOK
    <3> QED
      BY <2>1, <3>1, <3>2
  <2>8. LeavesOK(p)
    BY <1>1, <1>5, LastRefFacts DEF LeavesOK
  <2> QED
    BY <2>2, <2>3, <2>4, <2>6, <2>7, <2>8, PurgeInv
<1>6. CASE ~LastRef(p)
  <2>1. UNCHANGED <<size, trusted, missed, dms, klock, node, isReadonly, isUnlocked, nRegion>>
    BY <1>6 DEF Unref, fileVars
  <2>2. TypeOK'
    BY <1>2, <1>3, <1>4, <2>1 DEF TypeOK
  <2>3. StepOf(c)
    BY <1>4, <2>1 DEF StepOf, SameRow
  <2>4. nRef'[p] > 0
    BY <1>2, <1>4, <1>6 DEF LastRef
  <2>5. (nRef[p] = Cardinality(Referencing(p)))'
    <3>1. Referencing(p)' = Referencing(p) \ {c}
      BY <1>1, <1>3, <1>4 DEF Referencing, SameCall
    <3>2. IsFiniteSet(Referencing(p)) /\ nRef[p] = Cardinality(Referencing(p))
      BY <1>1, RefFacts
    <3>3. Cardinality(Referencing(p) \ {c}) = Cardinality(Referencing(p)) - 1
      BY <1>1, <3>2, FS_RemoveElement
    <3> QED
      BY <1>4, <3>1, <3>2, <3>3
  <2>6. Using(p)' <=> Using(p)
    BY <2>1 DEF Using
  <2>7. ASSUME NEW d \in Conn, d # c
        PROVE  /\ HoldsBigLock(d)' <=> HoldsBigLock(d)
               /\ HoldsNodeMutex(d)' <=> HoldsNodeMutex(d)
               /\ pc'[d] \in WriteSteps <=> pc[d] \in WriteSteps
    BY <1>4, <2>7 DEF SameCall, HoldsBigLock, HoldsNodeMutex
  <2>8. ~HoldsBigLock(c)' /\ ~HoldsNodeMutex(c)' /\ ~HoldsBigLock(c) /\ pc[c] \notin WriteSteps
    BY <1>1, <1>4 DEF HoldsBigLock, HoldsNodeMutex, LockSteps, WriteSteps
  <2>9. NodeOK(p)'
    BY <1>1, <1>2, <2>1, <2>4, <2>6, <2>7, <2>8 DEF NodeOK
  <2>10. ASSUME NEW d \in Conn, ProcOf[d] = p PROVE CallOK(d)'
    <3>1. CASE d = c
      BY <1>4, <3>1 DEF CallOK, LockSteps, WriteSteps
    <3>2. CASE d # c
      <4>1. CallOK(d) /\ SameCall(d)
        BY <1>1, <1>4, <2>10, <3>2 DEF ProcInv
      <4> QED
        BY <2>1, <2>6, <2>10, <4>1 DEF CallOK, SameCall
    <3> QED
      BY <3>1, <3>2
  <2>11. \A d, e \in Conn : ProcOf[d] = p => MutexOK(d, e)'
    BY <1>1, <2>7, <2>8 DEF ProcInv, MutexOK
  <2>12. ProcInv(p)'
    BY <1>1, <2>1, <2>5, <2>6, <2>9, <2>10, <2>11 DEF ProcInv, Fresh
  <2>13. \A q \in Process : FileFits(q) /\ KernelOK(p, q)' /\ KernelOK(q, p)'
    BY <1>1, <1>2, <2>1, Longer DEF IInv, TypeOK, KernelOK
  <2>14. LeavesOK(p) /\ RefusedOK(c)' /\ FileKept
    BY <1>4, <2>1, Kept DEF LeavesOK, RefusedOK
  <2> QED
    BY <2>2, <2>3, <2>12, <2>13, <2>14, StepInv
<1> QED
  BY <1>5, <1>6

(* LeavesOK of each of those that die.                                     *)
Remembered(procs) ==
  FileKept /\ size' = size /\ \A p \in procs : dms[p] = "WRLCK" => Fresh' \/ ~Refused

LEMMA DieInv ==
  ASSUME IInv, NEW procs \in SUBSET Process, Die(procs), size' \in Int, size' >= Absent,
         trusted' \in {0, 1}, missed' \in {0, 1},
         Remembered(procs) \/ procs = Process
  PROVE  IInv'
<1> USE DEF Die
<1>1. TypeOK'
  BY DEF IInv, TypeOK, Steps, LockType
<1>2. ASSUME NEW q \in Process, q \in procs PROVE ProcInv(q)' /\ dms'[q] = "UNLCK"
  <2>1. NoNode(q)'
    BY <1>2 DEF NoNode
  <2> QED
    BY <2>1, NoNodeInv DEF NoNode
<1>3. ASSUME NEW q \in Process, q \notin procs PROVE ProcInv(q)' /\ dms'[q] = dms[q]
  <2>1. Same(q) /\ dms'[q] = dms[q]
    BY <1>3 DEF Same, SameRow, SameCall
  <2>2. Remembered(procs)
    BY <1>3
  <2>3. FileFits(q) /\ FileKept
    BY <2>2, Longer DEF Remembered, IInv, TypeOK
  <2> QED
    BY <1>1, <2>1, <2>3, OthersKept
<1>4. ASSUME NEW q \in Process, NEW r \in Process PROVE KernelOK(q, r)'
  <2>1. CASE q \in procs \/ r \in procs
    BY <1>2, <2>1 DEF KernelOK
  <2>2. CASE q \notin procs /\ r \notin procs
    BY <1>3, <2>2 DEF IInv, KernelOK
  <2> QED
    BY <2>1, <2>2
<1>5. ASSUME NEW d \in Conn PROVE RefusedOK(d)'
  <2>1. SUFFICES ASSUME pc'[d] = "refused", ~Fresh' PROVE WriteLocked(ProcOf[d])'
    BY DEF RefusedOK
  <2>2. ProcOf[d] \in Process \ procs /\ pc[d] = "refused"
    BY <2>1, ProcOfType
  <2>3. Remembered(procs) /\ ~Fresh /\ Refused
    BY <2>1, <2>2 DEF Remembered, FileKept, Refused
  <2>4. PICK q \in Process \ {ProcOf[d]} : dms[q] = "WRLCK"
    BY <2>2, <2>3 DEF IInv, RefusedOK, WriteLocked
  <2>5. q \notin procs
    BY <2>1, <2>3, <2>4 DEF Remembered
  <2>6. dms'[q] = "WRLCK"
    BY <1>3, <2>4, <2>5
  <2> QED
    BY <2>6 DEF WriteLocked
<1> QED
  BY <1>1, <1>2, <1>3, <1>4, <1>5 DEF IInv

LEMMA CrashInv ==
  ASSUME IInv, NEW p \in Process, Crash(p)
  PROVE  IInv'
<1>1. /\ UNCHANGED <<size, trusted>> /\ Die({p}) /\ TypeOK
      /\ IF dms[p] = "WRLCK" THEN LeaveUntruncated ELSE UNCHANGED missed
  BY DEF Crash, IInv
<1>2. FileKept /\ (dms[p] = "WRLCK" => Fresh' \/ ~Refused) /\ missed' \in {0, 1}
  <2>1. CASE dms[p] = "WRLCK"
    BY <1>1, <2>1, Recorded
  <2>2. CASE dms[p] # "WRLCK"
    BY <1>1, <2>2, Kept DEF TypeOK
  <2> QED
    BY <2>1, <2>2
<1>3. Remembered({p})
  BY <1>1, <1>2 DEF Remembered
<1>4. size' \in Int /\ size' >= Absent /\ trusted' \in {0, 1}
  BY <1>1 DEF TypeOK
<1> QED
  BY <1>1, <1>2, <1>3, <1>4, DieInv

LEMMA PowerFailureInv ==
  ASSUME IInv, PowerFailure
  PROVE  IInv'
<1>1. size' \in Int /\ size' >= Absent /\ trusted' \in {0, 1} /\ missed' \in {0, 1}
  BY DEF PowerFailure, Absent, IInv, TypeOK
<1> QED
  BY <1>1, DieInv DEF PowerFailure

(***************************************************************************)
(* The theorems about the file and the node.                               *)
(***************************************************************************)
LEMMA NextInv == IInv /\ [Next]_vars => IInv'
<1> SUFFICES ASSUME IInv, [Next]_vars PROVE IInv'
  OBVIOUS
<1>1. ASSUME NEW c \in Conn,
             \/ \E region \in Regions : Open(c, region) \/ ShmMap(c, region)
             \/ WrLock(c) \/ Truncate(c) \/ DropWriteLock(c) \/ Abandon(c) \/ RdLock(c)
             \/ Link(c) \/ Size(c) \/ Extend(c) \/ Mmap(c)
             \/ Unmap(c) \/ Unref(c)
      PROVE  IInv'
  BY <1>1, ShmMapInv, OpenInv, WrLockInv, TruncateInv, DropWriteLockInv, AbandonInv, RdLockInv, LinkInv,
     SizeInv, ExtendInv, MmapInv, UnmapInv, UnrefInv
<1>2. ASSUME NEW c \in Conn,
             \/ \E s \in Slot : LockShared(c, s)
             \/ \E slots \in Ranges : LockExclusive(c, slots) \/ Unlock(c, slots)
      PROVE  IInv'
  BY <1>2, LockSharedInv, LockExclusiveInv, UnlockInv
<1>3. ASSUME NEW p \in Process, Crash(p) PROVE IInv'
  BY <1>3, CrashInv
<1>4. CASE PowerFailure
  BY <1>4, PowerFailureInv
<1>5. CASE UNCHANGED vars
  <2> USE <1>5 DEF vars, fileVars, nodeVars, maskVars
  <2>1. TypeOK'
    BY DEF IInv, TypeOK
  <2>2. \A q \in Process : Same(q)
    BY DEF Same, SameRow, SameCall
  <2>3. FileKept /\ \A q \in Process : FileFits(q)
    BY Kept, Longer DEF IInv, TypeOK
  <2>4. \A q \in Process : ProcInv(q)'
    BY <2>1, <2>2, <2>3, OthersKept
  <2>5. (\A p, q \in Process : KernelOK(p, q)') /\ \A c \in Conn : RefusedOK(c)'
    BY DEF IInv, KernelOK, RefusedOK, Fresh, WriteLocked
  <2> QED
    BY <2>1, <2>4, <2>5 DEF IInv
<1> QED
  BY <1>1, <1>2, <1>3, <1>4, <1>5 DEF Next

(* In every reachable state the nodes, the calls that work on them, the    *)
(* mutexes and the locks on the DMS byte agree with each other.            *)
THEOREM Invariant == Spec => []IInv
  BY InitInv, NextInv, PTL DEF Spec

(* The variables keep their types.                                         *)
THEOREM TypeCorrect == Spec => []TypeOK
<1>1. IInv => TypeOK
  BY DEF IInv
<1> QED
  BY <1>1, Invariant, PTL

(* winLockSharedMemory: whoever uses the file has it from a process that   *)
(* truncated it after the last power failure, or was refused the DMS byte  *)
(* by one that then left it as it was; and it is cut when nobody uses it.  *)
THEOREM TruncatedFirst == Spec => []FirstTruncates
<1>1. IInv => FirstTruncates
  <2> SUFFICES ASSUME IInv PROVE FirstTruncates
    OBVIOUS
  <2>1. ASSUME NEW p \in Process PROVE Using(p) => trusted = 1 \/ missed = 1
    BY DEF IInv, ProcInv, Fresh
  <2>2. ASSUME NEW c \in Conn, pc[c] \in {"truncate", "unlock"}, NEW p \in Process PROVE ~Using(p)
    BY <2>2, WriterAlone DEF WriteSteps
  <2> QED
    BY <2>1, <2>2 DEF FirstTruncates
<1> QED
  BY <1>1, Invariant, PTL

(* winShmMap, winOpenSharedMemory, winShmUnmap: what is mapped lies inside *)
(* the file, nRef counts the connections that may touch the node, and the  *)
(* node is there exactly as long as that is not zero.                      *)
THEOREM AlwaysSafe == Spec => []MappingsSafe
<1>1. IInv => MappingsSafe
  BY DEF IInv, ProcInv, NodeOK, MappingsSafe
<1> QED
  BY <1>1, Invariant, PTL


(***************************************************************************)
(* The slots: only connections on the list of a node hold any, the locks   *)
(* of a process in the kernel do not overlap and are those that its        *)
(* connections believe in, and nobody shares what another one owns.        *)
(***************************************************************************)
Listed ==
  /\ pFirst \subseteq pShm
  /\ \A c \in Conn : c \notin pFirst => sharedMask[c] = {} /\ exclMask[c] = {}

NoOverlap(p) ==
  \A l, m \in klock[p] : l.slots # {} /\ (l = m \/ l.slots \cap m.slots = {})

KernelHas(p, s, type) == \E l \in klock[p] : l.type = type /\ s \in l.slots
Has(p, mask, s) == \E c \in Conn : ProcOf[c] = p /\ s \in mask[c]

Matches(p) ==
  \A s \in Slot : /\ KernelHas(p, s, "RDLCK") <=> Has(p, sharedMask, s)
                  /\ KernelHas(p, s, "WRLCK") <=> Has(p, exclMask, s)

MasksOK(c, d) ==
  /\ sharedMask[c] \cap exclMask[d] = {}
  /\ c # d => exclMask[c] \cap exclMask[d] = {}

SlotInv ==
  /\ Listed
  /\ \A p \in Process : NoOverlap(p) /\ Matches(p)
  /\ \A c, d \in Conn : MasksOK(c, d)

LEMMA InitSlots == Init => SlotInv
  BY ProcOfType DEF Init, SlotInv, Listed, NoOverlap, KernelHas, Has, Matches, MasksOK

(***************************************************************************)
(* What a connection believes it holds, the kernel has, and the kernel     *)
(* grants nothing that another process holds.                              *)
(***************************************************************************)
LEMMA GrantedFree ==
  ASSUME TypeOK, SlotInv, NEW slots \in SUBSET Slot, NEW type \in {"RDLCK", "WRLCK"}, Grantable(slots, type)
  PROVE  /\ \A d \in Conn : exclMask[d] \cap slots = {}
         /\ type = "WRLCK" => \A d \in Conn : sharedMask[d] \cap slots = {}
<1>1. ASSUME NEW d \in Conn, NEW s \in slots, s \in exclMask[d] PROVE FALSE
  <2>1. ProcOf[d] \in Process /\ Has(ProcOf[d], exclMask, s)
    BY <1>1, ProcOfType DEF Has
  <2>2. KernelHas(ProcOf[d], s, "WRLCK")
    BY <1>1, <2>1 DEF SlotInv, Matches
  <2> QED
    BY <1>1, <2>1, <2>2 DEF KernelHas, Grantable
<1>2. ASSUME type = "WRLCK", NEW d \in Conn, NEW s \in slots, s \in sharedMask[d] PROVE FALSE
  <2>1. ProcOf[d] \in Process /\ Has(ProcOf[d], sharedMask, s)
    BY <1>2, ProcOfType DEF Has
  <2>2. KernelHas(ProcOf[d], s, "RDLCK")
    BY <1>2, <2>1 DEF SlotInv, Matches
  <2> QED
    BY <1>2, <2>1, <2>2 DEF KernelHas, Grantable
<1> QED
  BY <1>1, <1>2

LEMMA SharedFree ==
  ASSUME TypeOK, SlotInv, NEW c \in Conn, NEW s \in Slot, LockShared(c, s)
  PROVE  \A d \in Conn : s \notin exclMask[d]
<1> SUFFICES ASSUME NEW d \in Conn, s \in exclMask[d] PROVE FALSE
  OBVIOUS
<1>1. CASE \E e \in Siblings(c) : s \in sharedMask[e]
  <2>1. PICK e \in Siblings(c) : s \in sharedMask[e]
    BY <1>1
  <2>2. e \in Conn
    BY DEF Siblings, TypeOK
  <2> QED
    BY <2>1, <2>2 DEF SlotInv, MasksOK
<1>2. CASE SystemLock(ProcOf[c], {s}, "RDLCK")
  BY <1>2, GrantedFree DEF SystemLock
<1> QED
  BY <1>1, <1>2 DEF LockShared

LEMMA LockSharedSlots ==
  ASSUME TypeOK, SlotInv, NEW c \in Conn, NEW s \in Slot, LockShared(c, s)
  PROVE  SlotInv'
<1> DEFINE p == ProcOf[c]
<1>1. /\ p \in Process /\ c \in pFirst /\ exclMask' = exclMask /\ UNCHANGED <<pFirst, pShm>>
      /\ sharedMask' = [sharedMask EXCEPT ![c] = @ \cup {s}]
  BY ProcOfType DEF LockShared, lockUnchanged, nodeVars, CanLock
<1>2. sharedMask'[c] = sharedMask[c] \cup {s} /\ \A d \in Conn \ {c} : sharedMask'[d] = sharedMask[d]
  BY <1>1 DEF TypeOK
<1>3. Listed'
  BY <1>1, <1>2 DEF SlotInv, Listed
<1>4. ASSUME NEW d \in Conn, NEW e \in Conn PROVE MasksOK(d, e)'
  <2>1. MasksOK(d, e) /\ s \notin exclMask[e]
    BY SharedFree DEF SlotInv
  <2>2. CASE d = c
    BY <1>1, <1>2, <2>1, <2>2 DEF MasksOK
  <2>3. CASE d # c
    BY <1>1, <1>2, <2>1, <2>3 DEF MasksOK
  <2> QED
    BY <2>2, <2>3
<1>5. ASSUME NEW q \in Process, NEW t \in Slot
      PROVE  Has(q, sharedMask', t) <=> Has(q, sharedMask, t) \/ (q = p /\ t = s)
  <2>1. CASE q = p /\ t = s
    BY <1>2, <2>1 DEF Has
  <2>2. CASE ~(q = p /\ t = s)
    BY <1>2, <2>2 DEF Has
  <2> QED
    BY <2>1, <2>2
<1>6. CASE (\E d \in Siblings(c) : s \in sharedMask[d]) /\ klock' = klock
  <2>1. Has(p, sharedMask, s)
    BY <1>6 DEF Has, Siblings, TypeOK
  <2>2. ASSUME NEW q \in Process PROVE NoOverlap(q)' /\ Matches(q)'
    <3>1. NoOverlap(q) /\ Matches(q)
      BY DEF SlotInv
    <3>2. NoOverlap(q)'
      BY <1>6, <3>1 DEF NoOverlap
    <3>3. ASSUME NEW t \in Slot PROVE Has(q, sharedMask', t) <=> Has(q, sharedMask, t)
      BY <1>5, <2>1
    <3> QED
      BY <1>1, <1>6, <3>1, <3>2, <3>3 DEF Matches, KernelHas, Has
  <2> QED
    BY <1>3, <1>4, <2>2 DEF SlotInv
<1>7. CASE ~(\E d \in Siblings(c) : s \in sharedMask[d]) /\ SystemLock(p, {s}, "RDLCK")
  <2> DEFINE new == [slots |-> {s}, type |-> "RDLCK"]
  <2>1. klock'[p] = klock[p] \cup {new} /\ \A q \in Process \ {p} : klock'[q] = klock[q]
    BY <1>1, <1>7 DEF SystemLock, TypeOK
  <2>2. new.slots = {s} /\ new.type = "RDLCK"
    OBVIOUS
  <2> HIDE DEF new
  <2>3. ASSUME NEW l \in klock[p] PROVE s \notin l.slots
    <3>1. SUFFICES ASSUME s \in l.slots PROVE FALSE
      OBVIOUS
    <3>2. l.type = "RDLCK"
      BY <1>1, <1>7, <3>1 DEF SystemLock, Grantable
    <3>3. Has(p, sharedMask, s)
      BY <1>1, <3>1, <3>2 DEF SlotInv, Matches, KernelHas
    <3>4. PICK d \in Conn : ProcOf[d] = p /\ s \in sharedMask[d]
      BY <3>3 DEF Has
    <3>5. d \in Siblings(c)
      BY <3>4 DEF Siblings, SlotInv, Listed
    <3> QED
      BY <1>7, <3>4, <3>5
  <2>4. NoOverlap(p)'
    <3>1. NoOverlap(p)
      BY <1>1 DEF SlotInv
    <3> QED
      BY <2>1, <2>2, <2>3, <3>1 DEF NoOverlap
  <2>5. ASSUME NEW t \in Slot
        PROVE  /\ KernelHas(p, t, "RDLCK")' <=> KernelHas(p, t, "RDLCK") \/ t = s
               /\ KernelHas(p, t, "WRLCK")' <=> KernelHas(p, t, "WRLCK")
    BY <2>1, <2>2 DEF KernelHas
  <2>6. Matches(p)'
    <3>1. Matches(p)
      BY <1>1 DEF SlotInv
    <3> QED
      BY <1>1, <1>5, <2>5, <3>1 DEF Matches, Has
  <2>7. ASSUME NEW q \in Process, q # p PROVE NoOverlap(q)' /\ Matches(q)'
    <3>1. NoOverlap(q) /\ Matches(q) /\ klock'[q] = klock[q]
      BY <2>1, <2>7 DEF SlotInv
    <3>2. NoOverlap(q)'
      BY <3>1 DEF NoOverlap
    <3> QED
      BY <1>1, <1>5, <2>7, <3>1, <3>2 DEF Matches, KernelHas, Has
  <2> QED
    BY <1>3, <1>4, <2>4, <2>6, <2>7 DEF SlotInv
<1> QED
  BY <1>6, <1>7 DEF LockShared

LEMMA RangeSlots ==
  ASSUME NEW slots \in Ranges
  PROVE  slots \in SUBSET Slot /\ slots # {}
  BY WinShmAssumption DEF Ranges, Slot

LEMMA LockExclusiveSlots ==
  ASSUME TypeOK, SlotInv, NEW c \in Conn, NEW slots \in Ranges, LockExclusive(c, slots)
  PROVE  SlotInv'
<1> DEFINE p == ProcOf[c]
<1>1. /\ p \in Process /\ c \in pFirst /\ sharedMask' = sharedMask /\ UNCHANGED <<pFirst, pShm>>
      /\ exclMask' = [exclMask EXCEPT ![c] = @ \cup slots] /\ slots \in SUBSET Slot /\ slots # {}
      /\ Grantable(slots, "WRLCK")
  BY ProcOfType, RangeSlots DEF LockExclusive, lockUnchanged, nodeVars, CanLock, SystemLock
<1>2. exclMask'[c] = exclMask[c] \cup slots /\ \A d \in Conn \ {c} : exclMask'[d] = exclMask[d]
  BY <1>1 DEF TypeOK
<1>3. Listed'
  BY <1>1, <1>2 DEF SlotInv, Listed
<1>4. ASSUME NEW d \in Conn, NEW e \in Conn PROVE MasksOK(d, e)'
  <2>1. MasksOK(d, e) /\ sharedMask[d] \cap slots = {} /\ exclMask[d] \cap slots = {} /\ exclMask[e] \cap slots = {}
    BY <1>1, GrantedFree DEF SlotInv
  <2>2. CASE d = c /\ e = c
    BY <1>1, <1>2, <2>1, <2>2 DEF MasksOK
  <2>3. CASE d = c /\ e # c
    BY <1>1, <1>2, <2>1, <2>3 DEF MasksOK
  <2>4. CASE d # c /\ e = c
    BY <1>1, <1>2, <2>1, <2>4 DEF MasksOK
  <2>5. CASE d # c /\ e # c
    BY <1>1, <1>2, <2>1, <2>5 DEF MasksOK
  <2> QED
    BY <2>2, <2>3, <2>4, <2>5
<1>5. ASSUME NEW q \in Process, NEW t \in Slot
      PROVE  Has(q, exclMask', t) <=> Has(q, exclMask, t) \/ (q = p /\ t \in slots)
  <2>1. CASE q = p /\ t \in slots
    BY <1>2, <2>1 DEF Has
  <2>2. CASE ~(q = p /\ t \in slots)
    BY <1>2, <2>2 DEF Has
  <2> QED
    BY <2>1, <2>2
<1> DEFINE new == [slots |-> slots, type |-> "WRLCK"]
<1>6. klock'[p] = klock[p] \cup {new} /\ \A q \in Process \ {p} : klock'[q] = klock[q]
  BY <1>1 DEF LockExclusive, SystemLock, TypeOK
<1>7. new.slots = slots /\ new.type = "WRLCK"
  OBVIOUS
<1> HIDE DEF new
<1>8. ASSUME NEW l \in klock[p] PROVE slots \cap l.slots = {}
  BY <1>1 DEF Grantable
<1>9. NoOverlap(p)'
  <2>1. NoOverlap(p)
    BY <1>1 DEF SlotInv
  <2> QED
    BY <1>1, <1>6, <1>7, <1>8, <2>1 DEF NoOverlap
<1>10. ASSUME NEW t \in Slot
       PROVE  /\ KernelHas(p, t, "WRLCK")' <=> KernelHas(p, t, "WRLCK") \/ t \in slots
              /\ KernelHas(p, t, "RDLCK")' <=> KernelHas(p, t, "RDLCK")
  BY <1>6, <1>7 DEF KernelHas
<1>11. Matches(p)'
  <2>1. Matches(p)
    BY <1>1 DEF SlotInv
  <2> QED
    BY <1>1, <1>5, <1>10, <2>1 DEF Matches, Has
<1>12. ASSUME NEW q \in Process, q # p PROVE NoOverlap(q)' /\ Matches(q)'
  <2>1. NoOverlap(q) /\ Matches(q) /\ klock'[q] = klock[q]
    BY <1>6, <1>12 DEF SlotInv
  <2>2. NoOverlap(q)'
    BY <2>1 DEF NoOverlap
  <2> QED
    BY <1>1, <1>5, <1>12, <2>1, <2>2 DEF Matches, KernelHas, Has
<1> QED
  BY <1>3, <1>4, <1>9, <1>11, <1>12 DEF SlotInv


(* The range that is unlocked is one shared slot or owned as a whole, and  *)
(* the lock of that range is of this kind.                                 *)
LEMMA UnlockCases ==
  ASSUME TypeOK, SlotInv, NEW c \in Conn, NEW slots \in Ranges, Unlock(c, slots)
  PROVE  /\ slots \in SUBSET Slot
         /\ \/ slots \subseteq exclMask[c] /\ sharedMask[c] \cap slots = {} /\ NoSiblingShares(c, slots)
            \/ slots \subseteq sharedMask[c] /\ exclMask[c] \cap slots = {} /\ \E s \in Slot : slots = {s}
<1>1. slots \in SUBSET Slot /\ c \in pFirst
  BY RangeSlots DEF Unlock, CanLock
<1>2. \A d \in Conn : MasksOK(d, c)
  BY DEF SlotInv
<1>3. CASE slots \subseteq exclMask[c]
  <2>1. \A d \in Conn : sharedMask[d] \cap slots = {}
    BY <1>2, <1>3 DEF MasksOK
  <2> QED
    BY <1>1, <1>3, <2>1 DEF NoSiblingShares, Siblings, TypeOK
<1>4. CASE \E s \in sharedMask[c] : slots = {s}
  BY <1>1, <1>2, <1>4 DEF MasksOK
<1> QED
  BY <1>1, <1>3, <1>4 DEF Unlock

LEMMA UnlockFacts ==
  ASSUME TypeOK, SlotInv, NEW c \in Conn, NEW slots \in Ranges, Unlock(c, slots)
  PROVE  /\ exclMask'[c] = exclMask[c] \ slots /\ \A d \in Conn \ {c} : exclMask'[d] = exclMask[d]
         /\ sharedMask'[c] = sharedMask[c] \ slots /\ \A d \in Conn \ {c} : sharedMask'[d] = sharedMask[d]
         /\ UNCHANGED <<pFirst, pShm>>
         /\ IF NoSiblingShares(c, slots) THEN SystemUnlock(ProcOf[c], slots) ELSE UNCHANGED klock
  BY DEF Unlock, lockUnchanged, nodeVars, TypeOK

LEMMA UnlockSlots ==
  ASSUME TypeOK, SlotInv, NEW c \in Conn, NEW slots \in Ranges, Unlock(c, slots)
  PROVE  SlotInv'
<1> DEFINE p == ProcOf[c]
<1>1. p \in Process /\ NoOverlap(p) /\ Matches(p) /\ slots # {} /\ slots \in SUBSET Slot
  BY ProcOfType, RangeSlots DEF SlotInv
<1>2. Listed'
  BY UnlockFacts DEF SlotInv, Listed
<1>3. ASSUME NEW d \in Conn, NEW e \in Conn PROVE MasksOK(d, e)'
  <2>1. /\ sharedMask'[d] \subseteq sharedMask[d] /\ exclMask'[d] \subseteq exclMask[d]
        /\ exclMask'[e] \subseteq exclMask[e] /\ MasksOK(d, e)
    BY UnlockFacts DEF SlotInv
  <2> QED
    BY <2>1 DEF MasksOK
<1>4. ASSUME NEW q \in Process, q # p PROVE NoOverlap(q)' /\ Matches(q)'
  <2>1. klock'[q] = klock[q]
    <3>1. CASE UNCHANGED klock
      BY <3>1
    <3>2. CASE SystemUnlock(p, slots)
      <4>1. PICK l : klock' = [klock EXCEPT ![p] = @ \ {l}]
        BY <3>2 DEF SystemUnlock
      <4> QED
        BY <1>4, <4>1 DEF TypeOK
    <3> QED
      BY <3>1, <3>2, UnlockFacts
  <2>2. \A d \in Conn : ProcOf[d] = q => sharedMask'[d] = sharedMask[d] /\ exclMask'[d] = exclMask[d]
    BY <1>4, UnlockFacts
  <2>3. NoOverlap(q) /\ Matches(q)
    BY DEF SlotInv
  <2>4. NoOverlap(q)'
    BY <2>1, <2>3 DEF NoOverlap
  <2>5. \A t \in Slot : /\ Has(q, sharedMask, t)' <=> Has(q, sharedMask, t)
                        /\ Has(q, exclMask, t)' <=> Has(q, exclMask, t)
    BY <2>2 DEF Has
  <2> QED
    BY <2>1, <2>3, <2>4, <2>5 DEF Matches, KernelHas
<1>5. CASE ~NoSiblingShares(c, slots)
  <2>1. PICK s \in Slot : slots = {s} /\ s \in sharedMask[c] /\ s \notin exclMask[c]
    BY <1>5, UnlockCases
  <2>2. PICK d \in Siblings(c) \ {c} : s \in sharedMask[d]
    BY <1>5, <2>1 DEF NoSiblingShares
  <2>3. d \in Conn /\ d # c /\ ProcOf[d] = p
    BY <2>2 DEF Siblings, TypeOK
  <2>4. klock' = klock /\ exclMask'[c] = exclMask[c] /\ s \in sharedMask'[d]
    <3>1. exclMask[c] \ slots = exclMask[c]
      BY <2>1
    <3>2. exclMask'[c] = exclMask[c] \ slots /\ sharedMask'[d] = sharedMask[d] /\ klock' = klock
      BY <1>5, <2>3, UnlockFacts
    <3> QED
      BY <2>2, <3>1, <3>2
  <2>5. NoOverlap(p)'
    BY <1>1, <2>4 DEF NoOverlap
  <2>6. ASSUME NEW t \in Slot
        PROVE  /\ Has(p, sharedMask, t)' <=> Has(p, sharedMask, t)
               /\ Has(p, exclMask, t)' <=> Has(p, exclMask, t)
    <3>1. Has(p, exclMask, t)' <=> Has(p, exclMask, t)
      BY <2>4, UnlockFacts DEF Has
    <3>2. CASE t = s
      BY <2>1, <2>3, <2>4, <3>1, <3>2 DEF Has
    <3>3. CASE t # s
      <4>1. \A e \in Conn : t \in sharedMask'[e] <=> t \in sharedMask[e]
        BY <2>1, <3>3, UnlockFacts
      <4> QED
        BY <3>1, <4>1 DEF Has
    <3> QED
      BY <3>2, <3>3
  <2>7. Matches(p)'
    BY <1>1, <2>4, <2>6 DEF Matches, KernelHas
  <2> QED
    BY <1>2, <1>3, <1>4, <2>5, <2>7 DEF SlotInv
<1>6. CASE NoSiblingShares(c, slots)
  <2>1. PICK l \in klock[p] : l.slots = slots /\ klock' = [klock EXCEPT ![p] = @ \ {l}]
    BY <1>6, UnlockFacts DEF SystemUnlock
  <2>2. klock'[p] = klock[p] \ {l}
    BY <1>1, <2>1 DEF TypeOK
  <2>3. NoOverlap(p)'
    BY <1>1, <2>2 DEF NoOverlap
  <2>4. ASSUME NEW t \in Slot, NEW type
        PROVE  KernelHas(p, t, type)' <=> KernelHas(p, t, type) /\ t \notin slots
    <3>1. \A m \in klock[p] : m # l => m.slots \cap slots = {}
      BY <1>1, <2>1 DEF NoOverlap
    <3>2. \A m \in klock[p] : t \in m.slots /\ t \in slots => m = l
      BY <3>1
    <3>3. CASE t \in slots
      BY <2>2, <3>2, <3>3 DEF KernelHas
    <3>4. CASE t \notin slots
      BY <2>1, <2>2, <3>4 DEF KernelHas
    <3> QED
      BY <3>3, <3>4
  <2>5. ASSUME NEW t \in Slot, t \in slots PROVE ~Has(p, sharedMask, t)' /\ ~Has(p, exclMask, t)'
    <3>1. ASSUME NEW d \in Conn, ProcOf[d] = p PROVE t \notin sharedMask'[d] /\ t \notin exclMask'[d]
      <4>1. CASE d = c
        BY <2>5, <4>1, UnlockFacts
      <4>2. CASE d # c
        <5>1. sharedMask'[d] = sharedMask[d] /\ exclMask'[d] = exclMask[d] /\ MasksOK(d, c) /\ MasksOK(c, d)
          BY <4>2, UnlockFacts DEF SlotInv
        <5>2. t \notin sharedMask[d]
          <6>1. CASE d \in pFirst
            BY <1>6, <2>5, <3>1, <4>2, <6>1 DEF NoSiblingShares, Siblings
          <6>2. CASE d \notin pFirst
            BY <6>2 DEF SlotInv, Listed
          <6> QED
            BY <6>1, <6>2
        <5>3. t \notin exclMask[d]
          <6>1. t \in exclMask[c] \/ t \in sharedMask[c]
            BY <2>5, UnlockCases
          <6> QED
            BY <4>2, <5>1, <6>1 DEF MasksOK
        <5> QED
          BY <5>1, <5>2, <5>3
      <4> QED
        BY <4>1, <4>2
    <3> QED
      BY <3>1 DEF Has
  <2>6. ASSUME NEW t \in Slot, t \notin slots
        PROVE  /\ Has(p, sharedMask, t)' <=> Has(p, sharedMask, t)
               /\ Has(p, exclMask, t)' <=> Has(p, exclMask, t)
    <3>1. \A e \in Conn : /\ t \in sharedMask'[e] <=> t \in sharedMask[e]
                          /\ t \in exclMask'[e] <=> t \in exclMask[e]
      BY <2>6, UnlockFacts
    <3> QED
      BY <3>1 DEF Has
  <2>7. Matches(p)'
    <3>1. ASSUME NEW t \in Slot
          PROVE /\ (KernelHas(p, t, "RDLCK") <=> Has(p, sharedMask, t))'
                /\ (KernelHas(p, t, "WRLCK") <=> Has(p, exclMask, t))'
      <4>1. CASE t \in slots
        BY <2>4, <2>5, <4>1
      <4>2. CASE t \notin slots
        BY <1>1, <2>4, <2>6, <4>2 DEF Matches
      <4> QED
        BY <4>1, <4>2
    <3> QED
      BY <3>1 DEF Matches
  <2> QED
    BY <1>2, <1>3, <1>4, <2>3, <2>7 DEF SlotInv
<1> QED
  BY <1>5, <1>6

(***************************************************************************)
(* Everything else leaves the slots alone, or takes those of whole         *)
(* processes.                                                              *)
(***************************************************************************)
LEMMA MasksKept ==
  ASSUME SlotInv, UNCHANGED <<sharedMask, exclMask>>, Listed',
         \A p \in Process :
           \/ klock'[p] = klock[p]
           \/ klock'[p] = {} /\ \A c \in Conn : ProcOf[c] = p => c \notin pShm
  PROVE  SlotInv'
<1>1. ASSUME NEW p \in Process PROVE NoOverlap(p)' /\ Matches(p)'
  <2>1. NoOverlap(p) /\ Matches(p)
    BY DEF SlotInv
  <2>2. CASE klock'[p] = klock[p]
    <3>1. NoOverlap(p)'
      BY <2>1, <2>2 DEF NoOverlap
    <3> QED
      BY <2>1, <2>2, <3>1 DEF Matches, KernelHas, Has
  <2>3. CASE klock'[p] = {} /\ \A c \in Conn : ProcOf[c] = p => c \notin pShm
    <3>1. \A c \in Conn : ProcOf[c] = p => sharedMask[c] = {} /\ exclMask[c] = {}
      BY <2>3 DEF SlotInv, Listed
    <3>2. \A t \in Slot : ~Has(p, sharedMask, t)' /\ ~Has(p, exclMask, t)'
      BY <3>1 DEF Has
    <3> QED
      BY <2>3, <3>2 DEF Matches, KernelHas, NoOverlap
  <2> QED
    BY <2>2, <2>3
<1>2. \A c, d \in Conn : MasksOK(c, d)'
  BY DEF SlotInv, MasksOK
<1> QED
  BY <1>1, <1>2 DEF SlotInv

LEMMA DieSlots ==
  ASSUME TypeOK, SlotInv, NEW procs \in SUBSET Process, Die(procs)
  PROVE  SlotInv'
<1> USE DEF Die
<1>1. ASSUME NEW c \in Conn
      PROVE  IF ProcOf[c] \in procs THEN sharedMask'[c] = {} /\ exclMask'[c] = {}
             ELSE sharedMask'[c] = sharedMask[c] /\ exclMask'[c] = exclMask[c]
  OBVIOUS
<1>2. Listed'
  BY <1>1 DEF SlotInv, Listed, TypeOK
<1>3. ASSUME NEW p \in Process PROVE IF p \in procs THEN klock'[p] = {} ELSE klock'[p] = klock[p]
  OBVIOUS
<1> HIDE DEF Die
<1>4. ASSUME NEW p \in Process PROVE NoOverlap(p)' /\ Matches(p)'
  <2>1. NoOverlap(p) /\ Matches(p)
    BY DEF SlotInv
  <2>2. CASE p \in procs
    <3>1. klock'[p] = {} /\ \A c \in Conn : ProcOf[c] = p => sharedMask'[c] = {} /\ exclMask'[c] = {}
      BY <1>1, <1>3, <2>2
    <3>2. \A t \in Slot : ~Has(p, sharedMask, t)' /\ ~Has(p, exclMask, t)'
      BY <3>1 DEF Has
    <3> QED
      BY <3>1, <3>2 DEF Matches, KernelHas, NoOverlap
  <2>3. CASE p \notin procs
    <3>1. klock'[p] = klock[p]
      BY <1>3, <2>3
    <3>2. \A c \in Conn : ProcOf[c] = p => sharedMask'[c] = sharedMask[c] /\ exclMask'[c] = exclMask[c]
      BY <1>1, <2>3
    <3>3. \A t \in Slot : /\ Has(p, sharedMask, t)' <=> Has(p, sharedMask, t)
                          /\ Has(p, exclMask, t)' <=> Has(p, exclMask, t)
      BY <3>2 DEF Has
    <3>4. NoOverlap(p)'
      BY <2>1, <3>1 DEF NoOverlap
    <3> QED
      BY <2>1, <3>1, <3>3, <3>4 DEF Matches, KernelHas
  <2> QED
    BY <2>2, <2>3
<1>5. ASSUME NEW c \in Conn, NEW d \in Conn PROVE MasksOK(c, d)'
  <2>1. /\ sharedMask'[c] \subseteq sharedMask[c] /\ exclMask'[c] \subseteq exclMask[c]
        /\ exclMask'[d] \subseteq exclMask[d] /\ MasksOK(c, d)
    BY <1>1 DEF SlotInv
  <2> QED
    BY <2>1 DEF MasksOK
<1> QED
  BY <1>2, <1>4, <1>5 DEF SlotInv


(* A node is purged when no connection is left on it.                      *)
LEMMA PurgedUnused ==
  ASSUME IInv, NEW c \in Conn,
         \/ Fail(c) /\ pc[c] \in LockSteps /\ c \notin pShm
         \/ pc[c] = "unref" /\ LastRef(ProcOf[c])
  PROVE  \A d \in Conn : ProcOf[d] = ProcOf[c] => d \notin pShm
<1>1. CASE pc[c] \in LockSteps /\ c \notin pShm
  BY <1>1, BigLockHolder DEF HoldsBigLock
<1>2. CASE pc[c] = "unref" /\ LastRef(ProcOf[c])
  <2>1. c \notin pShm
    BY <1>2, ProcOfType DEF IInv, ProcInv, CallOK
  <2> QED
    BY <1>2, <2>1, LastRefFacts
<1> QED
  BY <1>1, <1>2

LEMMA FailSlots ==
  ASSUME IInv, SlotInv, NEW c \in Conn, Fail(c), pc[c] \in LockSteps, UNCHANGED <<pFirst, maskVars>>
  PROVE  SlotInv'
<1>1. UNCHANGED <<sharedMask, exclMask, pFirst, pShm>>
  BY DEF Fail, maskVars
<1>2. Listed'
  BY <1>1 DEF SlotInv, Listed
<1>3. CASE c \in pShm
  BY <1>1, <1>2, <1>3, MasksKept DEF Fail
<1>4. CASE c \notin pShm
  <2>1. Purge(ProcOf[c])
    BY <1>4 DEF Fail
  <2>2. \A p \in Process : klock'[p] = klock[p] \/ (p = ProcOf[c] /\ klock'[p] = {})
    BY <2>1 DEF Purge, IInv, TypeOK
  <2> QED
    BY <1>1, <1>2, <1>4, <2>2, PurgedUnused, MasksKept
<1> QED
  BY <1>3, <1>4

LEMMA UnrefSlots ==
  ASSUME IInv, SlotInv, NEW c \in Conn, Unref(c)
  PROVE  SlotInv'
<1>1. UNCHANGED <<sharedMask, exclMask, pFirst, pShm>> /\ pc[c] = "unref"
  BY DEF Unref, maskVars
<1>2. Listed'
  BY <1>1 DEF SlotInv, Listed
<1>3. CASE ~LastRef(ProcOf[c])
  BY <1>1, <1>2, <1>3, MasksKept DEF Unref
<1>4. CASE LastRef(ProcOf[c])
  <2>1. Purge(ProcOf[c])
    BY <1>4 DEF Unref
  <2>2. \A p \in Process : klock'[p] = klock[p] \/ (p = ProcOf[c] /\ klock'[p] = {})
    BY <2>1 DEF Purge, IInv, TypeOK
  <2> QED
    BY <1>1, <1>2, <1>4, <2>2, PurgedUnused, MasksKept
<1> QED
  BY <1>3, <1>4

(* The calls other than winShmLock that purge nothing.                     *)
LEMMA CallSlots ==
  ASSUME IInv, SlotInv, NEW c \in Conn,
         UNCHANGED <<klock, sharedMask, exclMask>>,
         \/ UNCHANGED <<pFirst, pShm>>
         \/ pFirst' = pFirst /\ pShm' = pShm \cup {c}
         \/ c \in pShm /\ pFirst' = pFirst \cup {c} /\ pShm' = pShm
         \/ /\ sharedMask[c] = {} /\ exclMask[c] = {}
            /\ pFirst' = pFirst \ {c} /\ pShm' = pShm \ {c}
  PROVE  SlotInv'
<1>1. Listed'
  BY DEF SlotInv, Listed
<1> QED
  BY <1>1, MasksKept

LEMMA OtherSlots ==
  ASSUME IInv, SlotInv, NEW c \in Conn,
         \/ \E region \in Regions : Open(c, region) \/ ShmMap(c, region)
         \/ WrLock(c) \/ Truncate(c) \/ DropWriteLock(c)
         \/ Link(c) \/ Size(c) \/ Extend(c) \/ Mmap(c) \/ Unmap(c)
  PROVE  SlotInv' /\ UNCHANGED <<sharedMask, exclMask>>
<1>1. ASSUME NEW region \in Regions, Open(c, region) PROVE SlotInv' /\ UNCHANGED <<sharedMask, exclMask>>
  <2>1. UNCHANGED <<klock, sharedMask, exclMask, pFirst>> /\ (pShm' = pShm \/ pShm' = pShm \cup {c})
    BY <1>1 DEF Open, OpenFile, Attach, maskVars
  <2> QED
    BY <2>1, CallSlots
<1>2. CASE Link(c)
  <2>1. c \in pShm
    BY <1>2, ProcOfType DEF Link, IInv, ProcInv, CallOK
  <2> QED
    BY <1>2, <2>1, CallSlots DEF Link, maskVars
<1>3. CASE Unmap(c)
  BY <1>3, CallSlots DEF Unmap, maskVars
<1>4. CASE \/ \E region \in Regions : ShmMap(c, region)
           \/ WrLock(c) \/ Truncate(c) \/ DropWriteLock(c) \/ Size(c) \/ Extend(c) \/ Mmap(c)
  <2>1. UNCHANGED <<klock, sharedMask, exclMask, pFirst, pShm>>
    BY <1>4 DEF ShmMap, WrLock, Truncate, DropWriteLock, Size, Extend, Mmap, nodeVars, maskVars
  <2> QED
    BY <2>1, CallSlots
<1> QED
  BY <1>1, <1>2, <1>3, <1>4

LEMMA FailOrAttachSlots ==
  ASSUME IInv, SlotInv, NEW c \in Conn, Abandon(c) \/ RdLock(c)
  PROVE  SlotInv' /\ UNCHANGED <<sharedMask, exclMask>>
<1>1. pc[c] \in LockSteps /\ UNCHANGED <<pFirst, maskVars, sharedMask, exclMask>>
  BY DEF Abandon, RdLock, LockSteps, maskVars
<1>2. CASE Fail(c)
  BY <1>1, <1>2, FailSlots
<1>3. CASE ~Fail(c)
  <2>1. klock' = klock /\ (pShm' = pShm \/ pShm' = pShm \cup {c})
    BY <1>3 DEF Abandon, RdLock, Attach
  <2> QED
    BY <1>1, <2>1, CallSlots
<1> QED
  BY <1>1, <1>2, <1>3

LEMMA NextSlots == IInv /\ SlotInv /\ [Next]_vars => SlotInv'
<1> SUFFICES ASSUME IInv, SlotInv, [Next]_vars PROVE SlotInv'
  OBVIOUS
<1>1. TypeOK
  BY DEF IInv
<1>2. ASSUME NEW c \in Conn,
             \/ \E region \in Regions : Open(c, region) \/ ShmMap(c, region)
             \/ WrLock(c) \/ Truncate(c) \/ DropWriteLock(c)
             \/ Link(c) \/ Size(c) \/ Extend(c) \/ Mmap(c) \/ Unmap(c)
      PROVE  SlotInv'
  BY <1>2, OtherSlots
<1>3. ASSUME NEW c \in Conn, Abandon(c) \/ RdLock(c) \/ Unref(c) PROVE SlotInv'
  BY <1>3, FailOrAttachSlots, UnrefSlots
<1>4. ASSUME NEW c \in Conn,
             \/ \E s \in Slot : LockShared(c, s)
             \/ \E slots \in Ranges : LockExclusive(c, slots) \/ Unlock(c, slots)
      PROVE  SlotInv'
  BY <1>1, <1>4, LockSharedSlots, LockExclusiveSlots, UnlockSlots
<1>5. ASSUME NEW p \in Process, Crash(p) PROVE SlotInv'
  BY <1>1, <1>5, DieSlots DEF Crash
<1>6. CASE PowerFailure
  BY <1>1, <1>6, DieSlots DEF PowerFailure
<1>7. CASE UNCHANGED vars
  <2>1. UNCHANGED <<klock, sharedMask, exclMask, pFirst, pShm>>
    BY <1>7 DEF vars, nodeVars, maskVars
  <2>2. Listed'
    BY <2>1 DEF SlotInv, Listed
  <2> QED
    BY <2>1, <2>2, MasksKept
<1> QED
  BY <1>2, <1>3, <1>4, <1>5, <1>6, <1>7 DEF Next

THEOREM SlotInvariant == Spec => []SlotInv
  BY InitSlots, NextSlots, Invariant, PTL DEF Spec

(* winShmLock: the kernel holds for each process exactly the slots that    *)
(* its connections believe are shared or owned.                            *)
THEOREM AlwaysMatches == Spec => []KernelMatches
<1>1. TypeOK /\ SlotInv => KernelMatches
  <2> SUFFICES ASSUME TypeOK, SlotInv, NEW p \in Process
               PROVE  /\ LockedAs(p, "RDLCK") = HeldBy(p, sharedMask)
                      /\ LockedAs(p, "WRLCK") = HeldBy(p, exclMask)
    BY DEF KernelMatches
  <2>1. Matches(p)
    BY DEF SlotInv
  <2>2. ASSUME NEW t, NEW type PROVE t \in LockedAs(p, type) <=> t \in Slot /\ KernelHas(p, t, type)
    BY DEF LockedAs, KernelHas, TypeOK, SlotLock
  <2>3. ASSUME NEW t, NEW mask \in [Conn -> SUBSET Slot] PROVE t \in HeldBy(p, mask) <=> t \in Slot /\ Has(p, mask, t)
    BY <2>3 DEF HeldBy, Has
  <2>4. ASSUME NEW t PROVE t \in LockedAs(p, "RDLCK") <=> t \in HeldBy(p, sharedMask)
    BY <2>1, <2>2, <2>3 DEF Matches, TypeOK
  <2>5. ASSUME NEW t PROVE t \in LockedAs(p, "WRLCK") <=> t \in HeldBy(p, exclMask)
    BY <2>1, <2>2, <2>3 DEF Matches, TypeOK
  <2> QED
    BY <2>4, <2>5
<1> QED
  BY <1>1, TypeCorrect, SlotInvariant, PTL

(***************************************************************************)
(* The slots behave as ShmSlots says.                                      *)
(***************************************************************************)
SharersOf == [s \in Slot |-> {c \in Conn : s \in sharedMask[c]}]
OwnersOf == [s \in Slot |-> {c \in Conn : s \in exclMask[c]}]

LEMMA InitRefines == Init => Slots!Init
  BY DEF Init, Slots!Init

LEMMA LockSharedRefines ==
  ASSUME TypeOK, SlotInv, NEW c \in Conn, NEW s \in Slot, LockShared(c, s)
  PROVE  Slots!Share(c, s)
<1>1. /\ exclMask' = exclMask
      /\ sharedMask'[c] = sharedMask[c] \cup {s} /\ \A d \in Conn \ {c} : sharedMask'[d] = sharedMask[d]
  BY DEF LockShared, TypeOK
<1>2. OwnersOf[s] = {}
  BY SharedFree DEF OwnersOf
<1>3. ASSUME NEW t \in Slot PROVE SharersOf'[t] = IF t = s THEN SharersOf[t] \cup {c} ELSE SharersOf[t]
  BY <1>1 DEF SharersOf
<1>4. SharersOf' = [SharersOf EXCEPT ![s] = @ \cup {c}]
  BY <1>3 DEF SharersOf
<1>5. OwnersOf' = OwnersOf
  BY <1>1 DEF OwnersOf
<1> QED
  BY <1>2, <1>4, <1>5 DEF Slots!Share, SharersOf, OwnersOf

LEMMA LockExclusiveRefines ==
  ASSUME TypeOK, SlotInv, NEW c \in Conn, NEW slots \in Ranges, LockExclusive(c, slots)
  PROVE  slots \in SUBSET Slot /\ Slots!Own(c, slots)
<1>1. /\ sharedMask' = sharedMask /\ slots \in SUBSET Slot /\ Grantable(slots, "WRLCK")
      /\ exclMask'[c] = exclMask[c] \cup slots /\ \A d \in Conn \ {c} : exclMask'[d] = exclMask[d]
  BY RangeSlots DEF LockExclusive, SystemLock, TypeOK
<1>2. \A d \in Conn : exclMask[d] \cap slots = {} /\ sharedMask[d] \cap slots = {}
  BY <1>1, GrantedFree
<1>3. \A s \in slots : SharersOf[s] = {} /\ OwnersOf[s] = {}
  BY <1>1, <1>2 DEF SharersOf, OwnersOf
<1>4. ASSUME NEW t \in Slot PROVE OwnersOf'[t] = IF t \in slots THEN {c} ELSE OwnersOf[t]
  <2>1. CASE t \in slots
    BY <1>1, <1>2, <2>1 DEF OwnersOf
  <2>2. CASE t \notin slots
    BY <1>1, <2>2 DEF OwnersOf
  <2> QED
    BY <2>1, <2>2
<1>5. OwnersOf' = [t \in Slot |-> IF t \in slots THEN {c} ELSE OwnersOf[t]]
  BY <1>4 DEF OwnersOf
<1>6. SharersOf' = SharersOf
  BY <1>1 DEF SharersOf
<1> QED
  BY <1>1, <1>3, <1>5, <1>6 DEF Slots!Own, SharersOf, OwnersOf

LEMMA LoseRefines ==
  ASSUME \A c \in Conn : sharedMask'[c] \subseteq sharedMask[c] /\ exclMask'[c] \subseteq exclMask[c]
  PROVE  Slots!Lose
  BY DEF Slots!Lose

LEMMA StepRefines ==
  ASSUME IInv, SlotInv, [Next]_vars
  PROVE  [Slots!Next]_Slots!vars
<1>1. TypeOK
  BY DEF IInv
<1>2. ASSUME NEW c \in Conn, NEW s \in Slot, LockShared(c, s) PROVE Slots!Next
  BY <1>1, <1>2, LockSharedRefines DEF Slots!Next
<1>3. ASSUME NEW c \in Conn, NEW slots \in Ranges, LockExclusive(c, slots) PROVE Slots!Next
  BY <1>1, <1>3, LockExclusiveRefines DEF Slots!Next
<1>4. ASSUME NEW c \in Conn, NEW slots \in Ranges, Unlock(c, slots) PROVE Slots!Next
  <2>1. \A d \in Conn : sharedMask'[d] \subseteq sharedMask[d] /\ exclMask'[d] \subseteq exclMask[d]
    BY <1>1, <1>4 DEF Unlock, TypeOK
  <2> QED
    BY <2>1, LoseRefines DEF Slots!Next
<1>5. ASSUME NEW procs \in SUBSET Process, Die(procs) PROVE Slots!Next
  <2>1. \A d \in Conn : sharedMask'[d] \subseteq sharedMask[d] /\ exclMask'[d] \subseteq exclMask[d]
    BY <1>5 DEF Die
  <2> QED
    BY <2>1, LoseRefines DEF Slots!Next
<1>6. ASSUME UNCHANGED <<sharedMask, exclMask>> PROVE UNCHANGED Slots!vars
  BY <1>6 DEF Slots!vars
<1>7. ASSUME NEW c \in Conn,
             \/ \E region \in Regions : Open(c, region) \/ ShmMap(c, region)
             \/ WrLock(c) \/ Truncate(c) \/ DropWriteLock(c)
             \/ Link(c) \/ Size(c) \/ Extend(c) \/ Mmap(c) \/ Unmap(c)
      PROVE  UNCHANGED Slots!vars
  BY <1>6, <1>7, OtherSlots
<1>8. ASSUME NEW c \in Conn, Abandon(c) \/ RdLock(c) PROVE UNCHANGED Slots!vars
  BY <1>6, <1>8, FailOrAttachSlots
<1>9. ASSUME NEW c \in Conn, Unref(c) PROVE UNCHANGED Slots!vars
  BY <1>6, <1>9 DEF Unref, maskVars
<1>10. ASSUME UNCHANGED vars PROVE UNCHANGED Slots!vars
  BY <1>6, <1>10 DEF vars, maskVars
<1>11. ASSUME NEW p \in Process, Crash(p) PROVE Slots!Next
  BY <1>5, <1>11 DEF Crash
<1>12. ASSUME PowerFailure PROVE Slots!Next
  BY <1>5, <1>12 DEF PowerFailure
<1> QED
  BY <1>2, <1>3, <1>4, <1>7, <1>8, <1>9, <1>10, <1>11, <1>12 DEF Next

(* winShmLock implements the slots of the WAL index: shared by many or     *)
(* owned by one, a range as a whole or not at all, across processes that   *)
(* open, lose and purge their nodes and die.                               *)
THEOREM Refinement == Spec => ImplementsShmSlots
  BY InitRefines, StepRefines, Invariant, SlotInvariant, PTL DEF Spec, ImplementsShmSlots, Slots!Spec
=============================================================================
