-------------------------- MODULE UnixLockProofs --------------------------
(***************************************************************************)
(* Proofs about UnixLock for every set of processes, threads and handles.  *)
(***************************************************************************)
EXTENDS UnixLock, FiniteSetTheorems, TLAPS

Steps == UnderLockMutex \cup UnderBigLock \cup {"idle", "close", "attach"}

(* TypeOK without the claim that counters are not negative, which needs    *)
(* the counting invariant below.                                           *)
Typed ==
  /\ klock \in [Process -> [Byte -> LockType]]
  /\ iLock \in [Process -> Level]
  /\ nShared \in [Process -> Int] /\ nLock \in [Process -> Int]
  /\ bProcessLock \in [Process -> 0 .. 1]
  /\ nUnused \in [Process -> Nat] /\ nRef \in [Process -> Int]
  /\ status \in [Handle -> {"closed", "opening", "open", "closing"}]
  /\ eFileLock \in [Handle -> Level]
  /\ pc \in [Thread -> Steps]
  /\ on \in [Thread -> Handle \cup {NoHandle}]
  /\ req \in [Thread -> Level]

(* A thread in a call is in it for a handle of its process, no two for the *)
(* same handle, and one thread of a process at a time holds pLockMutex.    *)
CallsOK ==
  /\ \A t \in Thread : pc[t] = "idle" <=> on[t] = NoHandle
  /\ \A t \in Thread : on[t] # NoHandle => ProcOf[on[t]] = ProcOf[t]
  /\ \A t, u \in Thread : t # u /\ on[t] = on[u] => on[t] = NoHandle
  /\ \A t, u \in Thread :
       /\ t # u /\ ProcOf[t] = ProcOf[u]
       => ~(pc[t] \in UnderLockMutex /\ pc[u] \in UnderLockMutex)

(* What each step of a call may assume of its handle.                      *)
Locking   == {"pending", "shared", "unpend", "unpendFail", "write"}
Unlocking == {"demote", "unlckBytes", "unlckFile"}

StepOK(t) ==
  LET h == on[t] IN
  /\ pc[t] \in Locking => status[h] = "open"
  /\ pc[t] \in Unlocking => status[h] \in {"open", "closing"} /\ eFileLock[h] # NO_LOCK
  /\ pc[t] \in UnderBigLock \cup {"close"} => status[h] = "closing"
  /\ pc[t] = "attach" => status[h] = "opening"
  /\ pc[t] \in {"shared", "unpend", "unpendFail"} => req[t] = SHARED_LOCK
  /\ pc[t] = "pending" => req[t] \in {SHARED_LOCK, EXCLUSIVE_LOCK}
  /\ pc[t] = "write" => req[t] \in {RESERVED_LOCK, EXCLUSIVE_LOCK}
  /\ pc[t] \in Locking /\ req[t] = SHARED_LOCK
     => eFileLock[h] = NO_LOCK /\ iLock[ProcOf[t]] = NO_LOCK
  /\ pc[t] \in Locking /\ req[t] # SHARED_LOCK => eFileLock[h] # NO_LOCK

StepsOK == \A t \in Thread : StepOK(t)

(* The handles of process p that f maps into A, for f one of eFileLock and *)
(* status.                                                                 *)
Members(f, A, p) == {h \in Handle : ProcOf[h] = p /\ f[h] \in A}

SomeLock == Level \ {NO_LOCK}
Attached == {"open", "closing"}

(* The counters of unixInodeInfo never count too little: a failed unlock   *)
(* may leave nShared and nLock too high, never too low.                    *)
CountOK(p) ==
  /\ Cardinality(Members(eFileLock, SomeLock, p)) <= nShared[p]
  /\ Cardinality(Members(eFileLock, SomeLock, p)) + bProcessLock[p] <= nLock[p]
  /\ Cardinality(Members(status, Attached, p)) = nRef[p]
  /\ iLock[p] = NO_LOCK => Members(eFileLock, SomeLock, p) = {}

CountsOK == \A p \in Process : CountOK(p)

FilesOK == \A h \in Handle : status[h] \notin Attached => eFileLock[h] = NO_LOCK

CountInv == Typed /\ CallsOK /\ StepsOK /\ FilesOK /\ CountsOK

-----------------------------------------------------------------------------
LEMMA LockTableType ==
  ASSUME NEW k \in [Process -> [Byte -> LockType]], NEW p \in Process,
         NEW bytes, NEW type \in LockType
  PROVE  SetLock(k, p, bytes, type) \in [Process -> [Byte -> LockType]]
  BY DEF SetLock

LEMMA DropLocksType ==
  ASSUME NEW k \in [Process -> [Byte -> LockType]], NEW p \in Process
  PROVE  DropLocks(k, p) \in [Process -> [Byte -> LockType]]
  BY DEF DropLocks, LockType, F_UNLCK

(* What unixFileLock returns has the right types.                          *)
LEMMA FileLockType ==
  ASSUME Typed, NEW h \in Handle, NEW bytes, NEW type \in LockType,
         NEW r \in FileLock(h, bytes, type)
  PROVE  /\ r.table \in [Process -> [Byte -> LockType]]
         /\ r.taken \in {0, 1}
         /\ r.taken = 1 => bProcessLock[ProcOf[h]] = 0
<1> DEFINE p == ProcOf[h]
<1>0. p \in Process
  BY UnixLockAssumption
<1>1. ProcessLockType \in LockType /\ bProcessLock[p] \in {0, 1}
  BY <1>0 DEF ProcessLockType, LockType, Typed
<1>2. ASSUME NEW b, NEW y \in LockType, NEW n \in {0, 1}, r = Locked(p, b, y, n)
      PROVE  r.table \in [Process -> [Byte -> LockType]] /\ r.taken = n
  BY <1>0, <1>2, LockTableType DEF Locked, Typed
<1>3. ASSUME NEW b, r = NoChange(b)
      PROVE  r.table \in [Process -> [Byte -> LockType]] /\ r.taken = 0
  BY <1>3 DEF NoChange, Typed
<1>5. \/ r = NoChange(0) \/ r = NoChange(-1)
      \/ r = Locked(p, bytes, type, 0)
      \/ r = Locked(p, {"shared"}, ProcessLockType, 1) /\ bProcessLock[p] # 1
  <2>1. CASE h \in ExclHandle /\ bProcessLock[p] = 1
    BY <2>1 DEF FileLock
  <2>2. CASE h \in ExclHandle /\ bProcessLock[p] # 1
    <3>1. r \in SetLockOutcomes(p, {"shared"}, ProcessLockType, 1)
      BY <2>2, Zenon DEF FileLock
    <3>2. QED
      BY <2>2, <3>1, Zenon DEF SetLockOutcomes
  <2>3. CASE h \notin ExclHandle
    <3>1. r \in SetLockOutcomes(p, bytes, type, 0)
      BY <2>3, Zenon DEF FileLock
    <3>2. QED
      BY <3>1, Zenon DEF SetLockOutcomes
  <2>4. QED
    BY <2>1, <2>2, <2>3
<1>6. CASE r = NoChange(0) \/ r = NoChange(-1)
  BY <1>6, <1>3
<1>7. CASE r = Locked(p, bytes, type, 0)
  BY <1>7, <1>2
<1>8. CASE r = Locked(p, {"shared"}, ProcessLockType, 1) /\ bProcessLock[p] # 1
  BY <1>8, <1>2, <1>1
<1>9. QED
  BY <1>5, <1>6, <1>7, <1>8


LEMMA MembersFinite ==
  ASSUME NEW f, NEW A, NEW p
  PROVE  /\ IsFiniteSet(Members(f, A, p))
         /\ Cardinality(Members(f, A, p)) \in Nat
<1>1. Members(f, A, p) \subseteq Handle
  BY DEF Members
<1>2. QED
  BY <1>1, UnixLockAssumption, FS_Subset, FS_CardinalityType

(* How changing one handle changes the handles counted.                    *)
LEMMA MembersOther ==
  ASSUME NEW f, NEW g, NEW A, NEW q,
         \A x \in Handle : ProcOf[x] = q => (g[x] \in A <=> f[x] \in A)
  PROVE  Members(g, A, q) = Members(f, A, q)
  BY DEF Members

LEMMA MembersUp ==
  ASSUME NEW f, NEW g, NEW A, NEW h \in Handle, NEW q, ProcOf[h] = q,
         f[h] \notin A, g[h] \in A,
         \A x \in Handle : x # h => g[x] = f[x]
  PROVE  Cardinality(Members(g, A, q)) = Cardinality(Members(f, A, q)) + 1
<1>1. Members(g, A, q) = Members(f, A, q) \cup {h} /\ h \notin Members(f, A, q)
  BY DEF Members
<1>2. QED
  BY <1>1, MembersFinite, FS_AddElement

LEMMA MembersDown ==
  ASSUME NEW f, NEW g, NEW A, NEW h \in Handle, NEW q, ProcOf[h] = q,
         f[h] \in A, g[h] \notin A,
         \A x \in Handle : x # h => g[x] = f[x]
  PROVE  Cardinality(Members(g, A, q)) = Cardinality(Members(f, A, q)) - 1
<1>1. Members(g, A, q) = Members(f, A, q) \ {h} /\ h \in Members(f, A, q)
  BY DEF Members
<1>2. QED
  BY <1>1, MembersFinite, FS_RemoveElement

(* A set of handles counted 1 that holds h holds nothing else.             *)
LEMMA OnlyMember ==
  ASSUME NEW f, NEW A, NEW h \in Handle, f[h] \in A,
         Cardinality(Members(f, A, ProcOf[h])) <= 1
  PROVE  Members(f, A, ProcOf[h]) = {h}
<1> DEFINE M == Members(f, A, ProcOf[h])
<1>1. h \in M /\ IsFiniteSet(M) /\ Cardinality(M) \in Nat
  <2>1. h \in M
    BY DEF Members
  <2>2. QED
    BY <2>1, MembersFinite
<1>2. Cardinality(M \ {h}) = Cardinality(M) - 1 /\ IsFiniteSet(M \ {h})
  BY <1>1, FS_RemoveElement
<1>3. Cardinality(M \ {h}) = 0
  BY <1>1, <1>2, FS_CardinalityType
<1>4. M \ {h} = {}
  BY <1>2, <1>3, FS_EmptySet
<1>5. QED
  BY <1>1, <1>4

LEMMA InitCountInv == Init => CountInv
<1> SUFFICES ASSUME Init PROVE CountInv
  OBVIOUS
<1>1. Typed
  BY UnixLockAssumption DEF Init, Typed, Steps, Level, NoLocks, LockType, F_UNLCK, NO_LOCK, EXCLUSIVE_LOCK
<1>2. CallsOK /\ StepsOK /\ FilesOK
  BY UnixLockAssumption
  DEF Init, CallsOK, StepsOK, StepOK, FilesOK, Locking, Unlocking, UnderLockMutex, UnderBigLock
<1>3. CountsOK
  <2>1. \A p : Members(eFileLock, SomeLock, p) = {} /\ Members(status, Attached, p) = {}
    BY DEF Init, Members, SomeLock, Attached
  <2>2. \A p \in Process :
          nShared[p] = 0 /\ nLock[p] = 0 /\ bProcessLock[p] = 0 /\ nRef[p] = 0
    BY DEF Init
  <2>3. Cardinality({}) = 0
    BY FS_EmptySet
  <2>4. QED
    BY <2>1, <2>2, <2>3 DEF CountsOK, CountOK
<1>4. QED
  BY <1>1, <1>2, <1>3 DEF CountInv

-----------------------------------------------------------------------------
(* Every step of a call is for the handle and the process of its thread.   *)
LEMMA InCallFacts ==
  ASSUME CountInv, NEW t \in Thread, pc[t] # "idle"
  PROVE  /\ on[t] \in Handle /\ ProcOf[on[t]] = ProcOf[t] /\ ProcOf[t] \in Process
         /\ on[t] # NoHandle
  BY UnixLockAssumption DEF CountInv, CallsOK, Typed

(* A step of thread t in a call leaves the calls of other threads alone.   *)
LEMMA CallsStep ==
  ASSUME CountInv, CallsOK, NEW t \in Thread,
         \A u \in Thread : u # t => pc'[u] = pc[u] /\ on'[u] = on[u],
         pc'[t] = "idle" <=> on'[t] = NoHandle,
         on'[t] # NoHandle =>
           /\ ProcOf[on'[t]] = ProcOf[t]
           /\ \A u \in Thread : u # t => on[u] # on'[t],
         pc'[t] \in UnderLockMutex =>
           \A u \in Thread : u # t /\ ProcOf[u] = ProcOf[t] => pc[u] \notin UnderLockMutex
  PROVE  CallsOK'
  BY DEF CallsOK

LEMMA CallCallsOK ==
  ASSUME CountInv, NEW t \in Thread, NEW h \in Handle, CanCall(t, h),
         NEW step \in Steps \ {"idle"}, NEW level, Call(t, h, step, level),
         step \in UnderLockMutex => LockMutexFree(ProcOf[h])
  PROVE  CallsOK'
<1>1. /\ pc' = [pc EXCEPT ![t] = step] /\ on' = [on EXCEPT ![t] = h]
      /\ pc \in [Thread -> Steps] /\ on \in [Thread -> Handle \cup {NoHandle}]
      /\ step # "idle" /\ h # NoHandle
  BY UnixLockAssumption DEF Call, CountInv, Typed
<1>2. /\ ProcOf[t] = ProcOf[h] /\ \A u \in Thread : on[u] # h
      /\ step \in UnderLockMutex =>
           \A u \in Thread : ProcOf[u] = ProcOf[t] => pc[u] \notin UnderLockMutex
  BY DEF CanCall, LockMutexFree
<1>3. QED
  BY ONLY <1>1, <1>2, CountInv, CallsStep DEF CountInv

(* Goto and Return.                                                        *)
LEMMA GotoCallsOK ==
  ASSUME CountInv, NEW t \in Thread, pc[t] # "idle",
         NEW step \in Steps \ {"idle"},
         step \in UnderLockMutex => pc[t] \in UnderLockMutex,
         pc' = [pc EXCEPT ![t] = step], on' = on
  PROVE  CallsOK'
  BY CallsStep DEF CountInv, Typed, CallsOK

LEMMA ReturnCallsOK ==
  ASSUME CountInv, NEW t \in Thread, Return(t)
  PROVE  CallsOK'
<1>1. pc' = [pc EXCEPT ![t] = "idle"] /\ on' = [on EXCEPT ![t] = NoHandle]
  BY DEF Return, Call
<1>2. "idle" \notin UnderLockMutex
  BY DEF UnderLockMutex
<1>3. QED
  BY <1>1, <1>2, CallsStep DEF CountInv, Typed, CallsOK

(* A thread that is not disturbed keeps what it may assume.                *)
LEMMA OtherStepOK ==
  ASSUME CountInv, NEW u \in Thread,
         pc'[u] = pc[u], on'[u] = on[u], req'[u] = req[u],
         pc[u] # "idle" => /\ status'[on[u]] = status[on[u]]
                           /\ eFileLock'[on[u]] = eFileLock[on[u]],
         pc[u] \in Locking => iLock'[ProcOf[u]] = iLock[ProcOf[u]]
  PROVE  StepOK(u)'
<1>1. StepOK(u)
  BY DEF CountInv, StepsOK
<1>2. CASE pc[u] = "idle"
  BY <1>2 DEF StepOK, Locking, Unlocking, UnderBigLock
<1>3. CASE pc[u] # "idle"
  BY <1>1, <1>3 DEF StepOK, Locking, Unlocking, UnderBigLock
<1>4. QED
  BY <1>2, <1>3

(* A step of thread t on handle h.                                         *)
LEMMA StepsStep ==
  ASSUME CountInv, NEW t \in Thread, NEW h \in Handle, ProcOf[t] = ProcOf[h],
         \A u \in Thread : u # t => /\ pc'[u] = pc[u] /\ on'[u] = on[u] /\ req'[u] = req[u]
                                   /\ on[u] # h,
         \A g \in Handle : g # h => status'[g] = status[g] /\ eFileLock'[g] = eFileLock[g],
         \A q \in Process : q # ProcOf[h] => iLock'[q] = iLock[q],
         \/ iLock'[ProcOf[h]] = iLock[ProcOf[h]]
         \/ \A u \in Thread : u # t /\ ProcOf[u] = ProcOf[h] => pc[u] \notin Locking,
         StepOK(t)'
  PROVE  StepsOK'
<1> SUFFICES ASSUME NEW u \in Thread, u # t PROVE StepOK(u)'
  BY DEF StepsOK
<1>1. pc[u] # "idle" => on[u] \in Handle
  BY DEF CountInv, CallsOK, Typed
<1>2. ProcOf[u] \in Process
  BY UnixLockAssumption
<1>3. pc[u] # "idle" => status'[on[u]] = status[on[u]] /\ eFileLock'[on[u]] = eFileLock[on[u]]
  BY <1>1
<1>4. pc[u] \in Locking => iLock'[ProcOf[u]] = iLock[ProcOf[u]]
  BY <1>2
<1>5. QED
  BY <1>3, <1>4, OtherStepOK

(* A step that takes no handle past a boundary the counters count.         *)
LEMMA CountsKept ==
  ASSUME CountInv, NEW q \in Process,
         \A x \in Handle : ProcOf[x] = q =>
           /\ eFileLock'[x] \in SomeLock <=> eFileLock[x] \in SomeLock
           /\ status'[x] \in Attached <=> status[x] \in Attached,
         nShared'[q] = nShared[q], nRef'[q] = nRef[q],
         nLock'[q] \in Int, bProcessLock'[q] \in Int,
         nLock'[q] - bProcessLock'[q] = nLock[q] - bProcessLock[q],
         iLock'[q] = NO_LOCK => iLock[q] = NO_LOCK
  PROVE  CountOK(q)'
<1>1. /\ Members(eFileLock', SomeLock, q) = Members(eFileLock, SomeLock, q)
      /\ Members(status', Attached, q) = Members(status, Attached, q)
  BY MembersOther
<1>2. CountOK(q) /\ nLock[q] \in Int /\ bProcessLock[q] \in Int
  BY DEF CountInv, CountsOK, Typed
<1>3. Cardinality(Members(eFileLock, SomeLock, q)) \in Int
  BY MembersFinite
<1>4. QED
  BY ONLY <1>1, <1>2, <1>3, nShared'[q] = nShared[q], nRef'[q] = nRef[q],
     nLock'[q] \in Int, bProcessLock'[q] \in Int,
     nLock'[q] - bProcessLock'[q] = nLock[q] - bProcessLock[q],
     iLock'[q] = NO_LOCK => iLock[q] = NO_LOCK
     DEF CountOK

(* A call for h finds no other thread on h.                                *)
LEMMA BeginStepsOK ==
  ASSUME CountInv, NEW t \in Thread, NEW h \in Handle, CanCall(t, h),
         NEW step \in Steps, NEW level \in Level, Call(t, h, step, level),
         \A g \in Handle : g # h => status'[g] = status[g] /\ eFileLock'[g] = eFileLock[g],
         iLock' = iLock, StepOK(t)'
  PROVE  StepsOK'
<1>1. \A u \in Thread : u # t => pc'[u] = pc[u] /\ on'[u] = on[u] /\ req'[u] = req[u]
  BY DEF Call, CountInv, Typed
<1>2. QED
  BY <1>1, StepsStep DEF CanCall

LEMMA LockSharedAgainStep ==
  ASSUME CountInv, NEW t \in Thread, NEW h \in Handle, LockSharedAgain(t, h)
  PROVE  CountInv'
<1> DEFINE p == ProcOf[h]
<1>0. p \in Process
  BY UnixLockAssumption
<1>1. Typed'
  BY <1>0 DEF LockSharedAgain, CountInv, Typed, callVars, Level, NO_LOCK, SHARED_LOCK, RESERVED_LOCK, PENDING_LOCK, EXCLUSIVE_LOCK
<1>2. CallsOK'
  BY DEF LockSharedAgain, CountInv, CallsOK, callVars
<1>3. StepsOK'
  <2>1. StepOK(t)'
    BY DEF LockSharedAgain, CanLock, CanCall, callVars, StepOK, Locking, Unlocking, UnderBigLock
  <2>2. QED
    BY <2>1, StepsStep DEF LockSharedAgain, CanLock, CanCall, callVars, CountInv, Typed
<1>4. FilesOK'
  BY DEF LockSharedAgain, CanLock, CountInv, FilesOK, Attached
<1>5. CountsOK'
  <2> SUFFICES ASSUME NEW q \in Process PROVE CountOK(q)'
    BY DEF CountsOK
  <2>1. /\ eFileLock'[h] \in SomeLock /\ eFileLock[h] \notin SomeLock
        /\ \A x \in Handle : x # h => eFileLock'[x] = eFileLock[x]
    BY DEF LockSharedAgain, CanLock, LockSequenceOK, CountInv, Typed, SomeLock, Level, NO_LOCK, SHARED_LOCK, RESERVED_LOCK, PENDING_LOCK, EXCLUSIVE_LOCK
  <2>2. /\ nShared' = [nShared EXCEPT ![p] = @ + 1] /\ nLock' = [nLock EXCEPT ![p] = @ + 1]
        /\ UNCHANGED <<iLock, bProcessLock, nRef, status>>
        /\ iLock[p] # NO_LOCK
    BY DEF LockSharedAgain, SharedInProcess, NO_LOCK, SHARED_LOCK, RESERVED_LOCK
  <2>3. nShared \in [Process -> Int] /\ nLock \in [Process -> Int] /\ bProcessLock \in [Process -> 0 .. 1]
    BY DEF CountInv, Typed
  <2>4. CASE q # p
    BY <2>1, <2>2, <2>3, <2>4, CountsKept
  <2>5. CASE q = p
    <3>1. Cardinality(Members(eFileLock', SomeLock, p)) = Cardinality(Members(eFileLock, SomeLock, p)) + 1
      BY ONLY <2>1, MembersUp
    <3>2. Cardinality(Members(eFileLock, SomeLock, p)) \in Nat
      BY MembersFinite
    <3>3. CountOK(p)
      BY <1>0 DEF CountInv, CountsOK
    <3>4. QED
      BY ONLY <1>0, <2>2, <2>3, <2>5, <3>1, <3>2, <3>3 DEF CountOK
  <2>6. QED
    BY <2>4, <2>5
<1>6. QED
  BY <1>1, <1>2, <1>3, <1>4, <1>5 DEF CountInv

LEMMA LockStep ==
  ASSUME CountInv, NEW t \in Thread, NEW h \in Handle,
         NEW level \in {SHARED_LOCK, RESERVED_LOCK, EXCLUSIVE_LOCK}, Lock(t, h, level)
  PROVE  CountInv'
<1> PICK step \in {"pending", "write"} :
       /\ Call(t, h, step, level)
       /\ step = "pending" <=> NeedsPendingByte(h, level)
  BY DEF Lock
<1>0. step \in Steps \ {"idle"} /\ step \in UnderLockMutex /\ level \in Level
  BY DEF Steps, UnderLockMutex, UnderBigLock, Level, NO_LOCK, SHARED_LOCK, RESERVED_LOCK, PENDING_LOCK, EXCLUSIVE_LOCK
<1>1. CanCall(t, h) /\ LockMutexFree(ProcOf[h])
  BY DEF Lock, CanLock
<1>2. UNCHANGED <<klock, inodeVars, fileVars>>
  BY DEF Lock
<1>3. Typed'
  BY <1>0, <1>2 DEF CountInv, Typed, inodeVars, fileVars, Call
<1>4. CallsOK'
  BY <1>0, <1>1, CallCallsOK
<1>5. StepsOK'
  <2>1. pc'[t] = step /\ on'[t] = h /\ req'[t] = level
    BY DEF Call, CountInv, Typed
  <2>2. status[h] = "open"
    BY DEF Lock, CanLock
  <2>3. CASE level = SHARED_LOCK
    <3>1. eFileLock[h] = NO_LOCK /\ step = "pending"
      BY <2>3 DEF Lock, CanLock, LockSequenceOK, NeedsPendingByte, SHARED_LOCK, RESERVED_LOCK,
         EXCLUSIVE_LOCK
    <3>2. iLock[ProcOf[h]] = NO_LOCK
      <4>1. iLock[ProcOf[h]] \in Level
        BY UnixLockAssumption DEF CountInv, Typed
      <4>2. ~BusyInProcess(h, level) /\ ~SharedInProcess(h)
        BY <2>3 DEF Lock, CanLock
      <4>3. QED
        BY <3>1, <4>1, <4>2 DEF BusyInProcess, SharedInProcess, Level, NO_LOCK, SHARED_LOCK,
           RESERVED_LOCK, PENDING_LOCK, EXCLUSIVE_LOCK
    <3>3. StepOK(t)'
      BY <1>1, <1>2, <2>1, <2>2, <2>3, <3>1, <3>2
      DEF StepOK, CanCall, inodeVars, fileVars, Locking, Unlocking, UnderBigLock
    <3>4. QED
      BY <1>0, <1>1, <1>2, <3>3, BeginStepsOK DEF inodeVars, fileVars
  <2>4. CASE level # SHARED_LOCK
    <3>1. /\ eFileLock[h] # NO_LOCK
          /\ step = "pending" => level = EXCLUSIVE_LOCK
          /\ level \in {RESERVED_LOCK, EXCLUSIVE_LOCK}
      BY <2>4 DEF Lock, CanLock, LockSequenceOK, NeedsPendingByte, Level, NO_LOCK, SHARED_LOCK, RESERVED_LOCK, PENDING_LOCK, EXCLUSIVE_LOCK
    <3>3. StepOK(t)'
      BY <1>1, <1>2, <2>1, <2>2, <2>4, <3>1
      DEF StepOK, CanCall, inodeVars, fileVars, Locking, Unlocking, UnderBigLock
    <3>4. QED
      BY <1>0, <1>1, <1>2, <3>3, BeginStepsOK DEF inodeVars, fileVars
  <2>5. QED
    BY <2>3, <2>4
<1>6. FilesOK' /\ CountsOK'
  BY <1>2 DEF CountInv, FilesOK, CountsOK, CountOK, inodeVars, fileVars
<1>7. QED
  BY <1>3, <1>4, <1>5, <1>6 DEF CountInv

(* What one fcntl request changes, and what its caller may rely on.        *)
LEMMA ApplyFacts ==
  ASSUME CountInv, NEW h \in Handle, NEW bytes, NEW type \in LockType,
         NEW r \in FileLock(h, bytes, type), NEW n \in {0, 1}, Apply(r, h, n)
  PROVE  /\ klock' \in [Process -> [Byte -> LockType]]
         /\ nLock' \in [Process -> Int]
         /\ bProcessLock' \in [Process -> 0 .. 1]
         /\ \A q \in Process : q # ProcOf[h] =>
              nLock'[q] = nLock[q] /\ bProcessLock'[q] = bProcessLock[q]
         /\ nLock'[ProcOf[h]] - bProcessLock'[ProcOf[h]]
              = nLock[ProcOf[h]] - bProcessLock[ProcOf[h]] + n
<1>1. ProcOf[h] \in Process
  BY UnixLockAssumption
<1>2. /\ r.table \in [Process -> [Byte -> LockType]]
      /\ r.taken \in {0, 1}
      /\ r.taken = 1 => bProcessLock[ProcOf[h]] = 0
  BY FileLockType DEF CountInv
<1>3. nLock \in [Process -> Int] /\ bProcessLock \in [Process -> 0 .. 1]
  BY DEF CountInv, Typed
<1> DEFINE taken == r.taken
<1>4. /\ klock' = r.table
      /\ nLock' = [nLock EXCEPT ![ProcOf[h]] = @ + taken + n]
      /\ bProcessLock' = [bProcessLock EXCEPT ![ProcOf[h]] = @ + taken]
      /\ taken \in {0, 1} /\ (taken = 1 => bProcessLock[ProcOf[h]] = 0)
  BY <1>2 DEF Apply
<1> HIDE DEF taken
<1>5. nLock' \in [Process -> Int] /\ bProcessLock' \in [Process -> 0 .. 1]
  BY <1>1, <1>3, <1>4
<1>6. nLock'[ProcOf[h]] = nLock[ProcOf[h]] + taken + n
  BY <1>1, <1>3, <1>4
<1>7. bProcessLock'[ProcOf[h]] = bProcessLock[ProcOf[h]] + taken
  BY <1>1, <1>3, <1>4
<1>8. nLock[ProcOf[h]] \in Int /\ bProcessLock[ProcOf[h]] \in Int
  BY <1>1, <1>3
<1>9. \A q \in Process : q # ProcOf[h] =>
         nLock'[q] = nLock[q] /\ bProcessLock'[q] = bProcessLock[q]
  BY <1>1, <1>3, <1>4
<1>10. n \in Int /\ taken \in Int
  BY <1>4
<1>11. nLock'[ProcOf[h]] - bProcessLock'[ProcOf[h]]
        = nLock[ProcOf[h]] - bProcessLock[ProcOf[h]] + n
  BY ONLY <1>6, <1>7, <1>8, <1>10
<1>12. QED
  BY <1>2, <1>4, <1>5, <1>9, <1>11

(* ... and for a request that is not counted.                              *)
LEMMA ApplyKept ==
  ASSUME CountInv, NEW h \in Handle, NEW bytes, NEW type \in LockType,
         NEW r \in FileLock(h, bytes, type), Apply(r, h, 0)
  PROVE  /\ klock' \in [Process -> [Byte -> LockType]]
         /\ nLock' \in [Process -> Int]
         /\ bProcessLock' \in [Process -> 0 .. 1]
         /\ \A q \in Process : nLock'[q] - bProcessLock'[q] = nLock[q] - bProcessLock[q]
<1>1. \A q \in Process : nLock[q] \in Int /\ bProcessLock[q] \in Int
  BY DEF CountInv, Typed
<1>2. 0 \in {0, 1} /\ ProcOf[h] \in Process
  BY UnixLockAssumption
<1>3. /\ klock' \in [Process -> [Byte -> LockType]]
      /\ nLock' \in [Process -> Int]
      /\ bProcessLock' \in [Process -> 0 .. 1]
      /\ \A q \in Process : q # ProcOf[h] =>
           nLock'[q] = nLock[q] /\ bProcessLock'[q] = bProcessLock[q]
      /\ nLock'[ProcOf[h]] - bProcessLock'[ProcOf[h]]
           = nLock[ProcOf[h]] - bProcessLock[ProcOf[h]] + 0
  BY <1>2, ApplyFacts
<1>4. QED
  BY ONLY <1>1, <1>2, <1>3

LEMMA SetLevelFacts ==
  ASSUME CountInv, NEW h \in Handle, NEW level \in Level, SetLevel(h, level)
  PROVE  /\ iLock' \in [Process -> Level] /\ eFileLock' \in [Handle -> Level]
         /\ eFileLock'[h] = level /\ iLock'[ProcOf[h]] = level
         /\ \A g \in Handle : g # h => eFileLock'[g] = eFileLock[g]
         /\ \A q \in Process : q # ProcOf[h] => iLock'[q] = iLock[q]
  BY UnixLockAssumption DEF SetLevel, CountInv, Typed

(* The ways a step of a call leaves the call variables.                    *)
LEMMA CallVarsTyped ==
  ASSUME CountInv, NEW t \in Thread, NEW h \in Handle,
         \/ Return(t)
         \/ \E step \in Steps, level \in Level : Call(t, h, step, level)
         \/ \E step \in Steps : Goto(t, step)
  PROVE  pc' \in [Thread -> Steps] /\ on' \in [Thread -> Handle \cup {NoHandle}]
         /\ req' \in [Thread -> Level]
<1>1. "idle" \in Steps /\ NO_LOCK \in Level
  BY DEF Steps, Level, NO_LOCK, EXCLUSIVE_LOCK
<1>2. QED
  BY <1>1 DEF Return, Call, Goto, CountInv, Typed

LEMMA InMutexFacts ==
  ASSUME CountInv, NEW t \in Thread, pc[t] \in UnderLockMutex
  PROVE  /\ on[t] \in Handle /\ ProcOf[on[t]] = ProcOf[t] /\ ProcOf[t] \in Process
         /\ status[on[t]] \in Attached
         /\ \A u \in Thread : u # t => on[u] # on[t]
         /\ \A u \in Thread : u # t /\ ProcOf[u] = ProcOf[t] => pc[u] \notin Locking
<1>1. pc[t] # "idle" /\ pc[t] \in Locking \cup Unlocking
  BY DEF UnderLockMutex, Locking, Unlocking
<1>2. /\ on[t] \in Handle /\ ProcOf[on[t]] = ProcOf[t] /\ ProcOf[t] \in Process
      /\ on[t] # NoHandle
  BY <1>1, InCallFacts
<1>3. status[on[t]] \in Attached
  BY <1>1 DEF CountInv, StepsOK, StepOK, Attached
<1>4. \A u \in Thread : u # t => on[u] # on[t]
  BY <1>2 DEF CountInv, CallsOK
<1>5. Locking \subseteq UnderLockMutex
  BY DEF Locking, UnderLockMutex
<1>6. QED
  BY <1>2, <1>3, <1>4, <1>5 DEF CountInv, CallsOK

(* What is left to show of a step taken under pLockMutex, once the types   *)
(* and the counters are seen to.                                           *)
LEMMA MutexStep ==
  ASSUME CountInv, NEW t \in Thread, pc[t] \in UnderLockMutex,
         \/ Return(t)
         \/ Call(t, on[t], "close", NO_LOCK)
         \/ \E step \in UnderLockMutex : Goto(t, step),
         status' = status,
         \A g \in Handle : g # on[t] => eFileLock'[g] = eFileLock[g],
         \A q \in Process : q # ProcOf[t] => iLock'[q] = iLock[q],
         StepOK(t)'
  PROVE  CallsOK' /\ StepsOK' /\ FilesOK'
<1>0. UnderLockMutex \subseteq Steps \ {"idle"} /\ "close" \in Steps \ {"idle"} /\ pc[t] # "idle"
      /\ "close" \notin UnderLockMutex
  BY DEF Steps, UnderLockMutex, UnderBigLock
<1>1. CallsOK'
  <2>1. CASE Return(t)
    BY <2>1, ReturnCallsOK
  <2>2. CASE Call(t, on[t], "close", NO_LOCK)
    <3>1. pc' = [pc EXCEPT ![t] = "close"] /\ on' = on
      BY <2>2 DEF Call, CountInv, Typed
    <3>2. QED
      BY <1>0, <3>1, GotoCallsOK
  <2>3. ASSUME NEW step \in UnderLockMutex, Goto(t, step)
        PROVE  CallsOK'
    BY <1>0, <2>3, GotoCallsOK DEF Goto
  <2>4. QED
    BY <2>1, <2>2, <2>3
<1>2. \A u \in Thread : u # t => pc'[u] = pc[u] /\ on'[u] = on[u] /\ req'[u] = req[u]
  BY DEF Return, Call, Goto, CountInv, Typed
<1>3. StepsOK'
  BY <1>2, InMutexFacts, StepsStep
<1>4. FilesOK'
  BY InMutexFacts DEF CountInv, FilesOK
<1>5. QED
  BY <1>1, <1>3, <1>4

LEMMA ReturnStepOK ==
  ASSUME CountInv, NEW t \in Thread, Return(t)
  PROVE  StepOK(t)'
<1>1. pc'[t] = "idle"
  BY DEF Return, Call, CountInv, Typed
<1>2. QED
  BY <1>1 DEF StepOK, Locking, Unlocking, UnderBigLock

(* The call of unixUnlock ends: back to the pager, or on with unixClose.   *)
LEMMA ReturnFromUnlockFacts ==
  ASSUME CountInv, NEW t \in Thread, ReturnFromUnlock(t), status' = status
  PROVE  /\ StepOK(t)'
         /\ Return(t) \/ Call(t, on[t], "close", NO_LOCK)
<1>1. CASE status[on[t]] = "closing"
  <2>1. Call(t, on[t], "close", NO_LOCK)
    BY <1>1 DEF ReturnFromUnlock
  <2>2. pc'[t] = "close" /\ on'[t] = on[t]
    BY <2>1 DEF Call, CountInv, Typed
  <2>3. QED
    BY <1>1, <2>1, <2>2 DEF StepOK, Locking, Unlocking, UnderBigLock
<1>2. CASE status[on[t]] # "closing"
  BY <1>2, ReturnStepOK DEF ReturnFromUnlock
<1>3. QED
  BY <1>1, <1>2

(* The levels of h and of its inode stay on their side of NO_LOCK.         *)
LevelsKept(h) ==
  /\ iLock' \in [Process -> Level] /\ eFileLock' \in [Handle -> Level]
  /\ \A g \in Handle : g # h => eFileLock'[g] = eFileLock[g]
  /\ \A q \in Process : q # ProcOf[h] => iLock'[q] = iLock[q]
  /\ eFileLock'[h] = NO_LOCK <=> eFileLock[h] = NO_LOCK
  /\ iLock'[ProcOf[h]] = NO_LOCK => iLock[ProcOf[h]] = NO_LOCK

LEMMA LevelsUnchanged ==
  ASSUME CountInv, NEW h \in Handle, iLock' = iLock, eFileLock' = eFileLock
  PROVE  LevelsKept(h)
  BY DEF LevelsKept, CountInv, Typed

LEMMA LevelRaised ==
  ASSUME CountInv, NEW h \in Handle, NEW level \in SomeLock, eFileLock[h] # NO_LOCK,
         SetLevel(h, level)
  PROVE  LevelsKept(h)
<1>1. level \in Level /\ level # NO_LOCK
  BY DEF SomeLock
<1>2. QED
  BY <1>1, SetLevelFacts DEF LevelsKept

(* A step of a lock or unlock call that counts nothing.                    *)
LEMMA UncountedStep ==
  ASSUME CountInv, NEW t \in Thread, pc[t] \in UnderLockMutex,
         NEW bytes, NEW type \in LockType, NEW r \in FileLock(on[t], bytes, type),
         Apply(r, on[t], 0),
         UNCHANGED <<nShared, nUnused, nRef, status>>,
         LevelsKept(on[t]),
         \/ Return(t)
         \/ Call(t, on[t], "close", NO_LOCK)
         \/ \E step \in UnderLockMutex : Goto(t, step),
         StepOK(t)'
  PROVE  CountInv'
<1> DEFINE h == on[t]
<1>1. /\ h \in Handle /\ ProcOf[h] = ProcOf[t] /\ ProcOf[t] \in Process
  BY InMutexFacts
<1>2. /\ klock' \in [Process -> [Byte -> LockType]]
      /\ nLock' \in [Process -> Int] /\ bProcessLock' \in [Process -> 0 .. 1]
      /\ \A q \in Process : nLock'[q] - bProcessLock'[q] = nLock[q] - bProcessLock[q]
  BY <1>1, ApplyKept
<1>3. Typed'
  <2>1. UnderLockMutex \subseteq Steps /\ "close" \in Steps /\ NO_LOCK \in Level
    BY DEF Steps, Level, NO_LOCK, EXCLUSIVE_LOCK
  <2>2. pc' \in [Thread -> Steps] /\ on' \in [Thread -> Handle \cup {NoHandle}]
        /\ req' \in [Thread -> Level]
    BY <1>1, <2>1, CallVarsTyped
  <2>3. QED
    BY <1>2, <2>2 DEF CountInv, Typed, LevelsKept
<1>4. CallsOK' /\ StepsOK' /\ FilesOK'
  BY <1>1, MutexStep DEF LevelsKept
<1>5. CountsOK'
  <2> SUFFICES ASSUME NEW q \in Process PROVE CountOK(q)'
    BY DEF CountsOK
  <2>1. \A x \in Handle : eFileLock'[x] \in SomeLock <=> eFileLock[x] \in SomeLock
    BY DEF SomeLock, CountInv, Typed, LevelsKept
  <2>2. iLock'[q] = NO_LOCK => iLock[q] = NO_LOCK
    BY <1>1 DEF LevelsKept
  <2>3. nLock'[q] \in Int /\ bProcessLock'[q] \in Int
    BY <1>2
  <2>4. QED
    BY <1>2, <2>1, <2>2, <2>3, CountsKept
<1>6. QED
  BY <1>3, <1>4, <1>5 DEF CountInv

LEMMA LockPendingByteStep ==
  ASSUME CountInv, NEW t \in Thread, LockPendingByte(t)
  PROVE  CountInv'
<1> DEFINE h == on[t]
<1> DEFINE type == PendingType(req[t])
<1>0. pc[t] = "pending" /\ pc[t] \in UnderLockMutex /\ pc[t] \in Locking
      /\ type \in LockType
  BY DEF LockPendingByte, PendingType, UnderLockMutex, Locking, LockType
<1>1. h \in Handle
  BY <1>0, InMutexFacts
<1>2. PICK r \in FileLock(h, {"pending"}, type) :
        /\ Apply(r, h, 0)
        /\ \/ req[t] = SHARED_LOCK /\ Goto(t, "shared") /\ UNCHANGED <<iLock, eFileLock>>
           \/ req[t] = EXCLUSIVE_LOCK /\ Goto(t, "write") /\ UNCHANGED <<iLock, eFileLock>>
           \/ req[t] = EXCLUSIVE_LOCK /\ Return(t) /\ SetLevel(h, PENDING_LOCK)
           \/ Return(t) /\ UNCHANGED <<iLock, eFileLock>>
  BY Zenon DEF LockPendingByte
<1>3. UNCHANGED <<nShared, nUnused, nRef, status>>
  BY DEF LockPendingByte
<1>4. StepOK(t)
  BY DEF CountInv, StepsOK
<1>5. LevelsKept(h)
  <2>1. CASE UNCHANGED <<iLock, eFileLock>>
    BY <1>1, <2>1, LevelsUnchanged
  <2>2. CASE req[t] = EXCLUSIVE_LOCK /\ SetLevel(h, PENDING_LOCK)
    <3>1. PENDING_LOCK \in SomeLock /\ EXCLUSIVE_LOCK # SHARED_LOCK
      BY DEF SomeLock, Level, NO_LOCK, SHARED_LOCK, RESERVED_LOCK,
     PENDING_LOCK, EXCLUSIVE_LOCK
    <3>2. eFileLock[h] # NO_LOCK
      BY <1>0, <1>4, <2>2, <3>1 DEF StepOK
    <3>3. QED
      BY <1>1, <2>2, <3>1, <3>2, LevelRaised
  <2>3. QED
    BY <1>2, <2>1, <2>2
<1>6. StepOK(t)'
  <2>1. CASE Return(t)
    BY <2>1, ReturnStepOK
  <2>2. CASE \E step \in {"shared", "write"} : Goto(t, step)
    <3>1. /\ on'[t] = h /\ req'[t] = req[t] /\ UNCHANGED <<iLock, eFileLock, status>>
          /\ \/ pc'[t] = "shared" /\ req[t] = SHARED_LOCK
             \/ pc'[t] = "write" /\ req[t] = EXCLUSIVE_LOCK
      BY <1>2, <1>3, <2>2 DEF Goto, Return, Call, CountInv, Typed
    <3>2. QED
      BY <1>0, <1>4, <3>1 DEF StepOK, Locking, Unlocking, UnderBigLock
  <2>3. QED
    BY <1>2, <2>1, <2>2
<1>7. Return(t) \/ \E step \in UnderLockMutex : Goto(t, step)
  BY <1>2 DEF UnderLockMutex
<1>8. QED
  BY <1>0, <1>2, <1>3, <1>5, <1>6, <1>7, UncountedStep

LEMMA LockSharedRangeStep ==
  ASSUME CountInv, NEW t \in Thread, LockSharedRange(t)
  PROVE  CountInv'
<1> DEFINE h == on[t]
<1>0. pc[t] = "shared" /\ pc[t] \in UnderLockMutex /\ pc[t] \in Locking
      /\ F_RDLCK \in LockType
  BY DEF LockSharedRange, UnderLockMutex, Locking, LockType
<1>1. h \in Handle
  BY <1>0, InMutexFacts
<1>2. PICK r \in FileLock(h, {"shared"}, F_RDLCK) :
        Apply(r, h, 0) /\ \E step \in {"unpend", "unpendFail"} : Goto(t, step)
  BY DEF LockSharedRange
<1>3. UNCHANGED <<iLock, nShared, nUnused, nRef, status, eFileLock>>
  BY DEF LockSharedRange, fileVars
<1>4. LevelsKept(h)
  BY <1>1, <1>3, LevelsUnchanged
<1>5. StepOK(t)'
  <2>1. on'[t] = h /\ req'[t] = req[t] /\ pc'[t] \in {"unpend", "unpendFail"}
    BY <1>2 DEF Goto, CountInv, Typed
  <2>2. StepOK(t)
    BY DEF CountInv, StepsOK
  <2>3. QED
    BY <1>0, <1>3, <2>1, <2>2 DEF StepOK, Locking, Unlocking, UnderBigLock
<1>6. \E step \in UnderLockMutex : Goto(t, step)
  BY <1>2 DEF UnderLockMutex
<1>7. QED
  BY <1>0, <1>2, <1>3, <1>4, <1>5, <1>6, UncountedStep

LEMMA DropPendingByteStep ==
  ASSUME CountInv, NEW t \in Thread, DropPendingByte(t)
  PROVE  CountInv'
<1> DEFINE h == on[t]
<1> DEFINE p == ProcOf[h]
<1>0. pc[t] \in {"unpend", "unpendFail"} /\ pc[t] \in UnderLockMutex /\ pc[t] \in Locking
      /\ F_UNLCK \in LockType /\ SHARED_LOCK \in Level /\ SHARED_LOCK # NO_LOCK
  BY DEF DropPendingByte, UnderLockMutex, Locking, LockType, Level, NO_LOCK, SHARED_LOCK, RESERVED_LOCK,
     PENDING_LOCK, EXCLUSIVE_LOCK
<1>1. /\ h \in Handle /\ p = ProcOf[t] /\ p \in Process /\ status[h] \in Attached
  BY <1>0, InMutexFacts
<1>2. Return(t) /\ UNCHANGED <<nUnused, nRef, status>>
  BY DEF DropPendingByte
<1>3. StepOK(t)'
  BY <1>2, ReturnStepOK
<1>4. PICK r \in FileLock(h, {"pending"}, F_UNLCK) :
        \/ Apply(r, h, 1) /\ SetLevel(h, SHARED_LOCK) /\ nShared' = [nShared EXCEPT ![p] = 1]
        \/ Apply(r, h, 0) /\ UNCHANGED <<iLock, eFileLock, nShared>>
  BY DEF DropPendingByte
<1>5. CASE Apply(r, h, 0) /\ UNCHANGED <<iLock, eFileLock, nShared>>
  <2>1. LevelsKept(h)
    BY <1>1, <1>5, LevelsUnchanged
  <2>2. QED
    BY <1>0, <1>2, <1>3, <1>5, <2>1, UncountedStep
<1>6. CASE Apply(r, h, 1) /\ SetLevel(h, SHARED_LOCK) /\ nShared' = [nShared EXCEPT ![p] = 1]
  <2>1. /\ klock' \in [Process -> [Byte -> LockType]]
        /\ nLock' \in [Process -> Int]
        /\ bProcessLock' \in [Process -> 0 .. 1]
        /\ \A q \in Process : q # p => nLock'[q] = nLock[q] /\ bProcessLock'[q] = bProcessLock[q]
        /\ nLock'[p] - bProcessLock'[p] = nLock[p] - bProcessLock[p] + 1
    BY <1>0, <1>1, <1>6, ApplyFacts
  <2>2. /\ iLock' \in [Process -> Level] /\ eFileLock' \in [Handle -> Level]
        /\ eFileLock'[h] = SHARED_LOCK /\ iLock'[p] = SHARED_LOCK
        /\ \A g \in Handle : g # h => eFileLock'[g] = eFileLock[g]
        /\ \A q \in Process : q # p => iLock'[q] = iLock[q]
    BY <1>0, <1>1, <1>6, SetLevelFacts
  <2>3. pc' \in [Thread -> Steps] /\ on' \in [Thread -> Handle \cup {NoHandle}]
        /\ req' \in [Thread -> Level]
    BY <1>1, <1>2, CallVarsTyped
  <2>4. nShared' \in [Process -> Int] /\ nShared'[p] = 1
        /\ \A q \in Process : q # p => nShared'[q] = nShared[q]
    BY <1>1, <1>6 DEF CountInv, Typed
  <2>5. Typed'
    BY <1>2, <2>1, <2>2, <2>3, <2>4 DEF CountInv, Typed
  <2>6. CallsOK' /\ StepsOK' /\ FilesOK'
    BY <1>0, <1>1, <1>2, <1>3, <2>2, MutexStep
  <2>7. eFileLock[h] = NO_LOCK /\ iLock[p] = NO_LOCK
    BY <1>0, <1>1 DEF CountInv, StepsOK, StepOK
  <2>8. ASSUME NEW q \in Process PROVE CountOK(q)'
    <3>1. CASE q # p
      <4>1. \A x \in Handle : ProcOf[x] = q =>
              eFileLock'[x] = eFileLock[x] /\ status'[x] = status[x]
        BY <1>2, <2>2, <3>1
      <4>2. nLock'[q] \in Int /\ bProcessLock'[q] \in Int
        BY <2>1
      <4>3. /\ nLock'[q] = nLock[q] /\ bProcessLock'[q] = bProcessLock[q]
            /\ nShared'[q] = nShared[q] /\ nRef'[q] = nRef[q] /\ iLock'[q] = iLock[q]
        BY <1>2, <2>1, <2>2, <2>4, <3>1
      <4>4. QED
        BY <4>1, <4>2, <4>3, CountsKept
    <3>2. CASE q = p
      <4>1. eFileLock'[h] \in SomeLock /\ eFileLock[h] \notin SomeLock
        BY <1>0, <2>2, <2>7 DEF SomeLock
      <4>2. Cardinality(Members(eFileLock', SomeLock, p)) = Cardinality(Members(eFileLock, SomeLock, p)) + 1
        BY ONLY <1>1, <2>2, <4>1, MembersUp
      <4>3. Cardinality(Members(eFileLock, SomeLock, p)) = 0
        BY <1>1, <2>7, FS_EmptySet DEF CountInv, CountsOK, CountOK
      <4>4. CountOK(p) /\ nLock[p] \in Int /\ bProcessLock[p] \in Int
            /\ nLock'[p] \in Int /\ bProcessLock'[p] \in Int
        BY <1>1, <2>1 DEF CountInv, CountsOK, Typed
      <4>5. nRef'[p] = nRef[p] /\ status' = status
        BY <1>2
      <4>6. QED
        BY ONLY <1>0, <2>1, <2>2, <2>4, <3>2, <4>2, <4>3, <4>4, <4>5 DEF CountOK
    <3>3. QED
      BY <3>1, <3>2
  <2>9. QED
    BY <2>5, <2>6, <2>8 DEF CountInv, CountsOK
<1>7. QED
  BY <1>4, <1>5, <1>6

LEMMA LockForWriteStep ==
  ASSUME CountInv, NEW t \in Thread, LockForWrite(t)
  PROVE  CountInv'
<1> DEFINE h == on[t]
<1> DEFINE byte == IF req[t] = RESERVED_LOCK THEN {"reserved"} ELSE {"shared"}
<1>0. pc[t] = "write" /\ pc[t] \in UnderLockMutex /\ pc[t] \in Locking
      /\ F_WRLCK \in LockType
  BY DEF LockForWrite, UnderLockMutex, Locking, LockType
<1>1. h \in Handle
  BY <1>0, InMutexFacts
<1>2. PICK r \in FileLock(h, byte, F_WRLCK) :
        /\ Apply(r, h, 0)
        /\ \/ SetLevel(h, req[t]) \/ SetLevel(h, PENDING_LOCK)
           \/ UNCHANGED <<iLock, eFileLock>>
  BY Zenon DEF LockForWrite
<1>3. Return(t) /\ UNCHANGED <<nShared, nUnused, nRef, status>>
  BY DEF LockForWrite
<1>4. StepOK(t)'
  BY <1>3, ReturnStepOK
<1>5. LevelsKept(h)
  <2>1. StepOK(t)
    BY DEF CountInv, StepsOK
  <2>2. req[t] \in SomeLock /\ PENDING_LOCK \in SomeLock /\ req[t] # SHARED_LOCK
    BY <1>0, <2>1 DEF StepOK, SomeLock, Level, NO_LOCK, SHARED_LOCK, RESERVED_LOCK,
     PENDING_LOCK, EXCLUSIVE_LOCK
  <2>3. eFileLock[h] # NO_LOCK
    BY <1>0, <2>1, <2>2 DEF StepOK
  <2>4. QED
    BY <1>1, <1>2, <2>2, <2>3, LevelsUnchanged, LevelRaised
<1>6. QED
  BY <1>0, <1>2, <1>3, <1>4, <1>5, UncountedStep

LEMMA DemoteSharedRangeStep ==
  ASSUME CountInv, NEW t \in Thread, DemoteSharedRange(t)
  PROVE  CountInv'
<1> DEFINE h == on[t]
<1>0. pc[t] = "demote" /\ pc[t] \in UnderLockMutex /\ pc[t] \in Unlocking
      /\ F_RDLCK \in LockType /\ "unlckBytes" \in UnderLockMutex
  BY DEF DemoteSharedRange, UnderLockMutex, Unlocking, LockType
<1>1. h \in Handle
  BY <1>0, InMutexFacts
<1>2. PICK r \in FileLock(h, {"shared"}, F_RDLCK) :
        /\ Apply(r, h, 0)
        /\ Goto(t, "unlckBytes") \/ ReturnFromUnlock(t)
  BY DEF DemoteSharedRange
<1>3. UNCHANGED <<iLock, nShared, nUnused, nRef, status, eFileLock>>
  BY DEF DemoteSharedRange, fileVars
<1>4. LevelsKept(h)
  BY <1>1, <1>3, LevelsUnchanged
<1>5. CASE ReturnFromUnlock(t)
  BY <1>0, <1>2, <1>3, <1>4, <1>5, ReturnFromUnlockFacts, UncountedStep
<1>6. CASE Goto(t, "unlckBytes")
  <2>1. on'[t] = h /\ pc'[t] = "unlckBytes"
    BY <1>6 DEF Goto, CountInv, Typed
  <2>2. StepOK(t)
    BY DEF CountInv, StepsOK
  <2>3. StepOK(t)'
    BY <1>0, <1>3, <2>1, <2>2 DEF StepOK, Locking, Unlocking, UnderBigLock
  <2>4. QED
    BY <1>0, <1>2, <1>3, <1>4, <1>6, <2>3, UncountedStep
<1>7. QED
  BY <1>2, <1>5, <1>6

LEMMA UnlockWriterBytesStep ==
  ASSUME CountInv, NEW t \in Thread, UnlockWriterBytes(t)
  PROVE  CountInv'
<1> DEFINE h == on[t]
<1>0. pc[t] = "unlckBytes" /\ pc[t] \in UnderLockMutex /\ pc[t] \in Unlocking
      /\ F_UNLCK \in LockType /\ "unlckFile" \in UnderLockMutex
  BY DEF UnlockWriterBytes, UnderLockMutex, Unlocking, LockType
<1>1. h \in Handle /\ ProcOf[h] \in Process
  BY <1>0, InMutexFacts
<1>2. PICK r \in FileLock(h, {"pending", "reserved"}, F_UNLCK) :
        /\ Apply(r, h, 0)
        /\ iLock' = [iLock EXCEPT ![ProcOf[h]] = SHARED_LOCK] \/ iLock' = iLock
        /\ \/ Goto(t, "unlckFile") /\ UNCHANGED eFileLock
           \/ ReturnFromUnlock(t) /\ eFileLock' = [eFileLock EXCEPT ![h] = SHARED_LOCK]
           \/ ReturnFromUnlock(t) /\ UNCHANGED eFileLock
  BY DEF UnlockWriterBytes
<1>3. UNCHANGED <<nShared, nUnused, nRef, status>>
  BY DEF UnlockWriterBytes
<1>4. StepOK(t)
  BY DEF CountInv, StepsOK
<1>5. LevelsKept(h)
  <2>1. SHARED_LOCK \in Level /\ SHARED_LOCK # NO_LOCK
    BY DEF Level, NO_LOCK, SHARED_LOCK, RESERVED_LOCK,
     PENDING_LOCK, EXCLUSIVE_LOCK
  <2>2. eFileLock[h] # NO_LOCK
    BY <1>0, <1>4 DEF StepOK
  <2>3. iLock \in [Process -> Level] /\ eFileLock \in [Handle -> Level]
    BY DEF CountInv, Typed
  <2>4. eFileLock' = [eFileLock EXCEPT ![h] = SHARED_LOCK] \/ eFileLock' = eFileLock
    BY <1>2
  <2>5. iLock' = [iLock EXCEPT ![ProcOf[h]] = SHARED_LOCK] \/ iLock' = iLock
    BY <1>2
  <2>6. QED
    BY ONLY <1>1, <2>1, <2>2, <2>3, <2>4, <2>5 DEF LevelsKept
<1>6. CASE ReturnFromUnlock(t)
  BY <1>0, <1>2, <1>3, <1>5, <1>6, ReturnFromUnlockFacts, UncountedStep
<1>7. CASE Goto(t, "unlckFile") /\ UNCHANGED eFileLock
  <2>1. on'[t] = h /\ pc'[t] = "unlckFile"
    BY <1>7 DEF Goto, CountInv, Typed
  <2>2. StepOK(t)'
    BY <1>0, <1>3, <1>4, <1>7, <2>1 DEF StepOK, Locking, Unlocking, UnderBigLock
  <2>3. QED
    BY <1>0, <1>2, <1>3, <1>5, <1>7, <2>2, UncountedStep
<1>8. QED
  BY <1>2, <1>6, <1>7

LEMMA UnlockStep ==
  ASSUME CountInv, NEW t \in Thread, NEW h \in Handle, NEW level \in {NO_LOCK, SHARED_LOCK},
         Unlock(t, h, level)
  PROVE  CountInv'
<1> DEFINE step == FirstUnlockStep(h, level)
<1>0. step \in Unlocking /\ step \in UnderLockMutex /\ step \in Steps \ {"idle"}
      /\ level \in Level
  BY DEF FirstUnlockStep, Unlocking, UnderLockMutex, UnderBigLock, Steps, Level, NO_LOCK, SHARED_LOCK, RESERVED_LOCK,
     PENDING_LOCK, EXCLUSIVE_LOCK
<1>1. /\ CanCall(t, h) /\ status[h] = "open" /\ eFileLock[h] > level
      /\ LockMutexFree(ProcOf[h]) /\ Call(t, h, step, level)
      /\ UNCHANGED <<klock, inodeVars, fileVars>>
  BY DEF Unlock
<1> HIDE DEF step
<1>2. eFileLock[h] # NO_LOCK
  <2>1. eFileLock[h] \in Level
    BY DEF CountInv, Typed
  <2>2. QED
    BY <1>1, <2>1 DEF Level, NO_LOCK, SHARED_LOCK, RESERVED_LOCK,
     PENDING_LOCK, EXCLUSIVE_LOCK
<1>3. Typed'
  BY <1>0, <1>1 DEF CountInv, Typed, inodeVars, fileVars, Call
<1>4. CallsOK'
  BY <1>0, <1>1, CallCallsOK
<1>5. StepOK(t)'
  <2>1. pc'[t] = step /\ on'[t] = h
    BY <1>1 DEF Call, CountInv, Typed
  <2>2. QED
    BY <1>0, <1>1, <1>2, <2>1 DEF StepOK, fileVars, Locking, Unlocking, UnderBigLock
<1>6. StepsOK'
  BY <1>0, <1>1, <1>5, BeginStepsOK DEF inodeVars, fileVars
<1>7. FilesOK' /\ CountsOK'
  BY <1>1 DEF CountInv, FilesOK, CountsOK, CountOK, inodeVars, fileVars
<1>8. QED
  BY <1>3, <1>4, <1>6, <1>7 DEF CountInv

(* unixClose takes the handle out of use before anything else.             *)
LEMMA CloseStep ==
  ASSUME CountInv, NEW t \in Thread, NEW h \in Handle, Close(t, h)
  PROVE  CountInv'
<1>1. PICK step \in {"close"} \cup Unlocking :
        /\ Call(t, h, step, NO_LOCK)
        /\ step \in Unlocking => eFileLock[h] > NO_LOCK /\ LockMutexFree(ProcOf[h])
  BY DEF Close, FirstUnlockStep, Unlocking
<1>2. /\ CanCall(t, h) /\ status[h] = "open"
      /\ status' = [status EXCEPT ![h] = "closing"]
      /\ UNCHANGED <<klock, inodeVars, eFileLock>>
  BY DEF Close
<1>3. /\ step \in Steps \ {"idle"} /\ NO_LOCK \in Level /\ step \notin Locking \cup UnderBigLock
      /\ step \in UnderLockMutex => step \in Unlocking
  BY DEF Unlocking, Locking, UnderLockMutex, UnderBigLock, Steps, Level, NO_LOCK, EXCLUSIVE_LOCK
<1>4. Typed'
  BY <1>1, <1>2, <1>3 DEF CountInv, Typed, inodeVars, Call
<1>5. CallsOK'
  BY <1>1, <1>2, <1>3, CallCallsOK
<1>6. StepOK(t)'
  <2>1. pc'[t] = step /\ on'[t] = h /\ status'[h] = "closing"
    BY <1>1, <1>2 DEF Call, CountInv, Typed
  <2>2. step \in Unlocking => eFileLock[h] # NO_LOCK
    BY <1>1 DEF NO_LOCK
  <2>3. QED
    BY <1>1, <1>2, <1>3, <2>1, <2>2 DEF StepOK, Locking, Unlocking, UnderBigLock
<1>7. StepsOK'
  <2>1. \A g \in Handle : g # h => status'[g] = status[g] /\ eFileLock'[g] = eFileLock[g]
    BY <1>2 DEF CountInv, Typed
  <2>2. QED
    BY <1>1, <1>2, <1>3, <1>6, <2>1, BeginStepsOK DEF inodeVars
<1>8. \A g \in Handle : status'[g] \in Attached <=> status[g] \in Attached
  BY <1>2 DEF CountInv, Typed, Attached
<1>9. FilesOK'
  BY <1>2, <1>8 DEF CountInv, FilesOK
<1>10. CountsOK'
  <2> SUFFICES ASSUME NEW q \in Process PROVE CountOK(q)'
    BY DEF CountsOK
  <2>1. nLock[q] \in Int /\ bProcessLock[q] \in Int
    BY DEF CountInv, Typed
  <2>2. QED
    BY <1>2, <1>8, <2>1, CountsKept DEF inodeVars
<1>11. QED
  BY <1>4, <1>5, <1>7, <1>9, <1>10 DEF CountInv

LEMMA DeferCloseStep ==
  ASSUME CountInv, NEW t \in Thread, DeferClose(t)
  PROVE  CountInv'
<1> DEFINE h == on[t]
<1>0. pc[t] = "close" /\ pc[t] # "idle"
  BY DEF DeferClose
<1>1. h \in Handle /\ ProcOf[h] = ProcOf[t] /\ ProcOf[h] \in Process /\ h # NoHandle
  BY <1>0, InCallFacts
<1>2. PICK step \in UnderBigLock : Goto(t, step)
  BY DEF DeferClose, UnderBigLock
<1>3. UNCHANGED <<klock, iLock, nShared, nLock, bProcessLock, nRef, fileVars>>
      /\ nUnused' \in [Process -> Nat]
  BY <1>1 DEF DeferClose, CountInv, Typed
<1>4. step \in Steps \ {"idle"} /\ step \notin UnderLockMutex
  BY DEF UnderLockMutex, UnderBigLock, Steps
<1>5. Typed'
  BY <1>1, <1>2, <1>3, <1>4 DEF CountInv, Typed, Goto, fileVars
<1>6. CallsOK'
  BY <1>0, <1>2, <1>4, GotoCallsOK DEF Goto
<1>7. /\ pc'[t] = step /\ on' = on /\ req' = req
      /\ \A u \in Thread : u # t => pc'[u] = pc[u] /\ on[u] # h
  BY <1>1, <1>2 DEF Goto, CountInv, Typed, CallsOK
<1>8. StepOK(t)'
  <2>1. status[h] = "closing"
    BY <1>0 DEF CountInv, StepsOK, StepOK
  <2>2. QED
    BY <1>3, <1>7, <2>1 DEF StepOK, fileVars, Locking, Unlocking, UnderBigLock
<1>9. StepsOK'
  BY <1>1, <1>3, <1>7, <1>8, StepsStep DEF fileVars
<1>10. FilesOK' /\ CountsOK'
  BY <1>3 DEF CountInv, FilesOK, CountsOK, CountOK, fileVars
<1>11. QED
  BY <1>5, <1>6, <1>9, <1>10 DEF CountInv

LEMMA OpenDescriptorStep ==
  ASSUME CountInv, NEW t \in Thread, NEW h \in Handle, OpenDescriptor(t, h)
  PROVE  CountInv'
<1>0. ProcOf[h] \in Process /\ "attach" \in Steps \ {"idle"} /\ "attach" \notin UnderLockMutex
      /\ NO_LOCK \in Level
  BY UnixLockAssumption DEF Steps, UnderLockMutex, Level, NO_LOCK, EXCLUSIVE_LOCK
<1>1. /\ CanCall(t, h) /\ status[h] = "closed"
      /\ status' = [status EXCEPT ![h] = "opening"]
      /\ Call(t, h, "attach", NO_LOCK)
      /\ UNCHANGED <<iLock, nShared, nLock, bProcessLock, nRef, eFileLock>>
  BY DEF OpenDescriptor
<1>2. /\ klock' \in [Process -> [Byte -> LockType]]
      /\ nUnused' \in [Process -> Nat]
  <2>1. klock \in [Process -> [Byte -> LockType]]
        /\ nUnused \in [Process -> Nat]
    BY DEF CountInv, Typed
  <2>2. DropLocks(klock, ProcOf[h]) \in [Process -> [Byte -> LockType]]
    BY <1>0, <2>1, DropLocksType
  <2>3. \/ /\ nUnused[ProcOf[h]] > 0 /\ nUnused' = [nUnused EXCEPT ![ProcOf[h]] = @ - 1]
           /\ klock' = klock
        \/ /\ nUnused' = nUnused
           /\ klock' = DropLocks(klock, ProcOf[h]) \/ klock' = klock
    BY DEF OpenDescriptor, AfterRobustOpen
  <2>4. klock' \in [Process -> [Byte -> LockType]]
    BY <2>1, <2>2, <2>3
  <2>5. nUnused' \in [Process -> Nat]
    BY ONLY <1>0, <2>1, <2>3
  <2>6. QED
    BY <2>4, <2>5
<1>3. Typed'
  BY <1>0, <1>1, <1>2 DEF CountInv, Typed, Call
<1>4. CallsOK'
  BY <1>0, <1>1, CallCallsOK
<1>5. StepOK(t)'
  <2>1. pc'[t] = "attach" /\ on'[t] = h /\ status'[h] = "opening"
    BY <1>1 DEF Call, CountInv, Typed
  <2>2. QED
    BY <2>1 DEF StepOK, Locking, Unlocking, UnderBigLock
<1>6. StepsOK'
  <2>1. \A g \in Handle : g # h => status'[g] = status[g] /\ eFileLock'[g] = eFileLock[g]
    BY <1>1 DEF CountInv, Typed
  <2>2. QED
    BY <1>0, <1>1, <1>5, <2>1, BeginStepsOK
<1>7. \A g \in Handle : status'[g] \in Attached <=> status[g] \in Attached
  BY <1>1 DEF CountInv, Typed, Attached
<1>8. FilesOK'
  BY <1>1, <1>7 DEF CountInv, FilesOK
<1>9. CountsOK'
  <2> SUFFICES ASSUME NEW q \in Process PROVE CountOK(q)'
    BY DEF CountsOK
  <2>1. nLock[q] \in Int /\ bProcessLock[q] \in Int
    BY DEF CountInv, Typed
  <2>2. QED
    BY <1>1, <1>7, <2>1, CountsKept
<1>10. QED
  BY <1>3, <1>4, <1>6, <1>8, <1>9 DEF CountInv

(* The one step that counts down: it relies on h being among the handles   *)
(* counted, and on the last of them being h alone.                         *)
LEMMA UnlockFileStep ==
  ASSUME CountInv, NEW t \in Thread, UnlockFile(t)
  PROVE  CountInv'
<1> DEFINE h == on[t]
<1> DEFINE p == ProcOf[h]
<1> DEFINE M == Members(eFileLock, SomeLock, p)
<1>0. pc[t] = "unlckFile" /\ pc[t] \in UnderLockMutex /\ pc[t] \in Unlocking
      /\ F_UNLCK \in LockType /\ NO_LOCK \in Level /\ "close" \in Steps
  BY DEF UnlockFile, UnderLockMutex, Unlocking, LockType, Level, NO_LOCK, EXCLUSIVE_LOCK, Steps
<1>1. /\ h \in Handle /\ p = ProcOf[t] /\ p \in Process /\ status[h] \in Attached
  BY <1>0, InMutexFacts
<1>2. PICK r \in (IF nShared[p] = 1 THEN FileLock(h, Byte, F_UNLCK) ELSE {NoChange(0)}) :
        LET left == nLock[p] + r.taken - 1 IN
        /\ bProcessLock' = [bProcessLock EXCEPT ![p] = @ + r.taken]
        /\ nLock' = [nLock EXCEPT ![p] = left]
        /\ nUnused' = IF left = 0 THEN [nUnused EXCEPT ![p] = 0] ELSE nUnused
        /\ klock' = IF left = 0 /\ nUnused[p] > 0 THEN DropLocks(r.table, p) ELSE r.table
  BY Zenon DEF UnlockFile
<1>3. /\ nShared' = [nShared EXCEPT ![p] = @ - 1]
      /\ iLock' = IF nShared[p] = 1 THEN [iLock EXCEPT ![p] = NO_LOCK] ELSE iLock
      /\ eFileLock' = [eFileLock EXCEPT ![h] = NO_LOCK]
      /\ ReturnFromUnlock(t)
      /\ UNCHANGED <<nRef, status>>
  BY DEF UnlockFile
<1> DEFINE taken == r.taken
<1>4. /\ r.table \in [Process -> [Byte -> LockType]]
      /\ taken \in {0, 1} /\ (taken = 1 => bProcessLock[p] = 0)
  <2>1. CASE nShared[p] = 1
    BY <1>0, <1>1, <1>2, <2>1, FileLockType DEF CountInv
  <2>2. CASE nShared[p] # 1
    <3>1. r = NoChange(0)
      BY <1>2, <2>2
    <3>2. QED
      BY <3>1 DEF NoChange, CountInv, Typed
  <2>3. QED
    BY <2>1, <2>2
<1>5. klock' \in [Process -> [Byte -> LockType]] /\ nUnused' \in [Process -> Nat]
  <2>1. DropLocks(r.table, p) \in [Process -> [Byte -> LockType]]
    BY <1>1, <1>4, DropLocksType
  <2>2. nUnused \in [Process -> Nat]
    BY DEF CountInv, Typed
  <2>3. QED
    BY <1>2, <1>4, <2>1, <2>2
<1>6. /\ bProcessLock' = [bProcessLock EXCEPT ![p] = @ + taken]
      /\ nLock' = [nLock EXCEPT ![p] = nLock[p] + taken - 1]
  BY <1>2
<1> HIDE DEF taken
<1>7. /\ nLock \in [Process -> Int] /\ bProcessLock \in [Process -> 0 .. 1]
      /\ nShared \in [Process -> Int] /\ iLock \in [Process -> Level]
      /\ eFileLock \in [Handle -> Level]
  BY DEF CountInv, Typed
<1>8. nLock' \in [Process -> Int] /\ bProcessLock' \in [Process -> 0 .. 1]
      /\ nShared' \in [Process -> Int]
  BY ONLY <1>1, <1>3, <1>4, <1>6, <1>7
<1>9. iLock' \in [Process -> Level] /\ eFileLock' \in [Handle -> Level]
      /\ (\A g \in Handle : g # h => eFileLock'[g] = eFileLock[g])
      /\ (\A q \in Process : q # p => iLock'[q] = iLock[q])
      /\ eFileLock'[h] = NO_LOCK
  BY <1>0, <1>1, <1>3, <1>7
<1>10. StepOK(t)' /\ (Return(t) \/ Call(t, h, "close", NO_LOCK))
  BY <1>3, ReturnFromUnlockFacts
<1>11. Typed'
  <2>1. pc' \in [Thread -> Steps] /\ on' \in [Thread -> Handle \cup {NoHandle}]
        /\ req' \in [Thread -> Level]
    BY <1>0, <1>1, <1>10, CallVarsTyped
  <2>2. QED
    BY <1>3, <1>5, <1>8, <1>9, <2>1 DEF CountInv, Typed
<1>12. CallsOK' /\ StepsOK' /\ FilesOK'
  BY <1>0, <1>1, <1>3, <1>9, <1>10, MutexStep
<1>13. ASSUME NEW q \in Process PROVE CountOK(q)'
  <2>1. CASE q # p
    <3>1. \A x \in Handle : ProcOf[x] = q =>
            eFileLock'[x] = eFileLock[x] /\ status'[x] = status[x]
      BY <1>3, <1>9, <2>1
    <3>2. nLock'[q] \in Int /\ bProcessLock'[q] \in Int
      BY <1>8
    <3>3. /\ nLock'[q] = nLock[q] /\ bProcessLock'[q] = bProcessLock[q]
          /\ nShared'[q] = nShared[q] /\ nRef'[q] = nRef[q] /\ iLock'[q] = iLock[q]
      BY <1>1, <1>3, <1>6, <1>7, <1>9, <2>1
    <3>4. QED
      BY <3>1, <3>2, <3>3, CountsKept
  <2>2. CASE q = p
    <3>1. eFileLock[h] \in SomeLock /\ eFileLock'[h] \notin SomeLock
      BY <1>0, <1>1, <1>7, <1>9 DEF SomeLock, CountInv, StepsOK, StepOK
    <3>2. Cardinality(Members(eFileLock', SomeLock, p)) = Cardinality(M) - 1
      BY ONLY <1>1, <1>9, <3>1, MembersDown
    <3>3. Cardinality(M) \in Nat /\ CountOK(p)
      BY <1>1, MembersFinite DEF CountInv, CountsOK
    <3>4. iLock'[p] = NO_LOCK => Members(eFileLock', SomeLock, p) = {}
      <4>1. CASE nShared[p] = 1
        <5>1. M = {h}
          <6>1. Cardinality(M) <= 1
            BY <3>3, <4>1 DEF CountOK
          <6>2. QED
            BY ONLY <1>1, <3>1, <6>1, OnlyMember
        <5>2. Members(eFileLock', SomeLock, p) \subseteq M \ {h}
          BY <1>9, <3>1 DEF Members
        <5>3. QED
          BY <5>1, <5>2
      <4>2. CASE nShared[p] # 1
        <5>1. iLock[p] # NO_LOCK
          <6>1. h \in M
            BY <1>1, <3>1 DEF Members
          <6>2. QED
            BY <3>3, <6>1 DEF CountOK
        <5>2. QED
          BY <1>3, <4>2, <5>1
      <4>3. QED
        BY <4>1, <4>2
    <3>5. /\ nShared'[p] = nShared[p] - 1 /\ nLock'[p] = nLock[p] + taken - 1
          /\ bProcessLock'[p] = bProcessLock[p] + taken
      BY <1>1, <1>3, <1>6, <1>7
    <3>6. /\ nShared[p] \in Int /\ nLock[p] \in Int /\ bProcessLock[p] \in Int /\ taken \in Int
      BY <1>1, <1>4, <1>7
    <3>7. nRef'[p] = nRef[p] /\ status' = status
      BY <1>3
    <3>8. QED
      BY ONLY <2>2, <3>2, <3>3, <3>4, <3>5, <3>6, <3>7 DEF CountOK
  <2>3. QED
    BY <2>1, <2>2
<1>14. QED
  BY <1>11, <1>12, <1>13 DEF CountInv, CountsOK

LEMMA AttachStep ==
  ASSUME CountInv, NEW t \in Thread, Attach(t)
  PROVE  CountInv'
<1> DEFINE h == on[t]
<1> DEFINE p == ProcOf[h]
<1>0. pc[t] = "attach" /\ pc[t] # "idle"
  BY DEF Attach
<1>1. h \in Handle /\ p = ProcOf[t] /\ p \in Process /\ h # NoHandle
  BY <1>0, InCallFacts
<1>2. /\ Return(t)
      /\ UNCHANGED <<iLock, nShared, nLock, bProcessLock, nUnused, eFileLock>>
      /\ \/ /\ nRef' = [nRef EXCEPT ![p] = @ + 1]
            /\ status' = [status EXCEPT ![h] = "open"]
            /\ UNCHANGED klock
         \/ /\ klock' = DropLocks(klock, p)
            /\ status' = [status EXCEPT ![h] = "closed"]
            /\ UNCHANGED nRef
  BY DEF Attach
<1>3. status[h] = "opening" /\ eFileLock[h] = NO_LOCK
  BY <1>0, <1>1 DEF CountInv, StepsOK, StepOK, FilesOK, Attached
<1>4. klock' \in [Process -> [Byte -> LockType]]
  <2>1. klock \in [Process -> [Byte -> LockType]]
    BY DEF CountInv, Typed
  <2>2. DropLocks(klock, p) \in [Process -> [Byte -> LockType]]
    BY <1>1, <2>1, DropLocksType
  <2>3. QED
    BY <1>2, <2>1, <2>2
<1>5. /\ nRef' \in [Process -> Int]
      /\ status' \in [Handle -> {"closed", "opening", "open", "closing"}]
      /\ \A g \in Handle : g # h => status'[g] = status[g]
  <2>1. nRef \in [Process -> Int]
        /\ status \in [Handle -> {"closed", "opening", "open", "closing"}]
    BY DEF CountInv, Typed
  <2>2. nRef' \in [Process -> Int]
    BY ONLY <1>1, <1>2, <2>1
  <2>3. /\ status' \in [Handle -> {"closed", "opening", "open", "closing"}]
        /\ \A g \in Handle : g # h => status'[g] = status[g]
    BY ONLY <1>1, <1>2, <2>1
  <2>4. QED
    BY <2>2, <2>3
<1>6. Typed'
  <2>1. pc' \in [Thread -> Steps] /\ on' \in [Thread -> Handle \cup {NoHandle}]
        /\ req' \in [Thread -> Level]
    BY <1>1, <1>2, CallVarsTyped
  <2>2. QED
    BY <1>2, <1>4, <1>5, <2>1 DEF CountInv, Typed
<1>7. CallsOK'
  BY <1>2, ReturnCallsOK
<1>8. StepsOK'
  <2>1. \A u \in Thread : u # t => /\ pc'[u] = pc[u] /\ on'[u] = on[u] /\ req'[u] = req[u]
                                  /\ on[u] # h
    BY <1>1, <1>2 DEF Return, Call, CountInv, Typed, CallsOK
  <2>2. QED
    BY <1>1, <1>2, <1>5, <2>1, ReturnStepOK, StepsStep
<1>9. FilesOK'
  BY <1>2, <1>3, <1>5 DEF CountInv, FilesOK
<1>10. ASSUME NEW q \in Process PROVE CountOK(q)'
  <2>1. nLock[q] \in Int /\ bProcessLock[q] \in Int
    BY DEF CountInv, Typed
  <2>2. CASE (q # p \/ status'[h] = "closed") /\ nRef'[q] = nRef[q]
    <3>1. \A x \in Handle : ProcOf[x] = q => (status'[x] \in Attached <=> status[x] \in Attached)
      BY <1>3, <1>5, <2>2 DEF Attached
    <3>2. QED
      BY <1>2, <2>1, <2>2, <3>1, CountsKept
  <2>3. CASE q = p /\ status'[h] = "open" /\ nRef'[q] = nRef[q] + 1
    <3>1. Cardinality(Members(status', Attached, q)) = Cardinality(Members(status, Attached, q)) + 1
      <4>1. status[h] \notin Attached /\ status'[h] \in Attached /\ ProcOf[h] = q
        BY <1>3, <2>3 DEF Attached
      <4>2. QED
        BY ONLY <1>1, <1>5, <4>1, MembersUp
    <3>2. CountOK(q)
      BY DEF CountInv, CountsOK
    <3>3. eFileLock' = eFileLock /\ nShared' = nShared /\ nLock' = nLock
          /\ bProcessLock' = bProcessLock /\ iLock' = iLock
      BY <1>2
    <3>4. QED
      BY ONLY <2>3, <3>1, <3>2, <3>3 DEF CountOK
  <2>4. QED
    BY <1>1, <1>2, <2>2, <2>3 DEF CountInv, Typed
<1>11. QED
  BY <1>6, <1>7, <1>8, <1>9, <1>10 DEF CountInv, CountsOK

(* releaseInodeInfo frees the inode with its last handle: nothing is left  *)
(* that its counters could count.                                          *)
LEMMA ReleaseStep ==
  ASSUME CountInv, NEW t \in Thread, Release(t)
  PROVE  CountInv'
<1> DEFINE h == on[t]
<1> DEFINE p == ProcOf[h]
<1> DEFINE A == Members(status, Attached, p)
<1>0. pc[t] \in UnderBigLock /\ pc[t] # "idle" /\ NO_LOCK \in Level
  BY DEF Release, UnderBigLock, Level, NO_LOCK, EXCLUSIVE_LOCK
<1>1. h \in Handle /\ p = ProcOf[t] /\ p \in Process /\ h # NoHandle
  BY <1>0, InCallFacts
<1> DEFINE Freed(f, g) == g = IF nRef[p] = 1 THEN [f EXCEPT ![p] = 0] ELSE f
<1>2. /\ nRef' = [nRef EXCEPT ![p] = @ - 1]
      /\ Freed(iLock, iLock') /\ Freed(nShared, nShared') /\ Freed(nLock, nLock')
      /\ Freed(bProcessLock, bProcessLock') /\ Freed(nUnused, nUnused')
      /\ klock' = DropLocks(klock, p) \/ klock' = klock
      /\ status' = [status EXCEPT ![h] = "closed"]
      /\ eFileLock' = [eFileLock EXCEPT ![h] = NO_LOCK]
      /\ Return(t)
  BY DEF Release
<1>3. status[h] = "closing" /\ status[h] \in Attached
  BY <1>0 DEF CountInv, StepsOK, StepOK, Attached
<1>4. klock' \in [Process -> [Byte -> LockType]]
  <2>1. klock \in [Process -> [Byte -> LockType]]
    BY DEF CountInv, Typed
  <2>2. DropLocks(klock, p) \in [Process -> [Byte -> LockType]]
    BY <1>1, <2>1, DropLocksType
  <2>3. QED
    BY <1>2, <2>1, <2>2
<1>5. /\ nRef' \in [Process -> Int] /\ nShared' \in [Process -> Int]
      /\ nLock' \in [Process -> Int] /\ bProcessLock' \in [Process -> 0 .. 1]
      /\ nUnused' \in [Process -> Nat] /\ iLock' \in [Process -> Level]
  BY <1>0, <1>1, <1>2 DEF CountInv, Typed, NO_LOCK
<1>6. /\ status' \in [Handle -> {"closed", "opening", "open", "closing"}]
      /\ eFileLock' \in [Handle -> Level]
      /\ \A g \in Handle : g # h => status'[g] = status[g] /\ eFileLock'[g] = eFileLock[g]
      /\ status'[h] = "closed" /\ eFileLock'[h] = NO_LOCK
  BY <1>0, <1>1, <1>2 DEF CountInv, Typed
<1>7. Typed'
  <2>1. pc' \in [Thread -> Steps] /\ on' \in [Thread -> Handle \cup {NoHandle}]
        /\ req' \in [Thread -> Level]
    BY <1>1, <1>2, CallVarsTyped
  <2>2. QED
    BY <1>2, <1>4, <1>5, <1>6, <2>1 DEF CountInv, Typed
<1>8. nRef[p] = 1 => A = {h}
  <2>1. Cardinality(A) = nRef[p]
    BY <1>1 DEF CountInv, CountsOK, CountOK
  <2>2. SUFFICES ASSUME nRef[p] = 1 PROVE A = {h}
    OBVIOUS
  <2>3. Cardinality(A) <= 1
    BY <2>1, <2>2
  <2>4. QED
    BY ONLY <1>1, <1>3, <2>3, OnlyMember
<1>9. CallsOK'
  BY <1>2, ReturnCallsOK
<1>10. StepsOK'
  <2>1. \A u \in Thread : u # t => /\ pc'[u] = pc[u] /\ on'[u] = on[u] /\ req'[u] = req[u]
                                  /\ on[u] # h
    BY <1>1, <1>2 DEF Return, Call, CountInv, Typed, CallsOK
  <2>2. \A q \in Process : q # p => iLock'[q] = iLock[q]
    BY <1>2 DEF CountInv, Typed
  <2>3. \/ iLock'[p] = iLock[p]
        \/ \A u \in Thread : u # t /\ ProcOf[u] = p => pc[u] \notin Locking
    <3>1. CASE nRef[p] # 1
      BY <1>2, <3>1
    <3>2. CASE nRef[p] = 1
      <4>1. ASSUME NEW u \in Thread, u # t, ProcOf[u] = p, pc[u] \in Locking PROVE FALSE
        <5>1. pc[u] # "idle"
          BY <4>1 DEF Locking
        <5>2. on[u] \in Handle /\ ProcOf[on[u]] = p
          BY <4>1, <5>1, InCallFacts
        <5>3. status[on[u]] \in Attached
          BY <4>1 DEF CountInv, StepsOK, StepOK, Attached
        <5>4. on[u] \in A
          BY <5>2, <5>3 DEF Members
        <5>5. QED
          BY <1>8, <2>1, <3>2, <4>1, <5>4
      <4>2. QED
        BY <4>1
    <3>3. QED
      BY <3>1, <3>2
  <2>4. QED
    BY <1>1, <1>2, <1>6, <2>1, <2>2, <2>3, ReturnStepOK, StepsStep
<1>11. FilesOK'
  BY <1>6 DEF CountInv, FilesOK
<1>12. ASSUME NEW q \in Process PROVE CountOK(q)'
  <2>1. CASE q # p
    <3>1. \A x \in Handle : ProcOf[x] = q =>
            eFileLock'[x] = eFileLock[x] /\ status'[x] = status[x]
      BY <1>6, <2>1
    <3>2. nLock'[q] \in Int /\ bProcessLock'[q] \in Int
      BY <1>5
    <3>3. /\ nLock'[q] = nLock[q] /\ bProcessLock'[q] = bProcessLock[q]
          /\ nShared'[q] = nShared[q] /\ nRef'[q] = nRef[q] /\ iLock'[q] = iLock[q]
      BY <1>2, <2>1 DEF CountInv, Typed
    <3>4. QED
      BY <3>1, <3>2, <3>3, CountsKept
  <2>2. CASE q = p
    <3>1. Cardinality(Members(status', Attached, p)) = nRef'[p]
      <4>1. status'[h] \notin Attached
        BY <1>6 DEF Attached
      <4>2. Cardinality(Members(status', Attached, p)) = Cardinality(A) - 1
        BY ONLY <1>1, <1>3, <1>6, <4>1, MembersDown
      <4>3. Cardinality(A) = nRef[p] /\ nRef'[p] = nRef[p] - 1
        BY <1>1, <1>2 DEF CountInv, Typed, CountsOK, CountOK
      <4>4. QED
        BY <4>2, <4>3
    <3>2. CASE nRef[p] = 1
      <4>1. Members(eFileLock', SomeLock, p) = {}
        <5>1. SUFFICES ASSUME NEW x \in Handle, ProcOf[x] = p, eFileLock'[x] # NO_LOCK
                       PROVE  FALSE
          BY DEF Members, SomeLock
        <5>2. x # h /\ eFileLock[x] # NO_LOCK
          BY <1>6, <5>1
        <5>3. x \in A
          BY <5>1, <5>2 DEF CountInv, FilesOK, Members
        <5>4. QED
          BY <1>8, <3>2, <5>2, <5>3
      <4>2. Cardinality({}) = 0
        BY FS_EmptySet
      <4>3. nShared'[p] = 0 /\ nLock'[p] = 0 /\ bProcessLock'[p] = 0
        BY <1>1, <1>2, <3>2 DEF CountInv, Typed
      <4>4. QED
        BY ONLY <2>2, <3>1, <4>1, <4>2, <4>3 DEF CountOK
    <3>3. CASE nRef[p] # 1
      <4>1. /\ nShared' = nShared /\ nLock' = nLock /\ bProcessLock' = bProcessLock
            /\ iLock' = iLock
        BY <1>2, <3>3
      <4>2. Members(eFileLock', SomeLock, p) \subseteq Members(eFileLock, SomeLock, p)
        BY <1>6 DEF Members, SomeLock
      <4>3. Cardinality(Members(eFileLock', SomeLock, p)) <= Cardinality(Members(eFileLock, SomeLock, p))
        BY <4>2, MembersFinite, FS_Subset
      <4>4. CountOK(p) /\ nShared[p] \in Int /\ nLock[p] \in Int /\ bProcessLock[p] \in Int
        BY <1>1 DEF CountInv, CountsOK, Typed
      <4>5. /\ Cardinality(Members(eFileLock', SomeLock, p)) \in Nat
            /\ Cardinality(Members(eFileLock, SomeLock, p)) \in Nat
        BY MembersFinite
      <4>6. QED
        BY ONLY <2>2, <3>1, <4>1, <4>2, <4>3, <4>4, <4>5 DEF CountOK
    <3>4. QED
      BY <3>2, <3>3
  <2>3. QED
    BY <2>1, <2>2
<1>13. QED
  BY <1>7, <1>9, <1>10, <1>11, <1>12 DEF CountInv, CountsOK

LEMMA CrashStep ==
  ASSUME CountInv, NEW p \in Process, Crash(p)
  PROVE  CountInv'
<1> DEFINE Lost(f, g, S, default) == g = [x \in S |-> IF ProcOf[x] = p THEN default ELSE f[x]]
<1>0. NO_LOCK \in Level /\ "idle" \in Steps /\ NO_LOCK = 0
  BY DEF Level, NO_LOCK, EXCLUSIVE_LOCK, Steps
<1>1. /\ iLock' = [iLock EXCEPT ![p] = 0] /\ nShared' = [nShared EXCEPT ![p] = 0]
      /\ nLock' = [nLock EXCEPT ![p] = 0] /\ bProcessLock' = [bProcessLock EXCEPT ![p] = 0]
      /\ nUnused' = [nUnused EXCEPT ![p] = 0] /\ nRef' = [nRef EXCEPT ![p] = 0]
      /\ klock' = DropLocks(klock, p)
  BY DEF Crash
<1>2. /\ status' = [x \in Handle |-> IF ProcOf[x] = p THEN "closed" ELSE status[x]]
      /\ eFileLock' = [x \in Handle |-> IF ProcOf[x] = p THEN NO_LOCK ELSE eFileLock[x]]
      /\ pc' = [x \in Thread |-> IF ProcOf[x] = p THEN "idle" ELSE pc[x]]
      /\ on' = [x \in Thread |-> IF ProcOf[x] = p THEN NoHandle ELSE on[x]]
      /\ req' = [x \in Thread |-> IF ProcOf[x] = p THEN NO_LOCK ELSE req[x]]
  BY DEF Crash, CountInv, Typed
<1>3. klock' \in [Process -> [Byte -> LockType]]
  BY <1>1, DropLocksType DEF CountInv, Typed
<1>4. /\ nRef' \in [Process -> Int] /\ nShared' \in [Process -> Int]
      /\ nLock' \in [Process -> Int] /\ bProcessLock' \in [Process -> 0 .. 1]
      /\ nUnused' \in [Process -> Nat] /\ iLock' \in [Process -> Level]
  BY <1>0, <1>1 DEF CountInv, Typed
<1>5. /\ status' \in [Handle -> {"closed", "opening", "open", "closing"}]
      /\ eFileLock' \in [Handle -> Level]
      /\ pc' \in [Thread -> Steps] /\ on' \in [Thread -> Handle \cup {NoHandle}]
      /\ req' \in [Thread -> Level]
  BY <1>0, <1>2 DEF CountInv, Typed
<1>6. Typed'
  BY <1>1, <1>3, <1>4, <1>5 DEF CountInv, Typed
<1>7. CallsOK'
  <2>1. CallsOK
    BY DEF CountInv
  <2>2. "idle" \notin UnderLockMutex
    BY DEF UnderLockMutex
  <2>3. QED
    BY ONLY <1>2, <2>1, <2>2 DEF CallsOK
<1>8. StepsOK'
  <2> SUFFICES ASSUME NEW t \in Thread PROVE StepOK(t)'
    BY DEF StepsOK
  <2>1. CASE ProcOf[t] = p
    <3>1. pc'[t] = "idle"
      BY <1>2, <2>1
    <3>2. QED
      BY <3>1 DEF StepOK, Locking, Unlocking, UnderBigLock
  <2>2. CASE ProcOf[t] # p
    <3>1. pc'[t] = pc[t] /\ on'[t] = on[t] /\ req'[t] = req[t]
      BY <1>2, <2>2
    <3>2. pc[t] # "idle" => on[t] \in Handle /\ ProcOf[on[t]] # p
      BY <2>2, InCallFacts
    <3>3. pc[t] # "idle" => status'[on[t]] = status[on[t]] /\ eFileLock'[on[t]] = eFileLock[on[t]]
      BY <1>2, <3>2
    <3>4. pc[t] \in Locking => iLock'[ProcOf[t]] = iLock[ProcOf[t]]
      BY <1>1, <2>2, UnixLockAssumption DEF CountInv, Typed
    <3>5. QED
      BY <3>1, <3>3, <3>4, OtherStepOK
  <2>3. QED
    BY <2>1, <2>2
<1>9. FilesOK'
  BY <1>2 DEF CountInv, FilesOK
<1>10. ASSUME NEW q \in Process PROVE CountOK(q)'
  <2>1. CASE q # p
    <3>1. \A x \in Handle : ProcOf[x] = q =>
            eFileLock'[x] = eFileLock[x] /\ status'[x] = status[x]
      BY <1>2, <2>1
    <3>2. nLock'[q] \in Int /\ bProcessLock'[q] \in Int
      BY <1>4
    <3>3. /\ nLock'[q] = nLock[q] /\ bProcessLock'[q] = bProcessLock[q]
          /\ nShared'[q] = nShared[q] /\ nRef'[q] = nRef[q] /\ iLock'[q] = iLock[q]
      BY <1>1, <2>1 DEF CountInv, Typed
    <3>4. QED
      BY <3>1, <3>2, <3>3, CountsKept
  <2>2. CASE q = p
    <3>1. Members(eFileLock', SomeLock, p) = {} /\ Members(status', Attached, p) = {}
      BY <1>2 DEF Members, SomeLock, Attached
    <3>2. Cardinality({}) = 0
      BY FS_EmptySet
    <3>3. nShared'[p] = 0 /\ nLock'[p] = 0 /\ bProcessLock'[p] = 0 /\ nRef'[p] = 0
      BY <1>1 DEF CountInv, Typed
    <3>4. QED
      BY ONLY <2>2, <3>1, <3>2, <3>3 DEF CountOK
  <2>3. QED
    BY <2>1, <2>2
<1>11. QED
  BY <1>6, <1>7, <1>8, <1>9, <1>10 DEF CountInv, CountsOK

LEMMA NextCountInv == CountInv /\ [Next]_vars => CountInv'
<1> SUFFICES ASSUME CountInv, [Next]_vars PROVE CountInv'
  OBVIOUS
<1>1. ASSUME NEW t \in Thread, ThreadStep(t) PROVE CountInv'
  BY <1>1, LockPendingByteStep, LockSharedRangeStep, DropPendingByteStep, LockForWriteStep,
     DemoteSharedRangeStep, UnlockWriterBytesStep, UnlockFileStep, DeferCloseStep,
     ReleaseStep, AttachStep
  DEF ThreadStep, FileLockStep
<1>2. ASSUME NEW t \in Thread, NEW h \in Handle, Begin(t, h) PROVE CountInv'
  BY <1>2, OpenDescriptorStep, LockSharedAgainStep, LockStep, UnlockStep, CloseStep DEF Begin
<1>3. ASSUME NEW p \in Process, Crash(p) PROVE CountInv'
  BY <1>3, CrashStep
<1>4. CASE UNCHANGED vars
  BY <1>4 DEF CountInv, Typed, CallsOK, StepsOK, StepOK, FilesOK, CountsOK, CountOK,
     vars, inodeVars, fileVars, callVars
<1>5. QED
  BY <1>1, <1>2, <1>3, <1>4 DEF Next

LEMMA CountInvTypeOK == CountInv => TypeOK
<1> SUFFICES ASSUME CountInv PROVE TypeOK
  OBVIOUS
<1>1. ASSUME NEW p \in Process
      PROVE  nShared[p] \in Nat /\ nLock[p] \in Nat /\ nRef[p] \in Nat
  <2>1. /\ Cardinality(Members(eFileLock, SomeLock, p)) \in Nat
        /\ Cardinality(Members(status, Attached, p)) \in Nat
    BY MembersFinite
  <2>2. CountOK(p) /\ nShared[p] \in Int /\ nLock[p] \in Int /\ bProcessLock[p] \in 0 .. 1
    BY DEF CountInv, CountsOK, Typed
  <2>3. QED
    BY ONLY <2>1, <2>2 DEF CountOK
<1>2. /\ nShared \in [Process -> Nat] /\ nLock \in [Process -> Nat]
      /\ nRef \in [Process -> Nat]
  BY <1>1 DEF CountInv, Typed
<1>3. QED
  BY <1>2 DEF CountInv, Typed, TypeOK, Steps

(* However calls interleave, fail and crash, the counters of unixInodeInfo *)
(* stay at least as high as what they count; so none goes negative, and    *)
(* posixUnlock's assert on nLock holds.                                    *)
THEOREM CountsCorrect == Spec => []CountInv
<1>1. QED
  BY InitCountInv, NextCountInv, PTL DEF Spec

(* Type correctness, with the counters of unixInodeInfo never negative.    *)
THEOREM TypeCorrect == Spec => []TypeOK
  BY CountsCorrect, CountInvTypeOK, PTL

-----------------------------------------------------------------------------
(***************************************************************************)
(* What a handle believes it holds, the kernel holds for its process, and  *)
(* so the levels exclude each other.                                       *)
(*                                                                         *)
(* One thing can go wrong (the run unixlock_close_race shows it): between  *)
(* unixClose's look at nLock and its close() another thread of the process *)
(* gets a lock, which the close() drops.  The proofs show that it is the   *)
(* only one, and that a process with a single thread is safe.              *)
(***************************************************************************)
(* A process opens its handles through one of the two VFSes, has no free   *)
(* descriptor below 3, and the unlocking of bytes does not fail.           *)
Regular ==
  /\ \A g, h \in Handle : ProcOf[g] = ProcOf[h] => (g \in ExclHandle <=> h \in ExclHandle)
  /\ LowFdFree = FALSE
  /\ "unlck" \notin Faults

NoCloseRace ==
  \A t \in Thread : pc[t] = "release" => nLock[ProcOf[t]] = 0 /\ LockMutexFree(ProcOf[t])

SingleThreaded == \A t, u \in Thread : ProcOf[t] = ProcOf[u] => t = u

(***************************************************************************)
(* The inductive invariant: what the kernel holds for a process follows    *)
(* from the level of its inode, and the only handle past SHARED has that   *)
(* level.                                                                  *)
(***************************************************************************)
ExclProcess(p) == \E h \in ExclHandle : ProcOf[h] = p

Demoted(p) == \E t \in Thread : ProcOf[t] = p /\ pc[t] = "unlckBytes" /\ req[t] = SHARED_LOCK

InodeOK(p) ==
  /\ iLock[p] = NO_LOCK <=> nShared[p] = 0
  /\ nLock[p] = nShared[p] + bProcessLock[p]
  /\ nRef[p] = 0 => iLock[p] = NO_LOCK /\ bProcessLock[p] = 0
  /\ iLock[p] = EXCLUSIVE_LOCK => nShared[p] <= 1

ExclOK(p) ==
  /\ iLock[p] # NO_LOCK => bProcessLock[p] = 1
  /\ bProcessLock[p] = 1 => klock[p]["shared"] = F_WRLCK

PlainOK(p) ==
  /\ iLock[p] # NO_LOCK => klock[p]["shared"] # F_UNLCK
  /\ iLock[p] = RESERVED_LOCK => klock[p]["reserved"] = F_WRLCK
  /\ iLock[p] \in {PENDING_LOCK, EXCLUSIVE_LOCK} => klock[p]["pending"] = F_WRLCK
  /\ iLock[p] = EXCLUSIVE_LOCK => klock[p]["shared"] = F_WRLCK \/ Demoted(p)

KernelOK(p) == IF ExclProcess(p) THEN ExclOK(p) ELSE PlainOK(p)

(* Of the handles of an inode one at most is past SHARED.                  *)
WriterOK(h) == Held(h) > SHARED_LOCK => iLock[ProcOf[h]] = eFileLock[h]
Apart(g, h) ==
  g # h /\ ProcOf[g] = ProcOf[h] => ~(eFileLock[g] > SHARED_LOCK /\ eFileLock[h] > SHARED_LOCK)

(* What a call may rely on at each of its steps.                           *)
Granted(p, byte, types) == ~ExclProcess(p) => klock[p][byte] \in types

CallOK(t) ==
  LET h == on[t]
      p == ProcOf[t]
  IN
  /\ pc[t] \in {"shared", "unpend", "unpendFail"} /\ ExclProcess(p) => bProcessLock[p] = 1
  /\ pc[t] = "unpend" => Granted(p, "shared", {F_RDLCK, F_WRLCK})
  /\ pc[t] = "write" /\ req[t] = EXCLUSIVE_LOCK =>
       Granted(p, "pending", {F_WRLCK}) /\ nShared[p] <= 1
  /\ pc[t] \in Locking /\ req[t] # SHARED_LOCK =>
       /\ iLock[p] = eFileLock[h]
       /\ req[t] = RESERVED_LOCK => eFileLock[h] = SHARED_LOCK
  /\ pc[t] \in {"demote", "unlckBytes"} =>
       eFileLock[h] > SHARED_LOCK /\ req[t] \in {NO_LOCK, SHARED_LOCK}
  /\ pc[t] = "demote" => req[t] = SHARED_LOCK
  /\ pc[t] = "unlckFile" => req[t] = NO_LOCK

BackInv ==
  /\ CountInv /\ TableOK(klock)
  /\ \A p \in Process : InodeOK(p) /\ KernelOK(p)
  /\ \A h \in Handle : WriterOK(h)
  /\ \A g, h \in Handle : Apart(g, h)
  /\ \A t \in Thread : CallOK(t)

(***************************************************************************)
(* Lock tables.                                                            *)
(***************************************************************************)
Tables == [Process -> [Byte -> LockType]]

LEMMA SetLockFacts ==
  ASSUME NEW k \in Tables, NEW p \in Process, NEW bytes, NEW type \in LockType
  PROVE  /\ SetLock(k, p, bytes, type) \in Tables
         /\ \A q \in Process : q # p => SetLock(k, p, bytes, type)[q] = k[q]
         /\ \A b \in Byte : SetLock(k, p, bytes, type)[p][b] = IF b \in bytes THEN type ELSE k[p][b]
  BY DEF SetLock, Tables

LEMMA DropLocksFacts ==
  ASSUME NEW k \in Tables, NEW p \in Process
  PROVE  /\ DropLocks(k, p) \in Tables
         /\ \A q \in Process : q # p => DropLocks(k, p)[q] = k[q]
         /\ \A b \in Byte : DropLocks(k, p)[p][b] = F_UNLCK
  BY DEF DropLocks, Tables, LockType, F_UNLCK

(* A table in which one row got weaker, or stronger as far as the others   *)
(* are compatible.                                                         *)
LEMMA RowChanged ==
  ASSUME NEW k \in Tables, NEW m \in Tables, TableOK(k), NEW p \in Process,
         \A q \in Process : q # p => m[q] = k[q],
         \A b \in Byte, q \in Process : q # p => Compatible(k[q][b], m[p][b]) /\ Compatible(m[p][b], k[q][b])
  PROVE  TableOK(m)
<1> SUFFICES ASSUME NEW q \in Process, NEW r \in Process, q # r, NEW b \in Byte
             PROVE  Compatible(m[q][b], m[r][b])
  BY DEF TableOK, Tables
<1>1. CASE q = p
  BY <1>1
<1>2. CASE r = p
  BY <1>2
<1>3. CASE q # p /\ r # p
  BY <1>3 DEF TableOK, Tables
<1>4. QED
  BY <1>1, <1>2, <1>3

LEMMA DropTableOK ==
  ASSUME NEW k \in Tables, NEW p \in Process, TableOK(k)
  PROVE  TableOK(DropLocks(k, p))
  BY DropLocksFacts, RowChanged DEF Compatible

LEMMA SetTableOK ==
  ASSUME NEW k \in Tables, NEW p \in Process, TableOK(k), NEW bytes \in SUBSET Byte, NEW type \in LockType,
         Grantable(k, p, bytes, type)
  PROVE  TableOK(SetLock(k, p, bytes, type))
<1> DEFINE m == SetLock(k, p, bytes, type)
<1>1. /\ m \in Tables
      /\ \A q \in Process : q # p => m[q] = k[q]
      /\ \A b \in Byte : m[p][b] = IF b \in bytes THEN type ELSE k[p][b]
  BY SetLockFacts
<1>2. ASSUME NEW b \in Byte, NEW q \in Process, q # p
      PROVE  Compatible(k[q][b], m[p][b]) /\ Compatible(m[p][b], k[q][b])
  <2>1. k[q][b] \in LockType /\ k[p][b] \in LockType
    BY DEF Tables
  <2>2. CASE b \in bytes
    <3>1. Compatible(k[q][b], type)
      BY <1>2, <2>2 DEF Grantable, Tables
    <3>2. QED
      BY <1>1, <2>1, <2>2, <3>1 DEF Compatible, LockType, F_UNLCK, F_RDLCK, F_WRLCK
  <2>3. CASE b \notin bytes
    BY <1>1, <1>2, <2>3 DEF TableOK, Tables
  <2>4. QED
    BY <2>2, <2>3
<1>3. QED
  BY <1>1, <1>2, RowChanged

(***************************************************************************)
(* What one unixFileLock does.                                             *)
(***************************************************************************)
OneRow(p) == \A q \in Process : q # p => klock'[q] = klock[q]
OneInode(p) ==
  \A q \in Process : q # p =>
    /\ iLock'[q] = iLock[q] /\ nShared'[q] = nShared[q] /\ nLock'[q] = nLock[q]
    /\ bProcessLock'[q] = bProcessLock[q] /\ nRef'[q] = nRef[q]

LEMMA TablesTyped == CountInv => klock \in Tables
  BY DEF CountInv, Typed, Tables

(* A handle of unix-excl: no request does anything once the process lock   *)
(* is taken.                                                               *)
LEMMA ExclFileLock ==
  ASSUME BackInv, NEW h \in ExclHandle, NEW bytes \in SUBSET Byte, NEW type \in LockType,
         NEW r \in FileLock(h, bytes, type)
  PROVE  /\ r.table \in Tables /\ TableOK(r.table)
         /\ \A q \in Process : q # ProcOf[h] => r.table[q] = klock[q]
         /\ \/ r.table = klock /\ r.taken = 0 /\ (bProcessLock[ProcOf[h]] = 1 => r.rc = 0)
               /\ (r.rc = 0 => bProcessLock[ProcOf[h]] = 1)
            \/ /\ bProcessLock[ProcOf[h]] = 0 /\ r.taken = 1 /\ r.rc = 0
               /\ r.table[ProcOf[h]]["shared"] = F_WRLCK
<1> DEFINE p == ProcOf[h]
<1>1. p \in Process /\ klock \in Tables /\ TableOK(klock) /\ {"shared"} \in SUBSET Byte /\ bProcessLock[p] \in {0, 1}
  BY UnixLockAssumption, TablesTyped DEF BackInv, Byte, CountInv, Typed
<1>2. ProcessLockType \in LockType
  BY DEF ProcessLockType, LockType
<1>3. CASE bProcessLock[p] = 1
  <2>1. r = [rc |-> 0, table |-> klock, taken |-> 0]
    BY <1>3 DEF FileLock, NoChange
  <2>2. QED
    BY <1>1, <1>3, <2>1
<1>4. CASE bProcessLock[p] # 1
  <2>1. r \in SetLockOutcomes(p, {"shared"}, ProcessLockType, 1)
    BY <1>4, Zenon DEF FileLock
  <2>2. \/ r = Locked(p, {"shared"}, ProcessLockType, 1) /\ (r.rc = 0 => Grantable(klock, p, {"shared"}, ProcessLockType))
        \/ r = NoChange(-1)
    BY <2>1, Zenon DEF SetLockOutcomes
  <2>3. CASE r = NoChange(-1)
    <3>1. r = [rc |-> -1, table |-> klock, taken |-> 0]
      BY <2>3 DEF NoChange
    <3>2. QED
      BY <1>1, <1>4, <3>1
  <2>4. CASE r = Locked(p, {"shared"}, ProcessLockType, 1)
             /\ (r.rc = 0 => Grantable(klock, p, {"shared"}, ProcessLockType))
    <3> DEFINE m == SetLock(klock, p, {"shared"}, ProcessLockType)
    <3>1. r = [rc |-> 0, table |-> m, taken |-> 1]
      BY <2>4 DEF Locked
    <3>2. Grantable(klock, p, {"shared"}, ProcessLockType)
      BY <2>4, <3>1
    <3>3. TableOK(m)
      BY <1>1, <1>2, <3>2, SetTableOK
    <3>4. m \in Tables /\ (\A q \in Process : q # p => m[q] = klock[q]) /\ m[p]["shared"] = F_WRLCK
      BY <1>1, <1>2, SetLockFacts DEF Byte, ProcessLockType
    <3> HIDE DEF m
    <3>5. r.table = m /\ r.taken = 1 /\ r.rc = 0 /\ bProcessLock[p] = 0
      BY <1>1, <1>4, <3>1
    <3>6. QED
      BY <3>3, <3>4, <3>5
  <2>5. QED
    BY <2>2, <2>3, <2>4
<1>5. QED
  BY <1>3, <1>4

(* Any other handle: one fcntl call.                                       *)
LEMMA PlainFileLock ==
  ASSUME BackInv, NEW h \in Handle, h \notin ExclHandle, NEW bytes \in SUBSET Byte, NEW type \in LockType,
         NEW r \in FileLock(h, bytes, type)
  PROVE  /\ r.table \in Tables /\ TableOK(r.table) /\ r.taken = 0
         /\ \A q \in Process : q # ProcOf[h] => r.table[q] = klock[q]
         /\ r.rc # 0 => r.table = klock
         /\ r.rc = 0 => \A b \in Byte : r.table[ProcOf[h]][b] = IF b \in bytes THEN type ELSE klock[ProcOf[h]][b]
         /\ type = F_UNLCK /\ "unlck" \notin Faults => r.rc = 0
<1> DEFINE p == ProcOf[h]
           m == SetLock(klock, p, bytes, type)
<1>1. p \in Process /\ klock \in Tables /\ TableOK(klock)
  BY UnixLockAssumption, TablesTyped DEF BackInv
<1>2. r \in SetLockOutcomes(p, bytes, type, 0)
  BY Zenon DEF FileLock
<1>3. \/ r = Locked(p, bytes, type, 0) /\ (r.rc = 0 => Grantable(klock, p, bytes, type))
      \/ r = NoChange(-1) /\ (r.rc # 0 => MayFail(type) \/ ~Grantable(klock, p, bytes, type))
  BY <1>2, Zenon DEF SetLockOutcomes
<1>4. CASE r = NoChange(-1) /\ (r.rc # 0 => MayFail(type) \/ ~Grantable(klock, p, bytes, type))
  <2>1. r = [rc |-> -1, table |-> klock, taken |-> 0]
    BY <1>4 DEF NoChange
  <2>2. MayFail(type) \/ ~Grantable(klock, p, bytes, type)
    BY <1>4, <2>1
  <2>3. ~(type = F_UNLCK /\ "unlck" \notin Faults)
    BY <2>2 DEF MayFail, Grantable, Compatible
  <2>4. QED
    BY <1>1, <2>1, <2>3
<1>5. CASE r = Locked(p, bytes, type, 0) /\ (r.rc = 0 => Grantable(klock, p, bytes, type))
  <2>1. r = [rc |-> 0, table |-> m, taken |-> 0]
    BY <1>5 DEF Locked
  <2>2. TableOK(m)
    BY <1>1, <1>5, <2>1, SetTableOK
  <2>3. m \in Tables /\ (\A q \in Process : q # p => m[q] = klock[q])
        /\ \A b \in Byte : m[p][b] = IF b \in bytes THEN type ELSE klock[p][b]
    BY <1>1, SetLockFacts
  <2> HIDE DEF m
  <2>4. r.table = m /\ r.taken = 0 /\ r.rc = 0
    BY <2>1
  <2>5. QED
    BY <2>2, <2>3, <2>4
<1>6. QED
  BY <1>3, <1>4, <1>5

(***************************************************************************)
(* The level a handle still has, as its call goes on.                      *)
(***************************************************************************)
Level3(step, level, e) ==
  IF step = "unlckFile" /\ level = NO_LOCK /\ e > SHARED_LOCK THEN SHARED_LOCK
  ELSE IF step = "unlckBytes" /\ level = SHARED_LOCK /\ e = EXCLUSIVE_LOCK THEN PENDING_LOCK
  ELSE e

LEMMA HeldInCall ==
  ASSUME NEW h \in Handle, NEW t \in Thread, on[t] = h, \A u \in Thread : on[u] = h => u = t
  PROVE  Held(h) = Level3(pc[t], req[t], eFileLock[h])
  BY DEF Held, InCall, Level3

LEMMA HeldIdle ==
  ASSUME NEW h \in Handle,
         \A u \in Thread : on[u] = h => pc[u] \notin {"unlckFile", "unlckBytes"}
  PROVE  Held(h) = eFileLock[h]
  BY DEF Held, InCall

(* A handle that is left alone.                                            *)
LEMMA HeldKept ==
  ASSUME NEW h \in Handle, eFileLock'[h] = eFileLock[h],
         \A u \in Thread : on[u] = h \/ on'[u] = h =>
           pc'[u] = pc[u] /\ on'[u] = on[u] /\ req'[u] = req[u]
  PROVE  Held(h)' = Held(h)
  BY DEF Held, InCall

LEMMA HeldBelow ==
  ASSUME CountInv, NEW h \in Handle
  PROVE  /\ Held(h) \in Level /\ Held(h) <= eFileLock[h] /\ eFileLock[h] \in Level
         /\ Held(h) = NO_LOCK <=> eFileLock[h] = NO_LOCK
<1>1. eFileLock[h] \in Level
  BY DEF CountInv, Typed
<1>2. QED
  BY <1>1 DEF Held, Level, NO_LOCK, SHARED_LOCK, RESERVED_LOCK, PENDING_LOCK, EXCLUSIVE_LOCK

(***************************************************************************)
(* A step of thread t on handle h disturbs neither other processes nor the *)
(* other handles and threads of its own, if it is the only one in a lock   *)
(* or unlock call there.                                                   *)
(***************************************************************************)
Touches(t, h) ==
  /\ ProcOf[h] = ProcOf[t]
  /\ \A u \in Thread : u # t => /\ pc'[u] = pc[u] /\ on'[u] = on[u] /\ req'[u] = req[u]
                                /\ on[u] # h
  /\ on[t] \in {h, NoHandle} /\ on'[t] \in {h, NoHandle}
  /\ \A g \in Handle : g # h => eFileLock'[g] = eFileLock[g]
  /\ OneRow(ProcOf[t]) /\ OneInode(ProcOf[t])

LEMMA OtherProcessKept ==
  ASSUME BackInv, NEW t \in Thread, NEW h \in Handle, Touches(t, h),
         NEW q \in Process, q # ProcOf[t]
  PROVE  /\ InodeOK(q)' /\ KernelOK(q)'
         /\ \A u \in Thread : ProcOf[u] = q => CallOK(u)'
         /\ \A g \in Handle : ProcOf[g] = q => WriterOK(g)' /\ Held(g)' = Held(g)
<1>1. klock'[q] = klock[q] /\ iLock'[q] = iLock[q] /\ nShared'[q] = nShared[q]
      /\ nLock'[q] = nLock[q] /\ bProcessLock'[q] = bProcessLock[q] /\ nRef'[q] = nRef[q]
  BY DEF Touches, OneRow, OneInode
<1>2. \A u \in Thread : ProcOf[u] = q => pc'[u] = pc[u] /\ on'[u] = on[u] /\ req'[u] = req[u]
  BY DEF Touches
<1>3. InodeOK(q) /\ KernelOK(q)
  BY DEF BackInv
<1>4. InodeOK(q)'
  BY <1>1, <1>3 DEF InodeOK
<1>5. Demoted(q)' <=> Demoted(q)
  BY <1>2 DEF Demoted
<1>6. KernelOK(q)'
  BY <1>1, <1>3, <1>5 DEF KernelOK, ExclOK, PlainOK
<1>7. ASSUME NEW u \in Thread, ProcOf[u] = q PROVE CallOK(u)'
  <2>1. CallOK(u)
    BY DEF BackInv
  <2>2. pc[u] # "idle" => on[u] \in Handle /\ ProcOf[on[u]] = q
    BY <1>7, InCallFacts DEF BackInv
  <2>3. pc[u] # "idle" => eFileLock'[on[u]] = eFileLock[on[u]]
    BY <2>2 DEF Touches
  <2>4. CASE pc[u] = "idle"
    BY <1>2, <1>7, <2>4 DEF CallOK, Locking
  <2>5. CASE pc[u] # "idle"
    BY <1>1, <1>2, <1>7, <2>1, <2>3, <2>5 DEF CallOK, Granted
  <2>6. QED
    BY <2>4, <2>5
<1>8. ASSUME NEW g \in Handle, ProcOf[g] = q PROVE WriterOK(g)' /\ Held(g)' = Held(g)
  <2>1. g # h /\ eFileLock'[g] = eFileLock[g]
    BY <1>8 DEF Touches
  <2>2. \A u \in Thread : on[u] = g \/ on'[u] = g => pc'[u] = pc[u] /\ on'[u] = on[u] /\ req'[u] = req[u]
    <3>1. NoHandle \notin Handle
      BY UnixLockAssumption
    <3>2. QED
      BY <2>1, <3>1 DEF Touches
  <2>3. Held(g)' = Held(g)
    BY <2>1, <2>2, HeldKept
  <2>4. WriterOK(g)
    BY DEF BackInv
  <2>5. QED
    BY <1>1, <1>8, <2>1, <2>3, <2>4 DEF WriterOK
<1>9. QED
  BY <1>4, <1>6, <1>7, <1>8

(* Who is past SHARED before and after a step on h.                        *)
LEMMA TouchedApart ==
  ASSUME BackInv, NEW t \in Thread, NEW h \in Handle, Touches(t, h),
         \/ eFileLock'[h] = eFileLock[h] \/ ~(eFileLock'[h] > SHARED_LOCK)
         \/ \A g \in Handle : g # h /\ ProcOf[g] = ProcOf[h] => ~(eFileLock[g] > SHARED_LOCK)
  PROVE  \A f, g \in Handle : Apart(f, g)'
<1> SUFFICES ASSUME NEW f \in Handle, NEW g \in Handle, f # g, ProcOf[f] = ProcOf[g]
             PROVE  ~(eFileLock'[f] > SHARED_LOCK /\ eFileLock'[g] > SHARED_LOCK)
  BY DEF Apart
<1>1. Apart(f, g) /\ Apart(g, f)
  BY DEF BackInv
<1>3. CASE f # h /\ g # h
  BY <1>1, <1>3 DEF Touches, Apart
<1>4. CASE f = h
  BY <1>1, <1>4 DEF Touches, Apart
<1>5. CASE g = h
  BY <1>1, <1>5 DEF Touches, Apart
<1>6. QED
  BY <1>3, <1>4, <1>5

Alone(t) == \A u \in Thread : u # t /\ ProcOf[u] = ProcOf[t] => pc[u] \notin UnderLockMutex

LEMMA TouchedInv ==
  ASSUME BackInv, CountInv', NEW t \in Thread, NEW h \in Handle, Touches(t, h), TableOK(klock'),
         Alone(t),
         InodeOK(ProcOf[t])', KernelOK(ProcOf[t])', CallOK(t)', WriterOK(h)',
         \/ eFileLock'[h] = eFileLock[h] \/ ~(eFileLock'[h] > SHARED_LOCK)
         \/ \A g \in Handle : g # h /\ ProcOf[g] = ProcOf[h] => ~(eFileLock[g] > SHARED_LOCK),
         \A g \in Handle : g # h /\ ProcOf[g] = ProcOf[h] /\ eFileLock[g] > SHARED_LOCK =>
           iLock'[ProcOf[t]] = iLock[ProcOf[t]]
  PROVE  BackInv' /\ \A g \in Handle : g # h => Held(g)' = Held(g)
<1> DEFINE p == ProcOf[t]
<1>0. p \in Process /\ ProcOf[h] = p /\ NoHandle \notin Handle
  BY UnixLockAssumption DEF Touches
<1>1. \A q \in Process : InodeOK(q)' /\ KernelOK(q)'
  BY OtherProcessKept
<1>2. ASSUME NEW u \in Thread PROVE CallOK(u)'
  <2>1. CASE u = t
    BY <2>1
  <2>2. CASE ProcOf[u] # p
    <3>1. ProcOf[u] \in Process
      BY UnixLockAssumption
    <3>2. QED
      BY <2>2, <3>1, OtherProcessKept
  <2>3. CASE u # t /\ ProcOf[u] = p
    <3>1. pc'[u] = pc[u] /\ pc[u] \notin UnderLockMutex
      BY <2>3 DEF Touches, Alone
    <3>2. QED
      BY <3>1 DEF CallOK, Locking, UnderLockMutex
  <2>4. QED
    BY <2>1, <2>2, <2>3
<1>3. ASSUME NEW g \in Handle, g # h PROVE Held(g)' = Held(g) /\ eFileLock'[g] = eFileLock[g]
  BY <1>0, <1>3, HeldKept DEF Touches
<1>4. ASSUME NEW g \in Handle PROVE WriterOK(g)'
  <2>1. CASE g = h
    BY <2>1
  <2>2. CASE ProcOf[g] # p
    <3>1. ProcOf[g] \in Process
      BY UnixLockAssumption
    <3>2. QED
      BY <2>2, <3>1, OtherProcessKept
  <2>3. CASE g # h /\ ProcOf[g] = p
    <3>1. WriterOK(g) /\ Held(g) \in Level /\ eFileLock[g] \in Level /\ Held(g) <= eFileLock[g]
      BY HeldBelow DEF BackInv
    <3>2. SUFFICES ASSUME Held(g)' > SHARED_LOCK PROVE iLock'[p] = eFileLock'[g]
      BY <2>3 DEF WriterOK
    <3>3. Held(g) > SHARED_LOCK /\ eFileLock[g] > SHARED_LOCK
      BY <1>3, <2>3, <3>1, <3>2 DEF Level, NO_LOCK, SHARED_LOCK, EXCLUSIVE_LOCK
    <3>4. QED
      BY <1>0, <1>3, <2>3, <3>1, <3>3 DEF WriterOK
  <2>4. QED
    BY <2>1, <2>2, <2>3
<1>5. \A f, g \in Handle : Apart(f, g)'
  BY TouchedApart
<1>6. QED
  BY <1>1, <1>2, <1>3, <1>4, <1>5 DEF BackInv

(* A step outside the lock and unlock calls, which changes nothing that    *)
(* they rely on; others of the process may be in one.                      *)
LEMMA QuietInv ==
  ASSUME BackInv, CountInv', NEW t \in Thread, NEW h \in Handle, Touches(t, h),
         UNCHANGED <<klock, iLock, nShared, nLock, bProcessLock>>,
         InodeOK(ProcOf[t])', eFileLock'[h] \in {eFileLock[h], NO_LOCK},
         pc[t] \notin UnderLockMutex, pc'[t] \notin UnderLockMutex
  PROVE  BackInv' /\ \A g \in Handle : Held(g)' = IF g = h THEN eFileLock'[h] ELSE Held(g)
<1> DEFINE p == ProcOf[t]
<1>0. p \in Process /\ ProcOf[h] = p /\ NoHandle \notin Handle /\ TableOK(klock')
  BY UnixLockAssumption DEF Touches, BackInv
<1>1. \A q \in Process : InodeOK(q)' /\ KernelOK(q)'
  <2>1. KernelOK(p)'
    <3>1. "unlckBytes" \in UnderLockMutex
      BY DEF UnderLockMutex
    <3>2. Demoted(p)' <=> Demoted(p)
      BY <3>1 DEF Touches, Demoted
    <3>3. KernelOK(p)
      BY <1>0 DEF BackInv
    <3>4. QED
      BY <3>2, <3>3 DEF KernelOK, ExclOK, PlainOK
  <2>2. QED
    BY <2>1, OtherProcessKept
<1>2. ASSUME NEW u \in Thread PROVE CallOK(u)'
  <2>1. CASE u = t
    BY <2>1 DEF CallOK, Locking, UnderLockMutex
  <2>2. CASE u # t
    <3>1. CallOK(u) /\ pc'[u] = pc[u] /\ on'[u] = on[u] /\ req'[u] = req[u] /\ on[u] # h
      BY <2>2 DEF Touches, BackInv
    <3>2. pc[u] # "idle" => eFileLock'[on[u]] = eFileLock[on[u]]
      BY <3>1, InCallFacts DEF Touches, BackInv
    <3>3. CASE pc[u] = "idle"
      BY <3>1, <3>3 DEF CallOK, Locking
    <3>4. CASE pc[u] # "idle"
      BY <3>1, <3>2, <3>4 DEF CallOK, Granted
    <3>5. QED
      BY <3>3, <3>4
  <2>3. QED
    BY <2>1, <2>2
<1>3. ASSUME NEW g \in Handle, g # h PROVE Held(g)' = Held(g) /\ eFileLock'[g] = eFileLock[g]
  BY <1>0, <1>3, HeldKept DEF Touches
<1>4. Held(h)' = eFileLock'[h] /\ Held(h) = eFileLock[h]
  <2>1. \A u \in Thread : on[u] = h \/ on'[u] = h => u = t
    BY DEF Touches
  <2>2. {"unlckFile", "unlckBytes"} \subseteq UnderLockMutex
    BY DEF UnderLockMutex
  <2>3. QED
    BY <2>1, <2>2 DEF Held, InCall
<1>5. ASSUME NEW g \in Handle PROVE WriterOK(g)'
  <2>1. WriterOK(g)
    BY DEF BackInv
  <2>2. CASE g = h
    BY <1>4, <2>1, <2>2 DEF WriterOK, NO_LOCK, SHARED_LOCK
  <2>3. CASE g # h
    BY <1>3, <2>1, <2>3 DEF WriterOK
  <2>4. QED
    BY <2>2, <2>3
<1>6. \A f, g \in Handle : Apart(f, g)'
  BY TouchedApart DEF NO_LOCK, SHARED_LOCK
<1>7. QED
  BY <1>0, <1>1, <1>2, <1>3, <1>4, <1>5, <1>6 DEF BackInv

(***************************************************************************)
(* What a lock or unlock call may rely on.                                 *)
(***************************************************************************)
LEMMA InodeTyped ==
  ASSUME BackInv, NEW p \in Process
  PROVE  /\ iLock[p] \in Level /\ nShared[p] \in Nat /\ nLock[p] \in Nat /\ nRef[p] \in Nat
         /\ bProcessLock[p] \in {0, 1}
         /\ InodeOK(p) /\ KernelOK(p) /\ CountOK(p)
<1>1. TypeOK
  BY CountInvTypeOK DEF BackInv
<1>2. bProcessLock[p] \in {0, 1}
  BY DEF BackInv, CountInv, Typed
<1>3. iLock[p] \in Level /\ nShared[p] \in Nat /\ nLock[p] \in Nat /\ nRef[p] \in Nat
  BY <1>1 DEF TypeOK
<1>4. InodeOK(p) /\ KernelOK(p) /\ CountOK(p)
  BY DEF BackInv, CountInv, CountsOK
<1>5. QED
  BY <1>2, <1>3, <1>4

LEMMA AttachedCounted ==
  ASSUME BackInv, NEW h \in Handle, status[h] \in Attached
  PROVE  nRef[ProcOf[h]] # 0
<1> DEFINE M == Members(status, Attached, ProcOf[h])
<1>1. h \in M
  BY DEF Members
<1>2. Cardinality(M) # 0
  BY <1>1, MembersFinite, FS_EmptySet
<1>3. ProcOf[h] \in Process
  BY UnixLockAssumption
<1>4. QED
  BY <1>2, <1>3, InodeTyped DEF CountOK

LEMMA HolderCounted ==
  ASSUME BackInv, NEW h \in Handle, eFileLock[h] # NO_LOCK
  PROVE  iLock[ProcOf[h]] # NO_LOCK /\ nShared[ProcOf[h]] >= 1
<1>1. ProcOf[h] \in Process /\ eFileLock[h] \in SomeLock
  BY UnixLockAssumption DEF BackInv, CountInv, Typed, SomeLock
<1>2. h \in Members(eFileLock, SomeLock, ProcOf[h])
  BY <1>1 DEF Members
<1>3. CountOK(ProcOf[h]) /\ InodeOK(ProcOf[h]) /\ nShared[ProcOf[h]] \in Nat
  BY <1>1, InodeTyped
<1>4. QED
  BY <1>2, <1>3 DEF CountOK, InodeOK

LEMMA TwoHoldersCounted ==
  ASSUME BackInv, NEW g \in Handle, NEW h \in Handle, g # h, ProcOf[g] = ProcOf[h],
         eFileLock[g] # NO_LOCK, eFileLock[h] # NO_LOCK
  PROVE  nShared[ProcOf[h]] >= 2
<1> DEFINE M == Members(eFileLock, SomeLock, ProcOf[h])
<1>1. ProcOf[h] \in Process /\ eFileLock[h] \in SomeLock /\ eFileLock[g] \in SomeLock
  BY UnixLockAssumption DEF BackInv, CountInv, Typed, SomeLock
<1>2. g \in M /\ h \in M
  BY <1>1 DEF Members
<1>3. Cardinality(M) \in Nat /\ nShared[ProcOf[h]] \in Nat /\ Cardinality(M) <= nShared[ProcOf[h]]
  BY <1>1, InodeTyped, MembersFinite DEF CountOK
<1>4. ~(Cardinality(M) <= 1)
  BY <1>1, <1>2, OnlyMember
<1>5. QED
  BY <1>3, <1>4

LEMMA InLockCall ==
  ASSUME BackInv, NEW t \in Thread, pc[t] \in UnderLockMutex
  PROVE  /\ on[t] \in Handle /\ ProcOf[on[t]] = ProcOf[t] /\ ProcOf[t] \in Process
         /\ Alone(t) /\ \A u \in Thread : u # t => on[u] # on[t]
         /\ StepOK(t) /\ CallOK(t) /\ nRef[ProcOf[t]] # 0
         /\ eFileLock[on[t]] \in Level /\ req[t] \in Level
         /\ Held(on[t]) = Level3(pc[t], req[t], eFileLock[on[t]])
<1>1. /\ on[t] \in Handle /\ ProcOf[on[t]] = ProcOf[t] /\ ProcOf[t] \in Process
      /\ status[on[t]] \in Attached /\ \A u \in Thread : u # t => on[u] # on[t]
  BY InMutexFacts DEF BackInv
<1>2. Alone(t) /\ StepOK(t) /\ CallOK(t) /\ eFileLock[on[t]] \in Level /\ req[t] \in Level
  BY <1>1 DEF BackInv, CountInv, CallsOK, StepsOK, Typed, Alone
<1>3. nRef[ProcOf[t]] # 0
  BY <1>1, AttachedCounted
<1>4. QED
  BY <1>1, <1>2, <1>3, HeldInCall

(* Past SHARED there is no other handle when one asks for more, or writes. *)
LEMMA WriterIsAlone ==
  ASSUME BackInv, NEW t \in Thread, pc[t] \in Locking \cup {"demote", "unlckBytes"},
         NEW g \in Handle, g # on[t], ProcOf[g] = ProcOf[t]
  PROVE  ~(eFileLock[g] > SHARED_LOCK)
<1>0. pc[t] \in UnderLockMutex
  BY DEF Locking, UnderLockMutex
<1>1. /\ on[t] \in Handle /\ ProcOf[on[t]] = ProcOf[t] /\ Alone(t) /\ StepOK(t) /\ CallOK(t)
      /\ Apart(g, on[t]) /\ WriterOK(g)
  BY <1>0, InLockCall DEF BackInv
<1>2. Held(g) = eFileLock[g]
  BY <1>1, HeldIdle, InCallFacts DEF Alone, BackInv, UnderLockMutex
<1>3. CASE pc[t] \in Locking /\ req[t] = SHARED_LOCK
  <2>1. iLock[ProcOf[t]] = NO_LOCK
    BY <1>1, <1>3 DEF StepOK
  <2>2. eFileLock[g] = NO_LOCK
    BY <2>1, HolderCounted
  <2>3. QED
    BY <2>2 DEF NO_LOCK, SHARED_LOCK
<1>4. CASE pc[t] \in Locking /\ req[t] # SHARED_LOCK
  BY <1>1, <1>2, <1>4 DEF CallOK, WriterOK, Apart
<1>5. CASE pc[t] \in {"demote", "unlckBytes"}
  BY <1>1, <1>5 DEF CallOK, Apart
<1>6. QED
  BY <1>3, <1>4, <1>5

(* One unixFileLock that returned rc, and what its caller adds to nLock.   *)
FileLockDone(rc, p, bytes, type, n) ==
  /\ klock' \in Tables /\ TableOK(klock') /\ OneRow(p)
  /\ \A q \in Process : q # p => nLock'[q] = nLock[q] /\ bProcessLock'[q] = bProcessLock[q]
  /\ nLock'[p] - bProcessLock'[p] = nLock[p] - bProcessLock[p] + n
  /\ ExclProcess(p) =>
       /\ bProcessLock[p] = 1 => rc = 0 /\ bProcessLock'[p] = 1 /\ klock' = klock
       /\ bProcessLock'[p] = 1 => bProcessLock[p] = 1 \/ klock'[p]["shared"] = F_WRLCK
       /\ rc = 0 => bProcessLock'[p] = 1
  /\ ~ExclProcess(p) =>
       /\ bProcessLock'[p] = bProcessLock[p]
       /\ rc # 0 => klock' = klock /\ type # F_UNLCK
       /\ rc = 0 => \A b \in Byte : klock'[p][b] = IF b \in bytes THEN type ELSE klock[p][b]

LEMMA FileLocked ==
  ASSUME Regular, BackInv, NEW h \in Handle, NEW p, p = ProcOf[h],
         NEW bytes \in SUBSET Byte, NEW type \in LockType,
         NEW r \in FileLock(h, bytes, type), NEW n \in {0, 1}, Apply(r, h, n)
  PROVE  FileLockDone(r.rc, p, bytes, type, n)
<1> USE DEF FileLockDone
<1>0. p \in Process
  BY UnixLockAssumption
<1>1. /\ klock' = r.table
      /\ bProcessLock' = [bProcessLock EXCEPT ![p] = @ + r.taken]
      /\ bProcessLock \in [Process -> 0 .. 1]
  BY DEF Apply, BackInv, CountInv, Typed
<1>2. /\ \A q \in Process : q # p => nLock'[q] = nLock[q] /\ bProcessLock'[q] = bProcessLock[q]
      /\ nLock'[p] - bProcessLock'[p] = nLock[p] - bProcessLock[p] + n
  BY ApplyFacts DEF BackInv
<1>3. bProcessLock'[p] = bProcessLock[p] + r.taken
  BY <1>0, <1>1
<1>4. CASE h \in ExclHandle
  <2>1. ExclProcess(p)
    BY <1>4 DEF ExclProcess
  <2>2. /\ r.table \in Tables /\ TableOK(r.table)
        /\ \A q \in Process : q # p => r.table[q] = klock[q]
        /\ \/ r.table = klock /\ r.taken = 0 /\ (bProcessLock[p] = 1 => r.rc = 0)
              /\ (r.rc = 0 => bProcessLock[p] = 1)
           \/ /\ bProcessLock[p] = 0 /\ r.taken = 1 /\ r.rc = 0
              /\ r.table[p]["shared"] = F_WRLCK
    BY <1>4, ExclFileLock
  <2>3. bProcessLock[p] \in {0, 1}
    BY <1>0, <1>1
  <2>4. QED
    BY <1>1, <1>2, <1>3, <2>1, <2>2, <2>3 DEF OneRow
<1>5. CASE h \notin ExclHandle
  <2>1. ~ExclProcess(p)
    BY <1>5, UnixLockAssumption DEF ExclProcess, Regular
  <2>2. /\ r.table \in Tables /\ TableOK(r.table) /\ r.taken = 0
        /\ \A q \in Process : q # p => r.table[q] = klock[q]
        /\ r.rc # 0 => r.table = klock /\ type # F_UNLCK
        /\ r.rc = 0 => \A b \in Byte : r.table[p][b] = IF b \in bytes THEN type ELSE klock[p][b]
    <3>1. "unlck" \notin Faults
      BY DEF Regular
    <3>2. \A b \in Byte : r.rc = 0 =>
            r.table[p][b] = IF b \in bytes THEN type ELSE klock[p][b]
      BY <1>5, PlainFileLock
    <3>3. /\ r.table \in Tables /\ TableOK(r.table) /\ r.taken = 0
          /\ \A q \in Process : q # p => r.table[q] = klock[q]
          /\ r.rc # 0 => r.table = klock
          /\ type = F_UNLCK /\ "unlck" \notin Faults => r.rc = 0
      BY <1>5, PlainFileLock
    <3>4. QED
      BY <3>1, <3>2, <3>3
  <2>3. bProcessLock'[p] = bProcessLock[p]
    BY <1>0, <1>1, <1>3, <2>2
  <2>4. klock' \in Tables /\ TableOK(klock') /\ OneRow(p)
    BY <1>1, <2>2 DEF OneRow
  <2>5. /\ r.rc # 0 => klock' = klock /\ type # F_UNLCK
        /\ r.rc = 0 => \A b \in Byte : klock'[p][b] = IF b \in bytes THEN type ELSE klock[p][b]
    BY <1>1, <2>2
  <2>6. QED
    BY <1>2, <2>1, <2>3, <2>4, <2>5
<1>6. QED
  BY <1>4, <1>5

(***************************************************************************)
(* What the invariant says of the levels: the kernel has the locks they    *)
(* stand for, so they exclude each other.                                  *)
(***************************************************************************)
LEMMA HeldBacked ==
  ASSUME Regular, BackInv, NEW h \in Handle
  PROVE  Backed(h)
<1> DEFINE p == ProcOf[h]
           e == eFileLock[h]
<1>1. p \in Process
  BY UnixLockAssumption
<1>2. /\ Held(h) \in Level /\ e \in Level
      /\ Held(h) = NO_LOCK <=> e = NO_LOCK
  BY HeldBelow DEF BackInv
<1>3. Held(h) >= SHARED_LOCK => iLock[p] # NO_LOCK
  BY <1>2, HolderCounted DEF NO_LOCK, SHARED_LOCK
<1>4. KernelOK(p) /\ WriterOK(h)
  BY <1>1 DEF BackInv
<1>5. CASE h \in ExclHandle
  <2>1. ExclProcess(p)
    BY <1>5 DEF ExclProcess
  <2>2. QED
    BY <1>3, <1>4, <1>5, <2>1 DEF KernelOK, ExclOK, Backed
<1>6. CASE h \notin ExclHandle
  <2>1. ~ExclProcess(p)
    BY <1>6, UnixLockAssumption DEF ExclProcess, Regular
  <2>2. PlainOK(p)
    BY <1>4, <2>1 DEF KernelOK
  <2>3. Held(h) \in {SHARED_LOCK, PENDING_LOCK, e} /\ (Held(h) = PENDING_LOCK => e \in {PENDING_LOCK, EXCLUSIVE_LOCK})
        /\ (Held(h) = RESERVED_LOCK => e = RESERVED_LOCK) /\ (Held(h) = EXCLUSIVE_LOCK => e = EXCLUSIVE_LOCK)
    BY DEF Held, NO_LOCK, SHARED_LOCK, RESERVED_LOCK, PENDING_LOCK, EXCLUSIVE_LOCK
  <2>4. Held(h) > SHARED_LOCK => iLock[p] = e
    BY <1>4 DEF WriterOK
  <2>5. Held(h) = RESERVED_LOCK => klock[p]["reserved"] = F_WRLCK
    BY <2>2, <2>3, <2>4 DEF PlainOK, SHARED_LOCK, RESERVED_LOCK
  <2>6. Held(h) >= PENDING_LOCK => klock[p]["pending"] = F_WRLCK
    BY <1>2, <2>2, <2>3, <2>4
    DEF PlainOK, Level, NO_LOCK, SHARED_LOCK, RESERVED_LOCK, PENDING_LOCK, EXCLUSIVE_LOCK
  <2>7. ASSUME Held(h) = EXCLUSIVE_LOCK PROVE klock[p]["shared"] = F_WRLCK
    <3>1. e = EXCLUSIVE_LOCK /\ iLock[p] = EXCLUSIVE_LOCK
      BY <2>3, <2>4, <2>7 DEF SHARED_LOCK, EXCLUSIVE_LOCK
    <3>2. ASSUME Demoted(p) PROVE FALSE
      <4>1. PICK t \in Thread : ProcOf[t] = p /\ pc[t] = "unlckBytes" /\ req[t] = SHARED_LOCK
        BY <3>2 DEF Demoted
      <4>2. on[t] \in Handle /\ ProcOf[on[t]] = p /\ CallOK(t)
        BY <4>1, InLockCall DEF UnderLockMutex
      <4>3. eFileLock[on[t]] > SHARED_LOCK
        BY <4>1, <4>2 DEF CallOK
      <4>4. on[t] = h
        BY <3>1, <4>2, <4>3 DEF BackInv, Apart, SHARED_LOCK, EXCLUSIVE_LOCK
      <4>5. InCall(h, "unlckBytes", SHARED_LOCK)
        BY <4>1, <4>4 DEF InCall
      <4>6. Held(h) # EXCLUSIVE_LOCK
        BY <4>5, <3>1 DEF Held, SHARED_LOCK, PENDING_LOCK, EXCLUSIVE_LOCK
      <4>7. QED
        BY <2>7, <4>6
    <3>3. QED
      BY <2>2, <3>1, <3>2 DEF PlainOK
  <2>8. Held(h) >= SHARED_LOCK => klock[p]["shared"] # F_UNLCK
    BY <1>3, <2>2 DEF PlainOK
  <2>9. QED
    BY <1>6, <2>5, <2>6, <2>7, <2>8 DEF Backed
<1>7. QED
  BY <1>5, <1>6

Excluded(a, b) ==
  /\ ~(a = EXCLUSIVE_LOCK /\ b # NO_LOCK)
  /\ ~(a = RESERVED_LOCK /\ b = RESERVED_LOCK)
  /\ ~(a = PENDING_LOCK /\ b = PENDING_LOCK)

LEMMA HeldExcluded ==
  ASSUME Regular, BackInv, NEW g \in Handle, NEW h \in Handle, g # h
  PROVE  Excluded(Held(g), Held(h))
<1>0. /\ Held(g) \in Level /\ Held(h) \in Level /\ eFileLock[g] \in Level /\ eFileLock[h] \in Level
      /\ Held(g) <= eFileLock[g] /\ Held(h) <= eFileLock[h]
      /\ Held(g) = NO_LOCK <=> eFileLock[g] = NO_LOCK
      /\ Held(h) = NO_LOCK <=> eFileLock[h] = NO_LOCK
      /\ ProcOf[g] \in Process /\ ProcOf[h] \in Process
  BY HeldBelow, UnixLockAssumption DEF BackInv
<1>1. CASE ProcOf[g] = ProcOf[h]
  <2>1. ~(Held(g) > SHARED_LOCK /\ Held(h) > SHARED_LOCK)
    <3>1. Apart(g, h)
      BY DEF BackInv
    <3>2. QED
      BY <1>0, <1>1, <3>1 DEF Apart, Level, NO_LOCK, SHARED_LOCK, EXCLUSIVE_LOCK
  <2>2. ASSUME Held(g) = EXCLUSIVE_LOCK, Held(h) # NO_LOCK PROVE FALSE
    <3>1. iLock[ProcOf[g]] = EXCLUSIVE_LOCK
      <4>1. WriterOK(g) /\ eFileLock[g] = EXCLUSIVE_LOCK
        BY <1>0, <2>2 DEF BackInv, Level, NO_LOCK, EXCLUSIVE_LOCK
      <4>2. QED
        BY <2>2, <4>1 DEF WriterOK, SHARED_LOCK, EXCLUSIVE_LOCK
    <3>2. nShared[ProcOf[g]] <= 1 /\ nShared[ProcOf[g]] \in Nat
      BY <1>0, <3>1, InodeTyped DEF InodeOK
    <3>3. nShared[ProcOf[h]] >= 2
      BY <1>0, <1>1, <2>2, TwoHoldersCounted DEF NO_LOCK, EXCLUSIVE_LOCK
    <3>4. QED
      BY <1>1, <3>2, <3>3
  <2>3. QED
    BY <2>1, <2>2 DEF Excluded, SHARED_LOCK, RESERVED_LOCK, PENDING_LOCK
<1>2. CASE ProcOf[g] # ProcOf[h]
  <2> DEFINE j == klock[ProcOf[g]]
             k == klock[ProcOf[h]]
  <2>1. Backed(g) /\ Backed(h)
    BY HeldBacked
  <2>2. \A b \in Byte : Compatible(j[b], k[b]) /\ Compatible(k[b], j[b])
    BY <1>0, <1>2, TablesTyped DEF BackInv, TableOK, Tables
  <2>3. /\ Compatible(j["shared"], k["shared"]) /\ Compatible(j["reserved"], k["reserved"])
        /\ Compatible(j["pending"], k["pending"])
    BY <2>2 DEF Byte
  <2>4. /\ Held(g) >= SHARED_LOCK => j["shared"] # F_UNLCK
        /\ Held(h) >= SHARED_LOCK => k["shared"] # F_UNLCK
        /\ Held(g) = EXCLUSIVE_LOCK => j["shared"] = F_WRLCK
        /\ g \in ExclHandle /\ Held(g) >= SHARED_LOCK => j["shared"] = F_WRLCK
        /\ h \in ExclHandle /\ Held(h) >= SHARED_LOCK => k["shared"] = F_WRLCK
    BY <1>0, <2>1 DEF Backed, F_UNLCK, F_WRLCK, SHARED_LOCK, EXCLUSIVE_LOCK
  <2>5. ~(Held(g) >= SHARED_LOCK /\ Held(h) >= SHARED_LOCK /\ (j["shared"] = F_WRLCK \/ k["shared"] = F_WRLCK))
    BY <2>3, <2>4 DEF Compatible, F_UNLCK, F_RDLCK, F_WRLCK
  <2>6. CASE g \in ExclHandle \/ h \in ExclHandle
    BY <1>0, <2>4, <2>5, <2>6
    DEF Excluded, Level, NO_LOCK, SHARED_LOCK, RESERVED_LOCK, PENDING_LOCK, EXCLUSIVE_LOCK
  <2>7. CASE g \notin ExclHandle /\ h \notin ExclHandle
    <3>1. /\ Held(g) = RESERVED_LOCK => j["reserved"] = F_WRLCK
          /\ Held(h) = RESERVED_LOCK => k["reserved"] = F_WRLCK
          /\ Held(g) = PENDING_LOCK => j["pending"] = F_WRLCK
          /\ Held(h) = PENDING_LOCK => k["pending"] = F_WRLCK
      BY <2>1, <2>7 DEF Backed, PENDING_LOCK
    <3>2. ~(Held(g) = RESERVED_LOCK /\ Held(h) = RESERVED_LOCK)
      BY <2>3, <3>1 DEF Compatible, F_UNLCK, F_RDLCK, F_WRLCK
    <3>3. ~(Held(g) = PENDING_LOCK /\ Held(h) = PENDING_LOCK)
      BY <2>3, <3>1 DEF Compatible, F_UNLCK, F_RDLCK, F_WRLCK
    <3>4. ~(Held(g) = EXCLUSIVE_LOCK /\ Held(h) # NO_LOCK)
      BY <1>0, <2>4, <2>5 DEF Level, NO_LOCK, SHARED_LOCK, EXCLUSIVE_LOCK
    <3>5. QED
      BY <3>2, <3>3, <3>4 DEF Excluded
  <2>8. QED
    BY <2>6, <2>7
<1>3. QED
  BY <1>1, <1>2

(***************************************************************************)
(* How one step may move the level a handle holds; then the step is one of *)
(* FileLevels, because the levels afterwards exclude each other.           *)
(***************************************************************************)
MayMove(a, b) ==
  \/ b = a
  \/ b < a /\ b \in {NO_LOCK, SHARED_LOCK, PENDING_LOCK}
  \/ a = NO_LOCK /\ b = SHARED_LOCK
  \/ a = SHARED_LOCK /\ b = RESERVED_LOCK
  \/ a \in {SHARED_LOCK, RESERVED_LOCK} /\ b = PENDING_LOCK
  \/ a \in {SHARED_LOCK, RESERVED_LOCK, PENDING_LOCK} /\ b = EXCLUSIVE_LOCK

Moves(h) ==
  /\ MayMove(Held(h), Held(h)')
  /\ \A g \in Handle : g # h => Held(g)' = Held(g)

LevelsExclude ==
  \A g, h \in Handle :
    Held(g) \in Level /\ Held(h) \in Level /\ (g # h => Excluded(Held(g), Held(h)))

LEMMA ExclusionNext == Regular /\ BackInv' => LevelsExclude'
<1>1. Regular /\ BackInv => LevelsExclude
  BY HeldExcluded, HeldBelow DEF LevelsExclude, BackInv
<1>2. Regular => Regular'
  BY DEF Regular
<1>3. QED
  BY <1>1, <1>2, PTL

LEMMA MoveIsAllowed ==
  ASSUME Regular, BackInv, BackInv', NEW h \in Handle, Moves(h)
  PROVE  Levels!Next \/ UNCHANGED [g \in Handle |-> Held(g)]
<1> USE DEF NO_LOCK, SHARED_LOCK, RESERVED_LOCK, PENDING_LOCK, EXCLUSIVE_LOCK,
            Levels!Free, Levels!Shared, Levels!Reserved, Levels!Pending, Levels!Exclusive
<1>1. /\ LevelsExclude'
      /\ \A g \in Handle : Held(g) \in 0 .. 4
  BY ExclusionNext, HeldBelow DEF BackInv, Level
<1>2. \A g \in Handle \ {h} :
        /\ ~(Held(g) = EXCLUSIVE_LOCK /\ Held(h)' # NO_LOCK)
        /\ ~(Held(h)' = EXCLUSIVE_LOCK /\ Held(g) # NO_LOCK)
        /\ ~(Held(g) = RESERVED_LOCK /\ Held(h)' = RESERVED_LOCK)
        /\ ~(Held(g) = PENDING_LOCK /\ Held(h)' = PENDING_LOCK)
  BY <1>1 DEF LevelsExclude, Excluded, Moves
<1>3. Levels!Raise(h, Held(h)')
  BY DEF Levels!Raise, Moves
<1>4. CASE Held(h)' = Held(h)
  BY <1>4 DEF Moves
<1>5. CASE Held(h)' < Held(h) /\ Held(h)' \in {NO_LOCK, SHARED_LOCK, PENDING_LOCK}
  <2>1. Levels!Lower(h, Held(h)')
    BY <1>3, <1>5 DEF Levels!Lower
  <2>2. QED
    BY <1>5, <2>1 DEF Levels!Next
<1>6. CASE Held(h) = NO_LOCK /\ Held(h)' = SHARED_LOCK
  <2>1. Levels!AcquireShared(h)
    BY <1>2, <1>3, <1>6 DEF Levels!AcquireShared, Levels!Others
  <2>2. QED
    BY <2>1 DEF Levels!Next
<1>7. CASE Held(h) = SHARED_LOCK /\ Held(h)' = RESERVED_LOCK
  <2>1. Levels!AcquireReserved(h)
    BY <1>2, <1>3, <1>7 DEF Levels!AcquireReserved, Levels!Others
  <2>2. QED
    BY <2>1 DEF Levels!Next
<1>8. CASE Held(h) \in {SHARED_LOCK, RESERVED_LOCK} /\ Held(h)' = PENDING_LOCK
  <2>1. Levels!AcquirePending(h)
    BY <1>2, <1>3, <1>8 DEF Levels!AcquirePending, Levels!Others
  <2>2. QED
    BY <2>1 DEF Levels!Next
<1>9. CASE Held(h) \in {SHARED_LOCK, RESERVED_LOCK, PENDING_LOCK} /\ Held(h)' = EXCLUSIVE_LOCK
  <2>1. Levels!AcquireExclusive(h)
    BY <1>2, <1>3, <1>9 DEF Levels!AcquireExclusive, Levels!Others
  <2>2. QED
    BY <2>1 DEF Levels!Next
<1>10. QED
  BY <1>4, <1>5, <1>6, <1>7, <1>8, <1>9 DEF MayMove, Moves

(***************************************************************************)
(* The steps of a lock or unlock call.                                     *)
(***************************************************************************)
CallGoesOn(t) ==
  \/ Return(t)
  \/ Call(t, on[t], "close", NO_LOCK)
  \/ \E step \in UnderLockMutex : Goto(t, step)

LEMMA CallNext ==
  ASSUME BackInv, NEW t \in Thread, pc[t] \in UnderLockMutex, NEW h, on[t] = h, CallGoesOn(t)
  PROVE  /\ \A u \in Thread : u # t => pc'[u] = pc[u] /\ on'[u] = on[u] /\ req'[u] = req[u]
         /\ on'[t] \in {h, NoHandle}
         /\ Held(h)' = Level3(pc'[t], req'[t], eFileLock'[h])
         /\ ~Demoted(ProcOf[t])' <=> ~(pc'[t] = "unlckBytes" /\ req'[t] = SHARED_LOCK)
         /\ Return(t) \/ Call(t, h, "close", NO_LOCK) => CallOK(t)' /\ pc'[t] \in {"idle", "close"}
<1>0. /\ h \in Handle /\ h # NoHandle /\ ProcOf[h] = ProcOf[t] /\ Alone(t)
      /\ \A u \in Thread : u # t => on[u] # h
  BY InLockCall, UnixLockAssumption
<1>1. /\ pc \in [Thread -> Steps] /\ on \in [Thread -> Handle \cup {NoHandle}]
      /\ req \in [Thread -> Level]
  BY DEF BackInv, CountInv, Typed
<1>2. \A u \in Thread : u # t => pc'[u] = pc[u] /\ on'[u] = on[u] /\ req'[u] = req[u]
  BY <1>1 DEF CallGoesOn, Return, Call, Goto
<1>3. on'[t] = h \/ (on'[t] = NoHandle /\ pc'[t] = "idle")
  BY <1>1 DEF CallGoesOn, Return, Call, Goto
<1>4. Held(h)' = Level3(pc'[t], req'[t], eFileLock'[h])
  <2>1. CASE on'[t] = h
    <3>1. \A u \in Thread : on'[u] = h <=> u = t
      BY <1>0, <1>2, <2>1
    <3>2. QED
      BY <3>1 DEF Held, InCall, Level3
  <2>2. CASE on'[t] = NoHandle /\ pc'[t] = "idle"
    <3>1. \A u \in Thread : on'[u] # h
      BY <1>0, <1>2, <2>2
    <3>2. QED
      BY <2>2, <3>1 DEF Held, InCall, Level3, NO_LOCK
  <2>3. QED
    BY <1>3, <2>1, <2>2
<1>5. Demoted(ProcOf[t])' <=> pc'[t] = "unlckBytes" /\ req'[t] = SHARED_LOCK
  <2>1. \A u \in Thread : ProcOf[u] = ProcOf[t] /\ pc'[u] = "unlckBytes" => u = t
    BY <1>0, <1>2 DEF Alone, UnderLockMutex
  <2>2. QED
    BY <2>1 DEF Demoted
<1>6. ASSUME Return(t) \/ Call(t, h, "close", NO_LOCK)
      PROVE  CallOK(t)' /\ pc'[t] \in {"idle", "close"}
  <2>1. pc'[t] \in {"idle", "close"}
    BY <1>1, <1>6 DEF Return, Call
  <2>2. QED
    BY <2>1 DEF CallOK, Locking
<1>7. QED
  BY <1>2, <1>3, <1>4, <1>5, <1>6

LEMMA LockCallStep ==
  ASSUME Regular, BackInv, CountInv', NEW t \in Thread, pc[t] \in Locking \cup {"demote", "unlckBytes"},
         NEW h, on[t] = h, NEW p, p = ProcOf[t],
         NEW rc, NEW bytes, NEW type, NEW n, FileLockDone(rc, p, bytes, type, n),
         CallGoesOn(t), nRef' = nRef,
         \A g \in Handle : g # h => eFileLock'[g] = eFileLock[g],
         \A q \in Process : q # p => iLock'[q] = iLock[q] /\ nShared'[q] = nShared[q],
         InodeOK(p)',
         iLock'[p] # NO_LOCK => iLock[p] # NO_LOCK \/ rc = 0,
         ~ExclProcess(p) => PlainOK(p)',
         CallOK(t)',
         Level3(pc'[t], req'[t], eFileLock'[h]) > SHARED_LOCK => iLock'[p] = eFileLock'[h],
         MayMove(Level3(pc[t], req[t], eFileLock[h]), Level3(pc'[t], req'[t], eFileLock'[h]))
  PROVE  BackInv' /\ Moves(h)
<1>0. pc[t] \in UnderLockMutex
  BY DEF Locking, UnderLockMutex
<1>1. /\ h \in Handle /\ ProcOf[h] = p /\ p \in Process /\ Alone(t)
      /\ \A u \in Thread : u # t => on[u] # h
      /\ Held(h) = Level3(pc[t], req[t], eFileLock[h])
  BY <1>0, InLockCall
<1>2. /\ \A u \in Thread : u # t => pc'[u] = pc[u] /\ on'[u] = on[u] /\ req'[u] = req[u]
      /\ on'[t] \in {h, NoHandle}
      /\ Held(h)' = Level3(pc'[t], req'[t], eFileLock'[h])
  BY <1>0, CallNext
<1>3. /\ TableOK(klock') /\ OneRow(p)
      /\ \A q \in Process : q # p => nLock'[q] = nLock[q] /\ bProcessLock'[q] = bProcessLock[q]
      /\ ExclProcess(p) =>
           /\ bProcessLock[p] = 1 => bProcessLock'[p] = 1 /\ klock' = klock
           /\ bProcessLock'[p] = 1 => bProcessLock[p] = 1 \/ klock'[p]["shared"] = F_WRLCK
           /\ rc = 0 => bProcessLock'[p] = 1
  BY DEF FileLockDone
<1>4. Touches(t, h)
  BY <1>1, <1>2, <1>3 DEF Touches, OneInode
<1>5. KernelOK(p)'
  <2>1. CASE ExclProcess(p)
    <3>1. ExclOK(p)
      BY <1>1, <2>1 DEF BackInv, KernelOK
    <3>2. ExclOK(p)'
      BY <1>3, <2>1, <3>1 DEF ExclOK
    <3>3. QED
      BY <2>1, <3>2 DEF KernelOK, ExclProcess
  <2>2. CASE ~ExclProcess(p)
    BY <2>2 DEF KernelOK, ExclProcess
  <2>3. QED
    BY <2>1, <2>2
<1>6. WriterOK(h)'
  BY <1>1, <1>2 DEF WriterOK
<1>7. \A g \in Handle : g # h /\ ProcOf[g] = ProcOf[h] => ~(eFileLock[g] > SHARED_LOCK)
  BY <1>1, WriterIsAlone
<1>8. BackInv' /\ \A g \in Handle : g # h => Held(g)' = Held(g)
  BY <1>1, <1>3, <1>4, <1>5, <1>6, <1>7, TouchedInv
<1>9. QED
  BY <1>1, <1>2, <1>8 DEF Moves

LEMMA InodeKept ==
  ASSUME BackInv, CountInv', NEW p \in Process, nRef[p] # 0,
         NEW rc, NEW bytes, NEW type, FileLockDone(rc, p, bytes, type, 0),
         nShared'[p] = nShared[p], nRef' = nRef,
         iLock'[p] = NO_LOCK <=> iLock[p] = NO_LOCK,
         iLock'[p] = EXCLUSIVE_LOCK => nShared[p] <= 1
  PROVE  InodeOK(p)'
<1>1. /\ nLock'[p] \in Int /\ bProcessLock'[p] \in Int
      /\ nLock[p] \in Int /\ bProcessLock[p] \in Int /\ nShared[p] \in Int
  BY DEF BackInv, CountInv, Typed
<1>2. nLock'[p] - bProcessLock'[p] = nLock[p] - bProcessLock[p] + 0
  BY DEF FileLockDone
<1>3. InodeOK(p)
  BY DEF BackInv
<1>4. nLock'[p] = nShared'[p] + bProcessLock'[p]
  BY <1>1, <1>2, <1>3 DEF InodeOK
<1>5. QED
  BY <1>3, <1>4 DEF InodeOK

(* Before and after a step under pLockMutex that is not the one between    *)
(* the downgrade and the unlocking of the writer's bytes.                  *)
LEMMA NotDemoted ==
  ASSUME BackInv, NEW t \in Thread, pc[t] \in UnderLockMutex,
         ~(pc[t] = "unlckBytes" /\ req[t] = SHARED_LOCK)
  PROVE  ~Demoted(ProcOf[t])
<1>1. Alone(t) /\ "unlckBytes" \in UnderLockMutex
  BY InLockCall DEF UnderLockMutex
<1>2. QED
  BY <1>1 DEF Alone, Demoted

LEMMA LockPendingByteBacked ==
  ASSUME Regular, BackInv, CountInv', NEW t \in Thread, LockPendingByte(t)
  PROVE  BackInv' /\ \E h \in Handle : Moves(h)
<1> DEFINE h == on[t]
           p == ProcOf[t]
           e == eFileLock[h]
<1>0. pc[t] = "pending" /\ pc[t] \in UnderLockMutex /\ pc[t] \in Locking
  BY DEF LockPendingByte, UnderLockMutex, Locking
<1>1. /\ h \in Handle /\ p = ProcOf[h] /\ p \in Process /\ StepOK(t) /\ CallOK(t) /\ nRef[p] # 0
      /\ e \in Level
  BY <1>0, InLockCall
<1>2. req[t] \in {SHARED_LOCK, EXCLUSIVE_LOCK}
  BY <1>0, <1>1 DEF StepOK
<1>3. PICK r \in FileLock(h, {"pending"}, PendingType(req[t])) :
        /\ Apply(r, h, 0)
        /\ \/ /\ r.rc = 0 /\ req[t] = SHARED_LOCK
              /\ Goto(t, "shared") /\ UNCHANGED <<iLock, eFileLock>>
           \/ /\ r.rc = 0 /\ req[t] = EXCLUSIVE_LOCK /\ ~OtherReaders(h)
              /\ Goto(t, "write") /\ UNCHANGED <<iLock, eFileLock>>
           \/ /\ r.rc = 0 /\ req[t] = EXCLUSIVE_LOCK /\ OtherReaders(h)
              /\ Return(t) /\ SetLevel(h, PENDING_LOCK)
           \/ r.rc # 0 /\ Return(t) /\ UNCHANGED <<iLock, eFileLock>>
  BY <1>0 DEF LockPendingByte
<1>4. FileLockDone(r.rc, p, {"pending"}, PendingType(req[t]), 0)
  <2>1. {"pending"} \in SUBSET Byte /\ PendingType(req[t]) \in LockType
    BY DEF Byte, PendingType, LockType
  <2>2. QED
    BY <1>1, <1>3, <2>1, FileLocked
<1>5. UNCHANGED <<nShared, nRef>>
  BY DEF LockPendingByte
<1>6. InodeOK(p) /\ KernelOK(p) /\ iLock[p] \in Level /\ nShared[p] \in Nat
  BY <1>1, InodeTyped
<1>7. /\ req[t] = SHARED_LOCK => iLock[p] = NO_LOCK /\ e = NO_LOCK
      /\ req[t] = EXCLUSIVE_LOCK => iLock[p] = e /\ e # NO_LOCK
  BY <1>0, <1>1 DEF StepOK, CallOK, SHARED_LOCK, EXCLUSIVE_LOCK
<1>8. \A q \in Process : q # p => nShared'[q] = nShared[q]
  BY <1>5
<1>9. ~Demoted(p)
  BY <1>0, NotDemoted
<1>10. Level3(pc[t], req[t], e) = e
  BY <1>0 DEF Level3
<1>11. /\ pc \in [Thread -> Steps] /\ req \in [Thread -> Level] /\ on \in [Thread -> Handle \cup {NoHandle}]
  BY DEF BackInv, CountInv, Typed
<1>12. ASSUME ~ExclProcess(p)
       PROVE  /\ PlainOK(p) /\ klock'[p]["shared"] = klock[p]["shared"]
              /\ klock'[p]["reserved"] = klock[p]["reserved"]
              /\ r.rc = 0 /\ req[t] = EXCLUSIVE_LOCK => klock'[p]["pending"] = F_WRLCK
              /\ r.rc # 0 => klock'[p]["pending"] = klock[p]["pending"]
  BY <1>4, <1>6, <1>12 DEF FileLockDone, KernelOK, Byte, PendingType, SHARED_LOCK, EXCLUSIVE_LOCK
<1>13. CASE r.rc = 0 /\ req[t] = SHARED_LOCK /\ Goto(t, "shared") /\ UNCHANGED <<iLock, eFileLock>>
  <2>1. CallGoesOn(t) /\ pc'[t] = "shared" /\ req'[t] = SHARED_LOCK /\ on'[t] = h
    BY <1>11, <1>13 DEF CallGoesOn, UnderLockMutex, Goto
  <2>2. CallOK(t)'
    BY <1>1, <1>4, <1>13, <2>1 DEF CallOK, Locking, ExclProcess, FileLockDone
  <2>3. InodeOK(p)'
    BY <1>1, <1>4, <1>5, <1>7, <1>13, InodeKept DEF NO_LOCK, EXCLUSIVE_LOCK
  <2>4. PlainOK(p)'
    BY <1>7, <1>13 DEF PlainOK, NO_LOCK, RESERVED_LOCK, PENDING_LOCK, EXCLUSIVE_LOCK
  <2>5. Level3(pc'[t], req'[t], eFileLock'[h]) = e
    BY <1>13, <2>1 DEF Level3
  <2>6. QED
    BY <1>0, <1>1, <1>4, <1>5, <1>7, <1>8, <1>10, <1>13, <2>1, <2>2, <2>3, <2>4, <2>5, LockCallStep
    DEF MayMove, NO_LOCK, SHARED_LOCK
<1>14. CASE r.rc = 0 /\ req[t] = EXCLUSIVE_LOCK /\ ~OtherReaders(h) /\ Goto(t, "write") /\ UNCHANGED <<iLock, eFileLock>>
  <2>1. CallGoesOn(t) /\ pc'[t] = "write" /\ req'[t] = EXCLUSIVE_LOCK /\ on'[t] = h
    BY <1>11, <1>14 DEF CallGoesOn, UnderLockMutex, Goto
  <2>2. nShared[p] <= 1
    BY <1>1, <1>6, <1>14 DEF OtherReaders
  <2>3. CallOK(t)'
    BY <1>1, <1>5, <1>7, <1>12, <1>14, <2>1, <2>2
    DEF CallOK, Granted, Locking, ExclProcess, RESERVED_LOCK, EXCLUSIVE_LOCK
  <2>4. InodeOK(p)'
    BY <1>1, <1>4, <1>5, <1>7, <1>14, <2>2, InodeKept
  <2>5. ~ExclProcess(p) => PlainOK(p)'
    BY <1>9, <1>12, <1>14 DEF PlainOK
  <2>6. Level3(pc'[t], req'[t], eFileLock'[h]) = e
    BY <1>14, <2>1 DEF Level3
  <2>7. QED
    BY <1>0, <1>1, <1>4, <1>5, <1>7, <1>8, <1>10, <1>14, <2>1, <2>3, <2>4, <2>5, <2>6, LockCallStep
    DEF MayMove
<1>15. CASE r.rc = 0 /\ req[t] = EXCLUSIVE_LOCK /\ OtherReaders(h) /\ Return(t) /\ SetLevel(h, PENDING_LOCK)
  <2>1. CallGoesOn(t) /\ CallOK(t)' /\ pc'[t] \in {"idle", "close"}
    BY <1>0, <1>15, CallNext DEF CallGoesOn
  <2>2. /\ iLock'[p] = PENDING_LOCK /\ eFileLock'[h] = PENDING_LOCK
        /\ \A g \in Handle : g # h => eFileLock'[g] = eFileLock[g]
        /\ \A q \in Process : q # p => iLock'[q] = iLock[q]
    BY <1>1, <1>15, SetLevelFacts DEF BackInv, Level, NO_LOCK, PENDING_LOCK, EXCLUSIVE_LOCK
  <2>3. InodeOK(p)'
    BY <1>1, <1>4, <1>5, <1>7, <1>15, <2>2, InodeKept DEF NO_LOCK, PENDING_LOCK, EXCLUSIVE_LOCK
  <2>4. ~ExclProcess(p) => PlainOK(p)'
    BY <1>7, <1>12, <1>15, <2>2 DEF PlainOK, RESERVED_LOCK, PENDING_LOCK, EXCLUSIVE_LOCK
  <2>5. Level3(pc'[t], req'[t], eFileLock'[h]) = PENDING_LOCK
    BY <2>1, <2>2 DEF Level3
  <2>6. MayMove(e, PENDING_LOCK)
    BY <1>1, <1>7, <1>15
    DEF MayMove, Level, NO_LOCK, SHARED_LOCK, RESERVED_LOCK, PENDING_LOCK, EXCLUSIVE_LOCK
  <2>7. QED
    BY <1>0, <1>1, <1>4, <1>5, <1>7, <1>8, <1>10, <1>15, <2>1, <2>2, <2>3, <2>4, <2>5, <2>6, LockCallStep
<1>16. CASE r.rc # 0 /\ Return(t) /\ UNCHANGED <<iLock, eFileLock>>
  <2>1. CallGoesOn(t) /\ CallOK(t)' /\ pc'[t] \in {"idle", "close"}
    BY <1>0, <1>16, CallNext DEF CallGoesOn
  <2>2. InodeOK(p)'
    BY <1>1, <1>4, <1>5, <1>6, <1>16, InodeKept DEF InodeOK
  <2>3. ~ExclProcess(p) => PlainOK(p)'
    BY <1>9, <1>12, <1>16 DEF PlainOK
  <2>4. Level3(pc'[t], req'[t], eFileLock'[h]) = e
    BY <1>16, <2>1 DEF Level3
  <2>5. e > SHARED_LOCK => iLock[p] = e
    BY <1>2, <1>7 DEF NO_LOCK, SHARED_LOCK
  <2>6. QED
    BY <1>0, <1>1, <1>4, <1>5, <1>8, <1>10, <1>16, <2>1, <2>2, <2>3, <2>4, <2>5, LockCallStep
    DEF MayMove
<1>17. QED
  BY <1>3, <1>13, <1>14, <1>15, <1>16

LEMMA LockSharedRangeBacked ==
  ASSUME Regular, BackInv, CountInv', NEW t \in Thread, LockSharedRange(t)
  PROVE  BackInv' /\ \E h \in Handle : Moves(h)
<1> DEFINE h == on[t]
           p == ProcOf[t]
           e == eFileLock[h]
<1>0. pc[t] = "shared" /\ pc[t] \in UnderLockMutex /\ pc[t] \in Locking
  BY DEF LockSharedRange, UnderLockMutex, Locking
<1>1. /\ h \in Handle /\ p = ProcOf[h] /\ p \in Process /\ StepOK(t) /\ CallOK(t) /\ nRef[p] # 0
  BY <1>0, InLockCall
<1>2. req[t] = SHARED_LOCK /\ e = NO_LOCK /\ iLock[p] = NO_LOCK
  BY <1>0, <1>1 DEF StepOK
<1>3. PICK r \in FileLock(h, {"shared"}, F_RDLCK) :
        Apply(r, h, 0) /\ Goto(t, IF r.rc = 0 THEN "unpend" ELSE "unpendFail")
  BY DEF LockSharedRange
<1>4. FileLockDone(r.rc, p, {"shared"}, F_RDLCK, 0)
  <2>1. {"shared"} \in SUBSET Byte /\ F_RDLCK \in LockType
    BY DEF Byte, LockType
  <2>2. QED
    BY <1>1, <1>3, <2>1, FileLocked
<1>5. UNCHANGED <<iLock, nShared, nRef, eFileLock>>
  BY DEF LockSharedRange, fileVars
<1>6. /\ pc'[t] = (IF r.rc = 0 THEN "unpend" ELSE "unpendFail")
      /\ req'[t] = SHARED_LOCK /\ on'[t] = h /\ CallGoesOn(t)
  BY <1>2, <1>3 DEF BackInv, CountInv, Typed, Goto, CallGoesOn, UnderLockMutex
<1>7. CallOK(t)'
  <2>1. ExclProcess(p) => bProcessLock'[p] = 1
    BY <1>0, <1>1, <1>4 DEF CallOK, FileLockDone
  <2>2. ~ExclProcess(p) /\ r.rc = 0 => klock'[p]["shared"] = F_RDLCK
    BY <1>4 DEF FileLockDone, Byte
  <2>3. QED
    BY <1>1, <1>6, <2>1, <2>2 DEF CallOK, Granted, Locking, ExclProcess
<1>8. InodeOK(p)'
  BY <1>1, <1>2, <1>4, <1>5, InodeKept DEF NO_LOCK, EXCLUSIVE_LOCK
<1>9. PlainOK(p)'
  BY <1>2, <1>5 DEF PlainOK, NO_LOCK, RESERVED_LOCK, PENDING_LOCK, EXCLUSIVE_LOCK
<1>10. Level3(pc[t], req[t], e) = NO_LOCK /\ Level3(pc'[t], req'[t], eFileLock'[h]) = NO_LOCK
  BY <1>0, <1>2, <1>5, <1>6 DEF Level3
<1>11. QED
  BY <1>0, <1>1, <1>2, <1>4, <1>5, <1>6, <1>7, <1>8, <1>9, <1>10, LockCallStep
  DEF MayMove, NO_LOCK, SHARED_LOCK

LEMMA DropPendingByteBacked ==
  ASSUME Regular, BackInv, CountInv', NEW t \in Thread, DropPendingByte(t)
  PROVE  BackInv' /\ \E h \in Handle : Moves(h)
<1> DEFINE h == on[t]
           p == ProcOf[t]
           e == eFileLock[h]
<1>0. pc[t] \in {"unpend", "unpendFail"} /\ pc[t] \in UnderLockMutex /\ pc[t] \in Locking
  BY DEF DropPendingByte, UnderLockMutex, Locking
<1>1. /\ h \in Handle /\ p = ProcOf[h] /\ p \in Process /\ StepOK(t) /\ CallOK(t) /\ nRef[p] # 0
  BY <1>0, InLockCall
<1>2. req[t] = SHARED_LOCK /\ e = NO_LOCK /\ iLock[p] = NO_LOCK
  BY <1>0, <1>1 DEF StepOK
<1>3. PICK r \in FileLock(h, {"pending"}, F_UNLCK) :
       \/ /\ r.rc = 0 /\ pc[t] = "unpend"
          /\ Apply(r, h, 1)
          /\ SetLevel(h, SHARED_LOCK)
          /\ nShared' = [nShared EXCEPT ![ProcOf[h]] = 1]
       \/ /\ r.rc # 0 \/ pc[t] = "unpendFail"
          /\ Apply(r, h, 0)
          /\ UNCHANGED <<iLock, eFileLock, nShared>>
  BY DEF DropPendingByte
<1>4. {"pending"} \in SUBSET Byte /\ F_UNLCK \in LockType
  BY DEF Byte, LockType
<1>5. nRef' = nRef /\ Return(t)
  BY DEF DropPendingByte
<1>6. CallGoesOn(t) /\ CallOK(t)' /\ pc'[t] \in {"idle", "close"}
  BY <1>0, <1>5, CallNext DEF CallGoesOn
<1>7. Level3(pc[t], req[t], e) = e /\ Level3(pc'[t], req'[t], eFileLock'[h]) = eFileLock'[h]
  BY <1>0, <1>6 DEF Level3
<1>8. InodeOK(p) /\ nShared \in [Process -> Int] /\ nShared[p] = 0
  BY <1>1, <1>2 DEF BackInv, InodeOK, CountInv, Typed
<1>9. CASE r.rc = 0 /\ pc[t] = "unpend" /\ Apply(r, h, 1) /\ SetLevel(h, SHARED_LOCK)
           /\ nShared' = [nShared EXCEPT ![ProcOf[h]] = 1]
  <2>1. FileLockDone(r.rc, p, {"pending"}, F_UNLCK, 1)
    BY <1>1, <1>4, <1>9, FileLocked
  <2>2. /\ iLock'[p] = SHARED_LOCK /\ eFileLock'[h] = SHARED_LOCK
        /\ \A g \in Handle : g # h => eFileLock'[g] = eFileLock[g]
        /\ \A q \in Process : q # p => iLock'[q] = iLock[q]
    BY <1>1, <1>9, SetLevelFacts DEF BackInv, Level, NO_LOCK, SHARED_LOCK, EXCLUSIVE_LOCK
  <2>3. nShared'[p] = 1 /\ \A q \in Process : q # p => nShared'[q] = nShared[q]
    BY <1>1, <1>8, <1>9
  <2>4. InodeOK(p)'
    <3>1. /\ nLock'[p] \in Int /\ bProcessLock'[p] \in Int
          /\ nLock[p] \in Int /\ bProcessLock[p] \in Int
      BY <1>1 DEF BackInv, CountInv, Typed
    <3>2. nLock'[p] - bProcessLock'[p] = nLock[p] - bProcessLock[p] + 1
      BY <2>1 DEF FileLockDone
    <3>3. nLock[p] = 0 + bProcessLock[p]
      BY <1>8 DEF InodeOK
    <3>4. nLock'[p] = nShared'[p] + bProcessLock'[p]
      BY <2>3, <3>1, <3>2, <3>3
    <3>5. QED
      BY <1>1, <1>5, <2>2, <2>3, <3>4 DEF InodeOK, NO_LOCK, SHARED_LOCK, EXCLUSIVE_LOCK
  <2>5. ASSUME ~ExclProcess(p) PROVE PlainOK(p)'
    <3>1. klock[p]["shared"] \in {F_RDLCK, F_WRLCK}
      BY <1>1, <1>9, <2>5 DEF CallOK, Granted
    <3>2. klock'[p]["shared"] = klock[p]["shared"]
      BY <1>9, <2>1, <2>5 DEF FileLockDone, Byte
    <3>3. QED
      BY <2>2, <3>1, <3>2
      DEF PlainOK, SHARED_LOCK, RESERVED_LOCK, PENDING_LOCK, EXCLUSIVE_LOCK, F_UNLCK, F_RDLCK, F_WRLCK
  <2>6. QED
    BY <1>0, <1>1, <1>2, <1>5, <1>6, <1>7, <1>9, <2>1, <2>2, <2>3, <2>4, <2>5, LockCallStep
    DEF MayMove, NO_LOCK, SHARED_LOCK
<1>10. CASE Apply(r, h, 0) /\ UNCHANGED <<iLock, eFileLock, nShared>>
  <2>1. FileLockDone(r.rc, p, {"pending"}, F_UNLCK, 0)
    BY <1>1, <1>4, <1>10, FileLocked
  <2>2. InodeOK(p)'
    BY <1>1, <1>2, <1>5, <1>10, <2>1, InodeKept DEF NO_LOCK, EXCLUSIVE_LOCK
  <2>3. PlainOK(p)'
    BY <1>2, <1>10 DEF PlainOK, NO_LOCK, RESERVED_LOCK, PENDING_LOCK, EXCLUSIVE_LOCK
  <2>4. QED
    BY <1>0, <1>1, <1>2, <1>5, <1>6, <1>7, <1>10, <2>1, <2>2, <2>3, LockCallStep
    DEF MayMove, NO_LOCK, SHARED_LOCK
<1>11. QED
  BY <1>3, <1>9, <1>10

LEMMA LockForWriteBacked ==
  ASSUME Regular, BackInv, CountInv', NEW t \in Thread, LockForWrite(t)
  PROVE  BackInv' /\ \E h \in Handle : Moves(h)
<1> DEFINE h == on[t]
           p == ProcOf[t]
           e == eFileLock[h]
           bytes == IF req[t] = RESERVED_LOCK THEN {"reserved"} ELSE {"shared"}
<1>0. pc[t] = "write" /\ pc[t] \in UnderLockMutex /\ pc[t] \in Locking
  BY DEF LockForWrite, UnderLockMutex, Locking
<1>1. /\ h \in Handle /\ p = ProcOf[h] /\ p \in Process /\ StepOK(t) /\ CallOK(t) /\ nRef[p] # 0
      /\ e \in Level
  BY <1>0, InLockCall
<1>2. /\ req[t] \in {RESERVED_LOCK, EXCLUSIVE_LOCK} /\ e # NO_LOCK /\ iLock[p] = e
      /\ req[t] = RESERVED_LOCK => e = SHARED_LOCK
  BY <1>0, <1>1 DEF StepOK, CallOK, SHARED_LOCK, RESERVED_LOCK, EXCLUSIVE_LOCK
<1>3. PICK r \in FileLock(h, bytes, F_WRLCK) :
       /\ Apply(r, h, 0)
       /\ \/ r.rc = 0 /\ SetLevel(h, req[t])
          \/ r.rc # 0 /\ req[t] = EXCLUSIVE_LOCK /\ SetLevel(h, PENDING_LOCK)
          \/ r.rc # 0 /\ req[t] = RESERVED_LOCK /\ UNCHANGED <<iLock, eFileLock>>
  BY DEF LockForWrite
<1>4. FileLockDone(r.rc, p, bytes, F_WRLCK, 0)
  <2>1. bytes \in SUBSET Byte /\ F_WRLCK \in LockType
    BY DEF Byte, LockType
  <2>2. QED
    BY <1>1, <1>3, <2>1, FileLocked
<1>5. UNCHANGED <<nShared, nRef>> /\ Return(t)
  BY DEF LockForWrite
<1>6. CallGoesOn(t) /\ CallOK(t)' /\ pc'[t] \in {"idle", "close"}
  BY <1>0, <1>5, CallNext DEF CallGoesOn
<1>7. Level3(pc[t], req[t], e) = e /\ Level3(pc'[t], req'[t], eFileLock'[h]) = eFileLock'[h]
  BY <1>0, <1>6 DEF Level3
<1>8. ~Demoted(p)
  BY <1>0, NotDemoted
<1>9. ASSUME ~ExclProcess(p)
      PROVE  /\ PlainOK(p)
             /\ r.rc = 0 => \A b \in Byte : klock'[p][b] = IF b \in bytes THEN F_WRLCK ELSE klock[p][b]
             /\ r.rc # 0 => klock'[p] = klock[p]
             /\ req[t] = EXCLUSIVE_LOCK => klock[p]["pending"] = F_WRLCK
  BY <1>0, <1>1, <1>4, <1>9 DEF FileLockDone, BackInv, KernelOK, CallOK, Granted
<1>10. req[t] = EXCLUSIVE_LOCK => nShared[p] <= 1
  BY <1>0, <1>1 DEF CallOK
<1>11. ASSUME NEW level \in {RESERVED_LOCK, PENDING_LOCK, EXCLUSIVE_LOCK}, SetLevel(h, level),
              level = RESERVED_LOCK => r.rc = 0 /\ req[t] = RESERVED_LOCK,
              level = EXCLUSIVE_LOCK => r.rc = 0 /\ req[t] = EXCLUSIVE_LOCK,
              level = PENDING_LOCK => r.rc # 0 /\ req[t] = EXCLUSIVE_LOCK
       PROVE  BackInv' /\ \E g \in Handle : Moves(g)
  <2> USE DEF NO_LOCK, SHARED_LOCK, RESERVED_LOCK, PENDING_LOCK, EXCLUSIVE_LOCK
  <2>1. /\ iLock'[p] = level /\ eFileLock'[h] = level
        /\ \A g \in Handle : g # h => eFileLock'[g] = eFileLock[g]
        /\ \A q \in Process : q # p => iLock'[q] = iLock[q]
    BY <1>1, <1>11, SetLevelFacts DEF BackInv, Level
  <2>2. InodeOK(p)'
    BY <1>1, <1>2, <1>4, <1>5, <1>10, <1>11, <2>1, InodeKept
  <2>3. ~ExclProcess(p) => PlainOK(p)'
    <3>1. SUFFICES ASSUME ~ExclProcess(p) PROVE PlainOK(p)'
      OBVIOUS
    <3>2. klock[p]["shared"] # F_UNLCK
      BY <1>2, <1>9, <3>1 DEF PlainOK
    <3>3. CASE level = RESERVED_LOCK
      <4>1. klock'[p]["reserved"] = F_WRLCK /\ klock'[p]["shared"] = klock[p]["shared"]
        BY <1>9, <1>11, <3>1, <3>3 DEF Byte
      <4>2. QED
        BY <2>1, <3>2, <3>3, <4>1 DEF PlainOK
    <3>4. CASE level = PENDING_LOCK
      BY <1>9, <1>11, <2>1, <3>1, <3>2, <3>4 DEF PlainOK
    <3>5. CASE level = EXCLUSIVE_LOCK
      <4>1. klock'[p]["shared"] = F_WRLCK /\ klock'[p]["pending"] = F_WRLCK
        BY <1>9, <1>11, <3>1, <3>5 DEF Byte
      <4>2. QED
        BY <2>1, <3>5, <4>1 DEF PlainOK, F_UNLCK, F_WRLCK
    <3>6. QED
      BY <3>3, <3>4, <3>5
  <2>4. MayMove(e, level)
    BY <1>1, <1>2, <1>11 DEF MayMove, Level
  <2>5. QED
    BY <1>0, <1>1, <1>2, <1>4, <1>5, <1>6, <1>7, <2>1, <2>2, <2>3, <2>4, LockCallStep
<1>12. CASE r.rc # 0 /\ req[t] = RESERVED_LOCK /\ UNCHANGED <<iLock, eFileLock>>
  <2>1. InodeOK(p)'
    BY <1>1, <1>2, <1>4, <1>5, <1>12, InodeKept DEF SHARED_LOCK, EXCLUSIVE_LOCK
  <2>2. ~ExclProcess(p) => PlainOK(p)'
    BY <1>2, <1>9, <1>12 DEF PlainOK, SHARED_LOCK, RESERVED_LOCK, PENDING_LOCK, EXCLUSIVE_LOCK
  <2>3. QED
    BY <1>0, <1>1, <1>2, <1>4, <1>5, <1>6, <1>7, <1>12, <2>1, <2>2, LockCallStep
    DEF MayMove
<1>13. QED
  BY <1>2, <1>3, <1>11, <1>12 DEF RESERVED_LOCK, PENDING_LOCK, EXCLUSIVE_LOCK

LEMMA DemoteSharedRangeBacked ==
  ASSUME Regular, BackInv, CountInv', NEW t \in Thread, DemoteSharedRange(t)
  PROVE  BackInv' /\ \E h \in Handle : Moves(h)
<1> DEFINE h == on[t]
           p == ProcOf[t]
           e == eFileLock[h]
<1>0. pc[t] = "demote" /\ pc[t] \in UnderLockMutex
  BY DEF DemoteSharedRange, UnderLockMutex
<1>1. /\ h \in Handle /\ p = ProcOf[h] /\ p \in Process /\ CallOK(t) /\ nRef[p] # 0
      /\ e \in Level /\ Held(h) = Level3(pc[t], req[t], e)
  BY <1>0, InLockCall
<1>2. Level3(pc[t], req[t], e) = e
  BY <1>0 DEF Level3
<1>3. /\ req[t] = SHARED_LOCK /\ e > SHARED_LOCK
      /\ iLock[p] = e
  BY <1>0, <1>1, <1>2 DEF CallOK, BackInv, WriterOK
<1>4. PICK r \in FileLock(h, {"shared"}, F_RDLCK) :
        Apply(r, h, 0) /\ (IF r.rc = 0 THEN Goto(t, "unlckBytes") ELSE ReturnFromUnlock(t))
  BY DEF DemoteSharedRange
<1>5. FileLockDone(r.rc, p, {"shared"}, F_RDLCK, 0)
  <2>1. {"shared"} \in SUBSET Byte /\ F_RDLCK \in LockType
    BY DEF Byte, LockType
  <2>2. QED
    BY <1>1, <1>4, <2>1, FileLocked
<1>6. UNCHANGED <<iLock, nShared, nRef, eFileLock, status>>
  BY DEF DemoteSharedRange, fileVars
<1>7. InodeOK(p)'
  BY <1>1, <1>5, <1>6, InodeKept DEF BackInv, InodeOK
<1>8. iLock[p] # NO_LOCK
  BY <1>3 DEF NO_LOCK, SHARED_LOCK
<1>9. ASSUME ~ExclProcess(p)
      PROVE  /\ PlainOK(p) /\ klock'[p]["pending"] = klock[p]["pending"]
             /\ klock'[p]["reserved"] = klock[p]["reserved"]
             /\ r.rc = 0 => klock'[p]["shared"] = F_RDLCK
             /\ r.rc # 0 => klock'[p]["shared"] = klock[p]["shared"]
  BY <1>1, <1>5, <1>9 DEF FileLockDone, BackInv, KernelOK, Byte
<1>10. CASE r.rc = 0 /\ Goto(t, "unlckBytes")
  <2>1. pc'[t] = "unlckBytes" /\ req'[t] = SHARED_LOCK /\ on'[t] = h /\ CallGoesOn(t)
    BY <1>3, <1>10 DEF BackInv, CountInv, Typed, Goto, CallGoesOn, UnderLockMutex
  <2>2. CallOK(t)'
    BY <1>3, <1>6, <2>1 DEF CallOK, Locking
  <2>3. Demoted(p)'
    BY <2>1 DEF Demoted
  <2>4. ~ExclProcess(p) => PlainOK(p)'
    BY <1>6, <1>9, <1>10, <2>3 DEF PlainOK, F_UNLCK, F_RDLCK
  <2>5. Level3(pc'[t], req'[t], eFileLock'[h]) = IF e = EXCLUSIVE_LOCK THEN PENDING_LOCK ELSE e
    BY <1>6, <2>1 DEF Level3
  <2>6. MayMove(e, IF e = EXCLUSIVE_LOCK THEN PENDING_LOCK ELSE e)
    BY DEF MayMove, PENDING_LOCK, EXCLUSIVE_LOCK
  <2>7. QED
    BY <1>0, <1>1, <1>2, <1>3, <1>5, <1>6, <1>7, <1>8, <2>1, <2>2, <2>4, <2>5, <2>6, LockCallStep
<1>11. CASE r.rc # 0 /\ ReturnFromUnlock(t)
  <2>1. Return(t) \/ Call(t, h, "close", NO_LOCK)
    BY <1>6, <1>11, ReturnFromUnlockFacts DEF BackInv
  <2>2. CallGoesOn(t) /\ CallOK(t)' /\ pc'[t] \in {"idle", "close"}
    BY <1>0, <2>1, CallNext DEF CallGoesOn
  <2>3. ~Demoted(p)
    BY <1>0, NotDemoted
  <2>4. ~ExclProcess(p) => PlainOK(p)'
    BY <1>6, <1>9, <1>11, <2>3 DEF PlainOK
  <2>5. Level3(pc'[t], req'[t], eFileLock'[h]) = e
    BY <1>6, <2>2 DEF Level3
  <2>6. QED
    BY <1>0, <1>1, <1>2, <1>3, <1>5, <1>6, <1>7, <1>8, <2>2, <2>4, <2>5, LockCallStep DEF MayMove
<1>12. QED
  BY <1>4, <1>10, <1>11

LEMMA UnlockWriterBytesBacked ==
  ASSUME Regular, BackInv, CountInv', NEW t \in Thread, UnlockWriterBytes(t)
  PROVE  BackInv' /\ \E h \in Handle : Moves(h)
<1> DEFINE h == on[t]
           p == ProcOf[t]
           e == eFileLock[h]
<1>0. pc[t] = "unlckBytes" /\ pc[t] \in UnderLockMutex
  BY DEF UnlockWriterBytes, UnderLockMutex
<1>1. /\ h \in Handle /\ p = ProcOf[h] /\ p \in Process /\ CallOK(t) /\ nRef[p] # 0
      /\ e \in Level /\ Held(h) = Level3(pc[t], req[t], e)
  BY <1>0, InLockCall
<1>2. /\ Level3(pc[t], req[t], e) \in {e, PENDING_LOCK}
      /\ Level3(pc[t], req[t], e) = PENDING_LOCK => e \in {PENDING_LOCK, EXCLUSIVE_LOCK}
  BY <1>0 DEF Level3
<1>3. req[t] \in {NO_LOCK, SHARED_LOCK} /\ e > SHARED_LOCK /\ iLock[p] = e
  <2>1. req[t] \in {NO_LOCK, SHARED_LOCK} /\ e > SHARED_LOCK
    BY <1>0, <1>1 DEF CallOK
  <2>2. Held(h) > SHARED_LOCK
    BY <1>1, <1>2, <2>1 DEF SHARED_LOCK, PENDING_LOCK
  <2>3. QED
    BY <1>1, <2>1, <2>2 DEF BackInv, WriterOK
<1>4. PICK r \in FileLock(h, {"pending", "reserved"}, F_UNLCK) :
       /\ Apply(r, h, 0)
       /\ iLock' = IF r.rc = 0 THEN [iLock EXCEPT ![ProcOf[h]] = SHARED_LOCK] ELSE iLock
       /\ \/ r.rc = 0 /\ req[t] = NO_LOCK /\ Goto(t, "unlckFile") /\ UNCHANGED eFileLock
          \/ /\ r.rc = 0 /\ req[t] = SHARED_LOCK /\ ReturnFromUnlock(t)
             /\ eFileLock' = [eFileLock EXCEPT ![h] = SHARED_LOCK]
          \/ r.rc # 0 /\ ReturnFromUnlock(t) /\ UNCHANGED eFileLock
  BY DEF UnlockWriterBytes
<1>5. FileLockDone(r.rc, p, {"pending", "reserved"}, F_UNLCK, 0)
  <2>1. {"pending", "reserved"} \in SUBSET Byte /\ F_UNLCK \in LockType
    BY DEF Byte, LockType
  <2>2. QED
    BY <1>1, <1>4, <2>1, FileLocked
<1>6. UNCHANGED <<nShared, nRef, status>>
  BY DEF UnlockWriterBytes
<1>7. iLock[p] # NO_LOCK /\ iLock \in [Process -> Level] /\ eFileLock \in [Handle -> Level]
  BY <1>3 DEF NO_LOCK, SHARED_LOCK, BackInv, CountInv, Typed
<1>8. KernelOK(p)
  BY <1>1 DEF BackInv
<1>9. r.rc = 0
  <2>1. ExclProcess(p) => bProcessLock[p] = 1
    BY <1>7, <1>8 DEF KernelOK, ExclOK
  <2>2. QED
    BY <1>5, <2>1 DEF FileLockDone
<1>10. iLock'[p] = SHARED_LOCK /\ \A q \in Process : q # p => iLock'[q] = iLock[q]
  BY <1>1, <1>4, <1>7, <1>9
<1>11. InodeOK(p)'
  BY <1>1, <1>5, <1>6, <1>7, <1>10, InodeKept DEF NO_LOCK, SHARED_LOCK, EXCLUSIVE_LOCK
<1>12. ~ExclProcess(p) => PlainOK(p)'
  <2>1. SUFFICES ASSUME ~ExclProcess(p) PROVE PlainOK(p)'
    OBVIOUS
  <2>2. klock'[p]["shared"] = klock[p]["shared"]
    BY <1>5, <1>9, <2>1 DEF FileLockDone, Byte
  <2>3. klock[p]["shared"] # F_UNLCK
    BY <1>7, <1>8, <2>1 DEF KernelOK, PlainOK
  <2>4. QED
    BY <1>10, <2>2, <2>3 DEF PlainOK, SHARED_LOCK, RESERVED_LOCK, PENDING_LOCK, EXCLUSIVE_LOCK
<1>13. MayMove(Level3(pc[t], req[t], e), SHARED_LOCK)
  BY <1>1, <1>2, <1>3 DEF MayMove, SHARED_LOCK, PENDING_LOCK, Level, NO_LOCK, EXCLUSIVE_LOCK
<1>14. CASE req[t] = NO_LOCK /\ Goto(t, "unlckFile") /\ UNCHANGED eFileLock
  <2>1. pc'[t] = "unlckFile" /\ req'[t] = NO_LOCK /\ on'[t] = h /\ CallGoesOn(t)
    BY <1>14 DEF BackInv, CountInv, Typed, Goto, CallGoesOn, UnderLockMutex
  <2>2. CallOK(t)'
    BY <2>1 DEF CallOK, Locking
  <2>3. Level3(pc'[t], req'[t], eFileLock'[h]) = SHARED_LOCK
    BY <1>3, <1>14, <2>1 DEF Level3
  <2>4. QED
    BY <1>0, <1>1, <1>5, <1>6, <1>7, <1>10, <1>11, <1>12, <1>13, <1>14, <2>1, <2>2, <2>3, LockCallStep
    DEF SHARED_LOCK
<1>15. CASE ReturnFromUnlock(t) /\ eFileLock' = [eFileLock EXCEPT ![h] = SHARED_LOCK]
  <2>1. Return(t) \/ Call(t, h, "close", NO_LOCK)
    BY <1>6, <1>15, ReturnFromUnlockFacts DEF BackInv
  <2>2. CallGoesOn(t) /\ CallOK(t)' /\ pc'[t] \in {"idle", "close"}
    BY <1>0, <2>1, CallNext DEF CallGoesOn
  <2>3. eFileLock'[h] = SHARED_LOCK /\ \A g \in Handle : g # h => eFileLock'[g] = eFileLock[g]
    BY <1>1, <1>7, <1>15
  <2>4. Level3(pc'[t], req'[t], eFileLock'[h]) = SHARED_LOCK
    BY <2>2, <2>3 DEF Level3
  <2>5. QED
    BY <1>0, <1>1, <1>5, <1>6, <1>7, <1>10, <1>11, <1>12, <1>13, <2>2, <2>3, <2>4, LockCallStep
    DEF SHARED_LOCK
<1>16. QED
  BY <1>4, <1>9, <1>14, <1>15

LEMMA WholeFileUnlocked ==
  ASSUME BackInv, NEW h \in Handle, h \notin ExclHandle, NEW r \in FileLock(h, Byte, F_UNLCK)
  PROVE  /\ r.table \in Tables /\ TableOK(r.table) /\ r.taken = 0
         /\ \A q \in Process : q # ProcOf[h] => r.table[q] = klock[q]
<1>1. Byte \in SUBSET Byte /\ F_UNLCK \in LockType
  BY DEF LockType
<1>2. QED
  BY <1>1, PlainFileLock

(* The last reader of the process unlocks the whole file, or, under        *)
(* unix-excl, keeps the process lock; any other unlocks nothing.           *)
LEMMA UnlockFileBacked ==
  ASSUME Regular, BackInv, CountInv', NEW t \in Thread, UnlockFile(t)
  PROVE  BackInv' /\ \E h \in Handle : Moves(h)
<1>0. pc[t] = "unlckFile" /\ pc[t] \in UnderLockMutex /\ pc[t] \in Unlocking
  BY DEF UnlockFile, UnderLockMutex, Unlocking
<1> PICK h \in Handle : h = on[t]
  BY <1>0, InLockCall
<1> DEFINE p == ProcOf[t]
           e == eFileLock[h]
<1>1. /\ h = on[t] /\ h \in Handle /\ p = ProcOf[h] /\ p \in Process /\ CallOK(t) /\ StepOK(t) /\ nRef[p] # 0
      /\ e \in Level /\ Held(h) = Level3(pc[t], req[t], e) /\ Alone(t)
      /\ \A u \in Thread : u # t => on[u] # h
  BY <1>0, InLockCall
<1>2. e # NO_LOCK
  BY <1>0, <1>1 DEF StepOK
<1>3. /\ iLock[p] # NO_LOCK /\ nShared[p] >= 1
      /\ InodeOK(p) /\ KernelOK(p) /\ nShared[p] \in Nat /\ nLock[p] \in Nat /\ bProcessLock[p] \in {0, 1}
  BY <1>1, <1>2, HolderCounted, InodeTyped
<1>4. ExclProcess(p) => bProcessLock[p] = 1 /\ klock[p]["shared"] = F_WRLCK
  BY <1>3 DEF KernelOK, ExclOK
<1>5. klock \in Tables /\ TableOK(klock)
  BY TablesTyped DEF BackInv
<1>6. PICK r \in IF nShared[p] = 1 THEN FileLock(h, Byte, F_UNLCK) ELSE {NoChange(0)} :
       LET left == nLock[p] + r.taken - 1 IN
       /\ bProcessLock' = [bProcessLock EXCEPT ![p] = @ + r.taken]
       /\ nLock' = [nLock EXCEPT ![p] = left]
       /\ klock' = IF left = 0 /\ nUnused[p] > 0 THEN DropLocks(r.table, p) ELSE r.table
  BY <1>1 DEF UnlockFile
<1>7. /\ r.taken = 0 /\ r.table \in Tables /\ TableOK(r.table)
      /\ \A q \in Process : q # p => r.table[q] = klock[q]
      /\ nShared[p] # 1 \/ ExclProcess(p) => r.table = klock
  <2>1. CASE nShared[p] # 1
    <3>1. r = [rc |-> 0, table |-> klock, taken |-> 0]
      BY <1>6, <2>1 DEF NoChange
    <3>2. QED
      BY <1>5, <3>1
  <2>2. CASE nShared[p] = 1
    <3>1. r \in FileLock(h, Byte, F_UNLCK) /\ Byte \in SUBSET Byte /\ F_UNLCK \in LockType
      BY <1>6, <2>2 DEF LockType
    <3>2. CASE h \in ExclHandle
      <4>1. ExclProcess(p)
        BY <1>1, <3>2 DEF ExclProcess
      <4>2. /\ r.table \in Tables /\ TableOK(r.table)
            /\ \A q \in Process : q # ProcOf[h] => r.table[q] = klock[q]
            /\ \/ r.table = klock /\ r.taken = 0
               \/ bProcessLock[ProcOf[h]] = 0
        BY <3>1, <3>2, ExclFileLock
      <4>3. QED
        BY <1>1, <1>4, <4>1, <4>2
    <3>3. CASE h \notin ExclHandle
      <4>1. ~ExclProcess(p)
        BY <1>1, <3>3, UnixLockAssumption DEF ExclProcess, Regular
      <4>2. /\ r.table \in Tables /\ TableOK(r.table) /\ r.taken = 0
            /\ \A q \in Process : q # ProcOf[h] => r.table[q] = klock[q]
        BY <3>1, <3>3, WholeFileUnlocked
      <4>3. QED
        BY <1>1, <2>2, <4>1, <4>2
    <3>4. QED
      BY <3>2, <3>3
  <2>3. QED
    BY <2>1, <2>2
<1>8. /\ bProcessLock' = [bProcessLock EXCEPT ![p] = @ + 0]
      /\ nLock' = [nLock EXCEPT ![p] = nLock[p] + 0 - 1]
      /\ klock' = IF nLock[p] + 0 - 1 = 0 /\ nUnused[p] > 0 THEN DropLocks(r.table, p) ELSE r.table
  BY <1>6, <1>7
<1>9. /\ nShared' = [nShared EXCEPT ![p] = @ - 1]
      /\ iLock' = IF nShared[p] = 1 THEN [iLock EXCEPT ![p] = NO_LOCK] ELSE iLock
      /\ eFileLock' = [eFileLock EXCEPT ![h] = NO_LOCK]
      /\ ReturnFromUnlock(t) /\ UNCHANGED <<nRef, status>>
  BY <1>1 DEF UnlockFile
<1>10. /\ nLock \in [Process -> Int] /\ nShared \in [Process -> Int] /\ bProcessLock \in [Process -> 0 .. 1]
       /\ iLock \in [Process -> Level] /\ eFileLock \in [Handle -> Level]
  BY DEF BackInv, CountInv, Typed
<1>11. /\ TableOK(klock') /\ OneRow(p)
       /\ nShared[p] # 1 \/ ExclProcess(p) => klock' = klock
  <2>1. DropLocks(r.table, p) \in Tables /\ (\A q \in Process : q # p => DropLocks(r.table, p)[q] = r.table[q])
        /\ TableOK(DropLocks(r.table, p))
    BY <1>1, <1>7, DropLocksFacts, DropTableOK
  <2>2. nShared[p] # 1 \/ ExclProcess(p) => nLock[p] + 0 - 1 # 0
    BY <1>3, <1>4 DEF InodeOK
  <2>3. klock' = r.table \/ klock' = DropLocks(r.table, p)
    BY <1>8
  <2>4. TableOK(klock') /\ OneRow(p)
    BY <1>7, <2>1, <2>3 DEF OneRow
  <2>5. QED
    BY <1>7, <1>8, <2>2, <2>4
<1>12. /\ nShared'[p] = nShared[p] - 1 /\ nLock'[p] = nLock[p] - 1
       /\ bProcessLock'[p] = bProcessLock[p]
       /\ iLock'[p] = IF nShared[p] = 1 THEN NO_LOCK ELSE iLock[p]
       /\ eFileLock'[h] = NO_LOCK
       /\ \A g \in Handle : g # h => eFileLock'[g] = eFileLock[g]
       /\ \A q \in Process : q # p => /\ iLock'[q] = iLock[q] /\ nShared'[q] = nShared[q]
                                      /\ nLock'[q] = nLock[q] /\ bProcessLock'[q] = bProcessLock[q]
  BY <1>1, <1>8, <1>9, <1>10
<1>13. InodeOK(p)'
  BY <1>1, <1>3, <1>9, <1>12 DEF InodeOK, NO_LOCK, EXCLUSIVE_LOCK
<1>14. ~Demoted(p)
  BY <1>0, NotDemoted
<1>15. KernelOK(p)'
  <2>1. CASE ExclProcess(p)
    BY <1>4, <1>11, <1>12, <2>1 DEF KernelOK, ExclOK, ExclProcess
  <2>2. CASE ~ExclProcess(p) /\ nShared[p] = 1
    <3>1. PlainOK(p)'
      BY <1>12, <2>2 DEF PlainOK, NO_LOCK, RESERVED_LOCK, PENDING_LOCK, EXCLUSIVE_LOCK
    <3>2. QED
      BY <2>2, <3>1 DEF KernelOK, ExclProcess
  <2>3. CASE ~ExclProcess(p) /\ nShared[p] # 1
    <3>1. PlainOK(p)
      BY <1>3, <2>3 DEF KernelOK
    <3>2. PlainOK(p)'
      BY <1>11, <1>12, <1>14, <2>3, <3>1 DEF PlainOK
    <3>3. QED
      BY <2>3, <3>2 DEF KernelOK, ExclProcess
  <2>4. QED
    BY <2>1, <2>2, <2>3
<1>16. Return(t) \/ Call(t, h, "close", NO_LOCK)
  BY <1>9, ReturnFromUnlockFacts DEF BackInv
<1>17. /\ \A u \in Thread : u # t => pc'[u] = pc[u] /\ on'[u] = on[u] /\ req'[u] = req[u]
       /\ on'[t] \in {h, NoHandle} /\ CallOK(t)'
       /\ Held(h)' = Level3(pc'[t], req'[t], eFileLock'[h]) /\ pc'[t] \in {"idle", "close"}
  BY <1>0, <1>1, <1>16, CallNext DEF CallGoesOn
<1>18. Held(h)' = NO_LOCK
  BY <1>12, <1>17 DEF Level3
<1>19. Touches(t, h)
  BY <1>1, <1>9, <1>11, <1>12, <1>17 DEF Touches, OneInode
<1>20. ASSUME NEW g \in Handle, g # h, ProcOf[g] = ProcOf[h], eFileLock[g] > SHARED_LOCK
       PROVE  iLock'[p] = iLock[p]
  <2>1. nShared[p] >= 2
    BY <1>1, <1>2, <1>20, TwoHoldersCounted DEF NO_LOCK, SHARED_LOCK
  <2>2. QED
    BY <1>12, <2>1
<1>21. WriterOK(h)' /\ ~(eFileLock'[h] > SHARED_LOCK)
  BY <1>12, <1>18 DEF WriterOK, NO_LOCK, SHARED_LOCK
<1>22. BackInv' /\ \A g \in Handle : g # h => Held(g)' = Held(g)
  BY <1>1, <1>11, <1>13, <1>15, <1>17, <1>19, <1>20, <1>21, TouchedInv
<1>23. MayMove(Held(h), Held(h)')
  <2>1. Held(h) \in Level
    BY <1>1, HeldBelow DEF BackInv
  <2>2. QED
    BY <1>18, <2>1 DEF MayMove, Level, NO_LOCK, EXCLUSIVE_LOCK
<1>24. QED
  BY <1>1, <1>22, <1>23 DEF Moves

(***************************************************************************)
(* The steps outside the lock and unlock calls.                            *)
(***************************************************************************)
LEMMA IdleFacts ==
  ASSUME BackInv, NEW t \in Thread, NEW h \in Handle, CanCall(t, h)
  PROVE  /\ pc[t] = "idle" /\ on[t] = NoHandle /\ ProcOf[h] = ProcOf[t] /\ ProcOf[t] \in Process
         /\ \A u \in Thread : on[u] # h
         /\ Held(h) = eFileLock[h] /\ eFileLock[h] \in Level
         /\ LockMutexFree(ProcOf[h]) => Alone(t) /\ ~Demoted(ProcOf[t])
<1>1. pc[t] = "idle" /\ ProcOf[h] = ProcOf[t] /\ ProcOf[t] \in Process /\ \A u \in Thread : on[u] # h
  BY UnixLockAssumption DEF CanCall
<1>2. on[t] = NoHandle /\ eFileLock[h] \in Level
  BY <1>1 DEF BackInv, CountInv, CallsOK, Typed
<1>3. Held(h) = eFileLock[h]
  BY <1>1, HeldIdle
<1>4. LockMutexFree(ProcOf[h]) => Alone(t) /\ ~Demoted(ProcOf[t])
  BY <1>1 DEF LockMutexFree, Alone, Demoted, UnderLockMutex
<1>5. QED
  BY <1>1, <1>2, <1>3, <1>4

LEMMA BeginCall ==
  ASSUME BackInv, CountInv', NEW t \in Thread, NEW h \in Handle, CanCall(t, h),
         LockMutexFree(ProcOf[h]),
         NEW step \in UnderLockMutex, NEW level, Call(t, h, step, level),
         UNCHANGED <<klock, iLock, nShared, nLock, bProcessLock, nRef, eFileLock>>,
         CallOK(t)', Level3(step, level, eFileLock[h]) = eFileLock[h]
  PROVE  BackInv' /\ Moves(h)
<1> DEFINE p == ProcOf[t]
<1>1. /\ pc[t] = "idle" /\ on[t] = NoHandle /\ ProcOf[h] = p /\ p \in Process
      /\ \A u \in Thread : on[u] # h
      /\ Held(h) = eFileLock[h] /\ Alone(t) /\ ~Demoted(p)
  BY IdleFacts
<1>2. /\ \A u \in Thread : u # t => pc'[u] = pc[u] /\ on'[u] = on[u] /\ req'[u] = req[u]
      /\ pc'[t] = step /\ on'[t] = h /\ req'[t] = level
  BY DEF Call, BackInv, CountInv, Typed
<1>3. Held(h)' = eFileLock[h]
  <2>1. \A u \in Thread : on'[u] = h <=> u = t
    BY <1>1, <1>2
  <2>2. Held(h)' = Level3(step, level, eFileLock'[h])
    BY <1>2, <2>1 DEF Held, InCall, Level3
  <2>3. QED
    BY <2>2
<1>4. Touches(t, h)
  BY <1>1, <1>2 DEF Touches, OneRow, OneInode
<1>5. InodeOK(p) /\ KernelOK(p) /\ WriterOK(h) /\ TableOK(klock)
  BY <1>1 DEF BackInv
<1>6. InodeOK(p)' /\ KernelOK(p)' /\ TableOK(klock')
  BY <1>1, <1>5 DEF InodeOK, KernelOK, ExclOK, PlainOK, ExclProcess
<1>7. WriterOK(h)'
  BY <1>1, <1>3, <1>5 DEF WriterOK
<1>8. BackInv' /\ \A g \in Handle : g # h => Held(g)' = Held(g)
  BY <1>1, <1>4, <1>6, <1>7, TouchedInv
<1>9. QED
  BY <1>1, <1>3, <1>8 DEF Moves, MayMove

LEMMA LockBacked ==
  ASSUME Regular, BackInv, CountInv', NEW t \in Thread, NEW h \in Handle,
         NEW level \in {SHARED_LOCK, RESERVED_LOCK, EXCLUSIVE_LOCK}, Lock(t, h, level)
  PROVE  BackInv' /\ \E g \in Handle : Moves(g)
<1> DEFINE p == ProcOf[t]
           e == eFileLock[h]
           step == IF NeedsPendingByte(h, level) THEN "pending" ELSE "write"
<1> USE DEF NO_LOCK, SHARED_LOCK, RESERVED_LOCK, PENDING_LOCK, EXCLUSIVE_LOCK
<1>1. /\ CanCall(t, h) /\ LockMutexFree(ProcOf[h]) /\ LockSequenceOK(h, level) /\ ~BusyInProcess(h, level)
      /\ UNCHANGED <<klock, iLock, nShared, nLock, bProcessLock, nRef, eFileLock>>
  BY DEF Lock, CanLock, inodeVars, fileVars
<1>2. ProcOf[h] = p /\ p \in Process /\ e \in Level
  BY <1>1, IdleFacts
<1>3. /\ step \in UnderLockMutex /\ Call(t, h, step, level)
      /\ step = "write" /\ level = EXCLUSIVE_LOCK => ~OtherReaders(h)
  BY DEF Lock, UnderLockMutex
<1>4. pc'[t] = step /\ on'[t] = h /\ req'[t] = level
  BY <1>3 DEF Call, BackInv, CountInv, Typed
<1>5. level # SHARED_LOCK => iLock[p] = e
  BY <1>1, <1>2 DEF BusyInProcess
<1>6. step = "write" /\ level = EXCLUSIVE_LOCK => e = PENDING_LOCK /\ nShared[p] <= 1
  <2>1. nShared[p] \in Nat
    BY <1>2, InodeTyped
  <2>2. QED
    BY <1>1, <1>2, <1>3, <2>1 DEF NeedsPendingByte, LockSequenceOK, OtherReaders
<1>7. step = "write" /\ level = EXCLUSIVE_LOCK => Granted(p, "pending", {F_WRLCK})
  BY <1>2, <1>5, <1>6 DEF BackInv, KernelOK, PlainOK, Granted
<1>8. CallOK(t)'
  <2>1. level = RESERVED_LOCK => e = SHARED_LOCK
    BY <1>1 DEF LockSequenceOK
  <2>2. QED
    BY <1>1, <1>2, <1>4, <1>5, <1>6, <1>7, <2>1 DEF CallOK, Granted, ExclProcess
<1>9. Level3(step, level, e) = e
  BY DEF Level3
<1>10. QED
  BY <1>1, <1>3, <1>8, <1>9, BeginCall

LEMMA FirstUnlockStepOK ==
  ASSUME BackInv, NEW t \in Thread, NEW h \in Handle, CanCall(t, h),
         NEW level \in {NO_LOCK, SHARED_LOCK}, eFileLock[h] > level,
         Call(t, h, FirstUnlockStep(h, level), level), eFileLock' = eFileLock
  PROVE  /\ CallOK(t)' /\ FirstUnlockStep(h, level) \in UnderLockMutex
         /\ Level3(FirstUnlockStep(h, level), level, eFileLock[h]) = eFileLock[h]
<1> DEFINE step == FirstUnlockStep(h, level)
           e == eFileLock[h]
<1> USE DEF NO_LOCK, SHARED_LOCK
<1>1. e \in Level
  BY IdleFacts
<1>2. \/ step = "unlckFile" /\ ~(e > SHARED_LOCK) /\ level = NO_LOCK
      \/ step = "demote" /\ e > SHARED_LOCK /\ level = SHARED_LOCK
      \/ step = "unlckBytes" /\ e > SHARED_LOCK /\ level = NO_LOCK
  BY <1>1 DEF FirstUnlockStep, Level, EXCLUSIVE_LOCK
<1>3. pc'[t] = step /\ on'[t] = h /\ req'[t] = level
  BY DEF Call, BackInv, CountInv, Typed
<1>4. CallOK(t)'
  BY <1>2, <1>3 DEF CallOK, Locking
<1>5. QED
  BY <1>2, <1>4 DEF Level3, UnderLockMutex

LEMMA UnlockBacked ==
  ASSUME Regular, BackInv, CountInv', NEW t \in Thread, NEW h \in Handle,
         NEW level \in {NO_LOCK, SHARED_LOCK}, Unlock(t, h, level)
  PROVE  BackInv' /\ \E g \in Handle : Moves(g)
<1>1. /\ CanCall(t, h) /\ LockMutexFree(ProcOf[h]) /\ eFileLock[h] > level
      /\ Call(t, h, FirstUnlockStep(h, level), level)
      /\ UNCHANGED <<klock, iLock, nShared, nLock, bProcessLock, nRef, eFileLock>>
  BY DEF Unlock, inodeVars, fileVars
<1>2. /\ CallOK(t)' /\ FirstUnlockStep(h, level) \in UnderLockMutex
      /\ Level3(FirstUnlockStep(h, level), level, eFileLock[h]) = eFileLock[h]
  BY <1>1, FirstUnlockStepOK
<1>3. QED
  BY <1>1, <1>2, BeginCall

LEMMA LockSharedAgainBacked ==
  ASSUME Regular, BackInv, CountInv', NEW t \in Thread, NEW h \in Handle, LockSharedAgain(t, h)
  PROVE  BackInv' /\ \E g \in Handle : Moves(g)
<1> DEFINE p == ProcOf[t]
<1> USE DEF NO_LOCK, SHARED_LOCK, RESERVED_LOCK, PENDING_LOCK, EXCLUSIVE_LOCK
<1>1. /\ CanCall(t, h) /\ LockMutexFree(ProcOf[h]) /\ LockSequenceOK(h, SHARED_LOCK)
      /\ iLock[ProcOf[h]] \in {SHARED_LOCK, RESERVED_LOCK}
      /\ eFileLock' = [eFileLock EXCEPT ![h] = SHARED_LOCK]
      /\ nShared' = [nShared EXCEPT ![ProcOf[h]] = @ + 1]
      /\ nLock' = [nLock EXCEPT ![ProcOf[h]] = @ + 1]
      /\ UNCHANGED <<klock, iLock, bProcessLock, nRef, pc, on, req>>
  BY DEF LockSharedAgain, CanLock, SharedInProcess, callVars
<1>2. /\ pc[t] = "idle" /\ on[t] = NoHandle /\ ProcOf[h] = p /\ p \in Process
      /\ \A u \in Thread : on[u] # h
      /\ Held(h) = eFileLock[h] /\ Alone(t) /\ ~Demoted(p)
  BY <1>1, IdleFacts
<1>3. eFileLock[h] = NO_LOCK
  BY <1>1 DEF LockSequenceOK
<1>4. /\ nLock \in [Process -> Int] /\ nShared \in [Process -> Int] /\ bProcessLock \in [Process -> 0 .. 1]
      /\ eFileLock \in [Handle -> Level]
  BY DEF BackInv, CountInv, Typed
<1>5. /\ eFileLock'[h] = SHARED_LOCK /\ nShared'[p] = nShared[p] + 1 /\ nLock'[p] = nLock[p] + 1
      /\ \A g \in Handle : g # h => eFileLock'[g] = eFileLock[g]
      /\ \A q \in Process : q # p => nShared'[q] = nShared[q] /\ nLock'[q] = nLock[q]
  BY <1>1, <1>2, <1>4
<1>6. Held(h)' = SHARED_LOCK
  BY <1>1, <1>2, <1>5 DEF Held, InCall
<1>7. Touches(t, h)
  BY <1>1, <1>2, <1>5 DEF Touches, OneRow, OneInode
<1>8. InodeOK(p) /\ KernelOK(p) /\ TableOK(klock) /\ nShared[p] \in Nat
  BY <1>2, InodeTyped DEF BackInv
<1>9. InodeOK(p)'
  BY <1>1, <1>2, <1>4, <1>5, <1>8 DEF InodeOK
<1>10. KernelOK(p)' /\ TableOK(klock')
  BY <1>1, <1>2, <1>8 DEF KernelOK, ExclOK, PlainOK, ExclProcess
<1>11. CallOK(t)'
  BY <1>1, <1>2 DEF CallOK, Locking
<1>12. WriterOK(h)'
  BY <1>6 DEF WriterOK
<1>13. BackInv' /\ \A g \in Handle : g # h => Held(g)' = Held(g)
  BY <1>1, <1>2, <1>5, <1>7, <1>9, <1>10, <1>11, <1>12, TouchedInv
<1>14. QED
  BY <1>2, <1>3, <1>6, <1>13 DEF Moves, MayMove

(* A quiet step: outside the calls, and the level stays or is lost.        *)
LEMMA QuietMove ==
  ASSUME BackInv, CountInv', NEW t \in Thread, NEW h \in Handle, Touches(t, h),
         UNCHANGED <<klock, iLock, nShared, nLock, bProcessLock>>,
         InodeOK(ProcOf[t])', eFileLock'[h] \in {eFileLock[h], NO_LOCK},
         pc[t] \notin UnderLockMutex, pc'[t] \notin UnderLockMutex
  PROVE  BackInv' /\ Moves(h)
<1>1. BackInv' /\ \A g \in Handle : Held(g)' = IF g = h THEN eFileLock'[h] ELSE Held(g)
  BY QuietInv
<1>2. \A u \in Thread : on[u] = h => pc[u] \notin {"unlckFile", "unlckBytes"}
  BY DEF Touches, UnderLockMutex
<1>3. Held(h) = eFileLock[h] /\ eFileLock[h] \in Level
  BY <1>2, HeldIdle, HeldBelow DEF BackInv
<1>4. MayMove(Held(h), Held(h)')
  BY <1>1, <1>3 DEF MayMove, Level, NO_LOCK, EXCLUSIVE_LOCK
<1>5. QED
  BY <1>1, <1>4 DEF Moves

LEMMA CloseBacked ==
  ASSUME Regular, BackInv, CountInv', NEW t \in Thread, NEW h \in Handle, Close(t, h)
  PROVE  BackInv' /\ \E g \in Handle : Moves(g)
<1> DEFINE p == ProcOf[t]
<1>1. /\ CanCall(t, h)
      /\ UNCHANGED <<klock, iLock, nShared, nLock, bProcessLock, nRef, eFileLock>>
      /\ \/ Call(t, h, "close", NO_LOCK)
         \/ /\ eFileLock[h] > NO_LOCK /\ LockMutexFree(ProcOf[h])
            /\ Call(t, h, FirstUnlockStep(h, NO_LOCK), NO_LOCK)
  BY DEF Close, inodeVars
<1>2. CASE Call(t, h, "close", NO_LOCK)
  <2>1. /\ pc[t] = "idle" /\ on[t] = NoHandle /\ ProcOf[h] = p /\ p \in Process
        /\ \A u \in Thread : on[u] # h
    BY <1>1, IdleFacts
  <2>2. /\ \A u \in Thread : u # t => pc'[u] = pc[u] /\ on'[u] = on[u] /\ req'[u] = req[u]
        /\ pc'[t] = "close" /\ on'[t] = h
    BY <1>2 DEF Call, BackInv, CountInv, Typed
  <2>3. Touches(t, h)
    BY <1>1, <2>1, <2>2 DEF Touches, OneRow, OneInode
  <2>4. InodeOK(p)'
    BY <1>1, <2>1 DEF BackInv, InodeOK
  <2>5. QED
    BY <1>1, <2>1, <2>2, <2>3, <2>4, QuietMove DEF UnderLockMutex
<1>3. CASE /\ eFileLock[h] > NO_LOCK /\ LockMutexFree(ProcOf[h])
           /\ Call(t, h, FirstUnlockStep(h, NO_LOCK), NO_LOCK)
  <2>1. /\ CallOK(t)' /\ FirstUnlockStep(h, NO_LOCK) \in UnderLockMutex
        /\ Level3(FirstUnlockStep(h, NO_LOCK), NO_LOCK, eFileLock[h]) = eFileLock[h]
    BY <1>1, <1>3, FirstUnlockStepOK
  <2>2. QED
    BY <1>1, <1>3, <2>1, BeginCall
<1>4. QED
  BY <1>1, <1>2, <1>3

LEMMA DeferCloseBacked ==
  ASSUME Regular, BackInv, CountInv', NEW t \in Thread, DeferClose(t)
  PROVE  BackInv' /\ \E g \in Handle : Moves(g)
<1> DEFINE p == ProcOf[t]
<1>1. /\ pc[t] = "close"
      /\ UNCHANGED <<klock, iLock, nShared, nLock, bProcessLock, nRef, eFileLock>>
      /\ Goto(t, "releaseDeferred") \/ Goto(t, "release")
  BY DEF DeferClose, fileVars
<1>2. PICK h \in Handle : h = on[t] /\ ProcOf[h] = p /\ p \in Process /\ \A u \in Thread : u # t => on[u] # h
  BY <1>1, InCallFacts, UnixLockAssumption DEF BackInv, CountInv, CallsOK
<1>3. /\ \A u \in Thread : u # t => pc'[u] = pc[u] /\ on'[u] = on[u] /\ req'[u] = req[u]
      /\ pc'[t] \in {"release", "releaseDeferred"} /\ on'[t] = h
  BY <1>1, <1>2 DEF Goto, BackInv, CountInv, Typed
<1>4. Touches(t, h)
  BY <1>1, <1>2, <1>3 DEF Touches, OneRow, OneInode
<1>5. InodeOK(p)'
  BY <1>1, <1>2 DEF BackInv, InodeOK
<1>6. QED
  BY <1>1, <1>2, <1>3, <1>4, <1>5, QuietMove DEF UnderLockMutex

LEMMA OpenDescriptorBacked ==
  ASSUME Regular, BackInv, CountInv', NEW t \in Thread, NEW h \in Handle, OpenDescriptor(t, h)
  PROVE  BackInv' /\ \E g \in Handle : Moves(g)
<1> DEFINE p == ProcOf[t]
<1>1. /\ CanCall(t, h) /\ Call(t, h, "attach", NO_LOCK)
      /\ UNCHANGED <<klock, iLock, nShared, nLock, bProcessLock, nRef, eFileLock>>
  BY DEF OpenDescriptor, AfterRobustOpen, Regular
<1>2. /\ pc[t] = "idle" /\ on[t] = NoHandle /\ ProcOf[h] = p /\ p \in Process
      /\ \A u \in Thread : on[u] # h
  BY <1>1, IdleFacts
<1>3. /\ \A u \in Thread : u # t => pc'[u] = pc[u] /\ on'[u] = on[u] /\ req'[u] = req[u]
      /\ pc'[t] = "attach" /\ on'[t] = h
  BY <1>1 DEF Call, BackInv, CountInv, Typed
<1>4. Touches(t, h)
  BY <1>1, <1>2, <1>3 DEF Touches, OneRow, OneInode
<1>5. InodeOK(p)'
  BY <1>1, <1>2 DEF BackInv, InodeOK
<1>6. QED
  BY <1>1, <1>2, <1>3, <1>4, <1>5, QuietMove DEF UnderLockMutex

(* A step after which an inode is as good as new.                          *)
LEMMA FreshInode ==
  ASSUME NEW p \in Process, iLock'[p] = NO_LOCK, nShared'[p] = 0, nLock'[p] = 0, bProcessLock'[p] = 0
  PROVE  InodeOK(p)' /\ KernelOK(p)'
  BY DEF InodeOK, KernelOK, ExclOK, PlainOK, NO_LOCK, RESERVED_LOCK, PENDING_LOCK, EXCLUSIVE_LOCK

LEMMA FreshMove ==
  ASSUME BackInv, CountInv', NEW t \in Thread, NEW h \in Handle, Touches(t, h),
         klock' = klock \/ klock' = DropLocks(klock, ProcOf[t]), Alone(t),
         pc[t] \notin UnderLockMutex, pc'[t] \notin UnderLockMutex, eFileLock'[h] = NO_LOCK,
         iLock'[ProcOf[t]] = NO_LOCK, nShared'[ProcOf[t]] = 0, nLock'[ProcOf[t]] = 0,
         bProcessLock'[ProcOf[t]] = 0,
         \A g \in Handle : g # h /\ ProcOf[g] = ProcOf[h] => eFileLock[g] = NO_LOCK
  PROVE  BackInv' /\ Moves(h)
<1> DEFINE p == ProcOf[t]
<1>1. p \in Process /\ ProcOf[h] = p
  BY UnixLockAssumption DEF Touches
<1>2. InodeOK(p)' /\ KernelOK(p)'
  BY <1>1, FreshInode
<1>3. TableOK(klock')
  BY <1>1, TablesTyped, DropTableOK DEF BackInv
<1>4. CallOK(t)'
  BY DEF CallOK, Locking, UnderLockMutex
<1>5. /\ \A u \in Thread : on'[u] = h => pc'[u] \notin {"unlckFile", "unlckBytes"}
      /\ \A u \in Thread : on[u] = h => pc[u] \notin {"unlckFile", "unlckBytes"}
  BY DEF Touches, UnderLockMutex
<1>6. Held(h)' = NO_LOCK /\ Held(h) \in Level
  BY <1>5, HeldBelow DEF Held, InCall, BackInv
<1>7. WriterOK(h)' /\ ~(eFileLock'[h] > SHARED_LOCK)
  BY <1>6 DEF WriterOK, NO_LOCK, SHARED_LOCK
<1>8. \A g \in Handle : g # h /\ ProcOf[g] = ProcOf[h] => ~(eFileLock[g] > SHARED_LOCK)
  BY DEF NO_LOCK, SHARED_LOCK
<1>9. BackInv' /\ \A g \in Handle : g # h => Held(g)' = Held(g)
  BY <1>2, <1>3, <1>4, <1>7, <1>8, TouchedInv
<1>10. MayMove(Held(h), Held(h)')
  BY <1>6 DEF MayMove, Level, NO_LOCK, EXCLUSIVE_LOCK
<1>11. QED
  BY <1>9, <1>10 DEF Moves

LEMMA AttachBacked ==
  ASSUME Regular, BackInv, CountInv', NEW t \in Thread, Attach(t)
  PROVE  BackInv' /\ \E g \in Handle : Moves(g)
<1> DEFINE p == ProcOf[t]
<1>1. /\ pc[t] = "attach" /\ Return(t)
      /\ UNCHANGED <<iLock, nShared, nLock, bProcessLock, eFileLock>>
  BY DEF Attach
<1>2. PICK h \in Handle : h = on[t] /\ ProcOf[h] = p /\ p \in Process /\ \A u \in Thread : u # t => on[u] # h
  BY <1>1, InCallFacts, UnixLockAssumption DEF BackInv, CountInv, CallsOK
<1>3. \/ nRef' = [nRef EXCEPT ![p] = @ + 1] /\ UNCHANGED klock
      \/ nRef[p] = 0 /\ klock' = DropLocks(klock, p) /\ UNCHANGED nRef
  BY <1>2 DEF Attach
<1>4. /\ \A u \in Thread : u # t => pc'[u] = pc[u] /\ on'[u] = on[u] /\ req'[u] = req[u]
      /\ pc'[t] = "idle" /\ on'[t] = NoHandle
  BY <1>1 DEF Return, Call, BackInv, CountInv, Typed
<1>5. InodeOK(p) /\ nRef[p] \in Nat /\ nRef \in [Process -> Int] /\ nShared[p] \in Nat /\ eFileLock[h] \in Level
  BY <1>2, InodeTyped DEF BackInv, CountInv, Typed
<1>6. CASE nRef' = [nRef EXCEPT ![p] = @ + 1] /\ UNCHANGED klock
  <2>1. nRef'[p] = nRef[p] + 1 /\ \A q \in Process : q # p => nRef'[q] = nRef[q]
    BY <1>2, <1>5, <1>6
  <2>2. Touches(t, h)
    BY <1>1, <1>2, <1>4, <1>6, <2>1 DEF Touches, OneRow, OneInode
  <2>3. InodeOK(p)'
    BY <1>1, <1>2, <1>5, <2>1 DEF InodeOK
  <2>4. QED
    BY <1>1, <1>2, <1>4, <1>6, <2>2, <2>3, QuietMove DEF UnderLockMutex
<1>7. CASE nRef[p] = 0 /\ klock' = DropLocks(klock, p) /\ UNCHANGED nRef
  <2>1. Alone(t)
    <3>1. ASSUME NEW u \in Thread, u # t, ProcOf[u] = p, pc[u] \in UnderLockMutex PROVE FALSE
      BY <1>7, <3>1, InLockCall
    <3>2. QED
      BY <3>1 DEF Alone
  <2>2. iLock[p] = NO_LOCK /\ nShared[p] = 0 /\ nLock[p] = 0 /\ bProcessLock[p] = 0
    BY <1>5, <1>7 DEF InodeOK
  <2>3. ASSUME NEW g \in Handle, ProcOf[g] = p PROVE eFileLock[g] = NO_LOCK
    BY <1>2, <2>2, <2>3, HolderCounted
  <2>4. Touches(t, h)
    <3>1. OneRow(p)
      BY <1>2, <1>7, TablesTyped, DropLocksFacts DEF OneRow, BackInv
    <3>2. QED
      BY <1>1, <1>2, <1>4, <1>7, <3>1 DEF Touches, OneInode
  <2>5. QED
    BY <1>1, <1>2, <1>4, <1>7, <2>1, <2>2, <2>3, <2>4, FreshMove DEF UnderLockMutex
<1>8. QED
  BY <1>3, <1>6, <1>7

LEMMA OnlyAttached ==
  ASSUME BackInv, NEW h \in Handle, status[h] \in Attached, nRef[ProcOf[h]] = 1,
         NEW g \in Handle, g # h, ProcOf[g] = ProcOf[h]
  PROVE  status[g] \notin Attached
<1> DEFINE M == Members(status, Attached, ProcOf[h])
<1>1. CountOK(ProcOf[h])
  BY UnixLockAssumption, InodeTyped
<1>2. Cardinality(M) = 1
  BY <1>1 DEF CountOK
<1>3. Cardinality(M) <= 1
  BY <1>2
<1>4. M = {h}
  BY <1>3, OnlyMember
<1>5. g \notin M
  BY <1>4
<1>6. QED
  BY <1>5 DEF Members

(* closeUnixFile: when the descriptor is closed nothing is locked.         *)
LEMMA ReleaseBacked ==
  ASSUME Regular, NoCloseRace, BackInv, CountInv', NEW t \in Thread, Release(t)
  PROVE  BackInv' /\ \E g \in Handle : Moves(g)
<1> DEFINE p == ProcOf[t]
           last == nRef[p] = 1
<1>1. pc[t] \in {"release", "releaseDeferred"} /\ Return(t)
  BY DEF Release
<1>2. PICK h \in Handle : h = on[t] /\ ProcOf[h] = p /\ p \in Process /\ \A u \in Thread : u # t => on[u] # h
  BY <1>1, InCallFacts, UnixLockAssumption DEF BackInv, CountInv, CallsOK
<1>3. /\ nRef' = [nRef EXCEPT ![p] = @ - 1]
      /\ iLock' = IF last THEN [iLock EXCEPT ![p] = 0] ELSE iLock
      /\ nShared' = IF last THEN [nShared EXCEPT ![p] = 0] ELSE nShared
      /\ nLock' = IF last THEN [nLock EXCEPT ![p] = 0] ELSE nLock
      /\ bProcessLock' = IF last THEN [bProcessLock EXCEPT ![p] = 0] ELSE bProcessLock
      /\ klock' = IF ClosesFd(t) THEN DropLocks(klock, p) ELSE klock
      /\ eFileLock' = [eFileLock EXCEPT ![h] = NO_LOCK]
  BY <1>2 DEF Release
<1>4. /\ \A u \in Thread : u # t => pc'[u] = pc[u] /\ on'[u] = on[u] /\ req'[u] = req[u]
      /\ pc'[t] = "idle" /\ on'[t] = NoHandle
  BY <1>1 DEF Return, Call, BackInv, CountInv, Typed
<1>5. /\ nRef \in [Process -> Int] /\ iLock \in [Process -> Level]
      /\ nShared \in [Process -> Int] /\ nLock \in [Process -> Int]
      /\ bProcessLock \in [Process -> 0 .. 1] /\ eFileLock \in [Handle -> Level]
  BY DEF BackInv, CountInv, Typed
<1>6. /\ InodeOK(p) /\ CountOK(p) /\ nRef[p] \in Nat /\ nShared[p] \in Nat /\ bProcessLock[p] \in {0, 1}
      /\ status[h] \in Attached
  <2>1. StepOK(t)
    BY DEF BackInv, CountInv, StepsOK
  <2>2. QED
    BY <1>1, <1>2, <2>1, InodeTyped DEF StepOK, UnderBigLock, Attached
<1>7. /\ eFileLock'[h] = NO_LOCK /\ \A g \in Handle : g # h => eFileLock'[g] = eFileLock[g]
      /\ nRef'[p] = nRef[p] - 1
      /\ \A q \in Process : q # p =>
           /\ iLock'[q] = iLock[q] /\ nShared'[q] = nShared[q] /\ nLock'[q] = nLock[q]
           /\ bProcessLock'[q] = bProcessLock[q] /\ nRef'[q] = nRef[q]
  BY <1>2, <1>3, <1>5
<1>8. klock' = klock \/ klock' = DropLocks(klock, p)
  BY <1>3
<1>9. Touches(t, h)
  <2>1. OneRow(p)
    BY <1>2, <1>8, TablesTyped, DropLocksFacts DEF OneRow, BackInv
  <2>2. QED
    BY <1>2, <1>4, <1>7, <2>1 DEF Touches, OneInode
<1>10. CASE pc[t] = "release" \/ last
  <2>1. Alone(t)
    <3>1. CASE pc[t] = "release"
      BY <3>1 DEF NoCloseRace, LockMutexFree, Alone
    <3>2. CASE last
      <4>1. ASSUME NEW u \in Thread, u # t, ProcOf[u] = p, pc[u] \in UnderLockMutex PROVE FALSE
        <5>1. on[u] \in Handle /\ on[u] # h /\ ProcOf[on[u]] = p /\ status[on[u]] \in Attached
          BY <1>2, <4>1, InMutexFacts DEF BackInv
        <5>2. QED
          BY <1>2, <1>6, <3>2, <5>1, OnlyAttached
      <4>2. QED
        BY <4>1 DEF Alone
    <3>3. QED
      BY <1>10, <3>1, <3>2
  <2>2. \/ last
        \/ iLock[p] = NO_LOCK /\ nShared[p] = 0 /\ nLock[p] = 0 /\ bProcessLock[p] = 0
    BY <1>6, <1>10 DEF NoCloseRace, InodeOK
  <2>3. iLock'[p] = NO_LOCK /\ nShared'[p] = 0 /\ nLock'[p] = 0 /\ bProcessLock'[p] = 0
    BY <1>2, <1>3, <1>5, <2>2 DEF NO_LOCK
  <2>4. ASSUME NEW g \in Handle, g # h, ProcOf[g] = ProcOf[h] PROVE eFileLock[g] = NO_LOCK
    <3>1. CASE iLock[p] = NO_LOCK
      BY <1>2, <2>4, <3>1, HolderCounted
    <3>2. CASE last
      <4>1. status[g] \notin Attached
        BY <1>2, <1>6, <2>4, <3>2, OnlyAttached
      <4>2. QED
        BY <4>1 DEF BackInv, CountInv, FilesOK
    <3>3. QED
      BY <2>2, <3>1, <3>2
  <2>5. pc[t] \notin UnderLockMutex /\ pc'[t] \notin UnderLockMutex
    BY <1>1, <1>4 DEF UnderLockMutex
  <2>6. QED
    BY <1>2, <1>7, <1>8, <1>9, <2>1, <2>3, <2>4, <2>5, FreshMove
<1>11. CASE pc[t] = "releaseDeferred" /\ ~last
  <2>1. ~ClosesFd(t)
    BY <1>2, <1>11 DEF ClosesFd
  <2>2. UNCHANGED <<klock, iLock, nShared, nLock, bProcessLock>>
    BY <1>3, <1>11, <2>1
  <2>3. InodeOK(p)'
    BY <1>6, <1>7, <1>11, <2>2 DEF InodeOK
  <2>4. QED
    BY <1>2, <1>4, <1>7, <1>9, <1>11, <2>2, <2>3, QuietMove DEF UnderLockMutex
<1>12. QED
  BY <1>1, <1>10, <1>11

LEMMA CrashBacked ==
  ASSUME BackInv, CountInv', NEW p \in Process, Crash(p)
  PROVE  BackInv' /\ \A h \in Handle : Held(h)' \in {Held(h), NO_LOCK}
<1> DEFINE dead(x) == ProcOf[x] = p
<1>1. /\ pc \in [Thread -> Steps] /\ on \in [Thread -> Handle \cup {NoHandle}] /\ req \in [Thread -> Level]
      /\ eFileLock \in [Handle -> Level]
      /\ nRef \in [Process -> Int] /\ iLock \in [Process -> Level]
      /\ nShared \in [Process -> Int] /\ nLock \in [Process -> Int] /\ bProcessLock \in [Process -> 0 .. 1]
  BY DEF BackInv, CountInv, Typed
<1>2. \A u \in Thread :
        /\ ProcOf[u] = p => pc'[u] = "idle" /\ on'[u] = NoHandle
        /\ ProcOf[u] # p => pc'[u] = pc[u] /\ on'[u] = on[u] /\ req'[u] = req[u]
  BY <1>1 DEF Crash
<1>3. \A h \in Handle : eFileLock'[h] = IF ProcOf[h] = p THEN NO_LOCK ELSE eFileLock[h]
  BY <1>1 DEF Crash
<1>4. /\ iLock'[p] = NO_LOCK /\ nShared'[p] = 0 /\ nLock'[p] = 0 /\ bProcessLock'[p] = 0
      /\ \A q \in Process : q # p =>
           /\ iLock'[q] = iLock[q] /\ nShared'[q] = nShared[q] /\ nLock'[q] = nLock[q]
           /\ bProcessLock'[q] = bProcessLock[q] /\ nRef'[q] = nRef[q]
  BY <1>1 DEF Crash, NO_LOCK
<1>5. TableOK(klock') /\ \A q \in Process : q # p => klock'[q] = klock[q]
  BY TablesTyped, DropLocksFacts, DropTableOK DEF BackInv, Crash
<1>6. ASSUME NEW q \in Process PROVE InodeOK(q)' /\ KernelOK(q)'
  <2>1. CASE q = p
    BY <1>4, <2>1, FreshInode
  <2>2. CASE q # p
    <3>1. InodeOK(q) /\ KernelOK(q)
      BY DEF BackInv
    <3>2. Demoted(q)' <=> Demoted(q)
      BY <1>2, <2>2 DEF Demoted
    <3>3. QED
      BY <1>4, <1>5, <2>2, <3>1, <3>2 DEF InodeOK, KernelOK, ExclOK, PlainOK
  <2>3. QED
    BY <2>1, <2>2
<1>7. ASSUME NEW u \in Thread PROVE CallOK(u)'
  <2>1. CASE ProcOf[u] = p \/ pc[u] = "idle"
    <3>1. pc'[u] = "idle"
      BY <1>2, <2>1
    <3>2. QED
      BY <3>1 DEF CallOK, Locking
  <2>2. CASE ProcOf[u] # p /\ pc[u] # "idle"
    <3>1. on[u] \in Handle /\ ProcOf[on[u]] = ProcOf[u] /\ ProcOf[u] \in Process
      BY <2>2, InCallFacts DEF BackInv
    <3>2. CallOK(u) /\ pc'[u] = pc[u] /\ on'[u] = on[u] /\ req'[u] = req[u]
          /\ eFileLock'[on[u]] = eFileLock[on[u]]
      BY <1>2, <1>3, <2>2, <3>1 DEF BackInv
    <3>3. QED
      BY <1>4, <1>5, <2>2, <3>1, <3>2 DEF CallOK, Granted
  <2>3. QED
    BY <2>1, <2>2
<1>8. ASSUME NEW h \in Handle
      PROVE  /\ ProcOf[h] = p => Held(h)' = NO_LOCK
             /\ ProcOf[h] # p => Held(h)' = Held(h)
  <2>0. NoHandle \notin Handle /\ \A u \in Thread : on[u] = h => ProcOf[u] = ProcOf[h]
    BY UnixLockAssumption DEF BackInv, CountInv, CallsOK
  <2>1. CASE ProcOf[h] = p
    <3>1. \A u \in Thread : on'[u] # h
      BY <1>2, <2>0, <2>1
    <3>2. QED
      BY <1>3, <2>1, <3>1 DEF Held, InCall, NO_LOCK, SHARED_LOCK
  <2>2. CASE ProcOf[h] # p
    <3>1. \A u \in Thread : on[u] = h \/ on'[u] = h =>
            pc'[u] = pc[u] /\ on'[u] = on[u] /\ req'[u] = req[u]
      BY <1>2, <2>0, <2>2
    <3>2. QED
      BY <1>3, <2>2, <3>1, HeldKept
  <2>3. QED
    BY <2>1, <2>2
<1>9. ASSUME NEW h \in Handle PROVE WriterOK(h)'
  <2>1. ProcOf[h] \in Process /\ WriterOK(h)
    BY UnixLockAssumption DEF BackInv
  <2>2. QED
    BY <1>3, <1>4, <1>8, <2>1 DEF WriterOK, NO_LOCK, SHARED_LOCK
<1>10. ASSUME NEW g \in Handle, NEW h \in Handle PROVE Apart(g, h)'
  <2>1. Apart(g, h)
    BY DEF BackInv
  <2>2. QED
    BY <1>3, <2>1 DEF Apart, NO_LOCK, SHARED_LOCK
<1>11. QED
  BY <1>5, <1>6, <1>7, <1>8, <1>9, <1>10 DEF BackInv

(***************************************************************************)
(* All the steps, and the theorems.                                        *)
(***************************************************************************)
LEMMA ThreadStepBacked ==
  ASSUME Regular, NoCloseRace, BackInv, CountInv', NEW t \in Thread, ThreadStep(t)
  PROVE  BackInv' /\ \E h \in Handle : Moves(h)
<1>1. CASE FileLockStep(t)
  BY <1>1, LockPendingByteBacked, LockSharedRangeBacked, DropPendingByteBacked, LockForWriteBacked,
     DemoteSharedRangeBacked, UnlockWriterBytesBacked, UnlockFileBacked DEF FileLockStep
<1>2. CASE DeferClose(t) \/ Release(t) \/ Attach(t)
  BY <1>2, DeferCloseBacked, ReleaseBacked, AttachBacked
<1>3. QED
  BY <1>1, <1>2 DEF ThreadStep

LEMMA BeginBacked ==
  ASSUME Regular, BackInv, CountInv', NEW t \in Thread, NEW h \in Handle, Begin(t, h)
  PROVE  BackInv' /\ \E g \in Handle : Moves(g)
  BY OpenDescriptorBacked, LockSharedAgainBacked, LockBacked, UnlockBacked, CloseBacked DEF Begin

LEMMA InitBacked == Init => BackInv
<1> SUFFICES ASSUME Init PROVE BackInv
  OBVIOUS
<1>1. CountInv
  BY InitCountInv
<1>2. TableOK(klock)
  BY DEF Init, TableOK, NoLocks, Compatible
<1>3. ASSUME NEW p \in Process PROVE InodeOK(p) /\ KernelOK(p)
  BY DEF Init, InodeOK, KernelOK, ExclOK, PlainOK, NO_LOCK, RESERVED_LOCK, PENDING_LOCK, EXCLUSIVE_LOCK
<1>4. ASSUME NEW h \in Handle PROVE eFileLock[h] = NO_LOCK /\ WriterOK(h)
  BY DEF Init, WriterOK, Held, InCall, NO_LOCK, SHARED_LOCK
<1>5. ASSUME NEW t \in Thread PROVE CallOK(t)
  BY DEF Init, CallOK, Locking
<1>6. \A g, h \in Handle : Apart(g, h)
  BY <1>4 DEF Apart, NO_LOCK, SHARED_LOCK
<1>7. QED
  BY <1>1, <1>2, <1>3, <1>4, <1>5, <1>6 DEF BackInv

Heights == [h \in Handle |-> Held(h)]

LEMMA NextBacked ==
  ASSUME Regular, NoCloseRace, BackInv, [Next]_vars
  PROVE  BackInv' /\ [Levels!Next]_Heights
<1>1. CountInv'
  BY NextCountInv DEF BackInv
<1>2. ASSUME BackInv', NEW h \in Handle, Moves(h) PROVE [Levels!Next]_Heights
  BY <1>2, MoveIsAllowed DEF Heights
<1>3. ASSUME NEW t \in Thread, ThreadStep(t) PROVE BackInv' /\ [Levels!Next]_Heights
  BY <1>1, <1>2, <1>3, ThreadStepBacked
<1>4. ASSUME NEW t \in Thread, NEW h \in Handle, Begin(t, h) PROVE BackInv' /\ [Levels!Next]_Heights
  BY <1>1, <1>2, <1>4, BeginBacked
<1>5. ASSUME NEW p \in Process, Crash(p) PROVE BackInv' /\ [Levels!Next]_Heights
  <2>1. BackInv' /\ \A h \in Handle : Held(h)' \in {Held(h), NO_LOCK}
    BY <1>1, <1>5, CrashBacked
  <2>2. Levels!Lose
    BY <2>1 DEF Levels!Lose, Levels!Free, NO_LOCK
  <2>3. QED
    BY <2>1, <2>2 DEF Levels!Next
<1>6. CASE UNCHANGED vars
  <2>1. UNCHANGED <<klock, iLock, nShared, nLock, bProcessLock, nRef, eFileLock, pc, on, req>>
    BY <1>6 DEF vars, inodeVars, fileVars, callVars
  <2>2. \A h \in Handle : Held(h)' = Held(h)
    BY <2>1 DEF Held, InCall
  <2>3. /\ \A p \in Process : InodeOK(p)' /\ KernelOK(p)'
        /\ TableOK(klock')
    BY <2>1 DEF BackInv, InodeOK, KernelOK, ExclOK, PlainOK, Demoted, ExclProcess
  <2>4. \A t \in Thread : CallOK(t)'
    BY <2>1 DEF BackInv, CallOK, Granted
  <2>5. (\A h \in Handle : WriterOK(h)') /\ \A g, h \in Handle : Apart(g, h)'
    BY <2>1, <2>2 DEF BackInv, WriterOK, Apart
  <2>6. QED
    BY <1>1, <2>2, <2>3, <2>4, <2>5 DEF BackInv, Heights
<1>7. QED
  BY <1>3, <1>4, <1>5, <1>6 DEF Next

LEMMA InitLevels == Init => Levels!Init
<1> SUFFICES ASSUME Init PROVE Levels!Init
  OBVIOUS
<1>1. ASSUME NEW h \in Handle PROVE Held(h) = NO_LOCK
  BY DEF Init, Held, InCall, NO_LOCK, SHARED_LOCK
<1>2. QED
  BY <1>1 DEF Levels!Init, Levels!Free, NO_LOCK

(* A thread alone in its process goes to "release" only when nLock is 0,   *)
(* and then nothing in the process moves before it gets there.             *)
LEMMA OwnStep ==
  ASSUME CountInv, NEW t \in Thread, ThreadStep(t) \/ \E h \in Handle : Begin(t, h)
  PROVE  /\ \A u \in Thread : u # t => pc'[u] = pc[u]
         /\ \A q \in Process : q # ProcOf[t] => nLock'[q] = nLock[q]
         /\ pc'[t] = "release" => nLock'[ProcOf[t]] = 0
<1> DEFINE p == ProcOf[t]
           Calm == /\ \A u \in Thread : u # t => pc'[u] = pc[u]
                   /\ \A q \in Process : q # p => nLock'[q] = nLock[q]
                   /\ pc'[t] = "release" => nLock'[p] = 0
<1>1. pc \in [Thread -> Steps] /\ nLock \in [Process -> Int] /\ p \in Process
  BY UnixLockAssumption DEF CountInv, Typed
<1>2. pc[t] # "idle" => on[t] \in Handle /\ ProcOf[on[t]] = p
  BY InCallFacts
<1>3. \A q \in Process : q # p => nLock[q] = nLock[q]
  OBVIOUS
<1>4. CASE LockPendingByte(t) \/ LockSharedRange(t) \/ DropPendingByte(t) \/ LockForWrite(t)
  <2>1. pc[t] # "idle"
    BY <1>4 DEF LockPendingByte, LockSharedRange, DropPendingByte, LockForWrite
  <2>2. /\ \A u \in Thread : u # t => pc'[u] = pc[u]
        /\ pc'[t] # "release"
    BY <1>1, <1>4 DEF LockPendingByte, LockSharedRange, DropPendingByte, LockForWrite, Goto, Return, Call
  <2>3. \E x : nLock' = [nLock EXCEPT ![p] = x]
    BY <1>1, <1>2, <1>4, <2>1
    DEF LockPendingByte, LockSharedRange, DropPendingByte, LockForWrite, Apply
  <2>4. QED
    BY <1>1, <2>2, <2>3
<1>5. CASE DemoteSharedRange(t) \/ UnlockWriterBytes(t) \/ UnlockFile(t)
  <2>1. pc[t] # "idle"
    BY <1>5 DEF DemoteSharedRange, UnlockWriterBytes, UnlockFile
  <2>2. /\ \A u \in Thread : u # t => pc'[u] = pc[u]
        /\ pc'[t] # "release"
    BY <1>1, <1>5 DEF DemoteSharedRange, UnlockWriterBytes, UnlockFile, Goto, ReturnFromUnlock, Return, Call
  <2>3. \E x : nLock' = [nLock EXCEPT ![p] = x]
    BY <1>1, <1>2, <1>5, <2>1 DEF DemoteSharedRange, UnlockWriterBytes, UnlockFile, Apply
  <2>4. QED
    BY <1>1, <2>2, <2>3
<1>6. CASE DeferClose(t)
  <2>1. nLock' = nLock /\ (Goto(t, "releaseDeferred") \/ (Goto(t, "release") /\ ~LocksOutstanding(p)))
    BY <1>2, <1>6 DEF DeferClose
  <2>2. nLock[p] \in Nat
    BY <1>1, CountInvTypeOK DEF TypeOK
  <2>3. pc'[t] = "release" => ~LocksOutstanding(p)
    BY <1>1, <2>1 DEF Goto
  <2>4. \A u \in Thread : u # t => pc'[u] = pc[u]
    BY <1>1, <2>1 DEF Goto
  <2>5. QED
    BY <2>1, <2>2, <2>3, <2>4 DEF LocksOutstanding
<1>7. CASE Release(t) \/ Attach(t)
  <2>1. pc[t] # "idle"
    BY <1>7 DEF Release, Attach
  <2>2. /\ \A u \in Thread : u # t => pc'[u] = pc[u]
        /\ pc'[t] # "release"
    BY <1>1, <1>7 DEF Release, Attach, Return, Call
  <2>3. nLock' = nLock \/ \E x : nLock' = [nLock EXCEPT ![p] = x]
    BY <1>1, <1>2, <1>7, <2>1 DEF Release, Attach
  <2>4. QED
    BY <1>1, <2>2, <2>3
<1>8. ASSUME NEW h \in Handle, Begin(t, h) PROVE Calm
  <2>1. ProcOf[h] = p /\ pc[t] = "idle"
    BY <1>8 DEF Begin, OpenDescriptor, LockSharedAgain, Lock, Unlock, Close, CanLock, CanCall
  <2>2. /\ \A u \in Thread : u # t => pc'[u] = pc[u]
        /\ pc'[t] # "release"
    <3>1. CASE OpenDescriptor(t, h) \/ Close(t, h)
      BY <1>1, <3>1 DEF OpenDescriptor, Close, Call, FirstUnlockStep
    <3>2. CASE LockSharedAgain(t, h)
      BY <2>1, <3>2 DEF LockSharedAgain, callVars
    <3>3. ASSUME NEW level, Lock(t, h, level)
          PROVE  (\A u \in Thread : u # t => pc'[u] = pc[u]) /\ pc'[t] # "release"
      BY <1>1, <3>3 DEF Lock, Call
    <3>4. ASSUME NEW level, Unlock(t, h, level)
          PROVE  (\A u \in Thread : u # t => pc'[u] = pc[u]) /\ pc'[t] # "release"
      BY <1>1, <3>4 DEF Unlock, Call, FirstUnlockStep
    <3>5. QED
      BY <1>8, <3>1, <3>2, <3>3, <3>4 DEF Begin
  <2>3. nLock' = nLock \/ \E x : nLock' = [nLock EXCEPT ![p] = x]
    BY <1>8, <2>1 DEF Begin, OpenDescriptor, LockSharedAgain, Lock, Unlock, Close, inodeVars
  <2>4. QED
    BY <1>1, <2>2, <2>3
<1>9. QED
  BY <1>4, <1>5, <1>6, <1>7, <1>8 DEF ThreadStep, FileLockStep

LEMMA NextNoCloseRace ==
  ASSUME SingleThreaded, CountInv, NoCloseRace, [Next]_vars
  PROVE  NoCloseRace'
<1> SUFFICES ASSUME NEW t \in Thread, pc'[t] = "release" PROVE nLock'[ProcOf[t]] = 0 /\ LockMutexFree(ProcOf[t])'
  BY DEF NoCloseRace
<1> DEFINE p == ProcOf[t]
<1>1. p \in Process
  BY UnixLockAssumption
<1>2. LockMutexFree(p)'
  BY DEF SingleThreaded, LockMutexFree, UnderLockMutex
<1>3. ASSUME NEW u \in Thread, ThreadStep(u) \/ \E h \in Handle : Begin(u, h) PROVE nLock'[p] = 0
  <2>1. CASE u = t
    BY <1>3, <2>1, OwnStep
  <2>2. CASE u # t
    <3>1. ProcOf[u] # p
      BY <2>2 DEF SingleThreaded
    <3>2. pc'[t] = pc[t] /\ nLock'[p] = nLock[p]
      BY <1>1, <1>3, <2>2, <3>1, OwnStep
    <3>3. QED
      BY <3>2 DEF NoCloseRace
  <2>3. QED
    BY <2>1, <2>2
<1>4. ASSUME NEW q \in Process, Crash(q) PROVE nLock'[p] = 0
  <2>1. nLock' = [nLock EXCEPT ![q] = 0] /\ pc'[t] = IF ProcOf[t] = q THEN "idle" ELSE pc[t]
    BY <1>4 DEF Crash, CountInv, Typed
  <2>2. QED
    BY <1>1, <2>1 DEF NoCloseRace, CountInv, Typed
<1>5. ASSUME UNCHANGED vars PROVE nLock'[p] = 0
  <2>1. pc'[t] = pc[t] /\ nLock'[p] = nLock[p]
    BY <1>5 DEF vars, inodeVars, callVars
  <2>2. QED
    BY <2>1 DEF NoCloseRace
<1>6. nLock'[p] = 0
  BY <1>3, <1>4, <1>5 DEF Next
<1>7. QED
  BY <1>2, <1>6

(* However the calls of any number of processes, threads and connections   *)
(* interleave, fail and crash, a lock that a handle believes it holds is   *)
(* in the kernel, unless a thread gets a lock between another thread's     *)
(* look at nLock and its close() (os_unix.c, unixClose and closeUnixFile): *)
(* that race is the only way to lose one.                                  *)
THEOREM OnlyTheCloseRace ==
  ASSUME Regular PROVE Spec /\ []NoCloseRace => []LocksBacked
<1>1. BackInv /\ NoCloseRace /\ [Next]_vars => BackInv'
  BY NextBacked
<1>2. BackInv => LocksBacked
  BY HeldBacked DEF LocksBacked
<1>3. QED
  BY <1>1, <1>2, InitBacked, PTL DEF Spec

(* A process with one thread cannot run into the race: none of its locks   *)
(* is ever lost, and so closing one connection never unlocks another.      *)
THEOREM SingleThreadsBacked ==
  ASSUME Regular, SingleThreaded PROVE Spec => []LocksBacked
<1>1. BackInv /\ NoCloseRace /\ [Next]_vars => BackInv' /\ NoCloseRace'
  BY NextBacked, NextNoCloseRace DEF BackInv
<1>2. BackInv => LocksBacked
  BY HeldBacked DEF LocksBacked
<1>3. Init => NoCloseRace
  BY DEF Init, NoCloseRace
<1>4. QED
  BY <1>1, <1>2, <1>3, InitBacked, PTL DEF Spec

(* The fcntl protocol with its five levels, its counters, its deferred     *)
(* closes and its process locks grants, lowers and loses levels exactly as *)
(* FileLevels allows: of the handles of all processes at most one is at    *)
(* EXCLUSIVE, and then no other reads.                                     *)
THEOREM SingleThreadsRefine ==
  ASSUME Regular, SingleThreaded PROVE Spec => ImplementsFileLevels
<1>1. BackInv /\ NoCloseRace /\ [Next]_vars => BackInv' /\ NoCloseRace' /\ [Levels!Next]_Heights
  BY NextBacked, NextNoCloseRace DEF BackInv
<1>2. Init => NoCloseRace
  BY DEF Init, NoCloseRace
<1>3. QED
  BY <1>1, <1>2, InitBacked, InitLevels, PTL DEF Spec, ImplementsFileLevels, Levels!Spec, Heights

(* With several threads, the same but for the race.                        *)
THEOREM RefinesButForTheRace ==
  ASSUME Regular PROVE Spec /\ []NoCloseRace => ImplementsFileLevels
<1>1. BackInv /\ NoCloseRace /\ [Next]_vars => BackInv' /\ [Levels!Next]_Heights
  BY NextBacked
<1>2. QED
  BY <1>1, InitBacked, InitLevels, PTL DEF Spec, ImplementsFileLevels, Levels!Spec, Heights

(***************************************************************************)
(* RESERVED is seen by the other handles.  Of a process that opens its     *)
(* handles through "unix" the process lock is never taken, so that         *)
(* unixCheckReservedLock asks the kernel.                                  *)
(***************************************************************************)
PlainZero == \A p \in Process : ~ExclProcess(p) => bProcessLock[p] = 0

LEMMA PlainTaken ==
  ASSUME NEW h \in Handle, h \notin ExclHandle, NEW bytes, NEW type, NEW r \in FileLock(h, bytes, type)
  PROVE  r.taken = 0
<1>1. r \in SetLockOutcomes(ProcOf[h], bytes, type, 0)
  BY Zenon DEF FileLock
<1>2. r = Locked(ProcOf[h], bytes, type, 0) \/ r = NoChange(-1)
  BY <1>1, Zenon DEF SetLockOutcomes
<1>3. QED
  BY <1>2 DEF Locked, NoChange

LEMMA PlainApply ==
  ASSUME CountInv, PlainZero, NEW h \in Handle, NEW bytes, NEW type, NEW r \in FileLock(h, bytes, type),
         bProcessLock' = [bProcessLock EXCEPT ![ProcOf[h]] = @ + r.taken]
  PROVE  PlainZero'
<1>1. bProcessLock \in [Process -> 0 .. 1] /\ ProcOf[h] \in Process
  BY UnixLockAssumption DEF CountInv, Typed
<1>2. CASE h \in ExclHandle
  BY <1>1, <1>2 DEF PlainZero, ExclProcess
<1>3. CASE h \notin ExclHandle
  BY <1>1, <1>3, PlainTaken DEF PlainZero, ExclProcess
<1>4. QED
  BY <1>2, <1>3

LEMMA NextPlainZero ==
  ASSUME CountInv, PlainZero, [Next]_vars
  PROVE  PlainZero'
<1>0. bProcessLock \in [Process -> 0 .. 1]
  BY DEF CountInv, Typed
<1>1. ASSUME NEW t \in Thread, LockPendingByte(t) \/ LockSharedRange(t) \/ DropPendingByte(t)
                               \/ LockForWrite(t) \/ DemoteSharedRange(t) \/ UnlockWriterBytes(t)
      PROVE  PlainZero'
  <2>1. pc[t] # "idle"
    BY <1>1 DEF LockPendingByte, LockSharedRange, DropPendingByte, LockForWrite, DemoteSharedRange, UnlockWriterBytes
  <2>2. on[t] \in Handle
    BY <2>1, InCallFacts
  <2> DEFINE Requested(bytes, type) ==
               \E r \in FileLock(on[t], bytes, type) :
                 bProcessLock' = [bProcessLock EXCEPT ![ProcOf[on[t]]] = @ + r.taken]
  <2>3. CASE LockPendingByte(t)
    <3>1. Requested({"pending"}, PendingType(req[t]))
      BY <2>3, Zenon DEF LockPendingByte, Apply
    <3>2. QED
      BY <2>2, <3>1, PlainApply
  <2>4. CASE LockSharedRange(t)
    <3>1. Requested({"shared"}, F_RDLCK)
      BY <2>4, Zenon DEF LockSharedRange, Apply
    <3>2. QED
      BY <2>2, <3>1, PlainApply
  <2>5. CASE DropPendingByte(t)
    <3>1. Requested({"pending"}, F_UNLCK)
      BY <2>5, Zenon DEF DropPendingByte, Apply
    <3>2. QED
      BY <2>2, <3>1, PlainApply
  <2>6. CASE LockForWrite(t)
    <3>1. Requested(IF req[t] = RESERVED_LOCK THEN {"reserved"} ELSE {"shared"}, F_WRLCK)
      BY <2>6, Zenon DEF LockForWrite, Apply
    <3>2. QED
      BY <2>2, <3>1, PlainApply
  <2>7. CASE DemoteSharedRange(t)
    <3>1. Requested({"shared"}, F_RDLCK)
      BY <2>7, Zenon DEF DemoteSharedRange, Apply
    <3>2. QED
      BY <2>2, <3>1, PlainApply
  <2>8. CASE UnlockWriterBytes(t)
    <3>1. Requested({"pending", "reserved"}, F_UNLCK)
      BY <2>8, Zenon DEF UnlockWriterBytes, Apply
    <3>2. QED
      BY <2>2, <3>1, PlainApply
  <2>9. QED
    BY <1>1, <2>3, <2>4, <2>5, <2>6, <2>7, <2>8
<1>2. ASSUME NEW t \in Thread, UnlockFile(t) PROVE PlainZero'
  <2> DEFINE h == on[t]
  <2>1. h \in Handle /\ ProcOf[h] \in Process
    BY <1>2, InCallFacts, UnixLockAssumption DEF UnlockFile
  <2>2. PICK r \in IF nShared[ProcOf[h]] = 1 THEN FileLock(h, Byte, F_UNLCK) ELSE {NoChange(0)} :
          bProcessLock' = [bProcessLock EXCEPT ![ProcOf[h]] = @ + r.taken]
    BY <1>2, Zenon DEF UnlockFile
  <2>3. CASE r \in FileLock(h, Byte, F_UNLCK)
    BY <2>1, <2>2, <2>3, PlainApply
  <2>4. CASE r = NoChange(0)
    BY <1>0, <2>1, <2>2, <2>4 DEF NoChange, PlainZero
  <2>5. QED
    BY <2>2, <2>3, <2>4
<1>3. ASSUME NEW t \in Thread, Release(t) PROVE PlainZero'
  <2>1. on[t] \in Handle /\ ProcOf[on[t]] \in Process
    BY <1>3, InCallFacts, UnixLockAssumption DEF Release
  <2>2. bProcessLock' \in {bProcessLock, [bProcessLock EXCEPT ![ProcOf[on[t]]] = 0]}
    BY <1>3 DEF Release
  <2>3. QED
    BY <1>0, <2>1, <2>2 DEF PlainZero
<1>4. ASSUME NEW p \in Process, Crash(p) PROVE PlainZero'
  <2>1. bProcessLock' = [bProcessLock EXCEPT ![p] = 0]
    BY <1>4 DEF Crash
  <2>2. QED
    BY <1>0, <2>1 DEF PlainZero
<1>5. ASSUME NEW t \in Thread, DeferClose(t) \/ Attach(t) \/ \E h \in Handle : Begin(t, h)
      PROVE  PlainZero'
  <2>1. bProcessLock' = bProcessLock
    BY <1>5 DEF DeferClose, Attach, Begin, OpenDescriptor, LockSharedAgain, Lock, Unlock, Close, inodeVars
  <2>2. QED
    BY <2>1 DEF PlainZero
<1>6. CASE UNCHANGED vars
  BY <1>6 DEF vars, inodeVars, PlainZero
<1>7. QED
  BY <1>1, <1>2, <1>3, <1>4, <1>5, <1>6 DEF Next, ThreadStep, FileLockStep

LEMMA ReservedSeen ==
  ASSUME Regular, BackInv, PlainZero
  PROVE  ReservedIsVisible
<1> SUFFICES ASSUME NEW g \in Handle, NEW h \in Handle, Held(g) = RESERVED_LOCK, eFileLock[h] <= SHARED_LOCK,
                    g \in ExclHandle => ProcOf[g] = ProcOf[h] \/ eFileLock[h] = SHARED_LOCK
             PROVE  CheckReservedLock(h)
  BY DEF ReservedIsVisible
<1> DEFINE p == ProcOf[h]
           q == ProcOf[g]
<1>1. /\ p \in Process /\ q \in Process /\ Backed(g) /\ Backed(h) /\ klock \in Tables /\ TableOK(klock)
      /\ iLock[q] \in Level /\ bProcessLock[p] \in {0, 1} /\ KernelOK(p)
  BY UnixLockAssumption, HeldBacked, TablesTyped, InodeTyped DEF BackInv
<1>2. CASE p = q
  <2>1. Held(g) <= eFileLock[g] /\ WriterOK(g) /\ eFileLock[g] \in Level
    BY HeldBelow DEF BackInv
  <2>2. iLock[p] > SHARED_LOCK
    BY <1>2, <2>1 DEF WriterOK, Level, NO_LOCK, SHARED_LOCK, RESERVED_LOCK, EXCLUSIVE_LOCK
  <2>3. QED
    BY <2>2 DEF CheckReservedLock
<1>3. CASE p # q
  <2>1. \A b \in Byte : Compatible(klock[p][b], klock[q][b])
    BY <1>1, <1>3 DEF TableOK, Tables
  <2>2. klock[q]["shared"] # F_UNLCK
    BY <1>1 DEF Backed, SHARED_LOCK, RESERVED_LOCK, F_UNLCK, F_WRLCK
  <2>3. klock[p]["shared"] # F_WRLCK
    BY <2>1, <2>2 DEF Byte, Compatible, F_UNLCK, F_RDLCK, F_WRLCK
  <2>4. CASE g \in ExclHandle
    <3>1. klock[q]["shared"] = F_WRLCK /\ eFileLock[h] = SHARED_LOCK
      BY <1>1, <1>3, <2>4 DEF Backed, SHARED_LOCK, RESERVED_LOCK
    <3>2. Held(h) = SHARED_LOCK
      BY <3>1 DEF Held, SHARED_LOCK, EXCLUSIVE_LOCK
    <3>3. klock[p]["shared"] # F_UNLCK
      BY <1>1, <3>2 DEF Backed, SHARED_LOCK, F_UNLCK, F_WRLCK
    <3>4. QED
      BY <2>1, <3>1, <3>3 DEF Byte, Compatible, F_UNLCK, F_RDLCK, F_WRLCK
  <2>5. CASE g \notin ExclHandle
    <3>1. klock[q]["reserved"] = F_WRLCK
      BY <1>1, <2>5 DEF Backed
    <3>2. ~Grantable(klock, p, {"reserved"}, F_WRLCK)
      BY <1>1, <1>3, <3>1 DEF Grantable, Compatible, Tables, F_UNLCK, F_RDLCK, F_WRLCK
    <3>3. bProcessLock[p] = 0
      BY <1>1, <2>3 DEF PlainZero, KernelOK, ExclOK
    <3>4. QED
      BY <3>2, <3>3 DEF CheckReservedLock
  <2>6. QED
    BY <2>4, <2>5
<1>4. QED
  BY <1>2, <1>3

(* A RESERVED lock is never overlooked: whoever asks, thread of the same   *)
(* process or of another one, is told that a writer is at work.            *)
THEOREM ReservedIsSeen ==
  ASSUME Regular PROVE Spec /\ []NoCloseRace => []ReservedIsVisible
<1>1. BackInv /\ PlainZero /\ NoCloseRace /\ [Next]_vars => BackInv' /\ PlainZero'
  BY NextBacked, NextPlainZero DEF BackInv
<1>2. BackInv /\ PlainZero => ReservedIsVisible
  BY ReservedSeen
<1>3. Init => PlainZero
  BY DEF Init, PlainZero
<1>4. QED
  BY <1>1, <1>2, <1>3, InitBacked, PTL DEF Spec

(* With one thread per process there is no race to be excluded.            *)
THEOREM SingleThreadsSeeReserved ==
  ASSUME Regular, SingleThreaded PROVE Spec => []ReservedIsVisible
<1>1. BackInv /\ PlainZero /\ NoCloseRace /\ [Next]_vars => BackInv' /\ PlainZero' /\ NoCloseRace'
  BY NextBacked, NextPlainZero, NextNoCloseRace DEF BackInv
<1>2. BackInv /\ PlainZero => ReservedIsVisible
  BY ReservedSeen
<1>3. Init => PlainZero /\ NoCloseRace
  BY DEF Init, PlainZero, NoCloseRace
<1>4. QED
  BY <1>1, <1>2, <1>3, InitBacked, PTL DEF Spec

(***************************************************************************)
(* One writer per process.  This needs no assumption: what threads of one  *)
(* process do to each other goes through the fields of unixInodeInfo, so   *)
(* faults of fcntl and dropped kernel locks make no difference.            *)
(***************************************************************************)
CallLevels(t) ==
  LET h == on[t] IN
  /\ pc[t] \in Locking /\ req[t] # SHARED_LOCK =>
       /\ iLock[ProcOf[t]] = eFileLock[h]
       /\ req[t] = RESERVED_LOCK => eFileLock[h] = SHARED_LOCK
  /\ pc[t] \in {"demote", "unlckBytes"} =>
       eFileLock[h] > SHARED_LOCK /\ req[t] \in {NO_LOCK, SHARED_LOCK}
  /\ pc[t] = "demote" => req[t] = SHARED_LOCK
  /\ pc[t] = "unlckFile" => req[t] = NO_LOCK

WriterInv ==
  /\ CountInv
  /\ \A h \in Handle : WriterOK(h)
  /\ \A g, h \in Handle : Apart(g, h)
  /\ \A t \in Thread : CallLevels(t)

(* A step of thread t on handle h, which no other thread uses.             *)
OnHandle(t, h) ==
  /\ h \in Handle /\ ProcOf[h] = ProcOf[t]
  /\ \A u \in Thread : u # t => /\ pc'[u] = pc[u] /\ on'[u] = on[u] /\ req'[u] = req[u]
                                /\ on[u] # h
  /\ on[t] \in {h, NoHandle} /\ on'[t] \in {h, NoHandle}
  /\ \A g \in Handle : g # h => eFileLock'[g] = eFileLock[g]
  /\ \A q \in Process : q # ProcOf[t] => iLock'[q] = iLock[q]

(* No other handle of the process is past SHARED.                          *)
NoOtherWriter(h) ==
  \A g \in Handle : g # h /\ ProcOf[g] = ProcOf[h] => ~(eFileLock[g] > SHARED_LOCK)

LEMMA HeldOnHandle ==
  ASSUME CountInv, CountInv', NEW t \in Thread, NEW h, OnHandle(t, h)
  PROVE  /\ Held(h)' = Level3(pc'[t], req'[t], eFileLock'[h])
         /\ Held(h) = Level3(pc[t], req[t], eFileLock[h])
         /\ \A g \in Handle : g # h => Held(g)' = Held(g)
<1>0. NoHandle \notin Handle /\ h \in Handle
  BY UnixLockAssumption DEF OnHandle
<1>1. /\ \A u \in Thread : pc[u] = "idle" <=> on[u] = NoHandle
      /\ \A u \in Thread : pc'[u] = "idle" <=> on'[u] = NoHandle
  BY DEF CountInv, CallsOK
<1>2. Held(h) = Level3(pc[t], req[t], eFileLock[h])
  <2>1. \A u \in Thread : on[u] = h => u = t
    BY DEF OnHandle
  <2>2. CASE on[t] = h
    BY <1>0, <2>1, <2>2, HeldInCall
  <2>3. CASE on[t] # h
    BY <1>0, <1>1, <2>1, <2>3 DEF OnHandle, Held, InCall, Level3
  <2>4. QED
    BY <2>2, <2>3
<1>3. Held(h)' = Level3(pc'[t], req'[t], eFileLock'[h])
  <2>1. \A u \in Thread : on'[u] = h => u = t
    BY DEF OnHandle
  <2>2. CASE on'[t] = h
    BY <1>0, <2>1, <2>2 DEF Held, InCall, Level3
  <2>3. CASE on'[t] # h
    BY <1>0, <1>1, <2>1, <2>3 DEF OnHandle, Held, InCall, Level3
  <2>4. QED
    BY <2>2, <2>3
<1>4. ASSUME NEW g \in Handle, g # h PROVE Held(g)' = Held(g)
  BY <1>0, <1>4, HeldKept DEF OnHandle
<1>5. QED
  BY <1>2, <1>3, <1>4

(* What is left to show of a step: that h and the call of t keep to the    *)
(* invariant, and that no writer loses the level of its inode.             *)
LEMMA WriterStep ==
  ASSUME WriterInv, CountInv', NEW t \in Thread, NEW h, OnHandle(t, h),
         Alone(t) \/ iLock'[ProcOf[t]] = iLock[ProcOf[t]],
         CallLevels(t)',
         Level3(pc'[t], req'[t], eFileLock'[h]) > SHARED_LOCK => iLock'[ProcOf[t]] = eFileLock'[h],
         NoOtherWriter(h) \/ (iLock'[ProcOf[t]] = iLock[ProcOf[t]]
                              /\ (eFileLock'[h] = eFileLock[h] \/ ~(eFileLock'[h] > SHARED_LOCK)))
  PROVE  WriterInv'
<1> DEFINE p == ProcOf[t]
<1>0. CountInv /\ h \in Handle /\ ProcOf[h] = p /\ p \in Process /\ NoHandle \notin Handle
  BY UnixLockAssumption DEF OnHandle, WriterInv
<1>1. /\ Held(h)' = Level3(pc'[t], req'[t], eFileLock'[h])
      /\ \A g \in Handle : g # h => Held(g)' = Held(g) /\ eFileLock'[g] = eFileLock[g]
  BY <1>0, HeldOnHandle DEF OnHandle
<1>2. ASSUME NEW u \in Thread, u # t PROVE CallLevels(u)'
  <2>1. CallLevels(u) /\ pc'[u] = pc[u] /\ on'[u] = on[u] /\ req'[u] = req[u] /\ on[u] # h
    BY <1>2 DEF OnHandle, WriterInv
  <2>2. pc[u] # "idle" => on[u] \in Handle /\ ProcOf[u] \in Process /\ eFileLock'[on[u]] = eFileLock[on[u]]
    BY <1>0, <1>1, <2>1, InCallFacts
  <2>3. pc[u] \notin UnderLockMutex => CallLevels(u)'
    BY <2>1 DEF CallLevels, UnderLockMutex, Locking
  <2>4. CASE pc[u] \in UnderLockMutex
    <3>1. pc[u] # "idle"
      BY <2>4 DEF UnderLockMutex
    <3>2. iLock'[ProcOf[u]] = iLock[ProcOf[u]]
      <4>1. CASE ProcOf[u] = p
        BY <1>2, <2>4, <4>1 DEF Alone
      <4>2. CASE ProcOf[u] # p
        BY <2>2, <3>1, <4>2 DEF OnHandle
      <4>3. QED
        BY <4>1, <4>2
    <3>3. QED
      BY <2>1, <2>2, <3>1, <3>2 DEF CallLevels
  <2>5. QED
    BY <2>3, <2>4
<1>3. ASSUME NEW g \in Handle, g # h PROVE WriterOK(g)'
  <2>1. /\ WriterOK(g) /\ Held(g) \in Level /\ eFileLock[g] \in Level /\ Held(g) <= eFileLock[g]
        /\ ProcOf[g] \in Process
    BY <1>0, HeldBelow, UnixLockAssumption DEF WriterInv
  <2>2. SUFFICES ASSUME Held(g) > SHARED_LOCK PROVE iLock'[ProcOf[g]] = iLock[ProcOf[g]]
    BY <1>1, <1>3, <2>1 DEF WriterOK
  <2>3. eFileLock[g] > SHARED_LOCK
    BY <2>1, <2>2 DEF Level, NO_LOCK, SHARED_LOCK, EXCLUSIVE_LOCK
  <2>4. CASE ProcOf[g] = p
    BY <1>0, <1>3, <2>3, <2>4 DEF NoOtherWriter
  <2>5. CASE ProcOf[g] # p
    BY <2>1, <2>5 DEF OnHandle
  <2>6. QED
    BY <2>4, <2>5
<1>4. WriterOK(h)'
  BY <1>0, <1>1 DEF WriterOK
<1>5. ASSUME NEW f \in Handle, NEW g \in Handle, f # g, ProcOf[f] = ProcOf[g]
      PROVE  ~(eFileLock'[f] > SHARED_LOCK /\ eFileLock'[g] > SHARED_LOCK)
  <2>1. Apart(f, g) /\ Apart(g, f)
    BY DEF WriterInv
  <2>2. CASE f # h /\ g # h
    BY <1>1, <1>5, <2>1, <2>2 DEF Apart
  <2>3. CASE f = h
    BY <1>1, <1>5, <2>1, <2>3 DEF Apart, NoOtherWriter
  <2>4. CASE g = h
    BY <1>1, <1>5, <2>1, <2>4 DEF Apart, NoOtherWriter
  <2>5. QED
    BY <2>2, <2>3, <2>4
<1>6. QED
  BY <1>2, <1>3, <1>4, <1>5 DEF WriterInv, Apart

(* The handle, the levels and the call of a thread that holds pLockMutex.  *)
LEMMA InWriterCall ==
  ASSUME WriterInv, NEW t \in Thread, pc[t] \in UnderLockMutex
  PROVE  /\ on[t] \in Handle /\ ProcOf[on[t]] = ProcOf[t] /\ ProcOf[t] \in Process
         /\ Alone(t) /\ \A u \in Thread : u # t => on[u] # on[t]
         /\ StepOK(t) /\ CallLevels(t) /\ eFileLock[on[t]] \in Level /\ req[t] \in Level
         /\ CountOK(ProcOf[t]) /\ iLock[ProcOf[t]] \in Level
         /\ Level3(pc[t], req[t], eFileLock[on[t]]) > SHARED_LOCK => iLock[ProcOf[t]] = eFileLock[on[t]]
<1>1. /\ on[t] \in Handle /\ ProcOf[on[t]] = ProcOf[t] /\ ProcOf[t] \in Process
      /\ \A u \in Thread : u # t => on[u] # on[t]
  BY InMutexFacts DEF WriterInv
<1>2. /\ Alone(t) /\ StepOK(t) /\ CallLevels(t) /\ eFileLock[on[t]] \in Level /\ req[t] \in Level
      /\ CountOK(ProcOf[t]) /\ iLock[ProcOf[t]] \in Level /\ WriterOK(on[t])
  BY <1>1 DEF WriterInv, CountInv, CallsOK, StepsOK, CountsOK, Typed, Alone
<1>3. Held(on[t]) = Level3(pc[t], req[t], eFileLock[on[t]])
  BY <1>1, HeldInCall
<1>4. QED
  BY <1>1, <1>2, <1>3 DEF WriterOK

(* Whoever asks for more than SHARED is, if anybody is, the one past it.   *)
LEMMA AsksAlone ==
  ASSUME WriterInv, NEW t \in Thread, pc[t] \in Locking \cup {"demote", "unlckBytes"}
  PROVE  NoOtherWriter(on[t])
<1> SUFFICES ASSUME NEW g \in Handle, g # on[t], ProcOf[g] = ProcOf[on[t]], eFileLock[g] > SHARED_LOCK
             PROVE  FALSE
  BY DEF NoOtherWriter
<1>0. pc[t] \in UnderLockMutex
  BY DEF Locking, UnderLockMutex
<1>1. /\ on[t] \in Handle /\ ProcOf[on[t]] = ProcOf[t] /\ Alone(t) /\ StepOK(t) /\ CallLevels(t)
      /\ Apart(g, on[t]) /\ WriterOK(g) /\ CountOK(ProcOf[t]) /\ eFileLock[g] \in Level
  BY <1>0, InWriterCall, HeldBelow DEF WriterInv
<1>2. Held(g) = eFileLock[g]
  BY <1>1, HeldIdle, InCallFacts DEF Alone, WriterInv, UnderLockMutex
<1>3. CASE pc[t] \in Locking /\ req[t] = SHARED_LOCK
  <2>1. iLock[ProcOf[t]] = NO_LOCK
    BY <1>1, <1>3 DEF StepOK
  <2>2. g \notin Members(eFileLock, SomeLock, ProcOf[t])
    BY <1>1, <2>1 DEF CountOK
  <2>3. eFileLock[g] = NO_LOCK
    BY <1>1, <2>2 DEF Members, SomeLock
  <2>4. QED
    BY <2>3 DEF NO_LOCK, SHARED_LOCK
<1>4. CASE pc[t] \in Locking /\ req[t] # SHARED_LOCK
  BY <1>1, <1>2, <1>4 DEF CallLevels, WriterOK, Apart
<1>5. CASE pc[t] \in {"demote", "unlckBytes"}
  BY <1>1, <1>5 DEF CallLevels, Apart
<1>6. QED
  BY <1>3, <1>4, <1>5

(* How a lock or unlock call goes on.                                      *)
LEMMA CallOn ==
  ASSUME CountInv, NEW t \in Thread, pc[t] \in UnderLockMutex, CallGoesOn(t)
  PROVE  /\ \A u \in Thread : u # t => pc'[u] = pc[u] /\ on'[u] = on[u] /\ req'[u] = req[u]
         /\ on'[t] \in {on[t], NoHandle}
         /\ Return(t) \/ Call(t, on[t], "close", NO_LOCK) => CallLevels(t)' /\ pc'[t] \in {"idle", "close"}
<1>1. /\ pc \in [Thread -> Steps] /\ on \in [Thread -> Handle \cup {NoHandle}]
      /\ req \in [Thread -> Level]
  BY DEF CountInv, Typed
<1>2. /\ \A u \in Thread : u # t => pc'[u] = pc[u] /\ on'[u] = on[u] /\ req'[u] = req[u]
      /\ on'[t] \in {on[t], NoHandle}
  BY <1>1 DEF CallGoesOn, Return, Call, Goto
<1>3. ASSUME Return(t) \/ Call(t, on[t], "close", NO_LOCK)
      PROVE  CallLevels(t)' /\ pc'[t] \in {"idle", "close"}
  <2>1. pc'[t] \in {"idle", "close"}
    BY <1>1, <1>3 DEF Return, Call
  <2>2. QED
    BY <2>1 DEF CallLevels, Locking
<1>4. QED
  BY <1>2, <1>3

(* A step of a lock or unlock call, in terms of the levels.                *)
LEMMA WriterCallStep ==
  ASSUME WriterInv, CountInv', NEW t \in Thread, pc[t] \in UnderLockMutex,
         NEW h, h = on[t], NEW p, p = ProcOf[t], CallGoesOn(t),
         \A g \in Handle : g # h => eFileLock'[g] = eFileLock[g],
         \A q \in Process : q # p => iLock'[q] = iLock[q],
         CallLevels(t)',
         Level3(pc'[t], req'[t], eFileLock'[h]) > SHARED_LOCK => iLock'[p] = eFileLock'[h],
         NoOtherWriter(h) \/ (iLock'[p] = iLock[p]
                              /\ (eFileLock'[h] = eFileLock[h] \/ ~(eFileLock'[h] > SHARED_LOCK)))
  PROVE  WriterInv'
<1>1. h \in Handle /\ ProcOf[h] = p /\ Alone(t) /\ \A u \in Thread : u # t => on[u] # h
  BY InWriterCall
<1>2. OnHandle(t, h)
  BY <1>1, CallOn DEF OnHandle, WriterInv
<1>3. QED
  BY <1>1, <1>2, WriterStep


LEMMA LockPendingByteWriter ==
  ASSUME WriterInv, CountInv', NEW t \in Thread, LockPendingByte(t)
  PROVE  WriterInv'
<1> DEFINE h == on[t]
           p == ProcOf[t]
<1> USE DEF NO_LOCK, SHARED_LOCK, RESERVED_LOCK, PENDING_LOCK, EXCLUSIVE_LOCK
<1>1. pc[t] = "pending" /\ pc[t] \in UnderLockMutex /\ pc[t] \in Locking
  BY DEF LockPendingByte, UnderLockMutex, Locking
<1>2. /\ h \in Handle /\ ProcOf[h] = p /\ p \in Process /\ CallLevels(t) /\ StepOK(t)
      /\ eFileLock[h] \in Level
      /\ Level3(pc[t], req[t], eFileLock[h]) > SHARED_LOCK => iLock[p] = eFileLock[h]
  BY <1>1, InWriterCall
<1>3. NoOtherWriter(h)
  BY <1>1, AsksAlone
<1>4. \/ req[t] = SHARED_LOCK /\ Goto(t, "shared") /\ UNCHANGED <<iLock, eFileLock>>
      \/ req[t] = EXCLUSIVE_LOCK /\ Goto(t, "write") /\ UNCHANGED <<iLock, eFileLock>>
      \/ Return(t) /\ SetLevel(h, PENDING_LOCK)
      \/ Return(t) /\ UNCHANGED <<iLock, eFileLock>>
  BY Zenon DEF LockPendingByte
<1>5. CallGoesOn(t)
  BY <1>4 DEF CallGoesOn, UnderLockMutex
<1>6. CASE Return(t)
  <2>1. CallLevels(t)' /\ pc'[t] \in {"idle", "close"}
    BY <1>1, <1>5, <1>6, CallOn DEF WriterInv
  <2>2. CASE SetLevel(h, PENDING_LOCK)
    <3>1. /\ eFileLock'[h] = PENDING_LOCK /\ iLock'[p] = PENDING_LOCK
          /\ \A g \in Handle : g # h => eFileLock'[g] = eFileLock[g]
          /\ \A q \in Process : q # p => iLock'[q] = iLock[q]
      BY <1>2, <2>2, SetLevelFacts DEF WriterInv, Level
    <3>2. QED
      BY <1>1, <1>3, <1>5, <2>1, <3>1, WriterCallStep
  <2>3. CASE UNCHANGED <<iLock, eFileLock>>
    <3>1. Level3(pc'[t], req'[t], eFileLock'[h]) > SHARED_LOCK => iLock'[p] = eFileLock'[h]
      BY <1>1, <1>2, <2>1, <2>3 DEF Level3
    <3>2. QED
      BY <1>1, <1>3, <1>5, <2>1, <2>3, <3>1, WriterCallStep
  <2>4. QED
    BY <1>4, <1>6, <2>2, <2>3 DEF Return, Call, Goto
<1>7. CASE /\ UNCHANGED <<iLock, eFileLock>>
           /\ \/ req[t] = SHARED_LOCK /\ Goto(t, "shared")
              \/ req[t] = EXCLUSIVE_LOCK /\ Goto(t, "write")
  <2>1. /\ pc'[t] \in {"shared", "write"} /\ on'[t] = h /\ req'[t] = req[t] /\ pc'[t] \in Locking
        /\ req[t] \in {SHARED_LOCK, EXCLUSIVE_LOCK}
    BY <1>7 DEF Goto, WriterInv, CountInv, Typed, Locking
  <2>2. CallLevels(t)'
    BY <1>1, <1>2, <1>7, <2>1 DEF CallLevels
  <2>3. Level3(pc'[t], req'[t], eFileLock'[h]) > SHARED_LOCK => iLock'[p] = eFileLock'[h]
    BY <1>1, <1>2, <1>7, <2>1 DEF Level3
  <2>4. QED
    BY <1>1, <1>3, <1>5, <1>7, <2>2, <2>3, WriterCallStep
<1>8. QED
  BY <1>4, <1>6, <1>7

LEMMA LockSharedRangeWriter ==
  ASSUME WriterInv, CountInv', NEW t \in Thread, LockSharedRange(t)
  PROVE  WriterInv'
<1> DEFINE h == on[t]
           p == ProcOf[t]
<1>1. pc[t] = "shared" /\ pc[t] \in UnderLockMutex /\ pc[t] \in Locking
  BY DEF LockSharedRange, UnderLockMutex, Locking
<1>2. /\ h \in Handle /\ ProcOf[h] = p /\ p \in Process /\ CallLevels(t) /\ StepOK(t)
      /\ Level3(pc[t], req[t], eFileLock[h]) > SHARED_LOCK => iLock[p] = eFileLock[h]
  BY <1>1, InWriterCall
<1>3. NoOtherWriter(h)
  BY <1>1, AsksAlone
<1>4. /\ UNCHANGED <<iLock, eFileLock>>
      /\ Goto(t, "unpend") \/ Goto(t, "unpendFail")
  BY Zenon DEF LockSharedRange, fileVars
<1>5. CallGoesOn(t)
  BY <1>4 DEF CallGoesOn, UnderLockMutex
<1>6. /\ pc'[t] \in {"unpend", "unpendFail"} /\ on'[t] = h /\ req'[t] = req[t] /\ req[t] = SHARED_LOCK
  BY <1>1, <1>2, <1>4 DEF Goto, WriterInv, CountInv, Typed, StepOK
<1>7. CallLevels(t)'
  BY <1>6 DEF CallLevels
<1>8. Level3(pc'[t], req'[t], eFileLock'[h]) > SHARED_LOCK => iLock'[p] = eFileLock'[h]
  BY <1>1, <1>2, <1>4, <1>6 DEF Level3
<1>9. QED
  BY <1>1, <1>3, <1>4, <1>5, <1>7, <1>8, WriterCallStep

LEMMA DropPendingByteWriter ==
  ASSUME WriterInv, CountInv', NEW t \in Thread, DropPendingByte(t)
  PROVE  WriterInv'
<1> DEFINE h == on[t]
           p == ProcOf[t]
<1>1. pc[t] \in {"unpend", "unpendFail"} /\ pc[t] \in UnderLockMutex /\ pc[t] \in Locking
  BY DEF DropPendingByte, UnderLockMutex, Locking
<1>2. /\ h \in Handle /\ ProcOf[h] = p /\ p \in Process
      /\ Level3(pc[t], req[t], eFileLock[h]) > SHARED_LOCK => iLock[p] = eFileLock[h]
  BY <1>1, InWriterCall
<1>3. NoOtherWriter(h)
  BY <1>1, AsksAlone
<1>4. Return(t) /\ (SetLevel(h, SHARED_LOCK) \/ UNCHANGED <<iLock, eFileLock>>)
  BY Zenon DEF DropPendingByte
<1>5. CallGoesOn(t)
  BY <1>4 DEF CallGoesOn
<1>6. CallLevels(t)' /\ pc'[t] \in {"idle", "close"}
  BY <1>1, <1>4, <1>5, CallOn DEF WriterInv
<1>7. CASE SetLevel(h, SHARED_LOCK)
  <2>1. /\ eFileLock'[h] = SHARED_LOCK /\ iLock'[p] = SHARED_LOCK
        /\ \A g \in Handle : g # h => eFileLock'[g] = eFileLock[g]
        /\ \A q \in Process : q # p => iLock'[q] = iLock[q]
    BY <1>2, <1>7, SetLevelFacts DEF WriterInv, Level, NO_LOCK, SHARED_LOCK, EXCLUSIVE_LOCK
  <2>2. QED
    BY <1>1, <1>3, <1>5, <1>6, <2>1, WriterCallStep
<1>8. CASE UNCHANGED <<iLock, eFileLock>>
  <2>1. Level3(pc'[t], req'[t], eFileLock'[h]) > SHARED_LOCK => iLock'[p] = eFileLock'[h]
    BY <1>1, <1>2, <1>6, <1>8 DEF Level3
  <2>2. QED
    BY <1>1, <1>3, <1>5, <1>6, <1>8, <2>1, WriterCallStep
<1>9. QED
  BY <1>4, <1>7, <1>8

LEMMA LockForWriteWriter ==
  ASSUME WriterInv, CountInv', NEW t \in Thread, LockForWrite(t)
  PROVE  WriterInv'
<1> DEFINE h == on[t]
           p == ProcOf[t]
<1>1. pc[t] = "write" /\ pc[t] \in UnderLockMutex /\ pc[t] \in Locking
  BY DEF LockForWrite, UnderLockMutex, Locking
<1>2. /\ h \in Handle /\ ProcOf[h] = p /\ p \in Process /\ req[t] \in Level
      /\ Level3(pc[t], req[t], eFileLock[h]) > SHARED_LOCK => iLock[p] = eFileLock[h]
  BY <1>1, InWriterCall
<1>3. NoOtherWriter(h)
  BY <1>1, AsksAlone
<1>4. Return(t) /\ (SetLevel(h, req[t]) \/ SetLevel(h, PENDING_LOCK) \/ UNCHANGED <<iLock, eFileLock>>)
  BY Zenon DEF LockForWrite
<1>5. CallGoesOn(t)
  BY <1>4 DEF CallGoesOn
<1>6. CallLevels(t)' /\ pc'[t] \in {"idle", "close"}
  BY <1>1, <1>4, <1>5, CallOn DEF WriterInv
<1>7. ASSUME NEW level \in Level, SetLevel(h, level) PROVE WriterInv'
  <2>1. /\ eFileLock'[h] = level /\ iLock'[p] = level
        /\ \A g \in Handle : g # h => eFileLock'[g] = eFileLock[g]
        /\ \A q \in Process : q # p => iLock'[q] = iLock[q]
    BY <1>2, <1>7, SetLevelFacts DEF WriterInv
  <2>2. QED
    BY <1>1, <1>3, <1>5, <1>6, <2>1, WriterCallStep
<1>8. CASE UNCHANGED <<iLock, eFileLock>>
  <2>1. Level3(pc'[t], req'[t], eFileLock'[h]) > SHARED_LOCK => iLock'[p] = eFileLock'[h]
    BY <1>1, <1>2, <1>6, <1>8 DEF Level3
  <2>2. QED
    BY <1>1, <1>3, <1>5, <1>6, <1>8, <2>1, WriterCallStep
<1>9. PENDING_LOCK \in Level
  BY DEF Level, NO_LOCK, PENDING_LOCK, EXCLUSIVE_LOCK
<1>10. QED
  BY <1>2, <1>4, <1>7, <1>8, <1>9

LEMMA DemoteSharedRangeWriter ==
  ASSUME WriterInv, CountInv', NEW t \in Thread, DemoteSharedRange(t)
  PROVE  WriterInv'
<1> DEFINE h == on[t]
           p == ProcOf[t]
<1>1. pc[t] = "demote" /\ pc[t] \in UnderLockMutex
  BY DEF DemoteSharedRange, UnderLockMutex
<1>2. /\ h \in Handle /\ ProcOf[h] = p /\ p \in Process /\ CallLevels(t)
      /\ Level3(pc[t], req[t], eFileLock[h]) > SHARED_LOCK => iLock[p] = eFileLock[h]
  BY <1>1, InWriterCall
<1>3. NoOtherWriter(h)
  BY <1>1, AsksAlone
<1>4. /\ UNCHANGED <<iLock, eFileLock, status>>
      /\ Goto(t, "unlckBytes") \/ ReturnFromUnlock(t)
  BY Zenon DEF DemoteSharedRange, fileVars
<1>5. CallGoesOn(t) /\ (Goto(t, "unlckBytes") \/ Return(t) \/ Call(t, h, "close", NO_LOCK))
  BY <1>4 DEF CallGoesOn, UnderLockMutex, ReturnFromUnlock
<1>6. CallLevels(t)' /\ iLock'[p] = eFileLock'[h]
  <2>1. iLock[p] = eFileLock[h] /\ eFileLock[h] > SHARED_LOCK /\ req[t] = SHARED_LOCK
    BY <1>1, <1>2 DEF CallLevels, Level3
  <2>2. CASE Goto(t, "unlckBytes")
    <3>1. pc'[t] = "unlckBytes" /\ on'[t] = h /\ req'[t] = req[t]
      BY <2>2 DEF Goto, WriterInv, CountInv, Typed
    <3>2. QED
      BY <1>4, <2>1, <3>1 DEF CallLevels, Locking
  <2>3. CASE Return(t) \/ Call(t, h, "close", NO_LOCK)
    BY <1>1, <1>4, <1>5, <2>1, <2>3, CallOn DEF WriterInv
  <2>4. QED
    BY <1>5, <2>2, <2>3
<1>7. QED
  BY <1>1, <1>3, <1>4, <1>5, <1>6, WriterCallStep

LEMMA UnlockWriterBytesWriter ==
  ASSUME WriterInv, CountInv', NEW t \in Thread, UnlockWriterBytes(t)
  PROVE  WriterInv'
<1> DEFINE h == on[t]
           p == ProcOf[t]
<1>1. pc[t] = "unlckBytes" /\ pc[t] \in UnderLockMutex
  BY DEF UnlockWriterBytes, UnderLockMutex
<1>2. /\ h \in Handle /\ ProcOf[h] = p /\ p \in Process /\ CallLevels(t) /\ eFileLock[h] \in Level
      /\ Level3(pc[t], req[t], eFileLock[h]) > SHARED_LOCK => iLock[p] = eFileLock[h]
  BY <1>1, InWriterCall
<1>3. NoOtherWriter(h)
  BY <1>1, AsksAlone
<1>4. /\ UNCHANGED status
      /\ \/ /\ iLock' = [iLock EXCEPT ![p] = SHARED_LOCK] /\ eFileLock' = eFileLock
            /\ req[t] = NO_LOCK /\ Goto(t, "unlckFile")
         \/ /\ iLock' = [iLock EXCEPT ![p] = SHARED_LOCK] /\ eFileLock' = [eFileLock EXCEPT ![h] = SHARED_LOCK]
            /\ ReturnFromUnlock(t)
         \/ /\ iLock' = iLock /\ eFileLock' = eFileLock /\ ReturnFromUnlock(t)
  <2>1. PICK r \in FileLock(h, {"pending", "reserved"}, F_UNLCK) :
          /\ iLock' = IF r.rc = 0 THEN [iLock EXCEPT ![ProcOf[h]] = SHARED_LOCK] ELSE iLock
          /\ \/ r.rc = 0 /\ req[t] = NO_LOCK /\ Goto(t, "unlckFile") /\ UNCHANGED eFileLock
             \/ /\ r.rc = 0 /\ req[t] = SHARED_LOCK /\ ReturnFromUnlock(t)
                /\ eFileLock' = [eFileLock EXCEPT ![h] = SHARED_LOCK]
             \/ r.rc # 0 /\ ReturnFromUnlock(t) /\ UNCHANGED eFileLock
    BY Zenon DEF UnlockWriterBytes
  <2>2. UNCHANGED status
    BY DEF UnlockWriterBytes
  <2>3. QED
    BY <1>2, <2>1, <2>2
<1>5. CallGoesOn(t) /\ (ReturnFromUnlock(t) => Return(t) \/ Call(t, h, "close", NO_LOCK))
  BY <1>4 DEF CallGoesOn, UnderLockMutex, ReturnFromUnlock
<1>6. /\ \A g \in Handle : g # h => eFileLock'[g] = eFileLock[g]
      /\ \A q \in Process : q # p => iLock'[q] = iLock[q]
  BY <1>2, <1>4 DEF WriterInv, CountInv, Typed
<1>7. CASE ReturnFromUnlock(t)
  <2>1. CallLevels(t)' /\ pc'[t] \in {"idle", "close"}
    BY <1>1, <1>5, <1>7, CallOn DEF WriterInv
  <2>2. iLock'[p] = eFileLock'[h]
    <3>1. CASE UNCHANGED <<iLock, eFileLock>>
      <4>1. iLock[p] = eFileLock[h]
        BY <1>1, <1>2 DEF CallLevels, Level3, SHARED_LOCK, PENDING_LOCK, EXCLUSIVE_LOCK
      <4>2. QED
        BY <3>1, <4>1
    <3>2. CASE iLock' = [iLock EXCEPT ![p] = SHARED_LOCK] /\ eFileLock' = [eFileLock EXCEPT ![h] = SHARED_LOCK]
      BY <1>2, <3>2 DEF WriterInv, CountInv, Typed
    <3>3. CASE Goto(t, "unlckFile")
      BY <2>1, <3>3 DEF Goto, WriterInv, CountInv, Typed
    <3>4. QED
      BY <1>4, <3>1, <3>2, <3>3
  <2>3. QED
    BY <1>1, <1>3, <1>5, <1>6, <2>1, <2>2, WriterCallStep
<1>8. CASE iLock' = [iLock EXCEPT ![p] = SHARED_LOCK] /\ eFileLock' = eFileLock
           /\ req[t] = NO_LOCK /\ Goto(t, "unlckFile")
  <2>1. pc'[t] = "unlckFile" /\ on'[t] = h /\ req'[t] = NO_LOCK
    BY <1>8 DEF Goto, WriterInv, CountInv, Typed
  <2>2. CallLevels(t)'
    BY <2>1 DEF CallLevels, Locking
  <2>3. ~(Level3(pc'[t], req'[t], eFileLock'[h]) > SHARED_LOCK)
    BY <1>2, <1>8, <2>1 DEF Level3, Level, NO_LOCK, SHARED_LOCK, EXCLUSIVE_LOCK
  <2>4. QED
    BY <1>1, <1>3, <1>5, <1>6, <2>2, <2>3, WriterCallStep
<1>9. QED
  BY <1>4, <1>7, <1>8

(* The last to leave SHARED takes the inode to NO_LOCK, nobody else.       *)
LEMMA UnlockFileWriter ==
  ASSUME WriterInv, CountInv', NEW t \in Thread, UnlockFile(t)
  PROVE  WriterInv'
<1> DEFINE h == on[t]
           p == ProcOf[t]
<1>1. pc[t] = "unlckFile" /\ pc[t] \in UnderLockMutex /\ pc[t] \in Unlocking
  BY DEF UnlockFile, UnderLockMutex, Unlocking
<1>2. /\ h \in Handle /\ ProcOf[h] = p /\ p \in Process /\ CountOK(p) /\ StepOK(t)
      /\ eFileLock[h] \in Level
  BY <1>1, InWriterCall
<1>3. /\ eFileLock' = [eFileLock EXCEPT ![h] = NO_LOCK]
      /\ iLock' = IF nShared[p] = 1 THEN [iLock EXCEPT ![p] = NO_LOCK] ELSE iLock
      /\ ReturnFromUnlock(t)
  BY <1>2 DEF UnlockFile
<1>4. CallGoesOn(t) /\ (Return(t) \/ Call(t, h, "close", NO_LOCK))
  BY <1>3 DEF CallGoesOn, ReturnFromUnlock
<1>5. CallLevels(t)' /\ pc'[t] \in {"idle", "close"}
  BY <1>1, <1>4, CallOn DEF WriterInv
<1>6. /\ eFileLock'[h] = NO_LOCK /\ \A g \in Handle : g # h => eFileLock'[g] = eFileLock[g]
      /\ \A q \in Process : q # p => iLock'[q] = iLock[q]
  BY <1>2, <1>3 DEF WriterInv, CountInv, Typed
<1>7. ~(Level3(pc'[t], req'[t], eFileLock'[h]) > SHARED_LOCK) /\ ~(eFileLock'[h] > SHARED_LOCK)
  BY <1>5, <1>6 DEF Level3, NO_LOCK, SHARED_LOCK
<1>8. NoOtherWriter(h) \/ iLock'[p] = iLock[p]
  <2>1. CASE nShared[p] = 1
    <3> DEFINE M == Members(eFileLock, SomeLock, ProcOf[h])
    <3>1. eFileLock[h] \in SomeLock
      BY <1>1, <1>2 DEF StepOK, SomeLock
    <3>2. Cardinality(M) <= 1
      <4>1. CountOK(ProcOf[h]) /\ nShared[ProcOf[h]] = 1
        BY <1>2, <2>1
      <4>2. QED
        BY <4>1 DEF CountOK
    <3>3. M = {h}
      BY <1>2, <3>1, <3>2, OnlyMember
    <3>4. ASSUME NEW g \in Handle, g # h, ProcOf[g] = p PROVE ~(eFileLock[g] > SHARED_LOCK)
      <4>1. g \notin M
        BY <3>3, <3>4
      <4>2. eFileLock[g] = NO_LOCK
        BY <1>2, <3>4, <4>1 DEF Members, SomeLock, WriterInv, CountInv, Typed
      <4>3. QED
        BY <4>2 DEF NO_LOCK, SHARED_LOCK
    <3>5. QED
      BY <1>2, <3>4 DEF NoOtherWriter
  <2>2. CASE nShared[p] # 1
    BY <1>3, <2>2
  <2>3. QED
    BY <2>1, <2>2
<1>9. QED
  BY <1>1, <1>4, <1>5, <1>6, <1>7, <1>8, WriterCallStep


(* A thread that was idle, with or without pLockMutex.                     *)
LEMMA CanCallFacts ==
  ASSUME CountInv, NEW t \in Thread, NEW h \in Handle, CanCall(t, h)
  PROVE  /\ pc[t] = "idle" /\ on[t] = NoHandle /\ ProcOf[h] = ProcOf[t] /\ ProcOf[t] \in Process
         /\ \A u \in Thread : on[u] # h
         /\ eFileLock[h] \in Level /\ iLock[ProcOf[t]] \in Level
         /\ Level3(pc[t], req[t], eFileLock[h]) = eFileLock[h]
         /\ Held(h) = eFileLock[h]
<1>1. pc[t] = "idle" /\ ProcOf[h] = ProcOf[t] /\ ProcOf[t] \in Process /\ \A u \in Thread : on[u] # h
  BY UnixLockAssumption DEF CanCall
<1>2. on[t] = NoHandle /\ eFileLock[h] \in Level /\ iLock[ProcOf[t]] \in Level
  BY <1>1 DEF CountInv, CallsOK, Typed
<1>3. Held(h) = eFileLock[h]
  BY <1>1, HeldIdle
<1>4. QED
  BY <1>1, <1>2, <1>3 DEF Level3

(* A call begins; its first step finds the levels as they are.             *)
LEMMA BeginWriter ==
  ASSUME WriterInv, CountInv', NEW t \in Thread, NEW h \in Handle, CanCall(t, h),
         NEW step, NEW level, Call(t, h, step, level), UNCHANGED <<iLock, eFileLock>>,
         CallLevels(t)', Level3(step, level, eFileLock[h]) = eFileLock[h]
  PROVE  WriterInv'
<1>1. /\ on[t] = NoHandle /\ ProcOf[h] = ProcOf[t] /\ \A u \in Thread : on[u] # h
      /\ Held(h) = eFileLock[h] /\ WriterOK(h)
  BY CanCallFacts DEF WriterInv
<1>2. /\ \A u \in Thread : u # t => pc'[u] = pc[u] /\ on'[u] = on[u] /\ req'[u] = req[u]
      /\ pc'[t] = step /\ on'[t] = h /\ req'[t] = level
  BY DEF Call, WriterInv, CountInv, Typed
<1>3. OnHandle(t, h)
  BY <1>1, <1>2 DEF OnHandle
<1>4. Level3(pc'[t], req'[t], eFileLock'[h]) > SHARED_LOCK => iLock'[ProcOf[t]] = eFileLock'[h]
  BY <1>1, <1>2 DEF WriterOK
<1>5. QED
  BY <1>3, <1>4, WriterStep

LEMMA LockWriter ==
  ASSUME WriterInv, CountInv', NEW t \in Thread, NEW h \in Handle,
         NEW level \in {SHARED_LOCK, RESERVED_LOCK, EXCLUSIVE_LOCK}, Lock(t, h, level)
  PROVE  WriterInv'
<1> USE DEF NO_LOCK, SHARED_LOCK, RESERVED_LOCK, PENDING_LOCK, EXCLUSIVE_LOCK
<1>1. /\ CanCall(t, h) /\ LockSequenceOK(h, level) /\ ~BusyInProcess(h, level)
      /\ UNCHANGED <<iLock, eFileLock>>
      /\ Call(t, h, "pending", level) \/ Call(t, h, "write", level)
  BY DEF Lock, CanLock, inodeVars, fileVars
<1>2. ProcOf[h] = ProcOf[t]
  BY <1>1, CanCallFacts DEF WriterInv
<1>3. PICK step \in {"pending", "write"} : Call(t, h, step, level)
  BY <1>1
<1>4. pc'[t] = step /\ on'[t] = h /\ req'[t] = level
  BY <1>3 DEF Call, WriterInv, CountInv, Typed
<1>5. /\ level # SHARED_LOCK => iLock[ProcOf[t]] = eFileLock[h]
      /\ level = RESERVED_LOCK => eFileLock[h] = SHARED_LOCK
  BY <1>1, <1>2 DEF BusyInProcess, LockSequenceOK
<1>6. CallLevels(t)'
  BY <1>1, <1>4, <1>5 DEF CallLevels
<1>7. Level3(step, level, eFileLock[h]) = eFileLock[h]
  BY DEF Level3
<1>8. QED
  BY <1>1, <1>3, <1>6, <1>7, BeginWriter

LEMMA FirstUnlockWriter ==
  ASSUME WriterInv, CountInv', NEW t \in Thread, NEW h \in Handle, CanCall(t, h),
         NEW level \in {NO_LOCK, SHARED_LOCK}, eFileLock[h] > level,
         Call(t, h, FirstUnlockStep(h, level), level), UNCHANGED <<iLock, eFileLock>>
  PROVE  WriterInv'
<1> DEFINE step == FirstUnlockStep(h, level)
           e == eFileLock[h]
<1> USE DEF NO_LOCK, SHARED_LOCK
<1>1. e \in Level
  BY CanCallFacts DEF WriterInv
<1>2. \/ step = "unlckFile" /\ ~(e > SHARED_LOCK) /\ level = NO_LOCK
      \/ step = "demote" /\ e > SHARED_LOCK /\ level = SHARED_LOCK
      \/ step = "unlckBytes" /\ e > SHARED_LOCK /\ level = NO_LOCK
  BY <1>1 DEF FirstUnlockStep, Level, EXCLUSIVE_LOCK
<1>3. pc'[t] = step /\ on'[t] = h /\ req'[t] = level
  BY DEF Call, WriterInv, CountInv, Typed
<1>4. CallLevels(t)' /\ Level3(step, level, e) = e
  BY <1>2, <1>3 DEF CallLevels, Locking, Level3
<1>5. QED
  BY <1>4, BeginWriter

LEMMA LockSharedAgainWriter ==
  ASSUME WriterInv, CountInv', NEW t \in Thread, NEW h \in Handle, LockSharedAgain(t, h)
  PROVE  WriterInv'
<1>1. /\ CanCall(t, h) /\ eFileLock' = [eFileLock EXCEPT ![h] = SHARED_LOCK]
      /\ UNCHANGED <<iLock, pc, on, req>>
  BY DEF LockSharedAgain, CanLock, callVars
<1>2. /\ pc[t] = "idle" /\ on[t] = NoHandle /\ ProcOf[h] = ProcOf[t] /\ \A u \in Thread : on[u] # h
  BY <1>1, CanCallFacts DEF WriterInv
<1>3. eFileLock'[h] = SHARED_LOCK /\ \A g \in Handle : g # h => eFileLock'[g] = eFileLock[g]
  BY <1>1 DEF WriterInv, CountInv, Typed
<1>4. OnHandle(t, h)
  BY <1>1, <1>2, <1>3 DEF OnHandle
<1>5. CallLevels(t)'
  BY <1>1, <1>2 DEF CallLevels, Locking
<1>6. ~(Level3(pc'[t], req'[t], eFileLock'[h]) > SHARED_LOCK) /\ ~(eFileLock'[h] > SHARED_LOCK)
  BY <1>1, <1>2, <1>3 DEF Level3, SHARED_LOCK, EXCLUSIVE_LOCK
<1>7. QED
  BY <1>1, <1>4, <1>5, <1>6, WriterStep

(* Outside the lock and unlock calls a level stays or is lost.             *)
LEMMA QuietWriter ==
  ASSUME WriterInv, CountInv', NEW t \in Thread, NEW h, OnHandle(t, h),
         pc[t] \notin UnderLockMutex, pc'[t] \notin UnderLockMutex,
         iLock' = iLock, eFileLock'[h] \in {eFileLock[h], NO_LOCK}
  PROVE  WriterInv'
<1>1. CallLevels(t)'
  BY DEF CallLevels, Locking, UnderLockMutex
<1>2. h \in Handle /\ ProcOf[h] = ProcOf[t] /\ WriterOK(h)
  BY DEF OnHandle, WriterInv
<1>3. Held(h) = Level3(pc[t], req[t], eFileLock[h])
  BY HeldOnHandle DEF WriterInv
<1>4. /\ Level3(pc[t], req[t], eFileLock[h]) = eFileLock[h]
      /\ Level3(pc'[t], req'[t], eFileLock'[h]) = eFileLock'[h]
  BY DEF Level3, UnderLockMutex
<1>5. /\ eFileLock'[h] > SHARED_LOCK => iLock'[ProcOf[t]] = eFileLock'[h]
      /\ eFileLock'[h] = eFileLock[h] \/ ~(eFileLock'[h] > SHARED_LOCK)
  BY <1>2, <1>3, <1>4 DEF WriterOK, NO_LOCK, SHARED_LOCK
<1>6. QED
  BY <1>1, <1>4, <1>5, WriterStep

LEMMA OutsideWriter ==
  ASSUME WriterInv, CountInv', NEW t \in Thread, DeferClose(t) \/ Attach(t)
  PROVE  WriterInv'
<1>1. /\ pc[t] \in {"close", "attach"} /\ UNCHANGED <<iLock, eFileLock>>
      /\ Goto(t, "releaseDeferred") \/ Goto(t, "release") \/ Return(t)
  BY DEF DeferClose, Attach, fileVars
<1>2. on[t] \in Handle /\ ProcOf[on[t]] = ProcOf[t] /\ \A u \in Thread : u # t => on[u] # on[t]
  BY <1>1, InCallFacts DEF WriterInv, CountInv, CallsOK
<1>3. /\ \A u \in Thread : u # t => pc'[u] = pc[u] /\ on'[u] = on[u] /\ req'[u] = req[u]
      /\ pc'[t] \in {"release", "releaseDeferred", "idle"} /\ on'[t] \in {on[t], NoHandle}
  BY <1>1, <1>2 DEF Goto, Return, Call, WriterInv, CountInv, Typed
<1>4. OnHandle(t, on[t])
  BY <1>1, <1>2, <1>3 DEF OnHandle
<1>5. QED
  BY <1>1, <1>3, <1>4, QuietWriter DEF UnderLockMutex

LEMMA ReleaseWriter ==
  ASSUME WriterInv, CountInv', NEW t \in Thread, Release(t)
  PROVE  WriterInv'
<1> DEFINE h == on[t]
           p == ProcOf[t]
<1>1. pc[t] \in UnderBigLock /\ Return(t)
  BY DEF Release, UnderBigLock
<1>2. /\ h \in Handle /\ ProcOf[h] = p /\ p \in Process /\ \A u \in Thread : u # t => on[u] # h
      /\ status[h] \in Attached /\ CountOK(p)
  BY <1>1, InCallFacts DEF WriterInv, CountInv, CallsOK, CountsOK, StepsOK, StepOK, Attached, UnderBigLock
<1>3. /\ eFileLock' = [eFileLock EXCEPT ![h] = NO_LOCK]
      /\ iLock' = IF nRef[p] = 1 THEN [iLock EXCEPT ![p] = 0] ELSE iLock
  BY <1>2 DEF Release
<1>4. /\ \A u \in Thread : u # t => pc'[u] = pc[u] /\ on'[u] = on[u] /\ req'[u] = req[u]
      /\ pc'[t] = "idle" /\ on'[t] = NoHandle
  BY <1>1 DEF Return, Call, WriterInv, CountInv, Typed
<1>5. /\ eFileLock'[h] = NO_LOCK /\ \A g \in Handle : g # h => eFileLock'[g] = eFileLock[g]
      /\ \A q \in Process : q # p => iLock'[q] = iLock[q]
  BY <1>2, <1>3 DEF WriterInv, CountInv, Typed
<1>6. OnHandle(t, h)
  BY <1>2, <1>4, <1>5 DEF OnHandle
<1>7. CASE nRef[p] # 1
  BY <1>1, <1>3, <1>4, <1>5, <1>6, <1>7, QuietWriter DEF UnderBigLock, UnderLockMutex
<1>8. CASE nRef[p] = 1
  <2>1. ASSUME NEW g \in Handle, g # h, ProcOf[g] = p PROVE status[g] \notin Attached
    <3> DEFINE M == Members(status, Attached, ProcOf[h])
    <3>1. Cardinality(M) <= 1
      <4>1. CountOK(ProcOf[h]) /\ nRef[ProcOf[h]] = 1
        BY <1>2, <1>8
      <4>2. QED
        BY <4>1 DEF CountOK
    <3>2. M = {h}
      BY <1>2, <3>1, OnlyMember
    <3>3. g \notin M
      BY <2>1, <3>2
    <3>4. QED
      BY <1>2, <2>1, <3>3 DEF Members
  <2>2. NoOtherWriter(h)
    BY <1>2, <2>1 DEF NoOtherWriter, WriterInv, CountInv, FilesOK, NO_LOCK, SHARED_LOCK
  <2>3. Alone(t)
    <3>1. ASSUME NEW u \in Thread, u # t, ProcOf[u] = p, pc[u] \in UnderLockMutex PROVE FALSE
      BY <1>2, <2>1, <3>1, InMutexFacts DEF WriterInv
    <3>2. QED
      BY <3>1 DEF Alone
  <2>4. CallLevels(t)'
    BY <1>4 DEF CallLevels, Locking
  <2>5. ~(Level3(pc'[t], req'[t], eFileLock'[h]) > SHARED_LOCK)
    BY <1>4, <1>5 DEF Level3, NO_LOCK, SHARED_LOCK
  <2>6. QED
    BY <1>6, <2>2, <2>3, <2>4, <2>5, WriterStep
<1>9. QED
  BY <1>7, <1>8

LEMMA CrashWriter ==
  ASSUME WriterInv, CountInv', NEW p \in Process, Crash(p)
  PROVE  WriterInv'
<1>1. /\ \A q \in Process : iLock'[q] = IF q = p THEN 0 ELSE iLock[q]
      /\ \A g \in Handle : eFileLock'[g] = IF ProcOf[g] = p THEN NO_LOCK ELSE eFileLock[g]
      /\ \A u \in Thread : /\ pc'[u] = IF ProcOf[u] = p THEN "idle" ELSE pc[u]
                           /\ on'[u] = IF ProcOf[u] = p THEN NoHandle ELSE on[u]
                           /\ req'[u] = IF ProcOf[u] = p THEN NO_LOCK ELSE req[u]
  BY DEF Crash, WriterInv, CountInv, Typed
<1>2. ASSUME NEW u \in Thread PROVE CallLevels(u)'
  <2>1. CASE ProcOf[u] = p
    BY <1>1, <2>1 DEF CallLevels, Locking
  <2>2. CASE ProcOf[u] # p
    <3>1. pc[u] # "idle" => on[u] \in Handle /\ ProcOf[on[u]] = ProcOf[u] /\ ProcOf[u] \in Process
      BY InCallFacts DEF WriterInv
    <3>2. CallLevels(u) /\ pc'[u] = pc[u] /\ on'[u] = on[u] /\ req'[u] = req[u]
      BY <1>1, <2>2 DEF WriterInv
    <3>3. CASE pc[u] = "idle"
      BY <3>2, <3>3 DEF CallLevels, Locking
    <3>4. CASE pc[u] # "idle"
      BY <1>1, <2>2, <3>1, <3>2, <3>4 DEF CallLevels
    <3>5. QED
      BY <3>3, <3>4
  <2>3. QED
    BY <2>1, <2>2
<1>3. ASSUME NEW g \in Handle PROVE WriterOK(g)'
  <2>1. CASE ProcOf[g] = p
    <3>1. eFileLock'[g] = NO_LOCK
      BY <1>1, <2>1
    <3>2. ~(Held(g)' > SHARED_LOCK)
      BY <3>1 DEF Held, NO_LOCK, SHARED_LOCK, EXCLUSIVE_LOCK
    <3>3. QED
      BY <3>2 DEF WriterOK
  <2>2. CASE ProcOf[g] # p
    <3>1. \A u \in Thread : on[u] = g \/ on'[u] = g => pc'[u] = pc[u] /\ on'[u] = on[u] /\ req'[u] = req[u]
      <4>1. \A u \in Thread : on[u] # NoHandle => ProcOf[on[u]] = ProcOf[u]
        BY DEF WriterInv, CountInv, CallsOK
      <4>2. NoHandle \notin Handle
        BY UnixLockAssumption
      <4>3. QED
        BY <1>1, <2>2, <4>1, <4>2
    <3>2. Held(g)' = Held(g) /\ eFileLock'[g] = eFileLock[g]
      BY <1>1, <2>2, <3>1, HeldKept
    <3>3. WriterOK(g) /\ ProcOf[g] \in Process
      BY UnixLockAssumption DEF WriterInv
    <3>4. QED
      BY <1>1, <2>2, <3>2, <3>3 DEF WriterOK
  <2>3. QED
    BY <2>1, <2>2
<1>4. ASSUME NEW f \in Handle, NEW g \in Handle PROVE Apart(f, g)'
  <2>1. Apart(f, g)
    BY DEF WriterInv
  <2>2. QED
    BY <1>1, <2>1 DEF Apart, NO_LOCK, SHARED_LOCK
<1>5. QED
  BY <1>2, <1>3, <1>4 DEF WriterInv

LEMMA NextWriter ==
  ASSUME WriterInv, [Next]_vars
  PROVE  WriterInv'
<1>1. CountInv'
  BY NextCountInv DEF WriterInv
<1>2. ASSUME NEW t \in Thread, ThreadStep(t) PROVE WriterInv'
  <2>1. CASE FileLockStep(t)
    BY <1>1, <2>1, LockPendingByteWriter, LockSharedRangeWriter, DropPendingByteWriter, LockForWriteWriter,
       DemoteSharedRangeWriter, UnlockWriterBytesWriter, UnlockFileWriter DEF FileLockStep
  <2>2. CASE DeferClose(t) \/ Release(t) \/ Attach(t)
    BY <1>1, <2>2, OutsideWriter, ReleaseWriter
  <2>3. QED
    BY <1>2, <2>1, <2>2 DEF ThreadStep
<1>3. ASSUME NEW t \in Thread, NEW h \in Handle, Begin(t, h) PROVE WriterInv'
  <2>1. CASE OpenDescriptor(t, h)
    <3>1. CanCall(t, h) /\ Call(t, h, "attach", NO_LOCK) /\ UNCHANGED <<iLock, eFileLock>>
      BY <2>1 DEF OpenDescriptor
    <3>2. pc'[t] = "attach"
      BY <3>1 DEF Call, WriterInv, CountInv, Typed
    <3>3. CallLevels(t)' /\ Level3("attach", NO_LOCK, eFileLock[h]) = eFileLock[h]
      BY <3>2 DEF CallLevels, Locking, Level3
    <3>4. QED
      BY <1>1, <3>1, <3>3, BeginWriter
  <2>2. CASE LockSharedAgain(t, h)
    BY <1>1, <2>2, LockSharedAgainWriter
  <2>3. ASSUME NEW level \in {SHARED_LOCK, RESERVED_LOCK, EXCLUSIVE_LOCK}, Lock(t, h, level) PROVE WriterInv'
    BY <1>1, <2>3, LockWriter
  <2>4. ASSUME NEW level \in {NO_LOCK, SHARED_LOCK}, Unlock(t, h, level) PROVE WriterInv'
    BY <1>1, <2>4, FirstUnlockWriter DEF Unlock, inodeVars, fileVars
  <2>5. CASE Close(t, h)
    <3>1. /\ CanCall(t, h) /\ UNCHANGED <<iLock, eFileLock>>
          /\ \/ Call(t, h, "close", NO_LOCK)
             \/ eFileLock[h] > NO_LOCK /\ Call(t, h, FirstUnlockStep(h, NO_LOCK), NO_LOCK)
      BY <2>5 DEF Close, inodeVars
    <3>2. CASE Call(t, h, "close", NO_LOCK)
      <4>1. pc'[t] = "close"
        BY <3>2 DEF Call, WriterInv, CountInv, Typed
      <4>2. CallLevels(t)' /\ Level3("close", NO_LOCK, eFileLock[h]) = eFileLock[h]
        BY <4>1 DEF CallLevels, Locking, Level3
      <4>3. QED
        BY <1>1, <3>1, <3>2, <4>2, BeginWriter
    <3>3. QED
      BY <1>1, <3>1, <3>2, FirstUnlockWriter
  <2>6. QED
    BY <1>3, <2>1, <2>2, <2>3, <2>4, <2>5 DEF Begin
<1>4. ASSUME NEW p \in Process, Crash(p) PROVE WriterInv'
  BY <1>1, <1>4, CrashWriter
<1>5. CASE UNCHANGED vars
  <2>1. UNCHANGED <<iLock, eFileLock, pc, on, req>>
    BY <1>5 DEF vars, inodeVars, fileVars, callVars
  <2>2. \A h \in Handle : Held(h)' = Held(h)
    BY <2>1 DEF Held, InCall
  <2>3. \A t \in Thread : CallLevels(t)'
    BY <2>1 DEF WriterInv, CallLevels
  <2>4. (\A h \in Handle : WriterOK(h)') /\ \A g, h \in Handle : Apart(g, h)'
    BY <2>1, <2>2 DEF WriterInv, WriterOK, Apart
  <2>5. QED
    BY <1>1, <2>3, <2>4 DEF WriterInv
<1>6. QED
  BY <1>2, <1>3, <1>4, <1>5 DEF Next

LEMMA WriterInvOneWriter ==
  ASSUME WriterInv
  PROVE  OneWriterPerProcess
<1>1. ASSUME NEW g \in Handle, NEW h \in Handle, g # h, ProcOf[g] = ProcOf[h]
      PROVE  ~(Held(g) > SHARED_LOCK /\ Held(h) > SHARED_LOCK)
  <2>1. /\ Held(g) \in Level /\ eFileLock[g] \in Level /\ Held(g) <= eFileLock[g]
        /\ Held(h) \in Level /\ eFileLock[h] \in Level /\ Held(h) <= eFileLock[h]
        /\ Apart(g, h)
    BY HeldBelow DEF WriterInv
  <2>2. QED
    BY <1>1, <2>1 DEF Apart, Level, NO_LOCK, SHARED_LOCK, EXCLUSIVE_LOCK
<1>2. ASSUME NEW h \in Handle, InCall(h, "unlckBytes", NO_LOCK)
      PROVE  iLock[ProcOf[h]] = eFileLock[h]
  <2>1. PICK t \in Thread : on[t] = h /\ pc[t] = "unlckBytes" /\ req[t] = NO_LOCK
    BY <1>2 DEF InCall
  <2>2. /\ CallLevels(t) /\ ProcOf[h] = ProcOf[t]
        /\ Level3(pc[t], req[t], eFileLock[h]) > SHARED_LOCK => iLock[ProcOf[t]] = eFileLock[h]
    BY <2>1, InWriterCall DEF UnderLockMutex
  <2>3. QED
    BY <2>1, <2>2 DEF CallLevels, Level3, NO_LOCK, SHARED_LOCK
<1>3. QED
  BY <1>1, <1>2 DEF OneWriterPerProcess

LEMMA InitWriter == Init => WriterInv
<1> SUFFICES ASSUME Init PROVE WriterInv
  OBVIOUS
<1>1. CountInv
  BY InitCountInv
<1>2. ASSUME NEW h \in Handle PROVE eFileLock[h] = NO_LOCK /\ WriterOK(h)
  BY DEF Init, WriterOK, Held, InCall, NO_LOCK, SHARED_LOCK
<1>3. ASSUME NEW t \in Thread PROVE CallLevels(t)
  BY DEF Init, CallLevels, Locking
<1>4. \A g, h \in Handle : Apart(g, h)
  BY <1>2 DEF Apart, NO_LOCK, SHARED_LOCK
<1>5. QED
  BY <1>1, <1>2, <1>3, <1>4 DEF WriterInv

(* Of the connections of one process one at most is past SHARED, whatever  *)
(* fails and however the threads interleave; and the level of the inode is *)
(* that connection's when posixUnlock asserts it.                          *)
THEOREM OneWriter == Spec => []OneWriterPerProcess
<1>1. WriterInv /\ [Next]_vars => WriterInv'
  BY NextWriter
<1>2. WriterInv => OneWriterPerProcess
  BY WriterInvOneWriter
<1>3. QED
  BY <1>1, <1>2, InitWriter, PTL DEF Spec

(***************************************************************************)
(* Nothing is left over.  Nothing is assumed here either: closing a        *)
(* descriptor drops the kernel locks even if every unlock failed.          *)
(***************************************************************************)
Clean(p) == klock[p] = NoLocks(Byte)

LeftOK(p) ==
  /\ nUnused[p] > 0 => nLock[p] > 0 /\ nRef[p] > 0
  /\ nRef[p] = 0 => Clean(p)

(* A close that was deferred leaves its descriptor to another handle, or   *)
(* to the end of the inode; unless the list was closed in the meantime,    *)
(* which dropped all locks, the descriptor is still on it.                 *)
ClosingOK(t) ==
  pc[t] = "releaseDeferred" => nUnused[ProcOf[t]] > 0 \/ Clean(ProcOf[t]) \/ nRef[ProcOf[t]] > 1

BigApart ==
  \A t, u \in Thread :
    t # u /\ ProcOf[t] = ProcOf[u] => ~(pc[t] \in UnderBigLock /\ pc[u] \in UnderBigLock)

LeftInv ==
  /\ CountInv /\ BigApart
  /\ \A p \in Process : LeftOK(p)
  /\ \A t \in Thread : ClosingOK(t)

(* What a step of process p leaves of the others.                          *)
OnProcess(p) ==
  \A q \in Process : q # p =>
    /\ klock'[q] = klock[q] /\ nLock'[q] = nLock[q] /\ nUnused'[q] = nUnused[q] /\ nRef'[q] = nRef[q]

LEMMA LeftStep ==
  ASSUME LeftInv, CountInv', NEW p \in Process, OnProcess(p), LeftOK(p)',
         \A u \in Thread : ProcOf[u] # p => pc'[u] = pc[u],
         \A u \in Thread : ProcOf[u] = p => ClosingOK(u)',
         \A t, u \in Thread :
           t # u /\ ProcOf[t] = p /\ ProcOf[u] = p => ~(pc'[t] \in UnderBigLock /\ pc'[u] \in UnderBigLock)
  PROVE  LeftInv'
<1>1. BigApart'
  BY DEF LeftInv, BigApart
<1>2. ASSUME NEW q \in Process PROVE LeftOK(q)'
  <2>1. LeftOK(q)
    BY DEF LeftInv
  <2>2. CASE q # p
    BY <2>1, <2>2 DEF OnProcess, LeftOK, Clean
  <2>3. QED
    BY <2>2
<1>3. ASSUME NEW u \in Thread PROVE ClosingOK(u)'
  <2>1. ClosingOK(u) /\ ProcOf[u] \in Process
    BY UnixLockAssumption DEF LeftInv
  <2>2. CASE ProcOf[u] # p
    BY <2>1, <2>2 DEF OnProcess, ClosingOK, Clean
  <2>3. QED
    BY <2>2
<1>4. QED
  BY <1>1, <1>2, <1>3 DEF LeftInv

(* One request for h changes the row of its process only.                  *)
LEMMA FileLockRow ==
  ASSUME CountInv, NEW h \in Handle, NEW bytes, NEW type \in LockType, NEW r \in FileLock(h, bytes, type)
  PROVE  /\ \A q \in Process : q # ProcOf[h] => r.table[q] = klock[q]
         /\ r.table \in Tables
<1> DEFINE p == ProcOf[h]
<1>1. p \in Process /\ klock \in Tables /\ ProcessLockType \in LockType
  BY UnixLockAssumption, TablesTyped DEF ProcessLockType, LockType
<1>2. \/ r = Locked(p, bytes, type, 0) \/ r = Locked(p, {"shared"}, ProcessLockType, 1)
      \/ r = NoChange(0) \/ r = NoChange(-1)
  <2>1. \/ r \in SetLockOutcomes(p, bytes, type, 0) \/ r = NoChange(0)
        \/ r \in SetLockOutcomes(p, {"shared"}, ProcessLockType, 1)
    BY Zenon DEF FileLock
  <2>2. QED
    BY <2>1, Zenon DEF SetLockOutcomes
<1>3. ASSUME NEW b, NEW y \in LockType, NEW n, r = Locked(p, b, y, n)
      PROVE  /\ \A q \in Process : q # p => r.table[q] = klock[q]
             /\ r.table \in Tables
  BY <1>1, <1>3, SetLockFacts DEF Locked
<1>4. ASSUME NEW c, r = NoChange(c)
      PROVE  /\ \A q \in Process : q # p => r.table[q] = klock[q]
             /\ r.table \in Tables
  BY <1>1, <1>4 DEF NoChange
<1>5. QED
  BY <1>1, <1>2, <1>3, <1>4

(* A thread in a lock or unlock call is in it for an attached handle, so   *)
(* that its process is not at the end of the inode; if another handle is   *)
(* being closed there are two.                                             *)
LEMMA TwoAttached ==
  ASSUME CountInv, NEW g \in Handle, NEW h \in Handle, g # h, ProcOf[g] = ProcOf[h],
         status[g] \in Attached, status[h] \in Attached
  PROVE  nRef[ProcOf[h]] > 1
<1> DEFINE M == Members(status, Attached, ProcOf[h])
<1>1. ProcOf[h] \in Process /\ CountOK(ProcOf[h])
  BY UnixLockAssumption DEF CountInv, CountsOK
<1>2. g \in M /\ h \in M /\ Cardinality(M) \in Nat /\ Cardinality(M) = nRef[ProcOf[h]]
  <2>1. g \in M /\ h \in M
    BY DEF Members
  <2>2. Cardinality(M) \in Nat
    BY MembersFinite
  <2>3. QED
    BY <1>1, <2>1, <2>2 DEF CountOK
<1>3. ~(Cardinality(M) <= 1)
  BY <1>2, OnlyMember
<1>4. QED
  BY <1>2, <1>3

LEMMA OneAttached ==
  ASSUME CountInv, NEW h \in Handle, status[h] \in Attached
  PROVE  nRef[ProcOf[h]] > 0
<1> DEFINE M == Members(status, Attached, ProcOf[h])
<1>1. ProcOf[h] \in Process /\ CountOK(ProcOf[h])
  BY UnixLockAssumption DEF CountInv, CountsOK
<1>2. h \in M /\ Cardinality(M) \in Nat /\ Cardinality(M) = nRef[ProcOf[h]]
  <2>1. h \in M
    BY DEF Members
  <2>2. Cardinality(M) \in Nat
    BY MembersFinite
  <2>3. QED
    BY <1>1, <2>1, <2>2 DEF CountOK
<1>3. Cardinality(M) # 0
  BY <1>2, MembersFinite, FS_EmptySet
<1>4. QED
  BY <1>2, <1>3

LEMMA LeftInCall ==
  ASSUME LeftInv, CountInv', NEW t \in Thread, pc[t] \in UnderLockMutex, CallGoesOn(t),
         NEW p, p = ProcOf[t], OnProcess(p), nRef' = nRef,
         nUnused'[p] > 0 => nUnused[p] > 0 /\ nLock'[p] > 0
  PROVE  LeftInv'
<1> DEFINE h == on[t]
<1>1. /\ h \in Handle /\ ProcOf[h] = p /\ p \in Process /\ status[h] \in Attached
      /\ \A u \in Thread : u # t => on[u] # h
      /\ CountInv
  BY InMutexFacts DEF LeftInv
<1>2. /\ \A u \in Thread : u # t => pc'[u] = pc[u]
      /\ pc'[t] \notin UnderBigLock
  BY DEF LeftInv, CountInv, Typed, CallGoesOn, Return, Call, Goto, UnderBigLock, UnderLockMutex
<1>3. nRef[p] > 0 /\ nRef[p] \in Int
  BY <1>1, OneAttached DEF CountInv, Typed
<1>4. LeftOK(p)'
  BY <1>3 DEF LeftOK
<1>5. ASSUME NEW u \in Thread, ProcOf[u] = p PROVE ClosingOK(u)'
  <2>1. CASE u = t
    BY <1>2, <2>1 DEF ClosingOK, UnderBigLock
  <2>2. CASE u # t /\ pc[u] = "releaseDeferred"
    <3>1. /\ on[u] \in Handle /\ ProcOf[on[u]] = p /\ on[u] # h
      BY <1>1, <1>5, <2>2, InCallFacts
    <3>2. status[on[u]] \in Attached
      BY <1>1, <2>2 DEF CountInv, StepsOK, StepOK, Attached, UnderBigLock
    <3>3. nRef[p] > 1
      BY <1>1, <3>1, <3>2, TwoAttached
    <3>4. QED
      BY <1>5, <3>3 DEF ClosingOK
  <2>3. CASE u # t /\ pc[u] # "releaseDeferred"
    BY <1>2, <2>3 DEF ClosingOK
  <2>4. QED
    BY <2>1, <2>2, <2>3
<1>6. QED
  BY <1>1, <1>2, <1>4, <1>5, LeftStep DEF LeftInv, BigApart

(* One request that counts n >= 0 more.                                    *)
LEMMA LeftRequest ==
  ASSUME LeftInv, CountInv', NEW t \in Thread, pc[t] \in UnderLockMutex, CallGoesOn(t),
         NEW bytes, NEW type \in LockType, NEW r \in FileLock(on[t], bytes, type),
         NEW n \in {0, 1}, Apply(r, on[t], n), UNCHANGED <<nUnused, nRef>>
  PROVE  LeftInv'
<1> DEFINE h == on[t]
           p == ProcOf[t]
<1>1. h \in Handle /\ ProcOf[h] = p /\ p \in Process /\ CountInv
  BY InMutexFacts DEF LeftInv
<1>2. /\ klock' = r.table /\ \A q \in Process : q # p => r.table[q] = klock[q]
      /\ r.taken \in {0, 1}
  BY <1>1, FileLockRow, FileLockType DEF Apply, CountInv
<1>3. nLock' = [nLock EXCEPT ![p] = @ + r.taken + n] /\ nLock \in [Process -> Int]
  BY <1>1 DEF Apply, CountInv, Typed
<1>4. OnProcess(p)
  BY <1>1, <1>2, <1>3 DEF OnProcess
<1>5. nLock'[p] >= nLock[p]
  BY <1>1, <1>2, <1>3
<1>6. nUnused'[p] > 0 => nUnused[p] > 0 /\ nLock'[p] > 0
  <2>1. LeftOK(p) /\ nUnused' = nUnused /\ nLock[p] \in Int /\ nLock'[p] \in Int
    BY <1>1, <1>2, <1>3 DEF LeftInv
  <2>2. QED
    BY <1>5, <2>1 DEF LeftOK
<1>7. QED
  BY <1>4, <1>6, LeftInCall

LEMMA CountInvTypeOKNext == CountInv' => TypeOK'
  BY CountInvTypeOK, PTL

LEMMA FileLockStepLeft ==
  ASSUME LeftInv, CountInv', NEW t \in Thread, FileLockStep(t)
  PROVE  LeftInv'
<1> DEFINE h == on[t]
<1>0. 0 \in {0, 1} /\ 1 \in {0, 1} /\ F_UNLCK \in LockType /\ F_RDLCK \in LockType /\ F_WRLCK \in LockType
      /\ PendingType(req[t]) \in LockType
  BY DEF LockType, PendingType
<1>1. CASE LockPendingByte(t)
  <2>1. pc[t] \in UnderLockMutex /\ UNCHANGED <<nUnused, nRef>>
    BY <1>1 DEF LockPendingByte, UnderLockMutex
  <2>2. PICK r \in FileLock(h, {"pending"}, PendingType(req[t])) :
          Apply(r, h, 0) /\ (Goto(t, "shared") \/ Goto(t, "write") \/ Return(t))
    BY <1>1, Zenon DEF LockPendingByte
  <2>3. CallGoesOn(t)
    BY <2>2 DEF CallGoesOn, UnderLockMutex
  <2>4. QED
    BY <1>0, <2>1, <2>2, <2>3, LeftRequest
<1>2. CASE LockSharedRange(t)
  <2>1. pc[t] \in UnderLockMutex /\ UNCHANGED <<nUnused, nRef>>
    BY <1>2 DEF LockSharedRange, UnderLockMutex
  <2>2. PICK r \in FileLock(h, {"shared"}, F_RDLCK) :
          Apply(r, h, 0) /\ (Goto(t, "unpend") \/ Goto(t, "unpendFail"))
    BY <1>2, Zenon DEF LockSharedRange
  <2>3. CallGoesOn(t)
    BY <2>2 DEF CallGoesOn, UnderLockMutex
  <2>4. QED
    BY <1>0, <2>1, <2>2, <2>3, LeftRequest
<1>3. CASE DropPendingByte(t)
  <2>1. pc[t] \in UnderLockMutex /\ UNCHANGED <<nUnused, nRef>> /\ CallGoesOn(t)
    BY <1>3 DEF DropPendingByte, UnderLockMutex, CallGoesOn
  <2>2. PICK r \in FileLock(h, {"pending"}, F_UNLCK) : Apply(r, h, 0) \/ Apply(r, h, 1)
    BY <1>3, Zenon DEF DropPendingByte
  <2>3. QED
    BY <1>0, <2>1, <2>2, LeftRequest
<1>4. CASE LockForWrite(t)
  <2>1. pc[t] \in UnderLockMutex /\ UNCHANGED <<nUnused, nRef>> /\ CallGoesOn(t)
    BY <1>4 DEF LockForWrite, UnderLockMutex, CallGoesOn
  <2>2. PICK r \in FileLock(h, IF req[t] = RESERVED_LOCK THEN {"reserved"} ELSE {"shared"}, F_WRLCK) :
          Apply(r, h, 0)
    BY <1>4, Zenon DEF LockForWrite
  <2>3. QED
    BY <1>0, <2>1, <2>2, LeftRequest
<1>5. CASE DemoteSharedRange(t)
  <2>1. pc[t] \in UnderLockMutex /\ UNCHANGED <<nUnused, nRef>>
    BY <1>5 DEF DemoteSharedRange, UnderLockMutex
  <2>2. PICK r \in FileLock(h, {"shared"}, F_RDLCK) :
          Apply(r, h, 0) /\ (Goto(t, "unlckBytes") \/ ReturnFromUnlock(t))
    BY <1>5, Zenon DEF DemoteSharedRange
  <2>3. CallGoesOn(t)
    BY <2>2 DEF CallGoesOn, UnderLockMutex, ReturnFromUnlock
  <2>4. QED
    BY <1>0, <2>1, <2>2, <2>3, LeftRequest
<1>6. CASE UnlockWriterBytes(t)
  <2>1. pc[t] \in UnderLockMutex /\ UNCHANGED <<nUnused, nRef>>
    BY <1>6 DEF UnlockWriterBytes, UnderLockMutex
  <2>2. PICK r \in FileLock(h, {"pending", "reserved"}, F_UNLCK) :
          Apply(r, h, 0) /\ (Goto(t, "unlckFile") \/ ReturnFromUnlock(t))
    BY <1>6, Zenon DEF UnlockWriterBytes
  <2>3. CallGoesOn(t)
    BY <2>2 DEF CallGoesOn, UnderLockMutex, ReturnFromUnlock
  <2>4. QED
    BY <1>0, <2>1, <2>2, <2>3, LeftRequest
<1>7. CASE UnlockFile(t)
  <2> DEFINE p == ProcOf[t]
  <2>1. pc[t] \in UnderLockMutex /\ nRef' = nRef /\ CallGoesOn(t)
    BY <1>7 DEF UnlockFile, UnderLockMutex, CallGoesOn, ReturnFromUnlock
  <2>2. h \in Handle /\ ProcOf[h] = p /\ p \in Process /\ CountInv
    BY <2>1, InMutexFacts DEF LeftInv
  <2>3. PICK r \in IF nShared[p] = 1 THEN FileLock(h, Byte, F_UNLCK) ELSE {NoChange(0)} :
          LET left == nLock[p] + r.taken - 1 IN
          /\ nLock' = [nLock EXCEPT ![p] = left]
          /\ nUnused' = IF left = 0 THEN [nUnused EXCEPT ![p] = 0] ELSE nUnused
          /\ klock' = IF left = 0 /\ nUnused[p] > 0 THEN DropLocks(r.table, p) ELSE r.table
    BY <1>7, <2>2, Zenon DEF UnlockFile
  <2>4. r.table \in Tables /\ \A q \in Process : q # p => r.table[q] = klock[q]
    <3>1. CASE r \in FileLock(h, Byte, F_UNLCK)
      BY <1>0, <2>2, <3>1, FileLockRow
    <3>2. CASE r = NoChange(0)
      BY <2>2, <3>2, TablesTyped DEF NoChange
    <3>3. QED
      BY <2>3, <3>1, <3>2
  <2>5. \A q \in Process : q # p => klock'[q] = klock[q]
    BY <2>2, <2>3, <2>4, DropLocksFacts
  <2>6. nLock \in [Process -> Int] /\ nUnused \in [Process -> Nat]
    BY <2>2 DEF CountInv, Typed
  <2>7. OnProcess(p)
    BY <2>1, <2>2, <2>3, <2>5, <2>6 DEF OnProcess
  <2>8. nLock' \in [Process -> Nat]
    BY CountInvTypeOKNext DEF TypeOK
  <2>9. nUnused'[p] > 0 => nUnused[p] > 0 /\ nLock'[p] > 0
    <3>1. CASE nLock'[p] = 0
      BY <2>2, <2>3, <2>6, <3>1
    <3>2. CASE nLock'[p] # 0
      BY <2>2, <2>3, <2>6, <2>8, <3>2
    <3>3. QED
      BY <3>1, <3>2
  <2>10. QED
    BY <2>1, <2>7, <2>9, LeftInCall
<1>8. QED
  BY <1>1, <1>2, <1>3, <1>4, <1>5, <1>6, <1>7 DEF FileLockStep


(* A step that begins or ends outside the calls and leaves the inode as it *)
(* is.                                                                     *)
LEMMA LeftQuiet ==
  ASSUME LeftInv, CountInv', NEW t \in Thread, \A u \in Thread : u # t => pc'[u] = pc[u],
         pc'[t] \notin UnderBigLock,
         UNCHANGED <<klock, nUnused, nRef>>,
         nLock' = nLock \/ \A q \in Process : nLock[q] > 0 => nLock'[q] > 0
  PROVE  LeftInv'
<1>1. BigApart'
  BY DEF LeftInv, BigApart
<1>2. ASSUME NEW q \in Process PROVE LeftOK(q)'
  <2>1. LeftOK(q)
    BY DEF LeftInv
  <2>2. QED
    BY <2>1 DEF LeftOK, Clean
<1>3. ASSUME NEW u \in Thread PROVE ClosingOK(u)'
  <2>1. ClosingOK(u)
    BY DEF LeftInv
  <2>2. CASE u = t
    BY <2>2 DEF ClosingOK, UnderBigLock
  <2>3. CASE u # t
    BY <2>1, <2>3 DEF ClosingOK, Clean
  <2>4. QED
    BY <2>2, <2>3
<1>4. QED
  BY <1>1, <1>2, <1>3 DEF LeftInv

(* A step of t while no other thread of its process is closing a handle.   *)
LEMMA LeftAlone ==
  ASSUME LeftInv, CountInv', NEW t \in Thread, \A u \in Thread : u # t => pc'[u] = pc[u],
         NEW p, p = ProcOf[t], OnProcess(p), LeftOK(p)', ClosingOK(t)',
         \A u \in Thread : u # t /\ ProcOf[u] = p => pc[u] \notin UnderBigLock
  PROVE  LeftInv'
<1>1. p \in Process
  BY UnixLockAssumption
<1>2. \A u \in Thread : ProcOf[u] = p => ClosingOK(u)'
  BY DEF ClosingOK, UnderBigLock
<1>3. QED
  BY <1>1, <1>2, LeftStep

LEMMA OpenDescriptorLeft ==
  ASSUME LeftInv, CountInv', NEW t \in Thread, NEW h \in Handle, OpenDescriptor(t, h)
  PROVE  LeftInv'
<1> DEFINE p == ProcOf[t]
<1>1. ProcOf[h] = p /\ p \in Process /\ klock \in Tables /\ LeftOK(p)
      /\ nUnused \in [Process -> Nat]
  BY UnixLockAssumption, TablesTyped DEF OpenDescriptor, CanCall, LeftInv, CountInv, Typed
<1>2. /\ \A u \in Thread : u # t => pc'[u] = pc[u]
      /\ pc'[t] = "attach"
  BY DEF OpenDescriptor, Call, LeftInv, CountInv, Typed
<1>3. "attach" \notin UnderBigLock /\ "attach" # "releaseDeferred"
  BY DEF UnderBigLock
<1>4. /\ UNCHANGED <<nLock, nRef>>
      /\ \/ /\ \A u \in Thread : ProcOf[u] = p => pc[u] \notin UnderBigLock
            /\ klock' = klock /\ nUnused[p] > 0 /\ nUnused' = [nUnused EXCEPT ![p] = @ - 1]
         \/ nUnused' = nUnused /\ (klock' = klock \/ klock' = DropLocks(klock, p))
  BY <1>1 DEF OpenDescriptor, AfterRobustOpen, BigLockFree
<1>5. \A q \in Process : q # p => klock'[q] = klock[q] /\ nUnused'[q] = nUnused[q]
  BY <1>1, <1>4, DropLocksFacts
<1>6. OnProcess(p)
  BY <1>4, <1>5 DEF OnProcess
<1>7. LeftOK(p)'
  <2>1. nUnused'[p] > 0 => nUnused[p] > 0
    BY <1>1, <1>4
  <2>2. Clean(p) => Clean(p)'
    BY <1>1, <1>4 DEF Clean, DropLocks, NoLocks, Tables
  <2>3. QED
    BY <1>1, <1>4, <2>1, <2>2 DEF LeftOK
<1>8. ASSUME NEW u \in Thread, ProcOf[u] = p, u # t PROVE ClosingOK(u)'
  <2>1. ClosingOK(u) /\ pc'[u] = pc[u]
    BY <1>2, <1>8 DEF LeftInv
  <2>2. Clean(p) => Clean(p)'
    BY <1>1, <1>4 DEF Clean, DropLocks, NoLocks, Tables
  <2>3. CASE nUnused' = nUnused
    BY <1>4, <1>8, <2>1, <2>2, <2>3 DEF ClosingOK
  <2>4. CASE pc[u] \notin UnderBigLock
    BY <2>1, <2>4 DEF ClosingOK, UnderBigLock
  <2>5. QED
    BY <1>4, <1>8, <2>3, <2>4
<1>9. \A u \in Thread : ProcOf[u] = p => ClosingOK(u)'
  BY <1>2, <1>3, <1>8 DEF ClosingOK
<1>10. \A u, w \in Thread :
         u # w /\ ProcOf[u] = p /\ ProcOf[w] = p => ~(pc'[u] \in UnderBigLock /\ pc'[w] \in UnderBigLock)
  BY <1>2, <1>3 DEF LeftInv, BigApart
<1>11. \A u \in Thread : ProcOf[u] # p => pc'[u] = pc[u]
  BY <1>2
<1>12. QED
  BY <1>1, <1>6, <1>7, <1>9, <1>10, <1>11, LeftStep

LEMMA AttachLeft ==
  ASSUME LeftInv, CountInv', NEW t \in Thread, Attach(t)
  PROVE  LeftInv'
<1> DEFINE p == ProcOf[t]
<1>1. pc[t] = "attach" /\ Return(t)
  BY DEF Attach
<1>2. /\ ProcOf[on[t]] = p /\ p \in Process /\ klock \in Tables /\ LeftOK(p)
      /\ nRef \in [Process -> Int] /\ nRef[p] >= 0
  <2>1. ProcOf[on[t]] = p /\ p \in Process /\ klock \in Tables /\ LeftOK(p)
    BY <1>1, InCallFacts, TablesTyped DEF LeftInv
  <2>2. TypeOK
    BY CountInvTypeOK DEF LeftInv
  <2>3. QED
    BY <2>1, <2>2 DEF TypeOK
<1>3. /\ \A u \in Thread : u # t => pc'[u] = pc[u]
      /\ pc'[t] = "idle"
  BY <1>1 DEF Return, Call, LeftInv, CountInv, Typed
<1>4. \A u \in Thread : u # t /\ ProcOf[u] = p => pc[u] \notin UnderBigLock
  BY <1>2 DEF Attach, BigLockFree
<1>5. /\ UNCHANGED <<nLock, nUnused>>
      /\ \/ nRef' = [nRef EXCEPT ![p] = @ + 1] /\ klock' = klock
         \/ nRef' = nRef /\ klock' = DropLocks(klock, p)
  BY <1>2 DEF Attach
<1>6. \A q \in Process : q # p => klock'[q] = klock[q] /\ nRef'[q] = nRef[q]
  BY <1>2, <1>5, DropLocksFacts
<1>7. OnProcess(p)
  BY <1>5, <1>6 DEF OnProcess
<1>8. LeftOK(p)'
  <2>1. CASE nRef' = [nRef EXCEPT ![p] = @ + 1]
    <3>1. nRef'[p] > 0
      BY <1>2, <2>1
    <3>2. QED
      BY <1>2, <1>5, <3>1 DEF LeftOK
  <2>2. CASE nRef' = nRef /\ klock' = DropLocks(klock, p)
    <3>1. Clean(p)'
      BY <1>2, <2>2 DEF Clean, DropLocks, NoLocks, Tables
    <3>2. QED
      BY <1>2, <1>5, <2>2, <3>1 DEF LeftOK
  <2>3. QED
    BY <1>5, <2>1, <2>2
<1>9. QED
  BY <1>3, <1>4, <1>7, <1>8, LeftAlone DEF ClosingOK

LEMMA DeferCloseLeft ==
  ASSUME LeftInv, CountInv', NEW t \in Thread, DeferClose(t)
  PROVE  LeftInv'
<1> DEFINE p == ProcOf[t]
<1>1. pc[t] = "close"
  BY DEF DeferClose
<1>2. /\ on[t] \in Handle /\ ProcOf[on[t]] = p /\ p \in Process /\ LeftOK(p) /\ CountInv
      /\ status[on[t]] \in Attached
      /\ nUnused \in [Process -> Nat] /\ pc \in [Thread -> Steps]
  BY <1>1, InCallFacts DEF LeftInv, CountInv, StepsOK, StepOK, Attached, Typed
<1>3. nRef[p] > 0
  BY <1>2, OneAttached
<1>4. /\ UNCHANGED <<klock, nLock, nRef>>
      /\ \A u \in Thread : u # t /\ ProcOf[u] = p => pc[u] \notin UnderBigLock
      /\ \/ /\ nLock[p] > 0 /\ nUnused' = [nUnused EXCEPT ![p] = @ + 1]
            /\ pc' = [pc EXCEPT ![t] = "releaseDeferred"]
         \/ nUnused' = nUnused /\ pc' = [pc EXCEPT ![t] = "release"]
  BY <1>2 DEF DeferClose, LocksOutstanding, BigLockFree, Goto
<1>5. /\ \A u \in Thread : u # t => pc'[u] = pc[u]
      /\ \A q \in Process : q # p => nUnused'[q] = nUnused[q]
  BY <1>2, <1>4
<1>6. OnProcess(p)
  BY <1>4, <1>5 DEF OnProcess
<1>7. LeftOK(p)' /\ ClosingOK(t)'
  <2>1. CASE nLock[p] > 0 /\ nUnused' = [nUnused EXCEPT ![p] = @ + 1]
    <3>1. nUnused'[p] > 0 /\ nRef'[p] > 0 /\ nLock'[p] > 0 /\ nRef'[p] # 0
      <4>1. nUnused[p] \in Nat /\ nUnused'[p] = nUnused[p] + 1
        BY <1>2, <2>1
      <4>2. QED
        BY <1>3, <1>4, <2>1, <4>1
    <3>2. QED
      BY <3>1 DEF LeftOK, ClosingOK
  <2>2. CASE nUnused' = nUnused /\ pc' = [pc EXCEPT ![t] = "release"]
    BY <1>2, <1>4, <2>2 DEF LeftOK, ClosingOK, Clean
  <2>3. QED
    BY <1>4, <2>1, <2>2
<1>8. QED
  BY <1>4, <1>5, <1>6, <1>7, LeftAlone

LEMMA ReleaseLeft ==
  ASSUME LeftInv, CountInv', NEW t \in Thread, Release(t)
  PROVE  LeftInv'
<1> DEFINE h == on[t]
           p == ProcOf[t]
           last == nRef[p] = 1
<1>1. pc[t] \in {"release", "releaseDeferred"} /\ pc[t] \in UnderBigLock /\ Return(t)
  BY DEF Release, UnderBigLock
<1>2. /\ h \in Handle /\ ProcOf[h] = p /\ p \in Process /\ LeftOK(p) /\ ClosingOK(t) /\ CountInv
      /\ status[h] \in Attached /\ klock \in Tables
      /\ nUnused \in [Process -> Nat] /\ nRef \in [Process -> Int] /\ nLock \in [Process -> Int]
  BY <1>1, InCallFacts, TablesTyped
  DEF LeftInv, CountInv, StepsOK, StepOK, Attached, Typed, UnderBigLock
<1>3. nRef[p] > 0
  BY <1>2, OneAttached
<1>4. /\ nRef' = [nRef EXCEPT ![p] = @ - 1]
      /\ nLock' = IF last THEN [nLock EXCEPT ![p] = 0] ELSE nLock
      /\ nUnused' = IF last THEN [nUnused EXCEPT ![p] = 0] ELSE nUnused
      /\ klock' = IF ClosesFd(t) THEN DropLocks(klock, p) ELSE klock
  BY <1>2 DEF Release
<1>5. /\ \A u \in Thread : u # t => pc'[u] = pc[u]
      /\ pc'[t] = "idle"
  BY <1>1 DEF Return, Call, LeftInv, CountInv, Typed
<1>6. OnProcess(p)
  <2>1. \A q \in Process : q # p => klock'[q] = klock[q]
    BY <1>2, <1>4, DropLocksFacts
  <2>2. \A q \in Process : q # p => nLock'[q] = nLock[q] /\ nUnused'[q] = nUnused[q] /\ nRef'[q] = nRef[q]
    BY <1>2, <1>4
  <2>3. QED
    BY <2>1, <2>2 DEF OnProcess
<1>7. \A u \in Thread : u # t /\ ProcOf[u] = p => pc[u] \notin UnderBigLock
  BY <1>1 DEF LeftInv, BigApart
<1>8. LeftOK(p)'
  <2>1. CASE ~last
    <3>1. nRef'[p] > 0 /\ nLock' = nLock /\ nUnused' = nUnused
      BY <1>2, <1>3, <1>4, <2>1
    <3>2. QED
      BY <1>2, <3>1 DEF LeftOK
  <2>2. CASE last
    <3>1. nUnused'[p] = 0
      BY <1>2, <1>4, <2>2
    <3>2. Clean(p)'
      <4>1. CASE ClosesFd(t)
        BY <1>2, <1>4, <4>1 DEF Clean, DropLocks, NoLocks, Tables
      <4>2. CASE ~ClosesFd(t)
        BY <1>1, <1>2, <1>4, <2>2, <4>2 DEF ClosesFd, ClosingOK, Clean
      <4>3. QED
        BY <4>1, <4>2
    <3>3. QED
      BY <3>1, <3>2 DEF LeftOK
  <2>3. QED
    BY <2>1, <2>2
<1>9. QED
  BY <1>5, <1>6, <1>7, <1>8, LeftAlone DEF ClosingOK

LEMMA CrashLeft ==
  ASSUME LeftInv, CountInv', NEW p \in Process, Crash(p)
  PROVE  LeftInv'
<1>1. /\ klock \in Tables /\ nLock \in [Process -> Int] /\ nUnused \in [Process -> Nat]
      /\ nRef \in [Process -> Int]
  BY TablesTyped DEF LeftInv, CountInv, Typed
<1>2. /\ klock' = DropLocks(klock, p) /\ nLock' = [nLock EXCEPT ![p] = 0]
      /\ nUnused' = [nUnused EXCEPT ![p] = 0] /\ nRef' = [nRef EXCEPT ![p] = 0]
  BY DEF Crash
<1>3. \A u \in Thread : pc'[u] = IF ProcOf[u] = p THEN "idle" ELSE pc[u]
  BY DEF Crash, LeftInv, CountInv, Typed
<1>4. OnProcess(p)
  BY <1>1, <1>2, DropLocksFacts DEF OnProcess
<1>5. LeftOK(p)'
  BY <1>1, <1>2 DEF LeftOK, Clean, DropLocks, NoLocks, Tables
<1>6. /\ \A u \in Thread : ProcOf[u] = p => ClosingOK(u)'
      /\ \A t, u \in Thread : t # u /\ ProcOf[t] = p => ~(pc'[t] \in UnderBigLock /\ pc'[u] \in UnderBigLock)
  BY <1>3 DEF ClosingOK, UnderBigLock
<1>7. QED
  BY <1>3, <1>4, <1>5, <1>6, LeftStep

LEMMA BeginLeft ==
  ASSUME LeftInv, CountInv', NEW t \in Thread, NEW h \in Handle, Begin(t, h)
  PROVE  LeftInv'
<1>1. CASE OpenDescriptor(t, h)
  BY <1>1, OpenDescriptorLeft
<1>2. CASE LockSharedAgain(t, h)
  <2>1. /\ UNCHANGED <<klock, nUnused, nRef, pc>> /\ pc[t] = "idle"
        /\ nLock' = [nLock EXCEPT ![ProcOf[h]] = @ + 1]
    BY <1>2 DEF LockSharedAgain, CanLock, CanCall, callVars
  <2>2. \A q \in Process : nLock[q] > 0 => nLock'[q] > 0
    BY <2>1, UnixLockAssumption DEF LeftInv, CountInv, Typed
  <2>3. QED
    BY <2>1, <2>2, LeftQuiet DEF UnderBigLock
<1>3. ASSUME NEW step \in UnderLockMutex \cup {"close"}, NEW level, Call(t, h, step, level),
             UNCHANGED <<klock, inodeVars>>
      PROVE  LeftInv'
  <2>1. (\A u \in Thread : u # t => pc'[u] = pc[u]) /\ pc'[t] = step
    BY <1>3 DEF Call, LeftInv, CountInv, Typed
  <2>2. step \notin UnderBigLock
    BY DEF UnderLockMutex, UnderBigLock
  <2>3. QED
    BY <1>3, <2>1, <2>2, LeftQuiet DEF inodeVars
<1>4. \A level : FirstUnlockStep(h, level) \in UnderLockMutex
  BY DEF FirstUnlockStep, UnderLockMutex
<1>5. ASSUME NEW level, Lock(t, h, level) PROVE LeftInv'
  <2>1. /\ Call(t, h, "pending", level) \/ Call(t, h, "write", level)
        /\ UNCHANGED <<klock, inodeVars>>
    BY <1>5 DEF Lock
  <2>2. {"pending", "write"} \subseteq UnderLockMutex
    BY DEF UnderLockMutex
  <2>3. QED
    BY <1>3, <2>1, <2>2
<1>6. ASSUME NEW level, Unlock(t, h, level) PROVE LeftInv'
  BY <1>3, <1>4, <1>6 DEF Unlock
<1>7. CASE Close(t, h)
  BY <1>3, <1>4, <1>7 DEF Close
<1>8. QED
  BY <1>1, <1>2, <1>5, <1>6, <1>7 DEF Begin

LEMMA NextLeft ==
  ASSUME LeftInv, [Next]_vars
  PROVE  LeftInv'
<1>1. CountInv'
  BY NextCountInv DEF LeftInv
<1>2. ASSUME NEW t \in Thread, ThreadStep(t) PROVE LeftInv'
  BY <1>1, <1>2, FileLockStepLeft, DeferCloseLeft, ReleaseLeft, AttachLeft DEF ThreadStep
<1>3. ASSUME NEW t \in Thread, NEW h \in Handle, Begin(t, h) PROVE LeftInv'
  BY <1>1, <1>3, BeginLeft
<1>4. ASSUME NEW p \in Process, Crash(p) PROVE LeftInv'
  BY <1>1, <1>4, CrashLeft
<1>5. CASE UNCHANGED vars
  <2>1. UNCHANGED <<klock, nLock, nUnused, nRef, pc>>
    BY <1>5 DEF vars, inodeVars, callVars
  <2>2. QED
    BY <1>1, <2>1 DEF LeftInv, BigApart, LeftOK, ClosingOK, Clean
<1>6. QED
  BY <1>2, <1>3, <1>4, <1>5 DEF Next

(* A process that has closed all its connections holds no lock on the      *)
(* database file, even if an unlock failed on the way; and descriptors     *)
(* pile up on pUnused only while a lock is outstanding.                    *)
THEOREM NothingLeft == Spec => []NoLeftovers
<1>1. LeftInv /\ [Next]_vars => LeftInv'
  BY NextLeft
<1>2. LeftInv => NoLeftovers
  <2> SUFFICES ASSUME LeftInv, NEW p \in Process
               PROVE  /\ nUnused[p] > 0 => nLock[p] > 0 /\ nRef[p] > 0
                      /\ (\A h \in HandlesOf(p) : status[h] \in {"closed", "opening"}) => klock[p] = NoLocks(Byte)
    BY DEF NoLeftovers
  <2>1. LeftOK(p) /\ CountOK(p)
    BY DEF LeftInv, CountInv, CountsOK
  <2>2. ASSUME \A h \in HandlesOf(p) : status[h] \in {"closed", "opening"} PROVE klock[p] = NoLocks(Byte)
    <3>1. Members(status, Attached, p) = {}
      BY <2>2 DEF Members, Attached, HandlesOf
    <3>2. nRef[p] = 0
      BY <2>1, <3>1, FS_EmptySet DEF CountOK
    <3>3. QED
      BY <2>1, <3>2 DEF LeftOK, Clean
  <2>3. QED
    BY <2>1, <2>2 DEF LeftOK
<1>3. Init => LeftInv
  <2> SUFFICES ASSUME Init PROVE LeftInv
    OBVIOUS
  <2>1. CountInv
    BY InitCountInv
  <2>2. QED
    BY <2>1 DEF Init, LeftInv, LeftOK, Clean, ClosingOK, BigApart, UnderBigLock
<1>4. QED
  BY <1>1, <1>2, <1>3, PTL DEF Spec

(***************************************************************************)
(* The books of unixInodeInfo: over BackInv, nShared counts the holders    *)
(* exactly, a level above SHARED is some handle's, and a handle that is    *)
(* being closed has been unlocked.                                         *)
(***************************************************************************)
Exact(p) == nShared[p] = Cardinality(Members(eFileLock, SomeLock, p))

Top(p) == iLock[p] > SHARED_LOCK => \E h \in Handle : ProcOf[h] = p /\ eFileLock[h] = iLock[p]

UnlockedOK(t) ==
  /\ pc[t] \in UnderBigLock \cup {"close"} => eFileLock[on[t]] = NO_LOCK
  /\ pc[t] \in Unlocking /\ status[on[t]] = "closing" => req[t] = NO_LOCK
  /\ pc[t] = "unlckFile" /\ eFileLock[on[t]] > SHARED_LOCK => iLock[ProcOf[t]] = SHARED_LOCK

BooksOK ==
  /\ \A p \in Process : Exact(p) /\ Top(p)
  /\ \A t \in Thread : UnlockedOK(t)

LEMMA BooksStep ==
  ASSUME BackInv, BooksOK, NEW t \in Thread, NEW h, OnHandle(t, h), NEW p, p = ProcOf[t],
         \A q \in Process : q # p => nShared'[q] = nShared[q],
         \A g \in Handle : g # h => status'[g] = status[g],
         Alone(t) \/ iLock'[p] = iLock[p],
         Exact(p)', Top(p)', UnlockedOK(t)'
  PROVE  BooksOK'
<1>0. h \in Handle /\ ProcOf[h] = p /\ p \in Process
  BY UnixLockAssumption DEF OnHandle
<1>1. ASSUME NEW q \in Process, q # p PROVE Exact(q)' /\ Top(q)'
  <2>1. /\ Exact(q) /\ Top(q) /\ iLock'[q] = iLock[q] /\ nShared'[q] = nShared[q]
        /\ \A g \in Handle : ProcOf[g] = q => eFileLock'[g] = eFileLock[g]
    BY <1>0, <1>1 DEF BooksOK, OnHandle
  <2>2. Members(eFileLock', SomeLock, q) = Members(eFileLock, SomeLock, q)
    BY <2>1, MembersOther
  <2>3. QED
    BY <2>1, <2>2 DEF Exact, Top
<1>2. ASSUME NEW u \in Thread, u # t PROVE UnlockedOK(u)'
  <2>1. UnlockedOK(u) /\ pc'[u] = pc[u] /\ on'[u] = on[u] /\ req'[u] = req[u] /\ on[u] # h
    BY <1>2 DEF OnHandle, BooksOK
  <2>2. CASE pc[u] = "idle"
    BY <2>1, <2>2 DEF UnlockedOK, Unlocking, UnderBigLock
  <2>3. CASE pc[u] # "idle"
    <3>1. /\ ProcOf[u] \in Process
          /\ eFileLock'[on[u]] = eFileLock[on[u]] /\ status'[on[u]] = status[on[u]]
      BY <2>1, <2>3, InCallFacts DEF OnHandle, BackInv
    <3>2. pc[u] = "unlckFile" => iLock'[ProcOf[u]] = iLock[ProcOf[u]]
      <4>1. CASE ProcOf[u] = p
        BY <1>2, <4>1 DEF Alone, UnderLockMutex
      <4>2. CASE ProcOf[u] # p
        BY <3>1, <4>2 DEF OnHandle
      <4>3. QED
        BY <4>1, <4>2
    <3>3. QED
      BY <2>1, <3>1, <3>2 DEF UnlockedOK
  <2>4. QED
    BY <2>2, <2>3
<1>3. \A q \in Process : Exact(q)' /\ Top(q)'
  BY <1>1
<1>4. \A u \in Thread : UnlockedOK(u)'
  BY <1>2
<1>5. QED
  BY <1>3, <1>4 DEF BooksOK

(* The handle keeps, gets or loses its lock, and nShared follows.          *)
LEMMA ExactFollows ==
  ASSUME BackInv, CountInv', NEW t \in Thread, NEW h, OnHandle(t, h), NEW p, p = ProcOf[t],
         Exact(p),
         \/ nShared'[p] = nShared[p] /\ (eFileLock'[h] = NO_LOCK <=> eFileLock[h] = NO_LOCK)
         \/ nShared'[p] = nShared[p] + 1 /\ eFileLock[h] = NO_LOCK /\ eFileLock'[h] # NO_LOCK
         \/ nShared'[p] = nShared[p] - 1 /\ eFileLock[h] # NO_LOCK /\ eFileLock'[h] = NO_LOCK
  PROVE  Exact(p)'
<1>0. /\ h \in Handle /\ ProcOf[h] = p
      /\ \A g \in Handle : g # h => eFileLock'[g] = eFileLock[g]
      /\ eFileLock[h] \in SomeLock <=> eFileLock[h] # NO_LOCK
      /\ eFileLock'[h] \in SomeLock <=> eFileLock'[h] # NO_LOCK
  BY DEF OnHandle, SomeLock, BackInv, CountInv, Typed
<1>1. CASE nShared'[p] = nShared[p] /\ (eFileLock'[h] = NO_LOCK <=> eFileLock[h] = NO_LOCK)
  <2>1. \A g \in Handle : eFileLock'[g] \in SomeLock <=> eFileLock[g] \in SomeLock
    BY <1>0, <1>1
  <2>2. Members(eFileLock', SomeLock, p) = Members(eFileLock, SomeLock, p)
    BY <2>1, MembersOther
  <2>3. QED
    BY <1>1, <2>2 DEF Exact
<1>2. CASE nShared'[p] = nShared[p] + 1 /\ eFileLock[h] = NO_LOCK /\ eFileLock'[h] # NO_LOCK
  <2>1. Cardinality(Members(eFileLock', SomeLock, p)) = Cardinality(Members(eFileLock, SomeLock, p)) + 1
    BY <1>0, <1>2, MembersUp
  <2>2. QED
    BY <1>2, <2>1 DEF Exact
<1>3. CASE nShared'[p] = nShared[p] - 1 /\ eFileLock[h] # NO_LOCK /\ eFileLock'[h] = NO_LOCK
  <2>1. Cardinality(Members(eFileLock', SomeLock, p)) = Cardinality(Members(eFileLock, SomeLock, p)) - 1
    BY <1>0, <1>3, MembersDown
  <2>2. QED
    BY <1>3, <2>1 DEF Exact
<1>4. QED
  BY <1>1, <1>2, <1>3

(* A step of a lock or unlock call.                                        *)
LEMMA BooksCallStep ==
  ASSUME BackInv, BooksOK, NEW t \in Thread, pc[t] \in UnderLockMutex, CountInv',
         NEW h, h = on[t], NEW p, p = ProcOf[t], CallGoesOn(t),
         \A q \in Process : q # p => nShared'[q] = nShared[q] /\ iLock'[q] = iLock[q],
         \A g \in Handle : g # h => eFileLock'[g] = eFileLock[g],
         status' = status,
         \/ nShared'[p] = nShared[p] /\ (eFileLock'[h] = NO_LOCK <=> eFileLock[h] = NO_LOCK)
         \/ nShared'[p] = nShared[p] + 1 /\ eFileLock[h] = NO_LOCK /\ eFileLock'[h] # NO_LOCK
         \/ nShared'[p] = nShared[p] - 1 /\ eFileLock[h] # NO_LOCK /\ eFileLock'[h] = NO_LOCK,
         \/ ~(iLock'[p] > SHARED_LOCK) \/ eFileLock'[h] = iLock'[p]
         \/ iLock'[p] = iLock[p] /\ eFileLock[h] # iLock[p],
         UnlockedOK(t)'
  PROVE  BooksOK'
<1>1. h \in Handle /\ ProcOf[h] = p /\ p \in Process /\ Alone(t) /\ \A u \in Thread : u # t => on[u] # h
  BY InLockCall
<1>2. OnHandle(t, h)
  BY <1>1, CallOn DEF OnHandle, BackInv
<1>3. Exact(p) /\ Top(p)
  BY <1>1 DEF BooksOK
<1>4. Exact(p)'
  BY <1>2, <1>3, ExactFollows
<1>5. Top(p)'
  <2>1. CASE ~(iLock'[p] > SHARED_LOCK) \/ eFileLock'[h] = iLock'[p]
    BY <1>1, <2>1 DEF Top
  <2>2. CASE iLock'[p] = iLock[p] /\ eFileLock[h] # iLock[p]
    <3>1. SUFFICES ASSUME iLock[p] > SHARED_LOCK
                   PROVE  \E g \in Handle : ProcOf[g] = p /\ eFileLock'[g] = iLock'[p]
      BY <2>2 DEF Top
    <3>2. PICK g \in Handle : ProcOf[g] = p /\ eFileLock[g] = iLock[p]
      BY <1>3, <3>1 DEF Top
    <3>3. QED
      BY <2>2, <3>2
  <2>3. QED
    BY <2>1, <2>2
<1>6. QED
  BY <1>1, <1>2, <1>4, <1>5, BooksStep

(* The caller returns to the pager, or to unixClose with the handle        *)
(* unlocked.                                                               *)
LEMMA ReturnBooks ==
  ASSUME CountInv, NEW t \in Thread, \/ Return(t)
                                     \/ Call(t, on[t], "close", NO_LOCK) /\ eFileLock'[on[t]] = NO_LOCK
  PROVE  UnlockedOK(t)'
<1>1. pc'[t] = "idle" \/ (pc'[t] = "close" /\ on'[t] = on[t] /\ eFileLock'[on[t]] = NO_LOCK)
  BY DEF Return, Call, CountInv, Typed
<1>2. QED
  BY <1>1 DEF UnlockedOK, UnderBigLock, Unlocking

LEMMA LockingBooks ==
  ASSUME BackInv, BooksOK, CountInv', NEW t \in Thread,
         LockPendingByte(t) \/ LockSharedRange(t) \/ LockForWrite(t)
  PROVE  BooksOK'
<1> DEFINE h == on[t]
           p == ProcOf[t]
<1>1. pc[t] \in {"pending", "shared", "write"} /\ pc[t] \in UnderLockMutex /\ pc[t] \in Locking
  BY DEF LockPendingByte, LockSharedRange, LockForWrite, UnderLockMutex, Locking
<1>2. /\ h \in Handle /\ ProcOf[h] = p /\ p \in Process /\ StepOK(t) /\ Top(p)
      /\ eFileLock[h] \in Level /\ req[t] \in Level
  BY <1>1, InLockCall DEF BooksOK
<1>3. /\ nShared' = nShared /\ status' = status
      /\ \/ UNCHANGED <<iLock, eFileLock>> /\ (Goto(t, "shared") \/ Goto(t, "write")
              \/ Goto(t, "unpend") \/ Goto(t, "unpendFail") \/ Return(t))
         \/ SetLevel(h, PENDING_LOCK) /\ Return(t) /\ req[t] = EXCLUSIVE_LOCK
         \/ SetLevel(h, req[t]) /\ Return(t) /\ pc[t] = "write"
  <2>1. CASE LockPendingByte(t)
    BY <2>1, Zenon DEF LockPendingByte
  <2>2. CASE LockSharedRange(t)
    BY <2>2, Zenon DEF LockSharedRange, fileVars
  <2>3. CASE LockForWrite(t)
    BY <2>3, Zenon DEF LockForWrite
  <2>4. QED
    BY <2>1, <2>2, <2>3
<1>4. CallGoesOn(t)
  BY <1>3 DEF CallGoesOn, UnderLockMutex
<1>5. UnlockedOK(t)'
  <2>1. CASE Return(t)
    BY <2>1, ReturnBooks DEF BackInv
  <2>2. ASSUME NEW step \in {"shared", "write", "unpend", "unpendFail"}, Goto(t, step) PROVE UnlockedOK(t)'
    <3>1. pc'[t] = step
      BY <2>2 DEF Goto, BackInv, CountInv, Typed
    <3>2. QED
      BY <3>1 DEF UnlockedOK, UnderBigLock, Unlocking
  <2>3. QED
    BY <1>3, <2>1, <2>2
<1>6. CASE UNCHANGED <<iLock, eFileLock>>
  <2>1. OnHandle(t, h)
    BY <1>1, <1>2, <1>4, <1>6, CallOn, InLockCall DEF OnHandle, BackInv
  <2>2. Top(p)'
    BY <1>2, <1>6 DEF Top
  <2>3. Exact(p)'
    BY <1>2, <1>3, <1>6 DEF BooksOK, Exact
  <2>4. QED
    BY <1>3, <1>5, <1>6, <2>1, <2>2, <2>3, BooksStep
<1>7. ASSUME NEW level \in SomeLock, SetLevel(h, level), eFileLock[h] # NO_LOCK PROVE BooksOK'
  <2>1. /\ eFileLock'[h] = level /\ iLock'[p] = level /\ level # NO_LOCK
        /\ \A g \in Handle : g # h => eFileLock'[g] = eFileLock[g]
        /\ \A q \in Process : q # p => iLock'[q] = iLock[q]
    BY <1>2, <1>7, SetLevelFacts DEF BackInv, SomeLock
  <2>2. QED
    BY <1>1, <1>3, <1>4, <1>5, <1>7, <2>1, BooksCallStep
<1>8. /\ PENDING_LOCK \in SomeLock
      /\ pc[t] = "write" => req[t] \in SomeLock /\ req[t] # SHARED_LOCK
      /\ req[t] = EXCLUSIVE_LOCK => req[t] # SHARED_LOCK
  BY <1>2 DEF StepOK, SomeLock, Level, NO_LOCK, SHARED_LOCK, RESERVED_LOCK, PENDING_LOCK, EXCLUSIVE_LOCK
<1>9. req[t] # SHARED_LOCK => eFileLock[h] # NO_LOCK
  BY <1>1, <1>2 DEF StepOK
<1>10. QED
  BY <1>3, <1>6, <1>7, <1>8, <1>9

LEMMA DropPendingByteBooks ==
  ASSUME BackInv, BooksOK, CountInv', NEW t \in Thread, DropPendingByte(t)
  PROVE  BooksOK'
<1> DEFINE h == on[t]
           p == ProcOf[t]
<1>1. pc[t] \in {"unpend", "unpendFail"} /\ pc[t] \in UnderLockMutex /\ pc[t] \in Locking
  BY DEF DropPendingByte, UnderLockMutex, Locking
<1>2. /\ h \in Handle /\ ProcOf[h] = p /\ p \in Process /\ StepOK(t) /\ Top(p) /\ InodeOK(p)
  BY <1>1, InLockCall DEF BooksOK, BackInv
<1>3. /\ status' = status /\ Return(t)
      /\ \/ SetLevel(h, SHARED_LOCK) /\ nShared' = [nShared EXCEPT ![p] = 1]
         \/ UNCHANGED <<iLock, eFileLock, nShared>>
  BY <1>2, Zenon DEF DropPendingByte
<1>4. CallGoesOn(t) /\ UnlockedOK(t)'
  BY <1>3, ReturnBooks DEF CallGoesOn, BackInv
<1>5. eFileLock[h] = NO_LOCK /\ iLock[p] = NO_LOCK /\ nShared[p] = 0
  BY <1>1, <1>2 DEF StepOK, InodeOK
<1>6. CASE SetLevel(h, SHARED_LOCK) /\ nShared' = [nShared EXCEPT ![p] = 1]
  <2>1. /\ eFileLock'[h] = SHARED_LOCK /\ iLock'[p] = SHARED_LOCK
        /\ \A g \in Handle : g # h => eFileLock'[g] = eFileLock[g]
        /\ \A q \in Process : q # p => iLock'[q] = iLock[q]
    BY <1>2, <1>6, SetLevelFacts DEF BackInv, Level, NO_LOCK, SHARED_LOCK, EXCLUSIVE_LOCK
  <2>2. nShared'[p] = nShared[p] + 1 /\ \A q \in Process : q # p => nShared'[q] = nShared[q]
    BY <1>2, <1>5, <1>6 DEF BackInv, CountInv, Typed
  <2>3. eFileLock'[h] # NO_LOCK
    BY <2>1 DEF NO_LOCK, SHARED_LOCK
  <2>4. QED
    BY <1>1, <1>3, <1>4, <1>5, <2>1, <2>2, <2>3, BooksCallStep
<1>7. CASE UNCHANGED <<iLock, eFileLock, nShared>>
  <2>1. ~(iLock'[p] > SHARED_LOCK)
    BY <1>5, <1>7 DEF NO_LOCK, SHARED_LOCK
  <2>2. QED
    BY <1>1, <1>3, <1>4, <1>7, <2>1, BooksCallStep
<1>8. QED
  BY <1>3, <1>6, <1>7

LEMMA DemoteSharedRangeBooks ==
  ASSUME BackInv, BooksOK, CountInv', NEW t \in Thread, DemoteSharedRange(t)
  PROVE  BooksOK'
<1> DEFINE h == on[t]
           p == ProcOf[t]
<1>1. pc[t] = "demote" /\ pc[t] \in UnderLockMutex /\ pc[t] \in Unlocking
  BY DEF DemoteSharedRange, UnderLockMutex, Unlocking
<1>2. /\ h \in Handle /\ ProcOf[h] = p /\ p \in Process /\ StepOK(t) /\ CallOK(t)
      /\ Top(p) /\ Exact(p) /\ UnlockedOK(t)
  BY <1>1, InLockCall DEF BooksOK
<1>3. req[t] = SHARED_LOCK /\ status[h] # "closing"
  BY <1>1, <1>2 DEF CallOK, UnlockedOK, NO_LOCK, SHARED_LOCK
<1>4. /\ UNCHANGED <<iLock, nShared, eFileLock, status>>
      /\ Goto(t, "unlckBytes") \/ Return(t)
  BY <1>3, Zenon DEF DemoteSharedRange, fileVars, ReturnFromUnlock
<1>5. CallGoesOn(t)
  BY <1>4 DEF CallGoesOn, UnderLockMutex
<1>6. UnlockedOK(t)'
  <2>1. CASE Return(t)
    BY <2>1, ReturnBooks DEF BackInv
  <2>2. CASE Goto(t, "unlckBytes")
    <3>1. pc'[t] = "unlckBytes" /\ on'[t] = h
      BY <2>2 DEF Goto, BackInv, CountInv, Typed
    <3>2. QED
      BY <1>3, <1>4, <3>1 DEF UnlockedOK, UnderBigLock, Unlocking
  <2>3. QED
    BY <1>4, <2>1, <2>2
<1>7. OnHandle(t, h)
  BY <1>1, <1>2, <1>4, <1>5, CallOn, InLockCall DEF OnHandle, BackInv
<1>8. Top(p)' /\ Exact(p)'
  BY <1>2, <1>4 DEF Top, Exact
<1>9. QED
  BY <1>4, <1>6, <1>7, <1>8, BooksStep


(* A step after which the locks and their counter are what they were.      *)
LEMMA QuietBooks ==
  ASSUME BackInv, BooksOK, CountInv', NEW t \in Thread, NEW h, OnHandle(t, h),
         \A g \in Handle : g # h => status'[g] = status[g],
         nShared' = nShared, iLock' = iLock, eFileLock'[h] = eFileLock[h],
         UnlockedOK(t)'
  PROVE  BooksOK'
<1> DEFINE p == ProcOf[t]
<1>1. h \in Handle /\ p \in Process /\ Exact(p) /\ Top(p)
  BY UnixLockAssumption DEF OnHandle, BooksOK
<1>2. Exact(p)'
  BY <1>1, ExactFollows
<1>3. \A g \in Handle : eFileLock'[g] = eFileLock[g]
  BY DEF OnHandle
<1>4. Top(p)'
  BY <1>1, <1>3 DEF Top
<1>5. QED
  BY <1>1, <1>2, <1>4, BooksStep

LEMMA UnlockWriterBytesBooks ==
  ASSUME Regular, BackInv, BooksOK, CountInv', NEW t \in Thread, UnlockWriterBytes(t)
  PROVE  BooksOK'
<1> DEFINE h == on[t]
           p == ProcOf[t]
<1>1. pc[t] = "unlckBytes" /\ pc[t] \in UnderLockMutex /\ pc[t] \in Unlocking
  BY DEF UnlockWriterBytes, UnderLockMutex, Unlocking
<1>2. /\ h \in Handle /\ ProcOf[h] = p /\ p \in Process /\ StepOK(t) /\ CallOK(t)
      /\ UnlockedOK(t) /\ eFileLock[h] \in Level
  BY <1>1, InLockCall DEF BooksOK
<1>3. /\ eFileLock[h] > SHARED_LOCK /\ eFileLock[h] # NO_LOCK
      /\ req[t] = SHARED_LOCK => status[h] # "closing"
  BY <1>1, <1>2 DEF CallOK, UnlockedOK, NO_LOCK, SHARED_LOCK
<1>4. PICK r \in FileLock(h, {"pending", "reserved"}, F_UNLCK) :
       /\ Apply(r, h, 0)
       /\ iLock' = IF r.rc = 0 THEN [iLock EXCEPT ![ProcOf[h]] = SHARED_LOCK] ELSE iLock
       /\ \/ r.rc = 0 /\ req[t] = NO_LOCK /\ Goto(t, "unlckFile") /\ UNCHANGED eFileLock
          \/ /\ r.rc = 0 /\ req[t] = SHARED_LOCK /\ ReturnFromUnlock(t)
             /\ eFileLock' = [eFileLock EXCEPT ![h] = SHARED_LOCK]
          \/ r.rc # 0 /\ ReturnFromUnlock(t) /\ UNCHANGED eFileLock
  BY DEF UnlockWriterBytes
<1>5. UNCHANGED <<nShared, nRef, status>>
  BY DEF UnlockWriterBytes
<1>6. r.rc = 0
  <2>1. {"pending", "reserved"} \in SUBSET Byte /\ F_UNLCK \in LockType
    BY DEF Byte, LockType
  <2>2. FileLockDone(r.rc, p, {"pending", "reserved"}, F_UNLCK, 0)
    BY <1>2, <1>4, <2>1, FileLocked
  <2>3. iLock[p] # NO_LOCK /\ KernelOK(p)
    BY <1>2, <1>3, HolderCounted DEF BackInv
  <2>4. ExclProcess(p) => bProcessLock[p] = 1
    BY <2>3 DEF KernelOK, ExclOK
  <2>5. QED
    BY <2>2, <2>4 DEF FileLockDone
<1>7. /\ iLock'[p] = SHARED_LOCK /\ \A q \in Process : q # p => iLock'[q] = iLock[q]
      /\ ~(iLock'[p] > SHARED_LOCK)
  BY <1>2, <1>4, <1>6 DEF BackInv, CountInv, Typed, SHARED_LOCK
<1>8. CASE Goto(t, "unlckFile") /\ UNCHANGED eFileLock /\ req[t] = NO_LOCK
  <2>1. pc'[t] = "unlckFile" /\ on'[t] = h /\ req'[t] = NO_LOCK /\ CallGoesOn(t)
    BY <1>8 DEF Goto, BackInv, CountInv, Typed, CallGoesOn, UnderLockMutex
  <2>2. UnlockedOK(t)'
    BY <1>7, <2>1 DEF UnlockedOK, UnderBigLock
  <2>3. QED
    BY <1>1, <1>5, <1>7, <1>8, <2>1, <2>2, BooksCallStep
<1>9. CASE req[t] = SHARED_LOCK /\ ReturnFromUnlock(t) /\ eFileLock' = [eFileLock EXCEPT ![h] = SHARED_LOCK]
  <2>1. Return(t)
    BY <1>3, <1>9 DEF ReturnFromUnlock
  <2>2. UnlockedOK(t)' /\ CallGoesOn(t)
    BY <2>1, ReturnBooks DEF BackInv, CallGoesOn
  <2>3. /\ eFileLock'[h] = SHARED_LOCK /\ eFileLock'[h] # NO_LOCK
        /\ \A g \in Handle : g # h => eFileLock'[g] = eFileLock[g]
    BY <1>2, <1>9 DEF BackInv, CountInv, Typed, NO_LOCK, SHARED_LOCK
  <2>4. QED
    BY <1>1, <1>3, <1>5, <1>7, <2>2, <2>3, BooksCallStep
<1>10. QED
  BY <1>4, <1>6, <1>8, <1>9

LEMMA UnlockFileBooks ==
  ASSUME Regular, BackInv, BooksOK, CountInv', NEW t \in Thread, UnlockFile(t)
  PROVE  BooksOK'
<1> DEFINE h == on[t]
           p == ProcOf[t]
<1>1. pc[t] = "unlckFile" /\ pc[t] \in UnderLockMutex /\ pc[t] \in Unlocking
  BY DEF UnlockFile, UnderLockMutex, Unlocking
<1>2. /\ h \in Handle /\ ProcOf[h] = p /\ p \in Process /\ StepOK(t)
      /\ UnlockedOK(t) /\ eFileLock[h] \in Level /\ eFileLock[h] # NO_LOCK
  BY <1>1, InLockCall DEF BooksOK, StepOK
<1>3. /\ nShared' = [nShared EXCEPT ![p] = @ - 1]
      /\ iLock' = IF nShared[p] = 1 THEN [iLock EXCEPT ![p] = NO_LOCK] ELSE iLock
      /\ eFileLock' = [eFileLock EXCEPT ![h] = NO_LOCK]
      /\ ReturnFromUnlock(t) /\ status' = status
  BY <1>2 DEF UnlockFile
<1>4. /\ nShared'[p] = nShared[p] - 1 /\ eFileLock'[h] = NO_LOCK
      /\ \A g \in Handle : g # h => eFileLock'[g] = eFileLock[g]
      /\ \A q \in Process : q # p => nShared'[q] = nShared[q] /\ iLock'[q] = iLock[q]
      /\ iLock'[p] = NO_LOCK \/ iLock'[p] = iLock[p]
  BY <1>2, <1>3 DEF BackInv, CountInv, Typed
<1>5. Return(t) \/ Call(t, h, "close", NO_LOCK)
  BY <1>3 DEF ReturnFromUnlock
<1>6. CallGoesOn(t) /\ UnlockedOK(t)'
  BY <1>4, <1>5, ReturnBooks DEF CallGoesOn, BackInv
<1>7. \/ ~(iLock'[p] > SHARED_LOCK)
      \/ iLock'[p] = iLock[p] /\ eFileLock[h] # iLock[p]
  <2>1. CASE iLock'[p] = NO_LOCK
    BY <2>1 DEF NO_LOCK, SHARED_LOCK
  <2>2. CASE iLock'[p] = iLock[p] /\ eFileLock[h] > SHARED_LOCK
    BY <1>1, <1>2, <2>2 DEF UnlockedOK, SHARED_LOCK
  <2>3. CASE iLock'[p] = iLock[p] /\ ~(eFileLock[h] > SHARED_LOCK)
    BY <2>3
  <2>4. QED
    BY <1>4, <2>1, <2>2, <2>3
<1>8. QED
  BY <1>1, <1>2, <1>3, <1>4, <1>6, <1>7, BooksCallStep

LEMMA FileLockStepBooks ==
  ASSUME Regular, BackInv, BooksOK, CountInv', NEW t \in Thread, FileLockStep(t)
  PROVE  BooksOK'
  BY LockingBooks, DropPendingByteBooks, DemoteSharedRangeBooks, UnlockWriterBytesBooks,
     UnlockFileBooks DEF FileLockStep

LEMMA DeferCloseBooks ==
  ASSUME BackInv, BooksOK, CountInv', NEW t \in Thread, DeferClose(t)
  PROVE  BooksOK'
<1>1. /\ pc[t] = "close" /\ UNCHANGED <<iLock, nShared, status, eFileLock>>
      /\ Goto(t, "releaseDeferred") \/ Goto(t, "release")
  BY DEF DeferClose, fileVars
<1>2. PICK h \in Handle : h = on[t] /\ ProcOf[h] = ProcOf[t] /\ \A u \in Thread : u # t => on[u] # h
  BY <1>1, InCallFacts, UnixLockAssumption DEF BackInv, CountInv, CallsOK
<1>3. /\ \A u \in Thread : u # t => pc'[u] = pc[u] /\ on'[u] = on[u] /\ req'[u] = req[u]
      /\ pc'[t] \in {"release", "releaseDeferred"} /\ on'[t] = h
  BY <1>1, <1>2 DEF Goto, BackInv, CountInv, Typed
<1>4. OnHandle(t, h)
  BY <1>1, <1>2, <1>3 DEF OnHandle
<1>5. UnlockedOK(t)'
  <2>1. UnlockedOK(t)
    BY DEF BooksOK
  <2>2. eFileLock'[on'[t]] = NO_LOCK
    BY <1>1, <1>2, <1>3, <2>1 DEF UnlockedOK
  <2>3. QED
    BY <1>3, <2>2 DEF UnlockedOK, Unlocking
<1>6. QED
  BY <1>1, <1>4, <1>5, QuietBooks

LEMMA AttachBooks ==
  ASSUME BackInv, BooksOK, CountInv', NEW t \in Thread, Attach(t)
  PROVE  BooksOK'
<1>1. pc[t] = "attach" /\ Return(t) /\ UNCHANGED <<iLock, nShared, eFileLock>>
  BY DEF Attach
<1>2. PICK h \in Handle : h = on[t] /\ ProcOf[h] = ProcOf[t] /\ \A u \in Thread : u # t => on[u] # h
  BY <1>1, InCallFacts, UnixLockAssumption DEF BackInv, CountInv, CallsOK
<1>3. /\ \A u \in Thread : u # t => pc'[u] = pc[u] /\ on'[u] = on[u] /\ req'[u] = req[u]
      /\ on'[t] = NoHandle
  BY <1>1 DEF Return, Call, BackInv, CountInv, Typed
<1>4. OnHandle(t, h)
  BY <1>1, <1>2, <1>3 DEF OnHandle
<1>5. \A g \in Handle : g # h => status'[g] = status[g]
  <2>1. status' = [status EXCEPT ![h] = "open"] \/ status' = [status EXCEPT ![h] = "closed"]
    BY <1>2 DEF Attach
  <2>2. QED
    BY <2>1 DEF BackInv, CountInv, Typed
<1>6. UnlockedOK(t)'
  BY <1>1, ReturnBooks DEF BackInv
<1>7. QED
  BY <1>1, <1>4, <1>5, <1>6, QuietBooks

LEMMA ReleaseBooks ==
  ASSUME BackInv, BooksOK, CountInv', NEW t \in Thread, Release(t)
  PROVE  BooksOK'
<1> DEFINE p == ProcOf[t]
           last == nRef[p] = 1
<1>1. pc[t] \in {"release", "releaseDeferred"} /\ Return(t)
  BY DEF Release
<1>2. PICK h \in Handle : h = on[t] /\ ProcOf[h] = p /\ p \in Process /\ \A u \in Thread : u # t => on[u] # h
  BY <1>1, InCallFacts, UnixLockAssumption DEF BackInv, CountInv, CallsOK
<1>3. /\ iLock' = IF last THEN [iLock EXCEPT ![p] = 0] ELSE iLock
      /\ nShared' = IF last THEN [nShared EXCEPT ![p] = 0] ELSE nShared
      /\ status' = [status EXCEPT ![h] = "closed"]
      /\ eFileLock' = [eFileLock EXCEPT ![h] = NO_LOCK]
  BY <1>2 DEF Release
<1>4. /\ \A u \in Thread : u # t => pc'[u] = pc[u] /\ on'[u] = on[u] /\ req'[u] = req[u]
      /\ pc'[t] = "idle" /\ on'[t] = NoHandle
  BY <1>1 DEF Return, Call, BackInv, CountInv, Typed
<1>5. eFileLock[h] = NO_LOCK /\ status[h] \in Attached
  <2>1. StepOK(t) /\ UnlockedOK(t)
    BY DEF BackInv, CountInv, StepsOK, BooksOK
  <2>2. QED
    BY <1>1, <1>2, <2>1 DEF StepOK, UnlockedOK, UnderBigLock, Attached
<1>6. /\ eFileLock'[h] = NO_LOCK /\ \A g \in Handle : g # h => eFileLock'[g] = eFileLock[g] /\ status'[g] = status[g]
      /\ \A q \in Process : q # p => iLock'[q] = iLock[q] /\ nShared'[q] = nShared[q]
  BY <1>2, <1>3 DEF BackInv, CountInv, Typed
<1>7. OnHandle(t, h)
  BY <1>2, <1>4, <1>6 DEF OnHandle
<1>8. UnlockedOK(t)'
  BY <1>1, ReturnBooks DEF BackInv
<1>9. CASE ~last
  <2>1. iLock' = iLock /\ nShared' = nShared
    BY <1>3, <1>9
  <2>2. QED
    BY <1>5, <1>6, <1>7, <1>8, <2>1, QuietBooks
<1>10. CASE last
  <2>1. ASSUME NEW g \in Handle, ProcOf[g] = p PROVE eFileLock'[g] = NO_LOCK
    <3>1. CASE g = h
      BY <1>6, <3>1
    <3>2. CASE g # h
      <4>1. status[g] \notin Attached
        BY <1>2, <1>5, <1>10, <2>1, <3>2, OnlyAttached
      <4>2. QED
        BY <1>6, <3>2, <4>1 DEF BackInv, CountInv, FilesOK
    <3>3. QED
      BY <3>1, <3>2
  <2>2. Alone(t)
    <3>1. ASSUME NEW u \in Thread, u # t, ProcOf[u] = p, pc[u] \in UnderLockMutex PROVE FALSE
      <4>1. on[u] \in Handle /\ on[u] # h /\ ProcOf[on[u]] = p /\ status[on[u]] \in Attached
        BY <1>2, <3>1, InMutexFacts DEF BackInv
      <4>2. QED
        BY <1>2, <1>5, <1>10, <4>1, OnlyAttached
    <3>2. QED
      BY <3>1 DEF Alone
  <2>3. nShared'[p] = 0 /\ iLock'[p] = 0
    BY <1>2, <1>3, <1>10 DEF BackInv, CountInv, Typed
  <2>4. Exact(p)'
    <3>1. Members(eFileLock', SomeLock, p) = {}
      BY <2>1 DEF Members, SomeLock
    <3>2. QED
      BY <2>3, <3>1, FS_EmptySet DEF Exact
  <2>5. Top(p)'
    BY <2>3 DEF Top, SHARED_LOCK
  <2>6. QED
    BY <1>2, <1>6, <1>7, <1>8, <2>2, <2>4, <2>5, BooksStep
<1>11. QED
  BY <1>9, <1>10


(* The first step of a call.                                               *)
LEMMA BeginBooks ==
  ASSUME BackInv, BooksOK, CountInv', NEW t \in Thread, NEW h \in Handle, CanCall(t, h),
         NEW step, NEW level, Call(t, h, step, level),
         UNCHANGED <<nShared, iLock, eFileLock>>,
         \A g \in Handle : g # h => status'[g] = status[g],
         step \in {"close"} \cup UnderBigLock => eFileLock[h] = NO_LOCK,
         step \in Unlocking /\ status'[h] = "closing" => level = NO_LOCK,
         step = "unlckFile" => ~(eFileLock[h] > SHARED_LOCK)
  PROVE  BooksOK'
<1>1. /\ pc[t] = "idle" /\ on[t] = NoHandle /\ ProcOf[h] = ProcOf[t]
      /\ \A u \in Thread : on[u] # h
  BY IdleFacts
<1>2. /\ \A u \in Thread : u # t => pc'[u] = pc[u] /\ on'[u] = on[u] /\ req'[u] = req[u]
      /\ pc'[t] = step /\ on'[t] = h /\ req'[t] = level
  BY DEF Call, BackInv, CountInv, Typed
<1>3. OnHandle(t, h)
  BY <1>1, <1>2 DEF OnHandle
<1>4. UnlockedOK(t)'
  BY <1>2 DEF UnlockedOK
<1>5. QED
  BY <1>3, <1>4, QuietBooks

LEMMA FirstUnlockStepBooks ==
  ASSUME BackInv, NEW h \in Handle, NEW level
  PROVE  /\ FirstUnlockStep(h, level) \in Unlocking
         /\ FirstUnlockStep(h, level) \notin {"close"} \cup UnderBigLock
         /\ FirstUnlockStep(h, level) = "unlckFile" => ~(eFileLock[h] > SHARED_LOCK)
<1>1. eFileLock[h] \in Level
  BY DEF BackInv, CountInv, Typed
<1>2. eFileLock[h] <= SHARED_LOCK => ~(eFileLock[h] > SHARED_LOCK)
  BY <1>1 DEF Level, NO_LOCK, SHARED_LOCK, EXCLUSIVE_LOCK
<1>3. QED
  BY <1>2 DEF FirstUnlockStep, Unlocking, UnderBigLock

LEMMA LockSharedAgainBooks ==
  ASSUME BackInv, BooksOK, CountInv', NEW t \in Thread, NEW h \in Handle, LockSharedAgain(t, h)
  PROVE  BooksOK'
<1> DEFINE p == ProcOf[t]
<1>1. /\ CanCall(t, h) /\ LockSequenceOK(h, SHARED_LOCK)
      /\ eFileLock' = [eFileLock EXCEPT ![h] = SHARED_LOCK]
      /\ nShared' = [nShared EXCEPT ![ProcOf[h]] = @ + 1]
      /\ UNCHANGED <<iLock, pc, on, req, status>>
  BY DEF LockSharedAgain, CanLock, callVars
<1>2. /\ pc[t] = "idle" /\ on[t] = NoHandle /\ ProcOf[h] = p /\ p \in Process
      /\ \A u \in Thread : on[u] # h
  BY <1>1, IdleFacts
<1>3. eFileLock[h] = NO_LOCK
  BY <1>1 DEF LockSequenceOK, SHARED_LOCK, RESERVED_LOCK, EXCLUSIVE_LOCK
<1>4. /\ eFileLock'[h] = SHARED_LOCK /\ nShared'[p] = nShared[p] + 1
      /\ \A g \in Handle : g # h => eFileLock'[g] = eFileLock[g]
      /\ \A q \in Process : q # p => nShared'[q] = nShared[q]
  BY <1>1, <1>2 DEF BackInv, CountInv, Typed
<1>5. OnHandle(t, h)
  BY <1>1, <1>2, <1>4 DEF OnHandle
<1>6. Exact(p) /\ Top(p)
  BY <1>2 DEF BooksOK
<1>7. Exact(p)'
  BY <1>3, <1>4, <1>5, <1>6, ExactFollows DEF NO_LOCK, SHARED_LOCK
<1>8. Top(p)'
  BY <1>1, <1>3, <1>4, <1>6 DEF Top, NO_LOCK, SHARED_LOCK
<1>9. UnlockedOK(t)'
  BY <1>1, <1>2 DEF UnlockedOK, UnderBigLock, Unlocking
<1>10. QED
  BY <1>1, <1>2, <1>4, <1>5, <1>7, <1>8, <1>9, BooksStep

LEMMA BeginsBooks ==
  ASSUME BackInv, BooksOK, CountInv', NEW t \in Thread, NEW h \in Handle, Begin(t, h)
  PROVE  BooksOK'
<1>1. CASE OpenDescriptor(t, h)
  <2>1. /\ CanCall(t, h) /\ Call(t, h, "attach", NO_LOCK) /\ UNCHANGED <<nShared, iLock, eFileLock>>
        /\ status' = [status EXCEPT ![h] = "opening"]
    BY <1>1 DEF OpenDescriptor
  <2>2. \A g \in Handle : g # h => status'[g] = status[g]
    BY <2>1 DEF BackInv, CountInv, Typed
  <2>3. "attach" \notin {"close"} \cup UnderBigLock /\ "attach" \notin Unlocking
    BY DEF UnderBigLock, Unlocking
  <2>4. QED
    BY <2>1, <2>2, <2>3, BeginBooks
<1>2. CASE LockSharedAgain(t, h)
  BY <1>2, LockSharedAgainBooks
<1>3. ASSUME NEW level \in {SHARED_LOCK, RESERVED_LOCK, EXCLUSIVE_LOCK}, Lock(t, h, level) PROVE BooksOK'
  <2>1. /\ CanCall(t, h) /\ UNCHANGED <<nShared, iLock, eFileLock, status>>
        /\ Call(t, h, "pending", level) \/ Call(t, h, "write", level)
    BY <1>3 DEF Lock, CanLock, inodeVars, fileVars
  <2>2. \A step \in {"pending", "write"} : step \notin {"close"} \cup UnderBigLock /\ step \notin Unlocking
                                           /\ step # "unlckFile"
    BY DEF UnderBigLock, Unlocking
  <2>3. ASSUME NEW step \in {"pending", "write"}, Call(t, h, step, level) PROVE BooksOK'
    BY <2>1, <2>2, <2>3, BeginBooks
  <2>4. QED
    BY <2>1, <2>3
<1>4. ASSUME NEW level \in {NO_LOCK, SHARED_LOCK}, Unlock(t, h, level) PROVE BooksOK'
  <2>1. /\ CanCall(t, h) /\ UNCHANGED <<nShared, iLock, eFileLock, status>> /\ status[h] = "open"
        /\ Call(t, h, FirstUnlockStep(h, level), level)
    BY <1>4 DEF Unlock, inodeVars, fileVars
  <2>2. FirstUnlockStep(h, level) = "unlckFile" => ~(eFileLock[h] > SHARED_LOCK)
    BY FirstUnlockStepBooks
  <2>3. QED
    BY <2>1, <2>2, FirstUnlockStepBooks, BeginBooks
<1>5. CASE Close(t, h)
  <2>1. /\ CanCall(t, h) /\ UNCHANGED <<nShared, iLock, eFileLock>>
        /\ status' = [status EXCEPT ![h] = "closing"]
        /\ \/ eFileLock[h] = NO_LOCK /\ Call(t, h, "close", NO_LOCK)
           \/ Call(t, h, FirstUnlockStep(h, NO_LOCK), NO_LOCK)
    BY <1>5 DEF Close, inodeVars
  <2>2. \A g \in Handle : g # h => status'[g] = status[g]
    BY <2>1 DEF BackInv, CountInv, Typed
  <2>3. CASE eFileLock[h] = NO_LOCK /\ Call(t, h, "close", NO_LOCK)
    <3>1. "close" \notin Unlocking /\ "close" # "unlckFile"
      BY DEF Unlocking
    <3>2. QED
      BY <2>1, <2>2, <2>3, <3>1, BeginBooks
  <2>4. CASE Call(t, h, FirstUnlockStep(h, NO_LOCK), NO_LOCK)
    <3>1. FirstUnlockStep(h, NO_LOCK) = "unlckFile" => ~(eFileLock[h] > SHARED_LOCK)
      BY FirstUnlockStepBooks
    <3>2. QED
      BY <2>1, <2>2, <2>4, <3>1, FirstUnlockStepBooks, BeginBooks
  <2>5. QED
    BY <2>1, <2>3, <2>4
<1>6. QED
  BY <1>1, <1>2, <1>3, <1>4, <1>5 DEF Begin

LEMMA CrashBooks ==
  ASSUME BackInv, BooksOK, NEW p \in Process, Crash(p)
  PROVE  BooksOK'
<1>1. /\ \A q \in Process : /\ iLock'[q] = IF q = p THEN 0 ELSE iLock[q]
                            /\ nShared'[q] = IF q = p THEN 0 ELSE nShared[q]
      /\ \A g \in Handle : /\ eFileLock'[g] = IF ProcOf[g] = p THEN NO_LOCK ELSE eFileLock[g]
                           /\ status'[g] = IF ProcOf[g] = p THEN "closed" ELSE status[g]
      /\ \A u \in Thread : /\ pc'[u] = IF ProcOf[u] = p THEN "idle" ELSE pc[u]
                           /\ on'[u] = IF ProcOf[u] = p THEN NoHandle ELSE on[u]
                           /\ req'[u] = IF ProcOf[u] = p THEN NO_LOCK ELSE req[u]
  BY DEF Crash, BackInv, CountInv, Typed
<1>2. ASSUME NEW q \in Process PROVE Exact(q)' /\ Top(q)'
  <2>1. CASE q = p
    <3>1. nShared'[p] = 0 /\ iLock'[p] = 0 /\ \A g \in Handle : ProcOf[g] = p => eFileLock'[g] = NO_LOCK
      BY <1>1
    <3>2. Members(eFileLock', SomeLock, p) = {}
      BY <3>1 DEF Members, SomeLock
    <3>3. QED
      BY <2>1, <3>1, <3>2, FS_EmptySet DEF Exact, Top, SHARED_LOCK
  <2>2. CASE q # p
    <3>1. /\ Exact(q) /\ Top(q) /\ iLock'[q] = iLock[q] /\ nShared'[q] = nShared[q]
          /\ \A g \in Handle : ProcOf[g] = q => eFileLock'[g] = eFileLock[g]
      BY <1>1, <2>2 DEF BooksOK
    <3>2. Members(eFileLock', SomeLock, q) = Members(eFileLock, SomeLock, q)
      BY <3>1, MembersOther
    <3>3. QED
      BY <3>1, <3>2 DEF Exact, Top
  <2>3. QED
    BY <2>1, <2>2
<1>3. ASSUME NEW u \in Thread PROVE UnlockedOK(u)'
  <2>1. CASE ProcOf[u] = p \/ pc[u] = "idle"
    <3>1. pc'[u] = "idle"
      BY <1>1, <2>1
    <3>2. QED
      BY <3>1 DEF UnlockedOK, UnderBigLock, Unlocking
  <2>2. CASE ProcOf[u] # p /\ pc[u] # "idle"
    <3>1. on[u] \in Handle /\ ProcOf[on[u]] = ProcOf[u] /\ ProcOf[u] \in Process
      BY <2>2, InCallFacts DEF BackInv
    <3>2. UnlockedOK(u) /\ pc'[u] = pc[u] /\ on'[u] = on[u] /\ req'[u] = req[u]
      BY <1>1, <2>2 DEF BooksOK
    <3>3. QED
      BY <1>1, <2>2, <3>1, <3>2 DEF UnlockedOK
  <2>3. QED
    BY <2>1, <2>2
<1>4. QED
  BY <1>2, <1>3 DEF BooksOK

LEMMA NextBooks ==
  ASSUME Regular, BackInv, BooksOK, [Next]_vars
  PROVE  BooksOK'
<1>1. CountInv'
  BY NextCountInv DEF BackInv
<1>2. ASSUME NEW t \in Thread, ThreadStep(t) PROVE BooksOK'
  BY <1>1, <1>2, FileLockStepBooks, DeferCloseBooks, ReleaseBooks, AttachBooks DEF ThreadStep
<1>3. ASSUME NEW t \in Thread, NEW h \in Handle, Begin(t, h) PROVE BooksOK'
  BY <1>1, <1>3, BeginsBooks
<1>4. ASSUME NEW p \in Process, Crash(p) PROVE BooksOK'
  BY <1>4, CrashBooks
<1>5. CASE UNCHANGED vars
  <2>1. UNCHANGED <<nShared, iLock, eFileLock, status, pc, on, req>>
    BY <1>5 DEF vars, inodeVars, fileVars, callVars
  <2>2. \A p \in Process : Exact(p)' /\ Top(p)'
    BY <2>1 DEF BooksOK, Exact, Top
  <2>3. \A t \in Thread : UnlockedOK(t)'
    BY <2>1 DEF BooksOK, UnlockedOK
  <2>4. QED
    BY <2>2, <2>3 DEF BooksOK
<1>6. QED
  BY <1>2, <1>3, <1>4, <1>5 DEF Next

LEMMA InitBooks == Init => BooksOK
<1> SUFFICES ASSUME Init PROVE BooksOK
  OBVIOUS
<1>1. ASSUME NEW p \in Process PROVE Exact(p) /\ Top(p)
  <2>1. nShared[p] = 0 /\ iLock[p] = NO_LOCK /\ \A h \in Handle : eFileLock[h] = NO_LOCK
    BY DEF Init
  <2>2. Members(eFileLock, SomeLock, p) = {}
    BY <2>1 DEF Members, SomeLock
  <2>3. QED
    BY <2>1, <2>2, FS_EmptySet DEF Exact, Top, NO_LOCK, SHARED_LOCK
<1>2. ASSUME NEW t \in Thread PROVE UnlockedOK(t)
  BY DEF Init, UnlockedOK, UnderBigLock, Unlocking
<1>3. QED
  BY <1>1, <1>2 DEF BooksOK

LEMMA BooksKept ==
  ASSUME BackInv, BooksOK
  PROVE  Bookkeeping
<1> SUFFICES ASSUME NEW p \in Process
             PROVE  /\ nShared[p] = Cardinality(Holders(p))
                    /\ nLock[p] = nShared[p] + bProcessLock[p]
                    /\ nRef[p] = Cardinality({h \in HandlesOf(p) : status[h] \in {"open", "closing"}})
                    /\ \A h \in HandlesOf(p) : eFileLock[h] > SHARED_LOCK => Held(h) <= iLock[p]
                    /\ iLock[p] > NO_LOCK =>
                         \E h \in Holders(p) : Held(h) <= iLock[p] /\ eFileLock[h] >= iLock[p]
  BY DEF Bookkeeping
<1>1. Exact(p) /\ Top(p) /\ InodeOK(p) /\ CountOK(p) /\ iLock[p] \in Level
  BY DEF BackInv, BooksOK, CountInv, CountsOK, Typed
<1>2. ASSUME NEW h \in Handle
      PROVE  /\ Held(h) >= SHARED_LOCK <=> eFileLock[h] \in SomeLock
             /\ Held(h) \in Level /\ eFileLock[h] \in Level /\ Held(h) <= eFileLock[h]
             /\ ProcOf[h] = p /\ Held(h) > SHARED_LOCK => iLock[p] = eFileLock[h]
             /\ ProcOf[h] = p /\ eFileLock[h] # NO_LOCK => iLock[p] # NO_LOCK
  <2>1. /\ Held(h) \in Level /\ Held(h) <= eFileLock[h] /\ eFileLock[h] \in Level
        /\ Held(h) = NO_LOCK <=> eFileLock[h] = NO_LOCK
    BY HeldBelow DEF BackInv
  <2>2. WriterOK(h)
    BY DEF BackInv
  <2>3. ProcOf[h] = p /\ eFileLock[h] # NO_LOCK => iLock[p] # NO_LOCK
    BY HolderCounted
  <2>4. Held(h) >= SHARED_LOCK <=> eFileLock[h] \in SomeLock
    BY <2>1 DEF SomeLock, Level, NO_LOCK, SHARED_LOCK, EXCLUSIVE_LOCK
  <2>5. QED
    BY <2>1, <2>2, <2>3, <2>4 DEF WriterOK
<1>3. Holders(p) = Members(eFileLock, SomeLock, p)
  BY <1>2 DEF Holders, HandlesOf, Members
<1>4. {h \in HandlesOf(p) : status[h] \in {"open", "closing"}} = Members(status, Attached, p)
  BY DEF HandlesOf, Members, Attached
<1>5. /\ nShared[p] = Cardinality(Holders(p)) /\ nLock[p] = nShared[p] + bProcessLock[p]
      /\ nRef[p] = Cardinality({h \in HandlesOf(p) : status[h] \in {"open", "closing"}})
  BY <1>1, <1>3, <1>4 DEF Exact, InodeOK, CountOK
<1>6. ASSUME NEW h \in HandlesOf(p), eFileLock[h] > SHARED_LOCK PROVE Held(h) <= iLock[p]
  <2>1. h \in Handle /\ ProcOf[h] = p
    BY DEF HandlesOf
  <2>2. QED
    BY <1>1, <1>2, <1>6, <2>1 DEF Level, NO_LOCK, SHARED_LOCK, EXCLUSIVE_LOCK
<1>7. ASSUME iLock[p] > NO_LOCK
      PROVE  \E h \in Holders(p) : Held(h) <= iLock[p] /\ eFileLock[h] >= iLock[p]
  <2>1. CASE iLock[p] > SHARED_LOCK
    <3>1. PICK h \in Handle : ProcOf[h] = p /\ eFileLock[h] = iLock[p]
      BY <1>1, <2>1 DEF Top
    <3>2. /\ Held(h) <= iLock[p] /\ eFileLock[h] >= iLock[p] /\ eFileLock[h] \in SomeLock
      BY <1>1, <1>2, <1>7, <3>1 DEF Level, SomeLock, NO_LOCK, EXCLUSIVE_LOCK
    <3>3. h \in Holders(p)
      BY <1>3, <3>1, <3>2 DEF Members
    <3>4. QED
      BY <3>2, <3>3
  <2>2. CASE ~(iLock[p] > SHARED_LOCK)
    <3>1. iLock[p] = SHARED_LOCK
      BY <1>1, <1>7, <2>2 DEF Level, NO_LOCK, SHARED_LOCK, EXCLUSIVE_LOCK
    <3>2. nShared[p] # 0
      BY <1>1, <1>7 DEF InodeOK, NO_LOCK
    <3>3. PICK h \in Holders(p) : TRUE
      BY <1>5, <3>2, FS_EmptySet
    <3>4. h \in Handle /\ ProcOf[h] = p /\ Held(h) >= SHARED_LOCK
      BY DEF Holders, HandlesOf
    <3>5. Held(h) <= iLock[p] /\ eFileLock[h] >= iLock[p]
      BY <1>2, <3>1, <3>4 DEF Level, NO_LOCK, SHARED_LOCK, EXCLUSIVE_LOCK
    <3>6. QED
      BY <3>5
  <2>3. QED
    BY <2>1, <2>2
<1>8. QED
  BY <1>5, <1>6, <1>7

(* The counters of unixInodeInfo and the level it keeps are those of its   *)
(* handles: nShared counts the handles with a lock, nLock adds the process *)
(* lock, nRef counts the attached handles, and eFileLock is the highest    *)
(* level of any of them, which is what unixLock and posixUnlock decide by. *)
THEOREM BooksBalance ==
  ASSUME Regular PROVE Spec /\ []NoCloseRace => []Bookkeeping
<1>1. BackInv /\ BooksOK /\ NoCloseRace /\ [Next]_vars => BackInv' /\ BooksOK'
  BY NextBacked, NextBooks
<1>2. BackInv /\ BooksOK => Bookkeeping
  BY BooksKept
<1>3. QED
  BY <1>1, <1>2, InitBacked, InitBooks, PTL DEF Spec

(* With one thread per process there is no race to be excluded.            *)
THEOREM SingleThreadsBooks ==
  ASSUME Regular, SingleThreaded PROVE Spec => []Bookkeeping
<1>1. BackInv /\ BooksOK /\ NoCloseRace /\ [Next]_vars => BackInv' /\ BooksOK' /\ NoCloseRace'
  BY NextBacked, NextBooks, NextNoCloseRace DEF BackInv
<1>2. BackInv /\ BooksOK => Bookkeeping
  BY BooksKept
<1>3. Init => NoCloseRace
  BY DEF Init, NoCloseRace
<1>4. QED
  BY <1>1, <1>2, <1>3, InitBacked, InitBooks, PTL DEF Spec

(***************************************************************************)
(* No new readers beside PENDING or EXCLUSIVE.  What the invariant above   *)
(* does not say is that a reader of plain unix has the pending byte from   *)
(* the first to the last fcntl of its call, so that a writer who has that  *)
(* byte meets no reader on the way.                                        *)
(***************************************************************************)
Entering == {"shared", "unpend", "unpendFail"}

PendingByteOK ==
  \A t \in Thread :
    pc[t] \in Entering /\ ~ExclProcess(ProcOf[t]) => klock[ProcOf[t]]["pending"] # F_UNLCK

LEMMA OwnRow ==
  ASSUME CountInv, NEW t \in Thread, FileLockStep(t)
  PROVE  OneRow(ProcOf[t])
<1> DEFINE h == on[t]
<1>1. pc[t] \in UnderLockMutex
  BY DEF FileLockStep, LockPendingByte, LockSharedRange, DropPendingByte, LockForWrite,
         DemoteSharedRange, UnlockWriterBytes, UnlockFile, UnderLockMutex
<1>2. h \in Handle /\ ProcOf[h] = ProcOf[t] /\ ProcOf[t] \in Process
  BY <1>1, InMutexFacts
<1>3. /\ \A level \in Level : PendingType(level) \in LockType
      /\ F_RDLCK \in LockType /\ F_UNLCK \in LockType /\ F_WRLCK \in LockType
      /\ req[t] \in Level
  BY DEF PendingType, LockType, CountInv, Typed
<1> DEFINE Requested == \E bytes : \E type \in LockType : \E r \in FileLock(h, bytes, type) : klock' = r.table
<1>4. Requested => OneRow(ProcOf[t])
  BY <1>2, FileLockRow DEF OneRow
<1>5. CASE LockPendingByte(t)
  <2>1. \E r \in FileLock(h, {"pending"}, PendingType(req[t])) : klock' = r.table
    BY <1>5, Zenon DEF LockPendingByte, Apply
  <2>2. QED
    BY <1>3, <1>4, <2>1
<1>6. CASE LockSharedRange(t)
  <2>1. \E r \in FileLock(h, {"shared"}, F_RDLCK) : klock' = r.table
    BY <1>6, Zenon DEF LockSharedRange, Apply
  <2>2. QED
    BY <1>3, <1>4, <2>1
<1>7. CASE DropPendingByte(t)
  <2>1. \E r \in FileLock(h, {"pending"}, F_UNLCK) : klock' = r.table
    BY <1>7, Zenon DEF DropPendingByte, Apply
  <2>2. QED
    BY <1>3, <1>4, <2>1
<1>8. CASE LockForWrite(t)
  <2>1. \E r \in FileLock(h, IF req[t] = RESERVED_LOCK THEN {"reserved"} ELSE {"shared"}, F_WRLCK) :
          klock' = r.table
    BY <1>8, Zenon DEF LockForWrite, Apply
  <2>2. QED
    BY <1>3, <1>4, <2>1
<1>9. CASE DemoteSharedRange(t)
  <2>1. \E r \in FileLock(h, {"shared"}, F_RDLCK) : klock' = r.table
    BY <1>9, Zenon DEF DemoteSharedRange, Apply
  <2>2. QED
    BY <1>3, <1>4, <2>1
<1>10. CASE UnlockWriterBytes(t)
  <2>1. \E r \in FileLock(h, {"pending", "reserved"}, F_UNLCK) : klock' = r.table
    BY <1>10, Zenon DEF UnlockWriterBytes, Apply
  <2>2. QED
    BY <1>3, <1>4, <2>1
<1>11. CASE UnlockFile(t)
  <2>1. PICK r \in IF nShared[ProcOf[h]] = 1 THEN FileLock(h, Byte, F_UNLCK) ELSE {NoChange(0)} :
          klock' = r.table \/ klock' = DropLocks(r.table, ProcOf[h])
    BY <1>11, Zenon DEF UnlockFile
  <2>2. /\ \A q \in Process : q # ProcOf[h] => r.table[q] = klock[q]
        /\ r.table \in Tables
    <3>1. CASE r \in FileLock(h, Byte, F_UNLCK)
      BY <1>2, <1>3, <3>1, FileLockRow
    <3>2. CASE r = NoChange(0)
      BY <3>2, TablesTyped DEF NoChange
    <3>3. QED
      BY <2>1, <3>1, <3>2
  <2>3. QED
    BY <1>2, <2>1, <2>2, DropLocksFacts DEF OneRow
<1>12. QED
  BY <1>5, <1>6, <1>7, <1>8, <1>9, <1>10, <1>11 DEF FileLockStep

(* A thread that is let into "shared" has just got the byte.               *)
LEMMA EnteringOwnStep ==
  ASSUME BackInv, PendingByteOK, NEW t \in Thread, FileLockStep(t), pc'[t] \in Entering, ~ExclProcess(ProcOf[t])
  PROVE  klock'[ProcOf[t]]["pending"] # F_UNLCK
<1> DEFINE h == on[t]
           p == ProcOf[t]
<1>1. pc[t] \in UnderLockMutex
  BY DEF FileLockStep, LockPendingByte, LockSharedRange, DropPendingByte, LockForWrite,
         DemoteSharedRange, UnlockWriterBytes, UnlockFile, UnderLockMutex
<1>2. h \in Handle /\ ProcOf[h] = p /\ p \in Process /\ h \notin ExclHandle /\ req[t] \in Level
  BY <1>1, InLockCall DEF ExclProcess
<1>3. pc \in [Thread -> Steps]
  BY DEF BackInv, CountInv, Typed
<1>4. LockPendingByte(t) \/ LockSharedRange(t)
  BY <1>3 DEF FileLockStep, DropPendingByte, LockForWrite, DemoteSharedRange, UnlockWriterBytes, UnlockFile,
              Goto, ReturnFromUnlock, Return, Call, Entering
<1>5. CASE LockPendingByte(t)
  <2>1. PICK r \in FileLock(h, {"pending"}, PendingType(req[t])) :
          /\ klock' = r.table
          /\ r.rc = 0 \/ Return(t)
    BY <1>5, Zenon DEF LockPendingByte, Apply
  <2>2. r.rc = 0
    BY <1>3, <2>1 DEF Return, Call, Entering
  <2>3. PendingType(req[t]) \in LockType /\ PendingType(req[t]) # F_UNLCK /\ {"pending"} \in SUBSET Byte
    BY DEF PendingType, LockType, F_UNLCK, F_RDLCK, F_WRLCK, Byte
  <2>4. ASSUME NEW type \in LockType, NEW x \in FileLock(h, {"pending"}, type), x.rc = 0
        PROVE  x.table[p]["pending"] = type
    <3>1. \A c \in Byte : x.rc = 0 => x.table[p][c] = IF c \in {"pending"} THEN type ELSE klock[p][c]
      BY <1>2, <2>3, PlainFileLock
    <3>2. QED
      BY <2>4, <3>1 DEF Byte
  <2>5. r.table[p]["pending"] = PendingType(req[t])
    BY <2>2, <2>3, <2>4
  <2>6. QED
    BY <2>1, <2>3, <2>5
<1>6. CASE LockSharedRange(t)
  <2>1. PICK r \in FileLock(h, {"shared"}, F_RDLCK) : klock' = r.table
    BY <1>6, Zenon DEF LockSharedRange, Apply
  <2>2. klock[p]["pending"] # F_UNLCK
    BY <1>6 DEF LockSharedRange, PendingByteOK, Entering
  <2>3. F_RDLCK \in LockType /\ {"shared"} \in SUBSET Byte /\ "pending" \in Byte
    BY DEF LockType, Byte
  <2>4. /\ r.rc # 0 => r.table = klock
        /\ r.rc = 0 => \A b \in Byte : r.table[p][b] = IF b \in {"shared"} THEN F_RDLCK ELSE klock[p][b]
    BY <1>2, <2>3, PlainFileLock
  <2>5. QED
    BY <2>1, <2>2, <2>3, <2>4
<1>7. QED
  BY <1>4, <1>5, <1>6

LEMMA NextPendingByte ==
  ASSUME Regular, NoCloseRace, BackInv, PendingByteOK, [Next]_vars
  PROVE  PendingByteOK'
<1> SUFFICES ASSUME NEW u \in Thread, pc'[u] \in Entering, ~ExclProcess(ProcOf[u])
             PROVE  klock'[ProcOf[u]]["pending"] # F_UNLCK
  BY DEF PendingByteOK, ExclProcess
<1> DEFINE p == ProcOf[u]
           Before == pc[u] \in Entering
           Kept == klock'[p]["pending"] # F_UNLCK
<1>1. pc \in [Thread -> Steps] /\ p \in Process /\ Entering \subseteq UnderLockMutex /\ CountInv /\ klock \in Tables
  BY UnixLockAssumption, TablesTyped DEF BackInv, CountInv, Typed, Entering, UnderLockMutex
<1>2. Before => klock[p]["pending"] # F_UNLCK /\ nRef[p] # 0 /\ Alone(u)
  BY <1>1, InLockCall DEF PendingByteOK
<1>3. ASSUME NEW t \in Thread, FileLockStep(t) PROVE Kept
  <2>1. CASE t = u
    BY <1>3, <2>1, EnteringOwnStep
  <2>2. CASE t # u
    <3>1. Before
      BY <1>1, <1>3, <2>2, OwnStep DEF ThreadStep
    <3>2. pc[t] \in UnderLockMutex
      BY <1>3 DEF FileLockStep, LockPendingByte, LockSharedRange, DropPendingByte, LockForWrite,
                  DemoteSharedRange, UnlockWriterBytes, UnlockFile, UnderLockMutex
    <3>3. ProcOf[t] # p
      BY <1>2, <2>2, <3>1, <3>2 DEF Alone
    <3>4. QED
      BY <1>1, <1>2, <1>3, <3>1, <3>3, OwnRow DEF OneRow
  <2>3. QED
    BY <2>1, <2>2
<1>4. ASSUME NEW t \in Thread, DeferClose(t) PROVE Kept
  <2>1. klock' = klock /\ Before
    BY <1>1, <1>4 DEF DeferClose, Goto, Entering
  <2>2. QED
    BY <1>2, <2>1
<1>5. ASSUME NEW t \in Thread, Attach(t) PROVE Kept
  <2>1. /\ Before /\ on[t] \in Handle
        /\ klock' = klock \/ (nRef[ProcOf[on[t]]] = 0 /\ klock' = DropLocks(klock, ProcOf[on[t]]))
    <3>1. pc[t] = "attach" /\ Return(t)
      BY <1>5 DEF Attach
    <3>2. Before /\ on[t] \in Handle
      BY <1>1, <3>1, InCallFacts DEF Return, Call, Entering
    <3>3. klock' = klock \/ (nRef[ProcOf[on[t]]] = 0 /\ klock' = DropLocks(klock, ProcOf[on[t]]))
      BY <1>5 DEF Attach
    <3>4. QED
      BY <3>2, <3>3
  <2>2. QED
    BY <1>1, <1>2, <2>1, DropLocksFacts, UnixLockAssumption
<1>6. ASSUME NEW t \in Thread, Release(t) PROVE Kept
  <2> DEFINE h == on[t]
  <2>1. /\ Before /\ h \in Handle /\ ProcOf[h] = ProcOf[t] /\ ProcOf[t] \in Process
        /\ klock' = IF ClosesFd(t) THEN DropLocks(klock, ProcOf[t]) ELSE klock
    BY <1>1, <1>6, InCallFacts, UnixLockAssumption DEF Release, Return, Call, Entering
  <2>2. CASE ProcOf[t] # p
    BY <1>1, <1>2, <2>1, <2>2, DropLocksFacts
  <2>3. CASE ProcOf[t] = p
    <3>1. pc[t] # "release"
      BY <1>1, <2>1, <2>3 DEF NoCloseRace, LockMutexFree
    <3>2. status[h] \in Attached
      BY <1>1, <1>6, <3>1 DEF Release, CountInv, StepsOK, StepOK, UnderBigLock, Attached
    <3>3. on[u] \in Handle /\ status[on[u]] \in Attached /\ ProcOf[on[u]] = p
      BY <1>1, <2>1, InMutexFacts
    <3>4. on[u] # h
      BY <1>1, <1>6, <2>1, InMutexFacts DEF Release, Entering
    <3>5. nRef[p] # 1
      BY <2>1, <2>3, <3>2, <3>3, <3>4, OnlyAttached
    <3>6. klock' = klock
      BY <2>1, <2>3, <3>1, <3>5 DEF ClosesFd
    <3>7. QED
      BY <1>2, <2>1, <3>6
  <2>4. QED
    BY <2>2, <2>3
<1>7. ASSUME NEW t \in Thread, NEW h \in Handle, Begin(t, h) PROVE Kept
  <2>1. klock' = klock
    BY <1>7 DEF Begin, OpenDescriptor, AfterRobustOpen, Regular, LockSharedAgain, Lock, Unlock, Close
  <2>2. Before
    <3>1. CASE OpenDescriptor(t, h) \/ LockSharedAgain(t, h) \/ Close(t, h)
      BY <1>1, <3>1 DEF OpenDescriptor, LockSharedAgain, Close, Call, FirstUnlockStep, callVars, Entering
    <3>2. ASSUME NEW level, Lock(t, h, level) \/ Unlock(t, h, level) PROVE Before
      BY <1>1, <3>2 DEF Lock, Unlock, Call, FirstUnlockStep, Entering
    <3>3. QED
      BY <1>7, <3>1, <3>2 DEF Begin
  <2>3. QED
    BY <1>2, <2>1, <2>2
<1>8. ASSUME NEW q \in Process, Crash(q) PROVE Kept
  <2>1. Before /\ q # p /\ klock' = DropLocks(klock, q)
    BY <1>1, <1>8 DEF Crash, Entering
  <2>2. QED
    BY <1>1, <1>2, <2>1, DropLocksFacts
<1>9. CASE UNCHANGED vars
  <2>1. Before /\ klock' = klock
    BY <1>9 DEF vars, callVars
  <2>2. QED
    BY <1>2, <2>1
<1>10. QED
  BY <1>3, <1>4, <1>5, <1>6, <1>7, <1>8, <1>9 DEF Next, ThreadStep

(* The writer's locks and those of a reader about to get SHARED cannot     *)
(* both be in the kernel.                                                  *)
LEMMA EnteringMeetsNoWriter ==
  ASSUME Regular, BackInv, PendingByteOK, NEW h \in Handle, Held(h) >= PENDING_LOCK,
         NEW t \in Thread, pc[t] = "unpend"
  PROVE  FALSE
<1> DEFINE p == ProcOf[t]
           q == ProcOf[h]
<1>1. /\ p \in Process /\ q \in Process /\ klock \in Tables /\ TableOK(klock)
      /\ Backed(h) /\ WriterOK(h) /\ KernelOK(p)
  BY UnixLockAssumption, TablesTyped, HeldBacked DEF BackInv
<1>2. CallOK(t) /\ StepOK(t)
  BY InLockCall DEF UnderLockMutex
<1>3. Held(h) \in Level /\ eFileLock[h] \in Level /\ Held(h) <= eFileLock[h]
  BY HeldBelow DEF BackInv
<1>4. iLock[p] = NO_LOCK
  BY <1>2 DEF StepOK, Locking
<1>5. p # q
  BY <1>1, <1>3, <1>4 DEF WriterOK, Level, NO_LOCK, SHARED_LOCK, PENDING_LOCK, EXCLUSIVE_LOCK
<1>6. \A b \in Byte : Compatible(klock[p][b], klock[q][b])
  BY <1>1, <1>5 DEF TableOK, Tables
<1>7. Held(h) >= SHARED_LOCK
  BY <1>3 DEF Level, NO_LOCK, SHARED_LOCK, PENDING_LOCK, EXCLUSIVE_LOCK
<1>8. klock[q]["shared"] # F_UNLCK
  BY <1>1, <1>7 DEF Backed, F_UNLCK, F_WRLCK
<1>9. CASE ExclProcess(p)
  <2>1. klock[p]["shared"] = F_WRLCK
    BY <1>1, <1>2, <1>9 DEF CallOK, KernelOK, ExclOK
  <2>2. QED
    BY <1>6, <1>8, <2>1 DEF Byte, Compatible, F_UNLCK, F_RDLCK, F_WRLCK
<1>10. CASE ~ExclProcess(p) /\ h \in ExclHandle
  <2>1. klock[q]["shared"] = F_WRLCK
    BY <1>1, <1>7, <1>10 DEF Backed
  <2>2. klock[p]["shared"] \in {F_RDLCK, F_WRLCK}
    BY <1>2, <1>10 DEF CallOK, Granted
  <2>3. QED
    BY <1>6, <2>1, <2>2 DEF Byte, Compatible, F_UNLCK, F_RDLCK, F_WRLCK
<1>11. CASE ~ExclProcess(p) /\ h \notin ExclHandle
  <2>1. klock[q]["pending"] = F_WRLCK
    BY <1>1, <1>11 DEF Backed
  <2>2. klock[p]["pending"] # F_UNLCK
    BY <1>11 DEF PendingByteOK, Entering
  <2>3. QED
    BY <1>6, <2>1, <2>2 DEF Byte, Compatible, F_UNLCK, F_RDLCK, F_WRLCK
<1>12. QED
  BY <1>9, <1>10, <1>11

LEMMA ReadersTurnedAway ==
  ASSUME Regular, BackInv, PendingByteOK, [Next]_vars,
         NEW h \in Handle, NEW p \in Process, Held(h) >= PENDING_LOCK, p = ProcOf[h] \/ nShared[p] = 0
  PROVE  nShared'[p] <= nShared[p]
<1>1. /\ nShared \in [Process -> Int] /\ nShared[p] \in Nat /\ InodeOK(p) /\ WriterOK(h)
      /\ Held(h) \in Level /\ eFileLock[h] \in Level /\ Held(h) <= eFileLock[h]
  BY InodeTyped, HeldBelow DEF BackInv, CountInv, Typed
<1>2. iLock[p] \notin {SHARED_LOCK, RESERVED_LOCK}
  BY <1>1 DEF InodeOK, WriterOK, Level, NO_LOCK, SHARED_LOCK, RESERVED_LOCK, PENDING_LOCK, EXCLUSIVE_LOCK
<1>3. ASSUME NEW t \in Thread, FileLockStep(t) PROVE nShared'[p] <= nShared[p]
  <2>1. CASE DropPendingByte(t)
    <3>1. pc[t] = "unpend" \/ nShared' = nShared
      BY <2>1, Zenon DEF DropPendingByte
    <3>2. QED
      BY <1>1, <3>1, EnteringMeetsNoWriter
  <2>2. CASE UnlockFile(t)
    BY <1>1, <2>2 DEF UnlockFile
  <2>3. CASE ~DropPendingByte(t) /\ ~UnlockFile(t)
    <3>1. nShared' = nShared
      BY <1>3, <2>3 DEF FileLockStep, LockPendingByte, LockSharedRange, LockForWrite,
                        DemoteSharedRange, UnlockWriterBytes
    <3>2. QED
      BY <1>1, <3>1
  <2>4. QED
    BY <2>1, <2>2, <2>3
<1>4. ASSUME NEW t \in Thread, DeferClose(t) \/ Release(t) \/ Attach(t) PROVE nShared'[p] <= nShared[p]
  <2>1. nShared' = nShared \/ nShared' = [nShared EXCEPT ![ProcOf[on[t]]] = 0]
    BY <1>4 DEF DeferClose, Release, Attach
  <2>2. QED
    BY <1>1, <2>1
<1>5. ASSUME NEW t \in Thread, NEW g \in Handle, Begin(t, g) PROVE nShared'[p] <= nShared[p]
  <2>1. CASE LockSharedAgain(t, g)
    BY <1>1, <1>2, <2>1 DEF LockSharedAgain, SharedInProcess
  <2>2. CASE ~LockSharedAgain(t, g)
    <3>1. nShared' = nShared
      BY <1>5, <2>2 DEF Begin, OpenDescriptor, Lock, Unlock, Close, inodeVars
    <3>2. QED
      BY <1>1, <3>1
  <2>3. QED
    BY <2>1, <2>2
<1>6. ASSUME NEW q \in Process, Crash(q) PROVE nShared'[p] <= nShared[p]
  BY <1>1, <1>6 DEF Crash
<1>7. CASE UNCHANGED vars
  BY <1>1, <1>7 DEF vars, inodeVars
<1>8. QED
  BY <1>3, <1>4, <1>5, <1>6, <1>7 DEF Next, ThreadStep

(* While a handle is at PENDING or EXCLUSIVE no other process that has no  *)
(* lock gets one, and no other connection of its own process either, for   *)
(* any number of processes, threads and handles and with any lock calls    *)
(* failing, unless the race of unixClose happens.                          *)
THEOREM PendingKeepsReadersOut ==
  ASSUME Regular PROVE Spec /\ []NoCloseRace => NoNewReaders
<1> DEFINE Kept == \A h \in Handle, p \in Process :
                     /\ Held(h) >= PENDING_LOCK
                     /\ p = ProcOf[h] \/ nShared[p] = 0
                     => nShared'[p] <= nShared[p]
<1>1. BackInv /\ PendingByteOK /\ NoCloseRace /\ [Next]_vars => BackInv' /\ PendingByteOK'
  BY NextBacked, NextPendingByte
<1>2. BackInv /\ PendingByteOK /\ [Next]_vars => [Kept]_vars
  BY ReadersTurnedAway
<1>3. Init => PendingByteOK
  BY DEF Init, PendingByteOK, Entering
<1>4. QED
  BY <1>1, <1>2, <1>3, InitBacked, PTL DEF Spec, NoNewReaders
=============================================================================
