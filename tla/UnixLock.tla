----------------------------- MODULE UnixLock -----------------------------
(***************************************************************************)
(* Database-file locking of the "unix" and "unix-excl" VFSes               *)
(* (src/os/os_unix.c): unixLock, posixUnlock, unixCheckReservedLock,       *)
(* unixClose, and the part of unixOpen that finds a descriptor and         *)
(* attaches the handle to its unixInodeInfo.                               *)
(*                                                                         *)
(* Many handles (unixFile) of many processes are open on one database      *)
(* file.  The handles of one process share one unixInodeInfo, whose        *)
(* pLockMutex makes a lock or unlock call atomic for the other threads of  *)
(* the process; the fcntl calls inside it are separate steps, because      *)
(* other processes run between them.                                       *)
(***************************************************************************)
EXTENDS FcntlLocks, Integers, FiniteSets

CONSTANTS
  Process,     \* operating-system processes
  Thread,      \* threads; each belongs to one process
  Handle,      \* unixFile objects (database connections); each belongs to one process
  NoHandle,    \* value of on[t] while thread t is in no call
  ProcOf,      \* the process of each thread and handle
  ExclHandle,  \* handles opened read/write through the "unix-excl" VFS
  LowFdFree,   \* whether open() may return a descriptor below SQLITE_MINIMUM_FILE_DESCRIPTOR
  Faults,      \* subset of {"setlk", "unlck"}: fcntl calls that may fail without a conflict
  MaxFd        \* bound: descriptors one process has on the file

ASSUME UnixLockAssumption ==
  /\ NoHandle \notin Handle
  /\ ProcOf \in [Thread \cup Handle -> Process]
  /\ ExclHandle \subseteq Handle
  /\ LowFdFree \in BOOLEAN
  /\ Faults \subseteq {"setlk", "unlck"}
  /\ MaxFd \in Nat
  /\ IsFiniteSet(Handle)

NO_LOCK        == 0
SHARED_LOCK    == 1
RESERVED_LOCK  == 2
PENDING_LOCK   == 3
EXCLUSIVE_LOCK == 4

Level == NO_LOCK .. EXCLUSIVE_LOCK

(* PENDING_BYTE, RESERVED_BYTE and the range of SHARED_SIZE bytes at       *)
(* SHARED_FIRST, which is always locked as a whole.                        *)
Byte == {"pending", "reserved", "shared"}

VARIABLES
  \* the kernel
  klock,         \* lock table of the database file
  \* unixInodeInfo, one per process that has the file open
  iLock,         \* eFileLock of the inode
  nShared,
  nLock,
  bProcessLock,
  nUnused,       \* length of the pUnused list
  nRef,
  \* unixFile
  status,        \* "closed", "opening", "open" or "closing"
  eFileLock,
  \* the call each thread is in
  pc,            \* next step of the call
  on,            \* handle it was called for
  req            \* requested level

inodeVars == <<iLock, nShared, nLock, bProcessLock, nUnused, nRef>>
fileVars  == <<status, eFileLock>>
callVars  == <<pc, on, req>>
vars == <<klock, inodeVars, fileVars, callVars>>

(***************************************************************************)
(* The two mutexes of a process.  pLockMutex is held from the first to the *)
(* last step of a lock or unlock call, unixBigLock while a closing handle  *)
(* is taken off its inode.                                                 *)
(***************************************************************************)
UnderLockMutex ==
  {"pending", "shared", "unpend", "unpendFail", "write", "demote", "unlckBytes", "unlckFile"}
UnderBigLock == {"release", "releaseDeferred"}

LockMutexFree(p) == \A t \in Thread : ProcOf[t] = p => pc[t] \notin UnderLockMutex
BigLockFree(p)   == \A t \in Thread : ProcOf[t] = p => pc[t] \notin UnderBigLock

(* A handle is used by one thread at a time.                               *)
CanCall(t, h) ==
  /\ ProcOf[t] = ProcOf[h]
  /\ pc[t] = "idle"
  /\ \A u \in Thread : on[u] # h

Call(t, h, step, level) ==
  /\ pc'  = [pc EXCEPT ![t] = step]
  /\ on'  = [on EXCEPT ![t] = h]
  /\ req' = [req EXCEPT ![t] = level]

Goto(t, step) == pc' = [pc EXCEPT ![t] = step] /\ UNCHANGED <<on, req>>

Return(t) == Call(t, NoHandle, "idle", NO_LOCK)

(* unixUnlock returns to its caller, or to unixClose, which ignores its    *)
(* result.                                                                 *)
ReturnFromUnlock(t) ==
  IF status[on[t]] = "closing" THEN Call(t, on[t], "close", NO_LOCK) ELSE Return(t)

Init ==
  /\ klock = [p \in Process |-> NoLocks(Byte)]
  /\ iLock = [p \in Process |-> NO_LOCK]
  /\ nShared = [p \in Process |-> 0]
  /\ nLock = [p \in Process |-> 0]
  /\ bProcessLock = [p \in Process |-> 0]
  /\ nUnused = [p \in Process |-> 0]
  /\ nRef = [p \in Process |-> 0]
  /\ status = [h \in Handle |-> "closed"]
  /\ eFileLock = [h \in Handle |-> NO_LOCK]
  /\ pc = [t \in Thread |-> "idle"]
  /\ on = [t \in Thread |-> NoHandle]
  /\ req = [t \in Thread |-> NO_LOCK]

(***************************************************************************)
(* unixFileLock.  A "unix-excl" handle takes one write lock on the shared  *)
(* range the first time anything is locked, counts it in nLock, and makes  *)
(* every later request a no-op.  The result is the set of outcomes: the    *)
(* lock table afterwards, and 1 in "taken" if the process lock was taken.  *)
(***************************************************************************)
Locked(p, bytes, type, taken) ==
  [rc |-> 0, table |-> SetLock(klock, p, bytes, type), taken |-> taken]
NoChange(rc) == [rc |-> rc, table |-> klock, taken |-> 0]

ProcessLockShared == F_RDLCK             \* mutated
ProcessLockType == F_WRLCK

MayFail(type) == IF type = F_UNLCK THEN "unlck" \in Faults ELSE "setlk" \in Faults

(* One fcntl call: it is granted, or it fails on a conflict or by a fault.  *)
SetLockOutcomes(p, bytes, type, taken) ==
  {r \in {Locked(p, bytes, type, taken), NoChange(-1)} :
     IF r.rc = 0 THEN Grantable(klock, p, bytes, type)
                 ELSE MayFail(type) \/ ~Grantable(klock, p, bytes, type)}

FileLock(h, bytes, type) ==
  LET p == ProcOf[h] IN
  IF h \notin ExclHandle THEN SetLockOutcomes(p, bytes, type, 0)
  ELSE IF bProcessLock[p] = 1 THEN {NoChange(0)}
  ELSE SetLockOutcomes(p, {"shared"}, ProcessLockType, 1)

(* The state one unixFileLock leaves, when the caller adds n to nLock.     *)
Apply(r, h, n) ==
  LET p == ProcOf[h] IN
  /\ klock' = r.table
  /\ bProcessLock' = [bProcessLock EXCEPT ![p] = @ + r.taken]
  /\ nLock' = [nLock EXCEPT ![p] = @ + r.taken + n]

(***************************************************************************)
(* unixLock.  The guards on the current and the requested level are the    *)
(* function's early return and the asserts on the locking sequence.        *)
(***************************************************************************)
LockSequenceOK(h, level) ==
  \/ level = SHARED_LOCK /\ eFileLock[h] = NO_LOCK
  \/ level = RESERVED_LOCK /\ eFileLock[h] = SHARED_LOCK
  \/ level = EXCLUSIVE_LOCK /\ eFileLock[h] \in SHARED_LOCK .. PENDING_LOCK

(* Mutated: only a PENDING or EXCLUSIVE lock of the process is in the way.  *)
BusyBelowPendingMissed(h, level) ==
  eFileLock[h] # iLock[ProcOf[h]] /\ iLock[ProcOf[h]] >= PENDING_LOCK

(* Mutated: a reader is let in beside a PENDING lock of the process.        *)
BusyPendingMissed(h, level) == eFileLock[h] # iLock[ProcOf[h]] /\ level > SHARED_LOCK

(* "some thread using this PID has a lock via a different unixFile handle  *)
(* that precludes the requested lock"                                      *)
BusyInProcess(h, level) ==
  /\ eFileLock[h] # iLock[ProcOf[h]]
  /\ iLock[ProcOf[h]] >= PENDING_LOCK \/ level > SHARED_LOCK

CanLock(t, h, level) ==
  /\ CanCall(t, h) /\ status[h] = "open"
  /\ LockSequenceOK(h, level)
  /\ LockMutexFree(ProcOf[h])
  /\ ~BusyInProcess(h, level)

SharedInProcess(h) == iLock[ProcOf[h]] \in {SHARED_LOCK, RESERVED_LOCK}

(* Mutated: the inode counts the reader but not its lock.                  *)
LockSharedAgainUncounted(t, h) ==
  /\ CanLock(t, h, SHARED_LOCK) /\ SharedInProcess(h)
  /\ eFileLock' = [eFileLock EXCEPT ![h] = SHARED_LOCK]
  /\ nShared' = [nShared EXCEPT ![ProcOf[h]] = @ + 1]
  /\ UNCHANGED <<klock, iLock, nLock, bProcessLock, nUnused, nRef, status, callVars>>

(* Another handle of the process already has the shared range locked.      *)
LockSharedAgain(t, h) ==
  LET p == ProcOf[h] IN
  /\ CanLock(t, h, SHARED_LOCK) /\ SharedInProcess(h)
  /\ eFileLock' = [eFileLock EXCEPT ![h] = SHARED_LOCK]
  /\ nShared' = [nShared EXCEPT ![p] = @ + 1]
  /\ nLock' = [nLock EXCEPT ![p] = @ + 1]
  /\ UNCHANGED <<klock, iLock, bProcessLock, nUnused, nRef, status, callVars>>

(* The request starts with the pending byte, or, when that is not needed,  *)
(* with the bytes it is about.                                             *)
NeedsPendingByte(h, level) ==
  level = SHARED_LOCK \/ (level = EXCLUSIVE_LOCK /\ eFileLock[h] < PENDING_LOCK)

(* "other threads in this process still holding a shared lock"             *)
OtherReaders(h) == nShared[ProcOf[h]] > 1

Lock(t, h, level) ==
  /\ CanLock(t, h, level)
  /\ ~(level = SHARED_LOCK /\ SharedInProcess(h))
  /\ \/ NeedsPendingByte(h, level) /\ Call(t, h, "pending", level)
     \/ /\ ~NeedsPendingByte(h, level)
        /\ level = EXCLUSIVE_LOCK => ~OtherReaders(h)
        /\ Call(t, h, "write", level)
  /\ UNCHANGED <<klock, inodeVars, fileVars>>

(* Both levels after the request: rc==SQLITE_OK, or an EXCLUSIVE request   *)
(* that got no further than PENDING.                                       *)
SetLevel(h, level) ==
  /\ eFileLock' = [eFileLock EXCEPT ![h] = level]
  /\ iLock' = [iLock EXCEPT ![ProcOf[h]] = level]

PendingAlwaysShared(level) == F_RDLCK    \* mutated
PendingType(level) == IF level = SHARED_LOCK THEN F_RDLCK ELSE F_WRLCK

LockPendingByte(t) ==
  LET h == on[t] IN
  /\ pc[t] = "pending"
  /\ \E r \in FileLock(h, {"pending"}, PendingType(req[t])) :
       /\ Apply(r, h, 0)
       /\ \/ /\ r.rc = 0 /\ req[t] = SHARED_LOCK
             /\ Goto(t, "shared") /\ UNCHANGED <<iLock, eFileLock>>
          \/ /\ r.rc = 0 /\ req[t] = EXCLUSIVE_LOCK /\ ~OtherReaders(h)
             /\ Goto(t, "write") /\ UNCHANGED <<iLock, eFileLock>>
          \/ /\ r.rc = 0 /\ req[t] = EXCLUSIVE_LOCK /\ OtherReaders(h)
             /\ Return(t) /\ SetLevel(h, PENDING_LOCK)
          \/ r.rc # 0 /\ Return(t) /\ UNCHANGED <<iLock, eFileLock>>
  /\ UNCHANGED <<nShared, nUnused, nRef, status>>

LockSharedRange(t) ==
  LET h == on[t] IN
  /\ pc[t] = "shared"
  /\ \E r \in FileLock(h, {"shared"}, F_RDLCK) :
       /\ Apply(r, h, 0)
       /\ Goto(t, IF r.rc = 0 THEN "unpend" ELSE "unpendFail")
  /\ UNCHANGED <<iLock, nShared, nUnused, nRef, fileVars>>

(* Drop the temporary pending byte; the lock is granted if both calls      *)
(* succeeded.                                                              *)
DropPendingByte(t) ==
  LET h == on[t] IN
  /\ pc[t] \in {"unpend", "unpendFail"}
  /\ \E r \in FileLock(h, {"pending"}, F_UNLCK) :
       \/ /\ r.rc = 0 /\ pc[t] = "unpend"
          /\ Apply(r, h, 1)
          /\ SetLevel(h, SHARED_LOCK)
          /\ nShared' = [nShared EXCEPT ![ProcOf[h]] = 1]
       \/ /\ r.rc # 0 \/ pc[t] = "unpendFail"
          /\ Apply(r, h, 0)
          /\ UNCHANGED <<iLock, eFileLock, nShared>>
  /\ Return(t)
  /\ UNCHANGED <<nUnused, nRef, status>>

(* RESERVED takes the reserved byte, EXCLUSIVE the shared range.           *)
LockForWrite(t) ==
  LET h == on[t]
      byte == IF req[t] = RESERVED_LOCK THEN {"reserved"} ELSE {"shared"}
  IN
  /\ pc[t] = "write"
  /\ \E r \in FileLock(h, byte, F_WRLCK) :
       /\ Apply(r, h, 0)
       /\ \/ r.rc = 0 /\ SetLevel(h, req[t])
          \/ r.rc # 0 /\ req[t] = EXCLUSIVE_LOCK /\ SetLevel(h, PENDING_LOCK)
          \/ r.rc # 0 /\ req[t] = RESERVED_LOCK /\ UNCHANGED <<iLock, eFileLock>>
  /\ Return(t)
  /\ UNCHANGED <<nShared, nUnused, nRef, status>>

(* Mutated: only the file is asked, which does not show the locks of the   *)
(* caller's own process.                                                   *)
CheckReservedInFileOnly(h) ==
  bProcessLock[ProcOf[h]] = 0 /\ ~Grantable(klock, ProcOf[h], {"reserved"}, F_WRLCK)

(* unixCheckReservedLock: the answer it gives for handle h.                *)
CheckReservedLock(h) ==
  \/ iLock[ProcOf[h]] > SHARED_LOCK
  \/ /\ bProcessLock[ProcOf[h]] = 0
     /\ ~Grantable(klock, ProcOf[h], {"reserved"}, F_WRLCK)

(***************************************************************************)
(* unixUnlock / posixUnlock, called by the pager or by unixClose.          *)
(***************************************************************************)
FirstUnlockStep(h, level) ==
  IF eFileLock[h] <= SHARED_LOCK THEN "unlckFile"
  ELSE IF level = SHARED_LOCK THEN "demote" ELSE "unlckBytes"

Unlock(t, h, level) ==
  /\ CanCall(t, h) /\ status[h] = "open"
  /\ eFileLock[h] > level
  /\ LockMutexFree(ProcOf[h])
  /\ Call(t, h, FirstUnlockStep(h, level), level)
  /\ UNCHANGED <<klock, inodeVars, fileVars>>

(* Downgrade the shared range to a read lock while the pending byte still  *)
(* keeps other processes out.                                              *)
DemoteSharedRange(t) ==
  LET h == on[t] IN
  /\ pc[t] = "demote"
  /\ \E r \in FileLock(h, {"shared"}, F_RDLCK) :
       /\ Apply(r, h, 0)
       /\ IF r.rc = 0 THEN Goto(t, "unlckBytes") ELSE ReturnFromUnlock(t)
  /\ UNCHANGED <<iLock, nShared, nUnused, nRef, fileVars>>

UnlockWriterBytes(t) ==
  LET h == on[t] IN
  /\ pc[t] = "unlckBytes"
  /\ \E r \in FileLock(h, {"pending", "reserved"}, F_UNLCK) :
       /\ Apply(r, h, 0)
       /\ iLock' = IF r.rc = 0 THEN [iLock EXCEPT ![ProcOf[h]] = SHARED_LOCK] ELSE iLock
       /\ \/ r.rc = 0 /\ req[t] = NO_LOCK /\ Goto(t, "unlckFile") /\ UNCHANGED eFileLock
          \/ /\ r.rc = 0 /\ req[t] = SHARED_LOCK /\ ReturnFromUnlock(t)
             /\ eFileLock' = [eFileLock EXCEPT ![h] = SHARED_LOCK]
          \/ r.rc # 0 /\ ReturnFromUnlock(t) /\ UNCHANGED eFileLock
  /\ UNCHANGED <<nShared, nUnused, nRef, status>>

(* The last SHARED holder of the process unlocks the whole file; whether   *)
(* or not that fails, the handle and the inode are unlocked.  When nLock   *)
(* reaches 0, closePendingFds closes the descriptors on pUnused.           *)
UnlockFile(t) ==
  LET h == on[t]
      p == ProcOf[h]
      last == nShared[p] = 1
  IN
  /\ pc[t] = "unlckFile"
  /\ \E r \in IF last THEN FileLock(h, Byte, F_UNLCK) ELSE {NoChange(0)} :
       LET left == nLock[p] + r.taken - 1 IN
       /\ bProcessLock' = [bProcessLock EXCEPT ![p] = @ + r.taken]
       /\ nLock' = [nLock EXCEPT ![p] = left]
       /\ nUnused' = IF left = 0 THEN [nUnused EXCEPT ![p] = 0] ELSE nUnused
       /\ klock' = IF left = 0 /\ nUnused[p] > 0 THEN DropLocks(r.table, p) ELSE r.table
  /\ nShared' = [nShared EXCEPT ![p] = @ - 1]
  /\ iLock' = IF last THEN [iLock EXCEPT ![p] = NO_LOCK] ELSE iLock
  /\ eFileLock' = [eFileLock EXCEPT ![h] = NO_LOCK]
  /\ ReturnFromUnlock(t)
  /\ UNCHANGED <<nRef, status>>

(***************************************************************************)
(* unixClose: unlock, then under unixBigLock decide whether the descriptor *)
(* can be closed, take the handle off the inode and close.                 *)
(***************************************************************************)
Close(t, h) ==
  /\ CanCall(t, h) /\ status[h] = "open"
  /\ status' = [status EXCEPT ![h] = "closing"]
  /\ \/ eFileLock[h] = NO_LOCK /\ Call(t, h, "close", NO_LOCK)
     \/ /\ eFileLock[h] > NO_LOCK /\ LockMutexFree(ProcOf[h])
        /\ Call(t, h, FirstUnlockStep(h, NO_LOCK), NO_LOCK)
  /\ UNCHANGED <<klock, inodeVars, eFileLock>>

(* setPendingFd when locks are outstanding, under pLockMutex.              *)
LocksOutstandingMissed(p) == FALSE       \* mutated: the close is never deferred
LocksOutstanding(p) == nLock[p] > 0

DeferClose(t) ==
  LET p == ProcOf[on[t]] IN
  /\ pc[t] = "close"
  /\ BigLockFree(p) /\ LockMutexFree(p)
  /\ \/ /\ LocksOutstanding(p)
        /\ nUnused' = [nUnused EXCEPT ![p] = @ + 1]
        /\ Goto(t, "releaseDeferred")
     \/ /\ ~LocksOutstanding(p)
        /\ Goto(t, "release")
        /\ UNCHANGED nUnused
  /\ UNCHANGED <<klock, iLock, nShared, nLock, bProcessLock, nRef, fileVars>>

(* closeUnixFile closes the handle's own descriptor, unless it was put on  *)
(* pUnused, and releaseInodeInfo with the last reference all on pUnused.   *)
ClosesOwnFdOnly(t) == pc[t] = "release"  \* mutated: pUnused is forgotten
ClosesFd(t) ==
  \/ pc[t] = "release"
  \/ nRef[ProcOf[on[t]]] = 1 /\ nUnused[ProcOf[on[t]]] > 0

(* releaseInodeInfo and closeUnixFile.  pLockMutex was left in between.    *)
Release(t) ==
  LET h == on[t]
      p == ProcOf[h]
      lastRef == nRef[p] = 1
      Freed(f) == IF lastRef THEN [f EXCEPT ![p] = 0] ELSE f
  IN
  /\ pc[t] \in {"release", "releaseDeferred"}
  /\ nRef' = [nRef EXCEPT ![p] = @ - 1]
  /\ iLock' = Freed(iLock)
  /\ nShared' = Freed(nShared)
  /\ nLock' = Freed(nLock)
  /\ bProcessLock' = Freed(bProcessLock)
  /\ nUnused' = Freed(nUnused)
  /\ klock' = IF ClosesFd(t) THEN DropLocks(klock, p) ELSE klock
  /\ status' = [status EXCEPT ![h] = "closed"]
  /\ eFileLock' = [eFileLock EXCEPT ![h] = NO_LOCK]
  /\ Return(t)

(***************************************************************************)
(* unixOpen of the main database: a descriptor from pUnused (the flags may *)
(* or may not match) or from robust_open, then fillInUnixFile.             *)
(***************************************************************************)
Descriptors(p) ==
  nUnused[p] + Cardinality({h \in Handle : ProcOf[h] = p /\ status[h] # "closed"})

(* robust_open closes a descriptor below 3 at once and opens another: the  *)
(* close() drops the locks of the process.  No mutex is held, so that may  *)
(* come in the middle of another thread's lock or unlock call.             *)
AfterRobustOpen(p) == {klock} \cup (IF LowFdFree THEN {DropLocks(klock, p)} ELSE {})

OpenDescriptor(t, h) ==
  LET p == ProcOf[h] IN
  /\ CanCall(t, h) /\ status[h] = "closed"
  /\ Descriptors(p) < MaxFd
  /\ status' = [status EXCEPT ![h] = "opening"]
  /\ Call(t, h, "attach", NO_LOCK)
  /\ UNCHANGED <<iLock, nShared, nLock, bProcessLock, nRef, eFileLock>>
  /\ \/ /\ BigLockFree(p) /\ LockMutexFree(p) \* findReusableFd
        /\ nUnused[p] > 0
        /\ nUnused' = [nUnused EXCEPT ![p] = @ - 1]
        /\ UNCHANGED klock
     \/ /\ klock' \in AfterRobustOpen(p)
        /\ UNCHANGED nUnused

(* findInodeInfo; it fails only when the inode is new and memory is out,   *)
(* and then the descriptor is closed.                                      *)
Attach(t) ==
  LET h == on[t]
      p == ProcOf[h]
  IN
  /\ pc[t] = "attach" /\ BigLockFree(p)
  /\ \/ /\ nRef' = [nRef EXCEPT ![p] = @ + 1]
        /\ status' = [status EXCEPT ![h] = "open"]
        /\ UNCHANGED klock
     \/ /\ nRef[p] = 0
        /\ klock' = DropLocks(klock, p)
        /\ status' = [status EXCEPT ![h] = "closed"]
        /\ UNCHANGED nRef
  /\ Return(t)
  /\ UNCHANGED <<iLock, nShared, nLock, bProcessLock, nUnused, eFileLock>>

(* The process dies: its memory and its locks are gone.                    *)
Crash(p) ==
  LET Lost(f, default) == [x \in DOMAIN f |-> IF ProcOf[x] = p THEN default ELSE f[x]]
      Gone(f) == [f EXCEPT ![p] = 0]
  IN
  /\ klock' = DropLocks(klock, p)
  /\ iLock' = Gone(iLock) /\ nShared' = Gone(nShared) /\ nLock' = Gone(nLock)
  /\ bProcessLock' = Gone(bProcessLock) /\ nUnused' = Gone(nUnused) /\ nRef' = Gone(nRef)
  /\ status' = Lost(status, "closed") /\ eFileLock' = Lost(eFileLock, NO_LOCK)
  /\ pc' = Lost(pc, "idle") /\ on' = Lost(on, NoHandle) /\ req' = Lost(req, NO_LOCK)

FileLockStep(t) ==
  \/ LockPendingByte(t) \/ LockSharedRange(t) \/ DropPendingByte(t) \/ LockForWrite(t)
  \/ DemoteSharedRange(t) \/ UnlockWriterBytes(t) \/ UnlockFile(t)

ThreadStep(t) == FileLockStep(t) \/ DeferClose(t) \/ Release(t) \/ Attach(t)

Begin(t, h) ==
  \/ OpenDescriptor(t, h)
  \/ LockSharedAgain(t, h)
  \/ \E level \in {SHARED_LOCK, RESERVED_LOCK, EXCLUSIVE_LOCK} : Lock(t, h, level)
  \/ \E level \in {NO_LOCK, SHARED_LOCK} : Unlock(t, h, level)
  \/ Close(t, h)

Next ==
  \/ \E t \in Thread : ThreadStep(t)
  \/ \E t \in Thread, h \in Handle : Begin(t, h)
  \/ \E p \in Process : Crash(p)

Spec == Init /\ [][Next]_vars

(***************************************************************************)
(* A call that has begun runs on; a transaction ends, by committing or by  *)
(* giving up, so its handle is unlocked at some point; a writer that was   *)
(* left at PENDING asks for EXCLUSIVE again (the busy handler).  The last  *)
(* two are calls that the threads make in between others, so their         *)
(* fairness is strong.                                                     *)
(***************************************************************************)
Fairness ==
  /\ \A t \in Thread : WF_vars(ThreadStep(t))
  /\ \A h \in Handle :
       /\ SF_vars(eFileLock[h] < PENDING_LOCK /\ \E t \in Thread : Unlock(t, h, NO_LOCK))
       /\ SF_vars(eFileLock[h] = PENDING_LOCK /\ \E t \in Thread : Lock(t, h, EXCLUSIVE_LOCK))

FairSpec == Spec /\ Fairness

-----------------------------------------------------------------------------
(***************************************************************************)
(* Properties                                                              *)
(***************************************************************************)

(* Every variable stays in its range; the counters of unixInodeInfo never  *)
(* go negative, which posixUnlock asserts of nLock.                        *)
TypeOK ==
  /\ klock \in [Process -> [Byte -> LockType]]
  /\ iLock \in [Process -> Level]
  /\ nShared \in [Process -> Nat] /\ nLock \in [Process -> Nat]
  /\ bProcessLock \in [Process -> 0 .. 1]
  /\ nUnused \in [Process -> Nat] /\ nRef \in [Process -> Nat]
  /\ status \in [Handle -> {"closed", "opening", "open", "closing"}]
  /\ eFileLock \in [Handle -> Level]
  /\ pc \in [Thread -> UnderLockMutex \cup UnderBigLock \cup {"idle", "close", "attach"}]
  /\ on \in [Thread -> Handle \cup {NoHandle}]
  /\ req \in [Thread -> Level]

(* The level a handle still has while posixUnlock is part way down: after  *)
(* the downgrade of the shared range a writer has PENDING at most, after   *)
(* the pending and reserved bytes are unlocked it has SHARED.              *)
InCall(h, step, level) == \E t \in Thread : on[t] = h /\ pc[t] = step /\ req[t] = level

Held(h) ==
  IF InCall(h, "unlckFile", NO_LOCK) /\ eFileLock[h] > SHARED_LOCK THEN SHARED_LOCK
  ELSE IF InCall(h, "unlckBytes", SHARED_LOCK) /\ eFileLock[h] = EXCLUSIVE_LOCK THEN PENDING_LOCK
  ELSE eFileLock[h]

(* What a handle believes it holds, the kernel holds for its process: the  *)
(* reason for nShared, nLock and the deferred close.  Another handle's     *)
(* unlock or close must never take it away.                                *)
Backed(h) ==
  LET k == klock[ProcOf[h]] IN
  IF h \in ExclHandle
  THEN Held(h) >= SHARED_LOCK => bProcessLock[ProcOf[h]] = 1 /\ k["shared"] = F_WRLCK
  ELSE /\ Held(h) >= SHARED_LOCK => k["shared"] # F_UNLCK
       /\ Held(h) = RESERVED_LOCK => k["reserved"] = F_WRLCK
       /\ Held(h) >= PENDING_LOCK => k["pending"] = F_WRLCK
       /\ Held(h) = EXCLUSIVE_LOCK => k["shared"] = F_WRLCK

LocksBacked == \A h \in Handle : Backed(h)

(* The counters of the inode count what its handles hold, and its level is *)
(* the highest of theirs, while no lock or unlock call is under way.       *)
HandlesOf(p) == {h \in Handle : ProcOf[h] = p}
Holders(p) == {h \in HandlesOf(p) : Held(h) >= SHARED_LOCK}

Bookkeeping ==
  \A p \in Process :
    /\ nShared[p] = Cardinality(Holders(p))
    /\ nLock[p] = nShared[p] + bProcessLock[p]
    /\ nRef[p] = Cardinality({h \in HandlesOf(p) : status[h] \in {"open", "closing"}})
    /\ \A h \in HandlesOf(p) : eFileLock[h] > SHARED_LOCK => Held(h) <= iLock[p]
    /\ iLock[p] > NO_LOCK => \E h \in Holders(p) : Held(h) <= iLock[p] /\ eFileLock[h] >= iLock[p]

(* At most one handle of a process is past SHARED, and the inode's level   *)
(* is then that handle's: posixUnlock's assert.                            *)
OneWriterPerProcess ==
  \A g, h \in Handle :
    /\ g # h /\ ProcOf[g] = ProcOf[h] => ~(Held(g) > SHARED_LOCK /\ Held(h) > SHARED_LOCK)
    /\ ProcOf[g] = ProcOf[h] /\ InCall(h, "unlckBytes", NO_LOCK) => iLock[ProcOf[h]] = eFileLock[h]

(* Nothing is left over.  A descriptor waits on pUnused only while a lock  *)
(* is outstanding, so the list neither grows without bound nor survives    *)
(* the last lock; and a process that has closed all its handles holds no   *)
(* kernel lock, even when an unlock failed on the way.                     *)
NoLeftovers ==
  \A p \in Process :
    /\ nUnused[p] > 0 => nLock[p] > 0 /\ nRef[p] > 0
    /\ (\A h \in HandlesOf(p) : status[h] \in {"closed", "opening"}) => klock[p] = NoLocks(Byte)

(* A RESERVED lock is seen by unixCheckReservedLock of every other handle  *)
(* that is at SHARED or below and not in a call.  The process lock of      *)
(* unix-excl covers the shared range only: another process does not see    *)
(* the level, but cannot get SHARED either.                                *)
ReservedIsVisible ==
  \A g, h \in Handle :
    /\ Held(g) = RESERVED_LOCK /\ status[h] = "open" /\ eFileLock[h] <= SHARED_LOCK
    /\ g \in ExclHandle => ProcOf[g] = ProcOf[h] \/ eFileLock[h] = SHARED_LOCK
    /\ LockMutexFree(ProcOf[h])
    => CheckReservedLock(h)

(* The levels that handles hold are those of the abstract specification:   *)
(* every step of the fcntl protocol grants, lowers or loses a level as     *)
(* FileLevels allows.                                                      *)
Levels == INSTANCE FileLevels WITH held <- [h \in Handle |-> Held(h)]
ImplementsFileLevels == Levels!Spec

(* A handle at PENDING or EXCLUSIVE turns readers away: while it is there  *)
(* a process without a lock gets none, and in its own process no other     *)
(* connection does.  A process that has a lock already may share it with   *)
(* more of its connections (LockSharedAgain does not look at the file).    *)
NoNewReaders ==
  [][\A h \in Handle, p \in Process :
       /\ Held(h) >= PENDING_LOCK
       /\ p = ProcOf[h] \/ nShared[p] = 0
       => nShared'[p] <= nShared[p]]_vars

(* So a writer left at PENDING gets EXCLUSIVE once the present readers are *)
(* done, unless it gives up first or another process, of several           *)
(* connections, never lets go of its lock.                                 *)
PendingWriterProceeds ==
  \A h \in Handle :
    eFileLock[h] = PENDING_LOCK ~>
      \/ eFileLock[h] \in {EXCLUSIVE_LOCK, NO_LOCK}
      \/ \E p \in Process \ {ProcOf[h]} : Cardinality(HandlesOf(p)) > 1 /\ [](nShared[p] > 0)

(* "Existing SHARED locks may persist, but no new SHARED locks may be      *)
(* obtained by other processes" (os.h): every reader's transaction ends,   *)
(* so the writer's turn would always come.                                 *)
PendingNeverStarves ==
  \A h \in Handle : eFileLock[h] = PENDING_LOCK ~> eFileLock[h] \in {EXCLUSIVE_LOCK, NO_LOCK}
=============================================================================
