------------------------------ MODULE WinLock ------------------------------
(***************************************************************************)
(* Database-file locking of the "win32" VFSes (src/os/os_win.c): winLock,  *)
(* winUnlock, winCheckReservedLock, winClose and the part of winOpen that  *)
(* concerns locks, on NT and on Windows CE.                                *)
(*                                                                         *)
(* No mutex is involved: locks belong to handles, a handle is used by one  *)
(* thread at a time, and every LockFile or UnlockFile call is a step of    *)
(* its own, between which the other handles run.                           *)
(***************************************************************************)
EXTENDS WinLockFile, FiniteSets

CONSTANTS
  Process,    \* operating-system processes
  ProcOf,     \* the process of each handle
  Faults,     \* steps at which a call may fail without a conflict
  MaxLost     \* bound: counts on a reader that has died, in the winceLock

ASSUME WinLockAssumption ==
  /\ ProcOf \in [Handle -> Process]
  /\ Faults \subseteq {"pending", "invalid", "read", "exclusive", "close"}
  /\ IsFiniteSet(Handle)
  /\ MaxLost \in Nat

NO_LOCK        == 0
SHARED_LOCK    == 1
RESERVED_LOCK  == 2
PENDING_LOCK   == 3
EXCLUSIVE_LOCK == 4

Level == NO_LOCK .. EXCLUSIVE_LOCK

PendingTries == 3

VARIABLES
  status,      \* of each handle: "closed", "open", or "leaked" by a failed close
  locktype,
  pc,          \* next step of the call the handle is in
  req,         \* its requested level
  cnt          \* attempts left on the pending byte

fileVars == <<status, locktype>>
callVars == <<pc, req, cnt>>
vars == <<lockFileVars, fileVars, callVars>>

Init ==
  /\ LockFileInit
  /\ status = [h \in Handle |-> "closed"]
  /\ locktype = [h \in Handle |-> NO_LOCK]
  /\ pc = [h \in Handle |-> "idle"]
  /\ req = [h \in Handle |-> NO_LOCK]
  /\ cnt = [h \in Handle |-> 0]

CanCall(h) == status[h] = "open" /\ pc[h] = "idle"

Call(h, step, level) ==
  /\ pc' = [pc EXCEPT ![h] = step]
  /\ req' = [req EXCEPT ![h] = level]
  /\ cnt' = [cnt EXCEPT ![h] = IF step = "pending" THEN PendingTries ELSE 0]

Goto(h, step) ==
  /\ pc' = [pc EXCEPT ![h] = step]
  /\ cnt' = [cnt EXCEPT ![h] = 0]
  /\ UNCHANGED req

Return(h) == Call(h, "idle", NO_LOCK)

SetLevel(h, level) == locktype' = [locktype EXCEPT ![h] = level]

(* winOpen clears the winFile; on CE a handle that may write then maps the *)
(* winceLock.                                                              *)
OpenHandles == {h \in Handle : status[h] = "open"}

Open(h) ==
  /\ status[h] = "closed"
  /\ status' = [status EXCEPT ![h] = "open"]
  /\ winceCreateLock(OpenHandles \ ReadOnly)
  /\ UNCHANGED <<build, local, locktype, callVars>>

(***************************************************************************)
(* winLock.  The guards are its early returns and its asserts on the       *)
(* locking sequence.                                                       *)
(***************************************************************************)
LockSequenceOK(h, level) ==
  /\ \/ level = SHARED_LOCK /\ locktype[h] = NO_LOCK
     \/ level = RESERVED_LOCK /\ locktype[h] = SHARED_LOCK
     \/ level = EXCLUSIVE_LOCK /\ locktype[h] \in SHARED_LOCK .. PENDING_LOCK
  /\ level >= RESERVED_LOCK => h \notin ReadOnly

OnlyWritersTakePending(h, level) ==                 \* mutated
  level = EXCLUSIVE_LOCK /\ locktype[h] <= RESERVED_LOCK
NeedsPendingByte(h, level) ==
  locktype[h] = NO_LOCK \/ (level = EXCLUSIVE_LOCK /\ locktype[h] <= RESERVED_LOCK)

Lock(h, level) ==
  /\ CanCall(h) /\ LockSequenceOK(h, level)
  /\ Call(h, IF NeedsPendingByte(h, level) THEN "pending"
             ELSE IF level = SHARED_LOCK THEN "read"
             ELSE IF level = RESERVED_LOCK THEN "reserve" ELSE "unread", level)
  /\ UNCHANGED <<lockFileVars, fileVars>>

MayFail(h, b, strength) == pc[h] \in Faults \/ ~Grantable(h, b, strength)

(* Up to three attempts; an invalid handle ends the call at once.          *)
LockPendingByte(h) ==
  /\ pc[h] = "pending"
  /\ \/ /\ LockFile(h, "pending", EXCLUSIVE)
        /\ Goto(h, IF req[h] = SHARED_LOCK THEN "read" ELSE "unread")
     \/ /\ MayFail(h, "pending", EXCLUSIVE) /\ cnt[h] > 1
        /\ cnt' = [cnt EXCEPT ![h] = @ - 1]
        /\ UNCHANGED <<local, shared, pc, req>>
     \/ /\ MayFail(h, "pending", EXCLUSIVE)
        /\ cnt[h] = 1 \/ "invalid" \in Faults
        /\ Return(h) /\ UNCHANGED <<local, shared>>
  /\ UNCHANGED <<build, fileVars>>

GetReadLock(h) ==
  /\ pc[h] = "read"
  /\ \/ LockFile(h, "shared", SHARED) /\ Goto(h, "unpend")
     \/ /\ MayFail(h, "shared", SHARED)
        /\ Goto(h, "unpendFail") /\ UNCHANGED <<local, shared>>
  /\ UNCHANGED <<build, fileVars>>

(* The pending byte was needed for a moment only.                          *)
DropPendingByte(h) ==
  /\ pc[h] \in {"unpend", "unpendFail"}
  /\ UnlockFile(h, "pending")
  /\ SetLevel(h, IF pc[h] = "unpend" THEN SHARED_LOCK ELSE NO_LOCK)
  /\ Return(h)
  /\ UNCHANGED <<build, status>>

LockReservedByte(h) ==
  /\ pc[h] = "reserve"
  /\ \/ LockFile(h, "reserved", EXCLUSIVE) /\ SetLevel(h, RESERVED_LOCK)
     \/ ~Grantable(h, "reserved", EXCLUSIVE) /\ UNCHANGED <<local, shared, locktype>>
  /\ Return(h)
  /\ UNCHANGED <<build, status>>

(* With the pending byte in hand, give up the read lock and ask for the    *)
(* whole range; a failure leaves the handle at PENDING, and the read lock  *)
(* must be taken back.                                                     *)
UnlockReadLock(h) ==
  /\ pc[h] = "unread"
  /\ UnlockFile(h, "shared")
  /\ Goto(h, "exclusive")
  /\ UNCHANGED <<build, fileVars>>

LockSharedRange(h) ==
  /\ pc[h] = "exclusive"
  /\ \/ /\ LockFile(h, "shared", EXCLUSIVE)
        /\ SetLevel(h, EXCLUSIVE_LOCK) /\ Return(h)
     \/ /\ MayFail(h, "shared", EXCLUSIVE)
        /\ Goto(h, "reread") /\ UNCHANGED <<local, shared, locktype>>
  /\ UNCHANGED <<build, status>>

(* The result of winGetReadLock is not looked at.                          *)
ReadAgain(h) ==
  IF Grantable(h, "shared", SHARED) THEN LockFile(h, "shared", SHARED)
  ELSE UNCHANGED <<local, shared>>

GetReadLockAgain(h) ==
  /\ pc[h] = "reread"
  /\ ReadAgain(h)
  /\ SetLevel(h, PENDING_LOCK) /\ Return(h)
  /\ UNCHANGED <<build, status>>

(***************************************************************************)
(* winCheckReservedLock.  Below RESERVED it tries the reserved byte and    *)
(* unlocks it again; when the attempt fails it answers 1 and nothing has   *)
(* changed.                                                                *)
(***************************************************************************)
ProbeExclusively == EXCLUSIVE                       \* mutated
ProbeStrength == SHARED

SeesReserved(h) ==
  \/ locktype[h] >= RESERVED_LOCK
  \/ ~Grantable(h, "reserved", ProbeStrength)

CheckReservedLock(h) ==
  /\ CanCall(h) /\ ~SeesReserved(h)
  /\ LockFile(h, "reserved", ProbeStrength)
  /\ Call(h, "unprobe", NO_LOCK)
  /\ UNCHANGED <<build, fileVars>>

EndCheckReservedLock(h) ==
  /\ pc[h] = "unprobe"
  /\ UnlockFile(h, "reserved")
  /\ Return(h)
  /\ UNCHANGED <<build, fileVars>>

(***************************************************************************)
(* winUnlock, called above the requested level: its steps in order, and    *)
(* which of them the level at entry and the requested level call for.      *)
(***************************************************************************)
PendingFirst == <<"unlkPending", "unlkShared", "regain", "unlkReserved", "unlkRead">>  \* mutated
UnlockSteps == <<"unlkShared", "regain", "unlkReserved", "unlkRead", "unlkPending">>

PendingKept(h, step, level) ==                      \* mutated
  /\ step = "unlkShared"   => locktype[h] >= EXCLUSIVE_LOCK
  /\ step = "regain"       => locktype[h] >= EXCLUSIVE_LOCK /\ level = SHARED_LOCK
  /\ step = "unlkReserved" => locktype[h] >= RESERVED_LOCK
  /\ step = "unlkRead"     => level = NO_LOCK
  /\ step = "unlkPending"  => locktype[h] > PENDING_LOCK

Applies(h, step, level) ==
  /\ step = "unlkShared"   => locktype[h] >= EXCLUSIVE_LOCK
  /\ step = "regain"       => locktype[h] >= EXCLUSIVE_LOCK /\ level = SHARED_LOCK
  /\ step = "unlkReserved" => locktype[h] >= RESERVED_LOCK
  /\ step = "unlkRead"     => level = NO_LOCK
  /\ step = "unlkPending"  => locktype[h] >= PENDING_LOCK

StepsAfter(h, i, level) == {j \in i + 1 .. 5 : Applies(h, UnlockSteps[j], level)}

FirstOf(steps) == UnlockSteps[CHOOSE j \in steps : \A k \in steps : j <= k]

Unlock(h, level) ==
  /\ CanCall(h) /\ locktype[h] > level
  /\ Call(h, FirstOf(StepsAfter(h, 0, level)), level)
  /\ UNCHANGED <<lockFileVars, fileVars>>

(* A read lock that is not regained makes the call fail in the end, but    *)
(* the level is set all the same.                                          *)
UnlockStep(h) ==
  \E i \in 1 .. 5 :
    /\ pc[h] = UnlockSteps[i]
    /\ \/ pc[h] \in {"unlkShared", "unlkRead"} /\ UnlockFile(h, "shared")
       \/ pc[h] = "regain" /\ ReadAgain(h)
       \/ pc[h] = "unlkReserved" /\ UnlockFile(h, "reserved")
       \/ pc[h] = "unlkPending" /\ UnlockFile(h, "pending")
    /\ LET left == StepsAfter(h, i, req[h]) IN
       IF left = {} THEN SetLevel(h, req[h]) /\ Return(h)
       ELSE Goto(h, FirstOf(left)) /\ UNCHANGED locktype
    /\ UNCHANGED <<build, status>>

(***************************************************************************)
(* winClose does not unlock: the locks go with the handle.  A CloseHandle  *)
(* that fails three times leaks the handle with its locks; winceLock is    *)
(* given up in any case.                                                   *)
(***************************************************************************)
Close(h) ==
  /\ CanCall(h)
  /\ status' = [status EXCEPT ![h] = "closed"]
  /\ SetLevel(h, NO_LOCK)
  /\ DropLocks({h}) /\ winceDestroyLock(h)
  /\ UNCHANGED <<build, callVars>>

CloseFails(h) ==
  /\ "close" \in Faults /\ CanCall(h)
  /\ status' = [status EXCEPT ![h] = "leaked"]
  /\ IF build = "CE" THEN SetLevel(h, NO_LOCK) /\ DropLocks({h})
                     ELSE UNCHANGED <<locktype, local>>
  /\ winceDestroyLock(h)
  /\ UNCHANGED <<build, callVars>>

(* How far the winceLock is off from what the handles hold.                *)
Stale == [f \in Field |-> shared[f] - Cardinality({h \in Handle : f \in FieldsHeld(h)})]

(* The process dies.  Nothing undoes its counts in the winceLock.          *)
Crash(p) ==
  LET dead == {h \in Handle : ProcOf[h] = p}
      Lost(f, default) == [h \in Handle |-> IF h \in dead THEN default ELSE f[h]]
  IN
  /\ build = "CE" =>
       Stale["nReaders"] + Cardinality({h \in dead : "nReaders" \in FieldsHeld(h)}) <= MaxLost
  /\ status' = Lost(status, "closed") /\ locktype' = Lost(locktype, NO_LOCK)
  /\ pc' = Lost(pc, "idle") /\ req' = Lost(req, NO_LOCK) /\ cnt' = Lost(cnt, 0)
  /\ DropLocks(dead)
  /\ UNCHANGED <<build, shared>>

HandleStep(h) ==
  \/ LockPendingByte(h) \/ GetReadLock(h) \/ DropPendingByte(h) \/ LockReservedByte(h)
  \/ UnlockReadLock(h) \/ LockSharedRange(h) \/ GetReadLockAgain(h)
  \/ EndCheckReservedLock(h) \/ UnlockStep(h)

Begin(h) ==
  \/ Open(h)
  \/ \E level \in {SHARED_LOCK, RESERVED_LOCK, EXCLUSIVE_LOCK} : Lock(h, level)
  \/ \E level \in {NO_LOCK, SHARED_LOCK} : Unlock(h, level)
  \/ CheckReservedLock(h)
  \/ Close(h) \/ CloseFails(h)

Next ==
  \/ \E h \in Handle : HandleStep(h) \/ Begin(h)
  \/ \E p \in Process : Crash(p)

Spec == Init /\ [][Next]_vars

-----------------------------------------------------------------------------
(***************************************************************************)
(* Properties                                                              *)
(***************************************************************************)

(* Every variable stays in its range; on CE no flag is set twice and no    *)
(* counter goes negative.                                                  *)
TypeOK ==
  /\ build \in Builds
  /\ local \in [Handle -> [Byte -> Strength]]
  /\ shared \in [Field -> Nat]
  /\ \A f \in Field \ {"nReaders"} : shared[f] \in 0 .. 1
  /\ build = "CE" => shared["nReaders"] <= MaxLost + Cardinality(Handle)
  /\ status \in [Handle -> {"closed", "open", "leaked"}]
  /\ locktype \in [Handle -> Level]
  /\ pc \in [Handle -> {"idle", "pending", "read", "unpend", "unpendFail", "reserve", "unread",
                        "exclusive", "reread", "unprobe", "unlkShared", "regain",
                        "unlkReserved", "unlkRead", "unlkPending"}]
  /\ req \in [Handle -> Level]
  /\ cnt \in [Handle -> 0 .. PendingTries]

(* The level a handle has in the eyes of the others: PENDING once winLock  *)
(* has the pending byte for good, and no more than the requested level as  *)
(* soon as winUnlock has begun.                                            *)
Upgrading(h) == pc[h] \in {"unread", "exclusive", "reread"}
Unlocking(h) == \E i \in 1 .. 5 : pc[h] = UnlockSteps[i]

Held(h) ==
  IF Upgrading(h) THEN PENDING_LOCK ELSE IF Unlocking(h) THEN req[h] ELSE locktype[h]

(* Between calls, what a handle holds on the three bytes is exactly what   *)
(* its level stands for: no lock is missing, and none was left behind by a *)
(* call that failed half way.  A RESERVED lock is skipped on the way from  *)
(* SHARED to PENDING.                                                      *)
LocksMatchLevel ==
  \A h \in Handle : pc[h] = "idle" =>
    /\ local[h]["shared"] = IF locktype[h] = EXCLUSIVE_LOCK THEN EXCLUSIVE
                            ELSE IF locktype[h] = NO_LOCK THEN UNLOCKED ELSE SHARED
    /\ local[h]["pending"] = IF locktype[h] >= PENDING_LOCK THEN EXCLUSIVE ELSE UNLOCKED
    /\ locktype[h] <= SHARED_LOCK => local[h]["reserved"] = UNLOCKED
    /\ locktype[h] = RESERVED_LOCK => local[h]["reserved"] = EXCLUSIVE

(* A writer that fails to become EXCLUSIVE, or steps down from it, takes   *)
(* its read lock back.  "We should always be able to reacquire the read    *)
(* lock": nobody can have taken the whole range in between.                *)
ReadLockRegained ==
  \A h \in Handle : pc[h] \in {"reread", "regain"} => Grantable(h, "shared", SHARED)

(* An EXCLUSIVE lock precludes all other locks; one handle at most is      *)
(* RESERVED, and one at most is PENDING.                                   *)
Exclusion ==
  \A g, h \in Handle : g # h =>
    /\ ~(Held(g) = EXCLUSIVE_LOCK /\ Held(h) >= SHARED_LOCK)
    /\ ~(Held(g) = RESERVED_LOCK /\ Held(h) = RESERVED_LOCK)
    /\ ~(Held(g) = PENDING_LOCK /\ Held(h) = PENDING_LOCK)

(* "checks if there is a RESERVED lock held": on NT the answer 1 is given  *)
(* only if another handle really is at RESERVED or above; two handles that *)
(* ask at the same time do not see each other.                             *)
NoPhantomReserved ==
  build = "NT" =>
    \A h \in Handle : CanCall(h) /\ SeesReserved(h) => \E g \in Handle : locktype[g] >= RESERVED_LOCK

(* No new SHARED lock while another handle is PENDING or EXCLUSIVE.        *)
PendingStopsNewReaders ==
  [][\A h \in Handle :
       locktype[h] = NO_LOCK /\ locktype'[h] = SHARED_LOCK
       => \A g \in Handle \ {h} : Held(g) < PENDING_LOCK]_vars

(* The winceLock still counts what the handles hold.  Only the death of a  *)
(* process makes a difference, and only the creation of the mapping        *)
(* removes it: locks and closes keep the counters.                         *)
WinceCountersKept ==
  [][build = "CE" =>
       \/ Stale' = Stale
       \/ OpenHandles = {} /\ Stale' = Zeroed
       \/ \E p \in Process : {h \in OpenHandles : ProcOf[h] = p} # {} /\ Crash(p)]_vars

(* Every step of this protocol, on either system, grants, lowers or loses  *)
(* a level as FileLevels allows: the same promise that UnixLock keeps.     *)
Levels == INSTANCE FileLevels WITH held <- [h \in Handle |-> Held(h)]
ImplementsFileLevels == Levels!Spec
=============================================================================
