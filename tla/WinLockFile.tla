---------------------------- MODULE WinLockFile ----------------------------
(***************************************************************************)
(* The byte-range locks under the "win32" VFSes (src/os/os_win.c).  On NT  *)
(* they are the ones of LockFileEx and UnlockFileEx (external).  Windows   *)
(* CE has no shared file locks, and winceLockFile and winceUnlockFile make *)
(* them out of four counters in memory that all openers of the file map    *)
(* and guard by one named mutex.                                           *)
(* A lock belongs to the handle that took it.  The bytes are PENDING_BYTE, *)
(* RESERVED_BYTE and the range of SHARED_SIZE bytes at SHARED_FIRST, which *)
(* is locked as one.                                                       *)
(***************************************************************************)
EXTENDS Integers

CONSTANTS
  Handle,     \* winFile objects on one database file
  ReadOnly,   \* those opened read-only
  Builds      \* the systems considered, a subset of {"NT", "CE"}

ASSUME WinLockFileAssumption == ReadOnly \subseteq Handle /\ Builds \subseteq {"NT", "CE"}

UNLOCKED  == 0
SHARED    == 1     \* LOCKFILE_FAIL_IMMEDIATELY alone
EXCLUSIVE == 2     \* with LOCKFILE_EXCLUSIVE_LOCK

Strength == {UNLOCKED, SHARED, EXCLUSIVE}
Byte == {"pending", "reserved", "shared"}
Field == {"nReaders", "bPending", "bReserved", "bExclusive"}

VARIABLES
  build,      \* never changes
  local,      \* what each handle holds: NT's own record, winFile.local on CE
  shared      \* CE: the winceLock structure all handles map, FALSE as 0

lockFileVars == <<build, local, shared>>

Nothing == [b \in Byte |-> UNLOCKED]
Zeroed  == [f \in Field |-> 0]

LockFileInit ==
  /\ build \in Builds
  /\ local = [h \in Handle |-> Nothing]
  /\ shared = Zeroed

(* winOpen gives a read-only handle no winceLock: its hMutex stays NULL,   *)
(* and both functions then return TRUE at once.                            *)
LocksNothing(h) == build = "CE" /\ h \in ReadOnly

FieldOf(b, strength) ==
  IF b = "pending" THEN "bPending"
  ELSE IF b = "reserved" THEN "bReserved"
  ELSE IF strength = EXCLUSIVE THEN "bExclusive" ELSE "nReaders"

(* winceLockFile has no flags: only the reader's range can be shared.      *)
Obtained(b, strength) ==
  IF build = "CE" /\ b # "shared" THEN EXCLUSIVE ELSE strength

(* Also the handle's own lock is in the way of an exclusive one.           *)
LockFileExGrants(h, b, strength) ==
  \A g \in Handle :
    local[g][b] = UNLOCKED \/ (strength = SHARED /\ (g = h \/ local[g][b] = SHARED))

ReadersMissed(b, strength) ==                       \* mutated
  IF b = "shared" THEN shared["bExclusive"] = 0 ELSE shared[FieldOf(b, strength)] = 0

winceGrants(b, strength) ==
  /\ shared[FieldOf(b, EXCLUSIVE)] = 0
  /\ b = "shared" /\ strength = EXCLUSIVE => shared["nReaders"] = 0

Grantable(h, b, strength) ==
  \/ LocksNothing(h)
  \/ build = "NT" /\ LockFileExGrants(h, b, strength)
  \/ build = "CE" /\ winceGrants(b, strength)

Count(f, n) == IF build = "CE" THEN [shared EXCEPT ![f] = @ + n] ELSE shared

LockFile(h, b, strength) ==
  /\ Grantable(h, b, strength)
  /\ IF LocksNothing(h) THEN UNCHANGED <<local, shared>>
     ELSE /\ local' = [local EXCEPT ![h][b] = Obtained(b, strength)]
          /\ shared' = Count(FieldOf(b, strength), 1)

(* Without a lock the call fails, and the callers do not look.             *)
UnlockFile(h, b) ==
  /\ local' = [local EXCEPT ![h][b] = UNLOCKED]
  /\ shared' = IF local[h][b] = UNLOCKED THEN shared ELSE Count(FieldOf(b, local[h][b]), -1)

FieldsHeld(h) == {FieldOf(b, local[h][b]) : b \in {c \in Byte : local[h][c] # UNLOCKED}}

(* winceCreateLock: whoever creates the mapping clears it.                 *)
winceCreateLock(others) == shared' = IF others = {} THEN Zeroed ELSE shared

DestroyForgetsReaders(h) ==                         \* mutated
  shared' = [f \in Field |->
    IF build = "CE" /\ f \in FieldsHeld(h) \ {"nReaders"} THEN shared[f] - 1 ELSE shared[f]]

winceDestroyLock(h) ==
  shared' = [f \in Field |->
    IF build = "CE" /\ f \in FieldsHeld(h) THEN shared[f] - 1 ELSE shared[f]]

(* The system drops the locks of a handle that is closed.                  *)
DropLocks(handles) == local' = [h \in Handle |-> IF h \in handles THEN Nothing ELSE local[h]]
=============================================================================
