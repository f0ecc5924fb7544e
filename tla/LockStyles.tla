---------------------------- MODULE LockStyles ----------------------------
(***************************************************************************)
(* The other locking styles of src/os/os_unix.c: a lock directory beside   *)
(* the database (unix-dotfile), the flock() of the descriptor              *)
(* (unix-flock) and no locking at all (unix-none).  All handles of a       *)
(* database use one style.  The first two have one lock, which stands for  *)
(* every level; the level itself is kept in the handle only.               *)
(*                                                                         *)
(* The handles share nothing but the file system, so each system call is   *)
(* one step, together with what the handle does on its own.                *)
(***************************************************************************)
EXTENDS Naturals

CONSTANTS
  Process, Handle,
  NoHandle,   \* flocked when nobody has the lock
  ProcOf,     \* the process of each handle
  Styles,     \* locking styles to consider
  ProbeAt,    \* levels at which a caller asks for a RESERVED lock
  Faults      \* subset of FaultNames: the calls that may fail without a conflict

(* "unflock" is the LOCK_UN of flockUnlock, "unprobe" that of              *)
(* flockCheckReservedLock.                                                 *)
FaultNames == {"mkdir", "rmdir", "flock", "unflock", "unprobe"}

ASSUME LockStylesAssumption ==
  /\ NoHandle \notin Handle
  /\ ProcOf \in [Handle -> Process]
  /\ Styles \subseteq {"dotfile", "flock", "none"}
  /\ Faults \subseteq FaultNames

NO_LOCK        == 0
SHARED_LOCK    == 1
RESERVED_LOCK  == 2
PENDING_LOCK   == 3
EXCLUSIVE_LOCK == 4

Level == NO_LOCK .. EXCLUSIVE_LOCK

ASSUME ProbeAtAssumption == ProbeAt \subseteq Level

VARIABLES
  style,       \* locking style of the file
  lockDir,     \* whether the lock directory exists
  flocked,     \* the handle whose descriptor has the flock
  status,      \* "closed", "open" or "probe": inside flockCheckReservedLock
  eFileLock

styleVars == <<style, lockDir, flocked, status, eFileLock>>

StyleInit ==
  /\ style \in Styles
  /\ lockDir \in IF style = "dotfile" THEN BOOLEAN ELSE {FALSE}   \* left by a crash, or not
  /\ flocked = NoHandle
  /\ status = [h \in Handle |-> "closed"]
  /\ eFileLock = [h \in Handle |-> NO_LOCK]

(* What the callers may ask for: the asserted locking sequence.            *)
LockSequenceOK(h, level) ==
  \/ level = SHARED_LOCK /\ eFileLock[h] = NO_LOCK
  \/ level = RESERVED_LOCK /\ eFileLock[h] = SHARED_LOCK
  \/ level = EXCLUSIVE_LOCK /\ eFileLock[h] \in {SHARED_LOCK, RESERVED_LOCK}

SetLevel(h, level) == eFileLock' = [eFileLock EXCEPT ![h] = level]

StyleOpen(h) ==
  /\ status[h] = "closed"
  /\ status' = [status EXCEPT ![h] = "open"]
  /\ UNCHANGED <<style, lockDir, flocked, eFileLock>>

Closed(h) ==
  /\ status' = [status EXCEPT ![h] = "closed"]
  /\ SetLevel(h, NO_LOCK)

(***************************************************************************)
(* No-op locking                                                           *)
(***************************************************************************)
nolockLock(h) == UNCHANGED <<lockDir, flocked, status, eFileLock>>
nolockUnlock(h) == UNCHANGED <<lockDir, flocked, status, eFileLock>>
nolockClose(h) == Closed(h) /\ UNCHANGED <<lockDir, flocked>>

(***************************************************************************)
(* Dot-file locking: mkdir() takes the lock, rmdir() drops it.             *)
(***************************************************************************)
mkdirIgnoringExist == TRUE               \* mutated: EEXIST taken for success
mkdirSucceeds == ~lockDir

dotlockLock(h, level) ==
  \/ /\ eFileLock[h] > NO_LOCK
     /\ SetLevel(h, level)
     /\ UNCHANGED lockDir
  \/ /\ eFileLock[h] = NO_LOCK /\ mkdirSucceeds
     /\ lockDir' = TRUE
     /\ SetLevel(h, level)
  \/ /\ eFileLock[h] = NO_LOCK /\ mkdirSucceeds => "mkdir" \in Faults
     /\ UNCHANGED <<lockDir, eFileLock>>

(* rmdir() removes the directory, whoever made it.  When there is none the *)
(* call succeeds and the handle keeps its level.                           *)
LevelAfterRmdir(h) == IF lockDir THEN NO_LOCK ELSE eFileLock[h]

(* Mutated: a downgrade to SHARED removes the directory as well.           *)
dotlockUnlockAlways(h, level) ==
  /\ lockDir' = FALSE
  /\ SetLevel(h, level)

dotlockUnlock(h, level) ==
  \/ /\ level = eFileLock[h] \/ level = SHARED_LOCK
     /\ SetLevel(h, level)
     /\ UNCHANGED lockDir
  \/ /\ level = NO_LOCK /\ eFileLock[h] # NO_LOCK
     /\ lockDir' = FALSE
     /\ SetLevel(h, LevelAfterRmdir(h))
  \/ /\ level = NO_LOCK /\ eFileLock[h] # NO_LOCK /\ "rmdir" \in Faults
     /\ UNCHANGED <<lockDir, eFileLock>>

(* The result of rmdir() is not looked at.                                 *)
dotlockClose(h) ==
  /\ \/ eFileLock[h] # NO_LOCK /\ lockDir' = FALSE
     \/ /\ eFileLock[h] = NO_LOCK \/ "rmdir" \in Faults
        /\ UNCHANGED lockDir
  /\ Closed(h)

(* An operator clears a lock that nobody uses (the manual step that the    *)
(* comment on dot-file locking prescribes).                                *)
ClearStaleLock ==
  /\ lockDir /\ \A h \in Handle : eFileLock[h] = NO_LOCK
  /\ lockDir' = FALSE
  /\ UNCHANGED <<style, flocked, status, eFileLock>>

(* dotlockCheckReservedLock: the answer.                                   *)
dotlockCheckReservedLock(h) == lockDir

(***************************************************************************)
(* flock() locking: the lock belongs to the open file description, so      *)
(* handles of one process conflict as well, and close() drops it.          *)
(***************************************************************************)
FlockFree(h) == flocked \in {NoHandle, h}

flockLock(h, level) ==
  \/ /\ eFileLock[h] > NO_LOCK
     /\ SetLevel(h, level)
     /\ UNCHANGED flocked
  \/ /\ eFileLock[h] = NO_LOCK /\ FlockFree(h)
     /\ flocked' = h
     /\ SetLevel(h, level)
  \/ /\ eFileLock[h] = NO_LOCK /\ FlockFree(h) => "flock" \in Faults
     /\ UNCHANGED <<flocked, eFileLock>>

(* LOCK_UN of a handle that has not the lock is no error.                  *)
Unflocked(h) == IF flocked = h THEN NoHandle ELSE flocked

(* Mutated: the level is lowered although LOCK_UN failed.                  *)
flockUnlockForgets(h, level) ==
  \/ /\ level = eFileLock[h] \/ level = SHARED_LOCK
     /\ SetLevel(h, level)
     /\ UNCHANGED flocked
  \/ /\ level = NO_LOCK /\ eFileLock[h] # NO_LOCK
     /\ flocked' \in {Unflocked(h), flocked}
     /\ SetLevel(h, NO_LOCK)

flockUnlock(h, level) ==
  \/ /\ level = eFileLock[h] \/ level = SHARED_LOCK
     /\ SetLevel(h, level)
     /\ UNCHANGED flocked
  \/ /\ level = NO_LOCK /\ eFileLock[h] # NO_LOCK
     /\ flocked' = Unflocked(h)
     /\ SetLevel(h, NO_LOCK)
  \/ /\ level = NO_LOCK /\ eFileLock[h] # NO_LOCK /\ "unflock" \in Faults
     /\ UNCHANGED <<flocked, eFileLock>>

flockClose(h) == flocked' = Unflocked(h) /\ Closed(h)

(* flockCheckReservedLock takes the lock and drops it again: two calls.    *)
(* With a level above SHARED it does not ask, and a lock that somebody     *)
(* else has is the answer 1; neither changes anything.                     *)
flockCheckReservedLock(h) ==
  /\ status[h] = "open" /\ eFileLock[h] \in ProbeAt
  /\ eFileLock[h] <= SHARED_LOCK /\ FlockFree(h)
  /\ flocked' = h
  /\ status' = [status EXCEPT ![h] = "probe"]
  /\ UNCHANGED <<style, lockDir, eFileLock>>

EndCheckReservedLock(h) ==
  /\ status[h] = "probe"
  /\ flocked' \in {Unflocked(h)} \cup (IF "unprobe" \in Faults THEN {flocked} ELSE {})
  /\ status' = [status EXCEPT ![h] = "open"]
  /\ UNCHANGED <<style, lockDir, eFileLock>>

(***************************************************************************)
(* The methods that the style selects.                                     *)
(***************************************************************************)
Lock(h, level) ==
  /\ status[h] = "open" /\ LockSequenceOK(h, level)
  /\ \/ style = "dotfile" /\ dotlockLock(h, level) /\ UNCHANGED flocked
     \/ style = "flock" /\ flockLock(h, level) /\ UNCHANGED lockDir
     \/ style = "none" /\ nolockLock(h)
  /\ UNCHANGED <<style, status>>

Unlock(h, level) ==
  /\ status[h] = "open" /\ level <= eFileLock[h]
  /\ \/ style = "dotfile" /\ dotlockUnlock(h, level) /\ UNCHANGED flocked
     \/ style = "flock" /\ flockUnlock(h, level) /\ UNCHANGED lockDir
     \/ style = "none" /\ nolockUnlock(h)
  /\ UNCHANGED <<style, status>>

StyleClose(h) ==
  /\ status[h] = "open"
  /\ \/ style = "dotfile" /\ dotlockClose(h) /\ UNCHANGED flocked
     \/ style = "flock" /\ flockClose(h) /\ UNCHANGED lockDir
     \/ style = "none" /\ nolockClose(h)
  /\ UNCHANGED style

(* The process dies.  The kernel closes its descriptors; the directory     *)
(* stays.                                                                  *)
Crash(p) ==
  /\ status' = [h \in Handle |-> IF ProcOf[h] = p THEN "closed" ELSE status[h]]
  /\ eFileLock' = [h \in Handle |-> IF ProcOf[h] = p THEN NO_LOCK ELSE eFileLock[h]]
  /\ flocked' = IF flocked # NoHandle /\ ProcOf[flocked] = p THEN NoHandle ELSE flocked
  /\ UNCHANGED <<style, lockDir>>

HandleStep(h) ==
  \/ StyleOpen(h)
  \/ \E level \in {SHARED_LOCK, RESERVED_LOCK, EXCLUSIVE_LOCK} : Lock(h, level)
  \/ \E level \in {NO_LOCK, SHARED_LOCK} : Unlock(h, level)
  \/ style = "flock" /\ flockCheckReservedLock(h)
  \/ EndCheckReservedLock(h)
  \/ StyleClose(h)

StyleNext ==
  \/ \E h \in Handle : HandleStep(h)
  \/ \E p \in Process : Crash(p)
  \/ ClearStaleLock

StyleSpec == StyleInit /\ [][StyleNext]_styleVars

-----------------------------------------------------------------------------
(***************************************************************************)
(* Properties                                                              *)
(***************************************************************************)

TypeOK ==
  /\ style \in Styles
  /\ lockDir \in BOOLEAN
  /\ flocked \in Handle \cup {NoHandle}
  /\ status \in [Handle -> {"closed", "open", "probe"}]
  /\ eFileLock \in [Handle -> Level]

(* "All locks SHARED or above are really EXCLUSIVE locks and exclude all   *)
(* other processes from access the file": of the handles of a database at  *)
(* most one has any lock.                                                  *)
SoleUser ==
  \A g, h \in Handle : g # h => eFileLock[g] = NO_LOCK \/ eFileLock[h] = NO_LOCK

(* A level without the lock behind it would let a second handle in; a      *)
(* flock without a level would keep everybody out: failed calls, closes    *)
(* and the end of a process leave neither.  (A probe whose LOCK_UN fails   *)
(* does leave its flock; "unprobe" is not among the faults of the run.)    *)
LevelsBacked ==
  \A h \in Handle :
    /\ eFileLock[h] > NO_LOCK => (IF style = "dotfile" THEN lockDir ELSE flocked = h)
    /\ flocked = h => status[h] = "probe" \/ (status[h] = "open" /\ eFileLock[h] > NO_LOCK)

Levels == INSTANCE FileLevels WITH held <- eFileLock

(* The one lock keeps the promise that the pager relies on for every level.*)
ImplementsFileLevels == Levels!Spec
=============================================================================
