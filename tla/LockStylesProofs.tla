------------------------- MODULE LockStylesProofs -------------------------
(***************************************************************************)
(* Proofs about LockStyles, for any number of processes and handles, under *)
(* the assumption that nobody asks for a RESERVED lock while it is itself  *)
(* at SHARED: a probe at that level drops the flock() of the caller.       *)
(***************************************************************************)
EXTENDS LockStyles, TLAPS

NoProbeAtShared == SHARED_LOCK \notin ProbeAt

(* What backs a level, and why a probe never meets one: the handle that    *)
(* probes has no level, and keeps the flock until it has given it back.    *)
Backed ==
  \A h \in Handle :
    eFileLock[h] > NO_LOCK =>
      /\ style = "dotfile" => lockDir
      /\ style = "flock" => flocked = h
      /\ style # "none"
      /\ status[h] = "open"

ProbesFlock == \A h \in Handle : status[h] = "probe" => style = "flock"

IInv == TypeOK /\ SoleUser /\ Backed /\ ProbesFlock

(* What a step does to its handle, and why it may: the handle goes to a    *)
(* level that it may have next; either nothing else of importance changes, *)
(* or nobody else has a lock and the new level has one behind it.          *)
Alone(h) == \A g \in Handle \ {h} : eFileLock[g] = NO_LOCK

Change(h, level, st) ==
  /\ style' = style /\ lockDir' \in BOOLEAN /\ flocked' \in Handle \cup {NoHandle}
  /\ eFileLock' = [eFileLock EXCEPT ![h] = level]
  /\ status' = [status EXCEPT ![h] = st]
  /\ level \in {NO_LOCK, eFileLock[h], SHARED_LOCK} \/ LockSequenceOK(h, level)
  /\ st = "probe" => style = "flock"
  /\ \/ /\ level = NO_LOCK \/ level = eFileLock[h]
        /\ lockDir' = lockDir /\ flocked' = flocked
        /\ level > NO_LOCK => st = "open"
     \/ /\ Alone(h)
        /\ level > NO_LOCK =>
             /\ style = "dotfile" => lockDir'
             /\ style = "flock" => flocked' = h
             /\ style # "none" /\ st = "open"

Statuses == {"closed", "open", "probe"}

LEMMA ChangeKeeps ==
  ASSUME IInv, NEW h \in Handle, NEW level \in Level, NEW st \in Statuses,
         Change(h, level, st)
  PROVE  IInv'
<1> USE DEF NO_LOCK, Statuses
<1>0. /\ eFileLock \in [Handle -> Level] /\ status \in [Handle -> Statuses]
      /\ \A g \in Handle : eFileLock[g] \in 0 .. 4
  BY DEF IInv, TypeOK, Level, EXCLUSIVE_LOCK
<1>1. /\ eFileLock'[h] = level /\ status'[h] = st
      /\ \A g \in Handle \ {h} : eFileLock'[g] = eFileLock[g] /\ status'[g] = status[g]
  BY <1>0 DEF Change
<1>2. TypeOK' /\ ProbesFlock'
  BY <1>0, <1>1 DEF IInv, TypeOK, ProbesFlock, Change
<1>3. SoleUser'
  <2>1. CASE level = NO_LOCK \/ level = eFileLock[h]
    BY <2>1, <1>1 DEF IInv, SoleUser
  <2>2. CASE Alone(h)
    BY <2>2, <1>1 DEF SoleUser, Alone
  <2>3. QED
    BY <2>1, <2>2 DEF Change
<1>4. Backed'
  <2> SUFFICES ASSUME NEW g \in Handle, eFileLock'[g] > NO_LOCK
               PROVE  /\ style = "dotfile" => lockDir'
                      /\ style = "flock" => flocked' = g
                      /\ style # "none"
                      /\ status'[g] = "open"
    BY DEF Backed, Change
  <2>1. CASE g = h
    <3>1. CASE level > NO_LOCK =>
                 /\ style = "dotfile" => lockDir'
                 /\ style = "flock" => flocked' = h
                 /\ style # "none" /\ st = "open"
      BY <3>1, <2>1, <1>1
    <3>2. CASE /\ level = NO_LOCK \/ level = eFileLock[h]
               /\ lockDir' = lockDir /\ flocked' = flocked
               /\ level > NO_LOCK => st = "open"
      BY <3>2, <2>1, <1>1 DEF IInv, Backed
    <3>3. QED
      BY <3>1, <3>2 DEF Change
  <2>2. CASE g # h
    <3>1. eFileLock[g] > NO_LOCK /\ status'[g] = status[g]
      BY <2>2, <1>1
    <3>2. lockDir' = lockDir /\ flocked' = flocked
      BY <3>1, <2>2 DEF Change, Alone
    <3>3. QED
      BY <3>1, <3>2 DEF IInv, Backed
  <2>3. QED
    BY <2>1, <2>2
<1>5. QED
  BY <1>2, <1>3, <1>4 DEF IInv

(* The same step, seen as one of FileLevels.                               *)
LEMMA ChangeIsAllowed ==
  ASSUME IInv, NEW h \in Handle, NEW level \in Level, NEW st \in Statuses,
         Change(h, level, st)
  PROVE  Levels!Next
<1> USE DEF NO_LOCK, SHARED_LOCK, RESERVED_LOCK, EXCLUSIVE_LOCK,
            Levels!Free, Levels!Shared, Levels!Reserved, Levels!Pending, Levels!Exclusive
<1>0. eFileLock \in [Handle -> 0 .. 4] /\ level \in 0 .. 4
  BY DEF IInv, TypeOK, Level
<1>1. /\ eFileLock' = [eFileLock EXCEPT ![h] = level]
      /\ eFileLock' = [g \in Handle |-> eFileLock'[g]]
      /\ eFileLock'[h] = level
      /\ \A g \in Handle \ {h} : eFileLock'[g] = eFileLock[g]
  BY <1>0 DEF Change
<1>2. CASE level = NO_LOCK \/ level = eFileLock[h]
  <2>1. Levels!Lose
    BY <1>1, <1>2 DEF Levels!Lose
  <2>2. QED
    BY <2>1 DEF Levels!Next
<1>3. CASE Alone(h) /\ LockSequenceOK(h, level)
  <2>0. Levels!Raise(h, level) /\ \A g \in Handle \ {h} : eFileLock[g] = 0
    BY <1>1, <1>3 DEF Levels!Raise, Alone
  <2>1. CASE level = SHARED_LOCK /\ eFileLock[h] = NO_LOCK
    BY <2>0, <2>1 DEF Levels!AcquireShared, Levels!Others, Levels!Next
  <2>2. CASE level = RESERVED_LOCK /\ eFileLock[h] = SHARED_LOCK
    BY <2>0, <2>2 DEF Levels!AcquireReserved, Levels!Others, Levels!Next
  <2>3. CASE level = EXCLUSIVE_LOCK /\ eFileLock[h] \in {SHARED_LOCK, RESERVED_LOCK}
    BY <2>0, <2>3 DEF Levels!AcquireExclusive, Levels!Others, Levels!Next
  <2>4. QED
    BY <1>3, <2>1, <2>2, <2>3 DEF LockSequenceOK
<1>4. CASE Alone(h) /\ level = SHARED_LOCK /\ eFileLock[h] > SHARED_LOCK
  <2>1. Levels!Lower(h, Levels!Shared)
    BY <1>0, <1>1, <1>4 DEF Levels!Lower, Levels!Raise
  <2>2. QED
    BY <2>1 DEF Levels!Next
<1>5. CASE Alone(h) /\ level = SHARED_LOCK /\ eFileLock[h] = NO_LOCK
  BY <1>3, <1>5 DEF LockSequenceOK
<1>6. QED
  BY <1>0, <1>2, <1>3, <1>4, <1>5 DEF Change

(***************************************************************************)
(* Every action is such a change.                                          *)
(***************************************************************************)
IsChange(h) == \E level \in Level, st \in Statuses : Change(h, level, st)

LEMMA Facts ==
  ASSUME IInv, NEW h \in Handle
  PROVE  /\ eFileLock \in [Handle -> Level] /\ status \in [Handle -> Statuses]
         /\ lockDir \in BOOLEAN /\ flocked \in Handle \cup {NoHandle}
         /\ eFileLock = [eFileLock EXCEPT ![h] = eFileLock[h]]
         /\ status = [status EXCEPT ![h] = status[h]]
         /\ eFileLock[h] \in Level /\ status[h] \in Statuses
         /\ {NO_LOCK, SHARED_LOCK, RESERVED_LOCK, EXCLUSIVE_LOCK} \subseteq Level
         /\ \A g \in Handle : eFileLock[g] \in 0 .. 4
         /\ eFileLock[h] > NO_LOCK => Alone(h) /\ style # "none"
         /\ style = "flock" /\ FlockFree(h) /\ flocked = h => Alone(h)
         /\ style = "flock" /\ FlockFree(h) => Alone(h)
         /\ style = "dotfile" /\ ~lockDir => Alone(h)
<1> USE DEF Level, NO_LOCK, SHARED_LOCK, RESERVED_LOCK, EXCLUSIVE_LOCK
<1>1. /\ eFileLock \in [Handle -> Level] /\ status \in [Handle -> Statuses]
      /\ lockDir \in BOOLEAN /\ flocked \in Handle \cup {NoHandle}
      /\ \A g \in Handle : eFileLock[g] \in 0 .. 4
  BY DEF IInv, TypeOK, Statuses
<1>2. eFileLock[h] > NO_LOCK => Alone(h) /\ style # "none"
  BY <1>1 DEF IInv, SoleUser, Backed, Alone
<1>3. style = "flock" /\ FlockFree(h) => Alone(h)
  BY <1>1, LockStylesAssumption DEF IInv, Backed, Alone, FlockFree
<1>4. style = "dotfile" /\ ~lockDir => Alone(h)
  BY <1>1 DEF IInv, Backed, Alone
<1>5. QED
  BY <1>1, <1>2, <1>3, <1>4

LEMMA LockChanges ==
  ASSUME IInv, NEW h \in Handle, NEW level \in Level, Lock(h, level)
  PROVE  IsChange(h)
<1> USE DEF NO_LOCK, SHARED_LOCK, Level, Statuses
<1>0. status[h] = "open" /\ LockSequenceOK(h, level) /\ UNCHANGED <<style, status>>
  BY DEF Lock
<1>1. CASE style = "none" /\ nolockLock(h) 
  <2>1. Change(h, eFileLock[h], "open")
    BY <1>0, <1>1, Facts DEF Change, nolockLock
  <2>2. QED
    BY <2>1, Facts DEF IsChange
<1>2. CASE style = "dotfile" /\ dotlockLock(h, level) /\ UNCHANGED flocked
  <2>1. CASE /\ eFileLock[h] > NO_LOCK
             /\ SetLevel(h, level)
             /\ UNCHANGED lockDir
    <3>1. lockDir
      BY <1>2, <2>1 DEF IInv, Backed
    <3>2. Change(h, level, "open")
      BY <1>0, <1>2, <2>1, <3>1, Facts DEF Change, SetLevel
    <3>3. QED
      BY <3>2 DEF IsChange
  <2>2. CASE ~lockDir /\ lockDir' = TRUE /\ SetLevel(h, level)
    <3>1. Change(h, level, "open")
      BY <1>0, <1>2, <2>2, Facts DEF Change, SetLevel
    <3>2. QED
      BY <3>1 DEF IsChange
  <2>3. CASE UNCHANGED <<lockDir, eFileLock>>
    <3>1. Change(h, eFileLock[h], "open")
      BY <1>0, <1>2, <2>3, Facts DEF Change
    <3>2. QED
      BY <3>1, Facts DEF IsChange
  <2>4. QED
    BY <1>2, <2>1, <2>2, <2>3 DEF dotlockLock, mkdirSucceeds
<1>3. CASE style = "flock" /\ flockLock(h, level) /\ UNCHANGED lockDir
  <2>1. Change(h, level, "open") \/ Change(h, eFileLock[h], "open")
    BY <1>0, <1>3, Facts DEF Change, flockLock, SetLevel, IInv, Backed
  <2>2. QED
    BY <2>1, Facts DEF IsChange
<1>4. QED
  BY <1>1, <1>2, <1>3 DEF Lock

LEMMA UnlockChanges ==
  ASSUME IInv, NEW h \in Handle, NEW level \in {NO_LOCK, SHARED_LOCK}, Unlock(h, level)
  PROVE  IsChange(h)
<1> USE DEF NO_LOCK, SHARED_LOCK, Level, Statuses
<1>0. status[h] = "open" /\ level <= eFileLock[h] /\ UNCHANGED <<style, status>>
  BY DEF Unlock
<1>1. CASE style = "none" /\ nolockUnlock(h)
  <2>1. Change(h, eFileLock[h], "open")
    BY <1>0, <1>1, Facts DEF Change, nolockUnlock
  <2>2. QED
    BY <2>1, Facts DEF IsChange
<1>2. CASE style = "dotfile" /\ dotlockUnlock(h, level) /\ UNCHANGED flocked
  <2>1. CASE /\ level = eFileLock[h] \/ level = SHARED_LOCK
             /\ SetLevel(h, level)
             /\ UNCHANGED lockDir
    <3>1. eFileLock[h] > NO_LOCK => lockDir
      BY <1>2 DEF IInv, Backed
    <3>2. Change(h, level, "open")
      BY <1>0, <1>2, <2>1, <3>1, Facts DEF Change, SetLevel
    <3>3. QED
      BY <3>2, Facts DEF IsChange
  <2>2. CASE /\ level = NO_LOCK /\ eFileLock[h] # NO_LOCK
             /\ lockDir' = FALSE
             /\ SetLevel(h, LevelAfterRmdir(h))
    <3>0. eFileLock[h] > NO_LOCK
      BY <2>2, Facts
    <3>a. lockDir
      BY <1>2, <3>0 DEF IInv, Backed
    <3>1. LevelAfterRmdir(h) = NO_LOCK
      BY <3>a, Zenon DEF LevelAfterRmdir
    <3>b. /\ Alone(h) /\ lockDir' \in BOOLEAN
          /\ flocked \in Handle \cup {NoHandle} /\ status = [status EXCEPT ![h] = "open"]
      BY <1>0, <2>2, <3>0, Facts
    <3>2. Change(h, NO_LOCK, "open")
      BY <1>0, <1>2, <2>2, <3>1, <3>b DEF Change, SetLevel
    <3>3. QED
      BY <3>2, Facts DEF IsChange
  <2>3. CASE UNCHANGED <<lockDir, eFileLock>>
    <3>1. Change(h, eFileLock[h], "open")
      BY <1>0, <1>2, <2>3, Facts DEF Change
    <3>2. QED
      BY <3>1, Facts DEF IsChange
  <2>4. QED
    BY <1>2, <2>1, <2>2, <2>3 DEF dotlockUnlock
<1>3. CASE style = "flock" /\ flockUnlock(h, level) /\ UNCHANGED lockDir
  <2>1. Change(h, level, "open") \/ Change(h, eFileLock[h], "open")
    BY <1>0, <1>3, Facts DEF Change, flockUnlock, Unflocked, SetLevel, IInv, Backed
  <2>2. QED
    BY <2>1, Facts DEF IsChange
<1>4. QED
  BY <1>1, <1>2, <1>3 DEF Unlock

LEMMA CloseChanges ==
  ASSUME IInv, NEW h \in Handle, StyleClose(h)
  PROVE  IsChange(h)
<1> USE DEF NO_LOCK, SHARED_LOCK, Level, Statuses
<1>0. status[h] = "open" /\ UNCHANGED style
  BY DEF StyleClose
<1>1. CASE style = "none" /\ nolockClose(h)
  <2>1. Change(h, NO_LOCK, "closed")
    BY <1>0, <1>1, Facts DEF Change, nolockClose, Closed, SetLevel
  <2>2. QED
    BY <2>1, Facts DEF IsChange
<1>2. CASE style = "dotfile" /\ dotlockClose(h) /\ UNCHANGED flocked
  <2>0. lockDir' \in BOOLEAN /\ (lockDir' = lockDir \/ eFileLock[h] > NO_LOCK)
    <3>1. CASE eFileLock[h] # NO_LOCK /\ lockDir' = FALSE
      <4>1. eFileLock[h] > NO_LOCK
        BY <3>1, Facts
      <4>2. QED
        BY <3>1, <4>1
    <3>2. CASE UNCHANGED lockDir
      BY <3>2, Facts
    <3>3. QED
      BY <1>2, <3>1, <3>2 DEF dotlockClose
  <2>a. flocked \in Handle \cup {NoHandle} /\ (eFileLock[h] > NO_LOCK => Alone(h))
    BY Facts
  <2>1. Change(h, NO_LOCK, "closed")
    BY <1>0, <1>2, <2>0, <2>a DEF Change, dotlockClose, Closed, SetLevel
  <2>2. QED
    BY <2>1, Facts DEF IsChange
<1>3. CASE style = "flock" /\ flockClose(h) /\ UNCHANGED lockDir
  <2>1. Change(h, NO_LOCK, "closed")
    BY <1>0, <1>3, Facts DEF Change, flockClose, Unflocked, FlockFree, Closed, SetLevel
  <2>2. QED
    BY <2>1, Facts DEF IsChange
<1>4. QED
  BY <1>1, <1>2, <1>3 DEF StyleClose

LEMMA OpenChanges ==
  ASSUME IInv, NEW h \in Handle, StyleOpen(h)
  PROVE  IsChange(h)
<1> USE DEF NO_LOCK, Statuses
<1>1. Change(h, NO_LOCK, "open")
  <2>1. eFileLock[h] = NO_LOCK
    BY Facts DEF StyleOpen, IInv, Backed
  <2>2. QED
    BY <2>1, Facts DEF StyleOpen, Change
<1>2. QED
  BY <1>1, Facts DEF IsChange

LEMMA ProbeChanges ==
  ASSUME NoProbeAtShared, IInv, NEW h \in Handle,
         (style = "flock" /\ flockCheckReservedLock(h)) \/ EndCheckReservedLock(h)
  PROVE  IsChange(h)
<1> USE DEF NO_LOCK, SHARED_LOCK, Level, Statuses
<1>1. CASE style = "flock" /\ flockCheckReservedLock(h)
  <2>1. eFileLock[h] = NO_LOCK
    BY <1>1, Facts DEF flockCheckReservedLock, NoProbeAtShared
  <2>2. Change(h, NO_LOCK, "probe")
    BY <1>1, <2>1, Facts DEF flockCheckReservedLock, Change
  <2>3. QED
    BY <2>2, Facts DEF IsChange
<1>2. CASE EndCheckReservedLock(h)
  <2>1. eFileLock[h] = NO_LOCK /\ style = "flock"
    BY <1>2, Facts DEF EndCheckReservedLock, IInv, Backed, ProbesFlock
  <2>2. Change(h, NO_LOCK, "open")
    BY <1>2, <2>1, Facts DEF EndCheckReservedLock, Unflocked, FlockFree, Change
  <2>3. QED
    BY <2>2, Facts DEF IsChange
<1>3. QED
  BY <1>1, <1>2

LEMMA HandleStepChanges ==
  ASSUME NoProbeAtShared, IInv, NEW h \in Handle, HandleStep(h)
  PROVE  IsChange(h)
<1>1. {SHARED_LOCK, RESERVED_LOCK, EXCLUSIVE_LOCK} \subseteq Level
  BY DEF Level, NO_LOCK, SHARED_LOCK, RESERVED_LOCK, EXCLUSIVE_LOCK
<1>2. QED
  BY <1>1, OpenChanges, LockChanges, UnlockChanges, CloseChanges, ProbeChanges DEF HandleStep

(* The steps of no handle: the death of a process, and the directory that  *)
(* somebody clears away.                                                   *)
LEMMA CrashKeeps ==
  ASSUME IInv, NEW p \in Process, Crash(p)
  PROVE  IInv' /\ Levels!Next
<1>1. \A h \in Handle :
        /\ eFileLock'[h] = NO_LOCK \/ eFileLock'[h] = eFileLock[h]
        /\ status'[h] = "closed" \/ status'[h] = status[h]
        /\ eFileLock'[h] > NO_LOCK => status'[h] = status[h] /\ eFileLock'[h] = eFileLock[h]
        /\ eFileLock'[h] > NO_LOCK /\ flocked = h => flocked' = h
  BY LockStylesAssumption DEF Crash, NO_LOCK
<1>2. TypeOK'
  BY DEF IInv, TypeOK, Crash, Level, NO_LOCK, EXCLUSIVE_LOCK
<1>3. SoleUser' /\ ProbesFlock'
  BY <1>1 DEF IInv, SoleUser, ProbesFlock, Crash
<1>4. Backed'
  BY <1>1 DEF IInv, Backed, Crash
<1>5. Levels!Lose
  BY <1>1 DEF Crash, Levels!Lose, Levels!Free, NO_LOCK
<1>6. QED
  BY <1>2, <1>3, <1>4, <1>5 DEF IInv, Levels!Next

LEMMA ClearKeeps ==
  ASSUME IInv, ClearStaleLock
  PROVE  IInv' /\ UNCHANGED eFileLock
<1>1. /\ lockDir' = FALSE /\ UNCHANGED <<style, flocked, status, eFileLock>>
      /\ \A h \in Handle : eFileLock[h] = NO_LOCK
  BY DEF ClearStaleLock
<1>2. TypeOK' /\ SoleUser' /\ ProbesFlock'
  BY <1>1 DEF IInv, TypeOK, SoleUser, ProbesFlock
<1>3. Backed'
  BY <1>1 DEF Backed, NO_LOCK
<1>4. QED
  BY <1>1, <1>2, <1>3 DEF IInv

LEMMA NextKeeps ==
  ASSUME NoProbeAtShared, IInv, [StyleNext]_styleVars
  PROVE  IInv' /\ [Levels!Next]_eFileLock
<1>1. ASSUME NEW h \in Handle, HandleStep(h) PROVE IInv' /\ Levels!Next
  BY <1>1, HandleStepChanges, ChangeKeeps, ChangeIsAllowed DEF IsChange
<1>2. CASE UNCHANGED styleVars
  BY <1>2 DEF styleVars, IInv, TypeOK, SoleUser, Backed, ProbesFlock
<1>3. QED
  BY <1>1, <1>2, CrashKeeps, ClearKeeps DEF StyleNext

LEMMA InitHolds == StyleInit => IInv /\ Levels!Init
<1> SUFFICES ASSUME StyleInit PROVE IInv /\ Levels!Init
  OBVIOUS
<1>1. \A h \in Handle : eFileLock[h] = NO_LOCK /\ status[h] = "closed"
  BY DEF StyleInit
<1>2. lockDir \in BOOLEAN
  <2>1. CASE style = "dotfile"
    BY <2>1 DEF StyleInit
  <2>2. CASE style # "dotfile"
    BY <2>2 DEF StyleInit
  <2>3. QED
    BY <2>1, <2>2
<1>3. TypeOK
  BY <1>2 DEF StyleInit, TypeOK, Level, NO_LOCK, EXCLUSIVE_LOCK
<1>4. SoleUser /\ Backed /\ ProbesFlock
  BY <1>1 DEF SoleUser, Backed, ProbesFlock, NO_LOCK
<1>5. Levels!Init
  BY DEF StyleInit, Levels!Init, Levels!Free, NO_LOCK
<1>6. QED
  BY <1>3, <1>4, <1>5 DEF IInv

(* The way back, for the flock: who has it probes, or has a level.         *)
FlockUsed ==
  /\ style # "flock" => flocked = NoHandle
  /\ \A h \in Handle :
       flocked = h => status[h] = "probe" \/ (status[h] = "open" /\ eFileLock[h] > NO_LOCK)

LEMMA FlockUsedStep ==
  ASSUME NoProbeAtShared, "unprobe" \notin Faults, IInv, FlockUsed, [StyleNext]_styleVars
  PROVE  FlockUsed'
<1> USE DEF NO_LOCK, SHARED_LOCK, RESERVED_LOCK, EXCLUSIVE_LOCK, SetLevel
<1>0. /\ eFileLock \in [Handle -> 0 .. 4] /\ status \in [Handle -> Statuses]
      /\ NoHandle \notin Handle
  BY LockStylesAssumption DEF IInv, TypeOK, Level, Statuses
<1>1. ASSUME NEW h \in Handle, StyleOpen(h) PROVE FlockUsed'
  BY <1>0, <1>1 DEF FlockUsed, StyleOpen
<1>2. ASSUME NEW h \in Handle, NEW level \in {1, 2, 4}, Lock(h, level) PROVE FlockUsed'
  <2>1. status[h] = "open" /\ UNCHANGED <<style, status>>
    BY <1>2 DEF Lock
  <2>2. CASE style = "flock" /\ flockLock(h, level)
    BY <1>0, <2>1, <2>2 DEF FlockUsed, flockLock
  <2>3. CASE style # "flock" /\ UNCHANGED flocked
    BY <1>0, <2>1, <2>3 DEF FlockUsed
  <2> QED
    BY <1>2, <2>2, <2>3 DEF Lock, nolockLock
<1>3. ASSUME NEW h \in Handle, NEW level \in {0, 1}, Unlock(h, level) PROVE FlockUsed'
  <2>1. status[h] = "open" /\ level <= eFileLock[h] /\ UNCHANGED <<style, status>>
    BY <1>3 DEF Unlock
  <2>2. CASE style = "flock" /\ flockUnlock(h, level)
    BY <1>0, <2>1, <2>2 DEF FlockUsed, flockUnlock, Unflocked
  <2>3. CASE style # "flock" /\ UNCHANGED flocked
    BY <1>0, <2>1, <2>3 DEF FlockUsed
  <2> QED
    BY <1>3, <2>2, <2>3 DEF Unlock, nolockUnlock
<1>4. ASSUME NEW h \in Handle, StyleClose(h) PROVE FlockUsed'
  <2>1. UNCHANGED style
    BY <1>4 DEF StyleClose
  <2>2. CASE style = "flock" /\ flockClose(h)
    BY <1>0, <2>1, <2>2 DEF FlockUsed, flockClose, Unflocked, Closed
  <2>3. CASE style # "flock" /\ UNCHANGED flocked
    BY <1>0, <2>1, <2>3 DEF FlockUsed
  <2> QED
    BY <1>4, <2>2, <2>3 DEF StyleClose, nolockClose
<1>5. ASSUME NEW h \in Handle, style = "flock", flockCheckReservedLock(h) PROVE FlockUsed'
  BY <1>0, <1>5 DEF FlockUsed, flockCheckReservedLock
<1>6. ASSUME NEW h \in Handle, EndCheckReservedLock(h) PROVE FlockUsed'
  <2>1. style = "flock" /\ flocked' = Unflocked(h)
    BY <1>6 DEF EndCheckReservedLock, IInv, ProbesFlock
  <2> QED
    BY <1>0, <1>6, <2>1 DEF FlockUsed, EndCheckReservedLock, Unflocked
<1>7. ASSUME NEW p \in Process, Crash(p) PROVE FlockUsed'
  <2>1. flocked' = NoHandle \/ (flocked' = flocked /\ ProcOf[flocked] # p)
    BY <1>7, Zenon DEF Crash, FlockUsed
  <2>2. style' = style
    BY <1>7 DEF Crash
  <2>3. ASSUME NEW h \in Handle, flocked' = h
        PROVE status'[h] = status[h] /\ eFileLock'[h] = eFileLock[h] /\ flocked = h
    BY <1>0, <1>7, <2>1, <2>3 DEF Crash
  <2> QED
    BY <1>0, <2>1, <2>2, <2>3 DEF FlockUsed
<1>8. CASE ClearStaleLock \/ UNCHANGED styleVars
  BY <1>8 DEF FlockUsed, ClearStaleLock, styleVars
<1> QED
  BY <1>1, <1>2, <1>3, <1>4, <1>5, <1>6, <1>7, <1>8 DEF StyleNext, HandleStep

(***************************************************************************)
(* The promise of FileLevels is worth something: its levels exclude each   *)
(* other, for any number of handles.                                       *)
(***************************************************************************)
LevelsInv == eFileLock \in [Handle -> Levels!Free .. Levels!Exclusive] /\ Levels!Exclusion

LEMMA RaiseExcludes ==
  ASSUME LevelsInv, NEW h \in Handle, NEW level \in Levels!Free .. Levels!Exclusive, Levels!Raise(h, level),
         \A g \in Handle \ {h} :
           /\ eFileLock[g] = Levels!Exclusive => level = Levels!Free
           /\ level = Levels!Exclusive => eFileLock[g] = Levels!Free
           /\ level \in {Levels!Reserved, Levels!Pending} => eFileLock[g] # level
  PROVE  LevelsInv'
<1>1. eFileLock' \in [Handle -> Levels!Free .. Levels!Exclusive]
  BY DEF LevelsInv, Levels!Raise
<1>2. eFileLock'[h] = level /\ \A g \in Handle \ {h} : eFileLock'[g] = eFileLock[g]
  BY DEF LevelsInv, Levels!Raise
<1>3. Levels!Exclusion'
  BY <1>2 DEF LevelsInv, Levels!Exclusion, Levels!Free, Levels!Shared, Levels!Reserved, Levels!Pending, Levels!Exclusive
<1>4. QED
  BY <1>1, <1>3 DEF LevelsInv

LEMMA LevelsStep == ASSUME LevelsInv, Levels!Next PROVE LevelsInv'
<1> USE DEF Levels!Free, Levels!Shared, Levels!Reserved, Levels!Pending, Levels!Exclusive
<1>0. \A h \in Handle : eFileLock[h] \in Levels!Free .. Levels!Exclusive
  BY DEF LevelsInv
<1>1. CASE Levels!Lose
  <2>1. eFileLock' \in [Handle -> Levels!Free .. Levels!Exclusive]
    BY <1>0, <1>1 DEF Levels!Lose
  <2>2. \A h \in Handle : eFileLock'[h] = eFileLock[h] \/ eFileLock'[h] = Levels!Free
    BY <1>1 DEF Levels!Lose
  <2>3. Levels!Exclusion'
    BY <2>2 DEF LevelsInv, Levels!Exclusion
  <2>4. QED
    BY <2>1, <2>3 DEF LevelsInv
<1>2. ASSUME NEW h \in Handle, Levels!AcquireShared(h) PROVE LevelsInv'
  BY <1>2, <1>0, RaiseExcludes DEF Levels!AcquireShared, Levels!Others
<1>3. ASSUME NEW h \in Handle, Levels!AcquireReserved(h) PROVE LevelsInv'
  BY <1>3, <1>0, RaiseExcludes DEF Levels!AcquireReserved, Levels!Others
<1>4. ASSUME NEW h \in Handle, Levels!AcquirePending(h) PROVE LevelsInv'
  BY <1>4, <1>0, RaiseExcludes DEF Levels!AcquirePending, Levels!Others
<1>5. ASSUME NEW h \in Handle, Levels!AcquireExclusive(h) PROVE LevelsInv'
  BY <1>5, <1>0, RaiseExcludes DEF Levels!AcquireExclusive, Levels!Others
<1>6. ASSUME NEW h \in Handle, NEW level \in {Levels!Free, Levels!Shared, Levels!Pending}, Levels!Lower(h, level)
      PROVE  LevelsInv'
  <2>1. level \in Levels!Free .. Levels!Exclusive /\ level < eFileLock[h] /\ Levels!Raise(h, level)
    BY <1>6 DEF Levels!Lower
  <2>2. ASSUME NEW g \in Handle \ {h}
        PROVE  /\ eFileLock[g] = Levels!Exclusive => level = Levels!Free
               /\ level = Levels!Exclusive => eFileLock[g] = Levels!Free
               /\ level \in {Levels!Reserved, Levels!Pending} => eFileLock[g] # level
    <3>1. eFileLock[h] # Levels!Free /\ (level = Levels!Pending => eFileLock[h] = Levels!Exclusive)
      BY <1>0, <1>6, <2>1
    <3>2. eFileLock[g] # Levels!Exclusive /\ (eFileLock[h] = Levels!Exclusive => eFileLock[g] = Levels!Free)
      BY <3>1 DEF LevelsInv, Levels!Exclusion
    <3>3. QED
      BY <1>6, <3>1, <3>2
  <2>3. QED
    BY <2>1, <2>2, RaiseExcludes
<1>7. QED
  BY <1>1, <1>2, <1>3, <1>4, <1>5, <1>6 DEF Levels!Next

(* Levels that are granted and lowered as FileLevels allows exclude each   *)
(* other at all times: so do those of whatever implements FileLevels.      *)
THEOREM LevelsExclude == Levels!Spec => []Levels!Exclusion
<1>1. Levels!Init => LevelsInv
  BY DEF Levels!Init, LevelsInv, Levels!Exclusion, Levels!Free, Levels!Reserved, Levels!Pending, Levels!Exclusive
<1>2. LevelsInv /\ [Levels!Next]_eFileLock => LevelsInv'
  <2>1. ASSUME LevelsInv, UNCHANGED eFileLock PROVE LevelsInv'
    BY <2>1 DEF LevelsInv, Levels!Exclusion
  <2>2. QED
    BY <2>1, LevelsStep
<1>3. LevelsInv => Levels!Exclusion
  BY DEF LevelsInv
<1>4. QED
  BY <1>1, <1>2, <1>3, PTL DEF Levels!Spec

(***************************************************************************)
(* The theorems.                                                           *)
(***************************************************************************)
(* At most one handle of a database has any lock, whichever style: no      *)
(* fault, failed call, close or death of a process lets a second one in,   *)
(* as long as nobody at SHARED asks for a RESERVED lock.                   *)
THEOREM SoleUserHolds == ASSUME NoProbeAtShared PROVE StyleSpec => []SoleUser
<1>1. IInv => SoleUser
  BY DEF IInv
<1>2. IInv /\ [StyleNext]_styleVars => IInv'
  BY NextKeeps
<1>3. QED
  BY <1>1, <1>2, InitHolds, PTL DEF StyleSpec

(* The single lock of dot-file and flock locking, and the lack of one in   *)
(* unix-none, implement the levels that the pager is promised.             *)
THEOREM Refinement == ASSUME NoProbeAtShared PROVE StyleSpec => ImplementsFileLevels
<1>1. IInv /\ [StyleNext]_styleVars => IInv' /\ [Levels!Next]_eFileLock
  BY NextKeeps
<1>2. QED
  BY <1>1, InitHolds, PTL DEF StyleSpec, ImplementsFileLevels, Levels!Spec

(* Levels and locks agree: a level above NO_LOCK has its directory or its  *)
(* flock behind it, and no flock is left without a level, as long as the   *)
(* LOCK_UN of a probe does not fail.                                       *)
THEOREM LocksBackLevels ==
  ASSUME NoProbeAtShared, "unprobe" \notin Faults
  PROVE  StyleSpec => []LevelsBacked
<1>1. StyleInit => IInv /\ FlockUsed
  BY InitHolds, LockStylesAssumption DEF StyleInit, FlockUsed
<1>2. IInv /\ FlockUsed /\ [StyleNext]_styleVars => (IInv /\ FlockUsed)'
  BY NextKeeps, FlockUsedStep
<1>3. IInv /\ FlockUsed => LevelsBacked
  <2> SUFFICES ASSUME IInv, FlockUsed, NEW h \in Handle, eFileLock[h] > NO_LOCK
               PROVE  IF style = "dotfile" THEN lockDir ELSE flocked = h
    BY DEF LevelsBacked, FlockUsed
  <2> QED
    BY LockStylesAssumption DEF IInv, Backed, TypeOK
<1>4. QED
  BY <1>1, <1>2, <1>3, PTL DEF StyleSpec
=============================================================================
