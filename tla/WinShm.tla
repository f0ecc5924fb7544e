------------------------------ MODULE WinShm ------------------------------
(***************************************************************************)
(* The shared memory of the WAL index on Windows (src/os/os_win.c): how a  *)
(* process opens and maps the file (winOpenSharedMemory, winShmMap), locks *)
(* its slots (winShmLock) and lets it go (winShmUnmap, winShmPurge).       *)
(*                                                                         *)
(* As on Unix the connections of a process share one winShmNode, and who   *)
(* can lock the DMS byte exclusively is the first and truncates the file.  *)
(* Unlike there the locks belong to the node's handle: a lock must be      *)
(* given back as the range it was taken for, there is no way to ask who    *)
(* has one or to turn an exclusive lock into a shared one, and there is no *)
(* count of the sharers of a slot besides the masks of the connections.    *)
(***************************************************************************)
EXTENDS Integers, FiniteSets

CONSTANTS
  Process,  \* operating-system processes
  Conn,     \* database connections, each used by one thread at a time
  ProcOf,   \* the process of each connection
  NLock,    \* SQLITE_SHM_NLOCK
  Regions   \* bound: the regions the WAL code asks for

ASSUME WinShmAssumption ==
  /\ ProcOf \in [Conn -> Process]
  /\ NLock \in Nat \ {0}
  /\ Regions \subseteq Nat
  /\ IsFiniteSet(Conn) /\ IsFiniteSet(Regions)

Absent == -1

Slot == 0 .. NLock - 1
LockType == {"UNLCK", "RDLCK", "WRLCK"}

VARIABLES
  \* the file
  size,        \* in regions, or Absent
  trusted,     \* 1 if nothing in it is older than the last power failure
  missed,      \* 1 if a process that was refused the DMS byte exclusively
               \* was so by one that then left without truncating
  dms,         \* the lock each process has on the DMS byte
  klock,       \* the locks each process has on slots: ranges, with a type
  \* winShmNode of each process
  node,        \* "none", "new" while it is being opened, or "ready"
  isReadonly,  \* processes whose node is read-only
  isUnlocked,  \* processes whose node has no DMS lock
  nRef,
  nRegion,
  pFirst,      \* connections on the node's list
  \* connections
  pShm,        \* connections with a winShm
  sharedMask, exclMask,
  pc,          \* next step of the call each connection is in
  iRegion      \* region asked for

fileVars == <<size, trusted, missed>>
nodeVars == <<node, isReadonly, isUnlocked, nRef, nRegion, pFirst>>
maskVars == <<sharedMask, exclMask>>
vars == <<fileVars, dms, klock, nodeVars, pShm, maskVars, pc, iRegion>>

Enter(c, step, region) ==
  /\ pc' = [pc EXCEPT ![c] = step]
  /\ iRegion' = [iRegion EXCEPT ![c] = region]

Goto(c, step) == Enter(c, step, IF step = "idle" THEN 0 ELSE iRegion[c])

(* winBigLock is held while a node is opened, its mutex while winShmMap    *)
(* works on an open one.                                                   *)
LockSteps == {"wrlck", "truncate", "unlock", "unlockFail", "rdlck", "refused"}
HoldsBigLock(c)  == pc[c] \in LockSteps /\ c \notin pShm
HoldsNodeMutex(c) == pc[c] \in {"size", "extend", "mmap"} \/ (pc[c] \in LockSteps /\ c \in pShm)

BigLockFree(p)   == \A c \in Conn : ProcOf[c] = p => ~HoldsBigLock(c)
NodeMutexFree(p) == \A c \in Conn : ProcOf[c] = p => ~HoldsNodeMutex(c)

Init ==
  /\ size = Absent /\ trusted = 1 /\ missed = 0
  /\ dms = [p \in Process |-> "UNLCK"]
  /\ klock = [p \in Process |-> {}]
  /\ node = [p \in Process |-> "none"]
  /\ isReadonly = {} /\ isUnlocked = {}
  /\ nRef = [p \in Process |-> 0]
  /\ nRegion = [p \in Process |-> 0]
  /\ pFirst = {} /\ pShm = {}
  /\ sharedMask = [c \in Conn |-> {}] /\ exclMask = [c \in Conn |-> {}]
  /\ pc = [c \in Conn |-> "idle"] /\ iRegion = [c \in Conn |-> 0]

(***************************************************************************)
(* winOpenSharedMemory, under winBigLock; a connection joins the list of   *)
(* the node later, under its mutex.                                        *)
(***************************************************************************)
Attach(c) ==
  LET p == ProcOf[c] IN
  /\ node' = [node EXCEPT ![p] = "ready"]
  /\ nRef' = [nRef EXCEPT ![p] = @ + 1]
  /\ pShm' = pShm \cup {c}

Link(c) ==
  /\ pc[c] \in {"link", "linkFail"}
  /\ NodeMutexFree(ProcOf[c])
  /\ pFirst' = pFirst \cup {c}
  /\ Goto(c, IF pc[c] = "link" THEN "enter" ELSE "idle")
  /\ UNCHANGED <<fileVars, dms, klock, node, isReadonly, isUnlocked, nRef, nRegion, pShm,
                 maskVars>>

(* winShmPurge; closing the file drops all locks of the handle.            *)
Purge(p) ==
  /\ node' = [node EXCEPT ![p] = "none"]
  /\ isReadonly' = isReadonly \ {p}
  /\ isUnlocked' = isUnlocked \ {p}
  /\ nRegion' = [nRegion EXCEPT ![p] = 0]
  /\ dms' = [dms EXCEPT ![p] = "UNLCK"]
  /\ klock' = [klock EXCEPT ![p] = {}]

(* The file may come out read-only: by readonly_shm=1, or for want of      *)
(* permission.                                                             *)
OpenFile(c) ==
  LET p == ProcOf[c] IN
  /\ node' = [node EXCEPT ![p] = "new"]
  /\ \/ /\ size' = IF size = Absent THEN 0 ELSE size
        /\ trusted' = IF size = Absent THEN 1 ELSE trusted
        /\ UNCHANGED isReadonly
     \/ /\ size # Absent
        /\ isReadonly' = isReadonly \cup {p}
        /\ UNCHANGED <<size, trusted>>
  /\ UNCHANGED <<nRef, pShm>>

Open(c, region) ==
  LET p == ProcOf[c] IN
  /\ pc[c] = "idle" /\ c \notin pShm /\ BigLockFree(p)
  /\ Enter(c, IF node[p] = "none" THEN "wrlck" ELSE "link", region)
  /\ IF node[p] = "none" THEN OpenFile(c)
     ELSE Attach(c) /\ UNCHANGED <<size, trusted, isReadonly>>
  /\ UNCHANGED <<missed, dms, klock, isUnlocked, nRegion, pFirst, maskVars>>

(***************************************************************************)
(* winLockSharedMemory, called for a new node, and again from winShmMap    *)
(* while isUnlocked is set.  Each call to the system is a step.            *)
(***************************************************************************)
InUse(p) == \E q \in Process \ {p} : dms[q] # "UNLCK"
WriteLocked(p) == \E q \in Process \ {p} : dms[q] = "WRLCK"

(* An error: a new node is purged, an old one stays as it is.              *)
Fail(c) ==
  /\ Goto(c, "idle")
  /\ IF c \notin pShm THEN Purge(ProcOf[c])
     ELSE UNCHANGED <<dms, klock, node, isReadonly, isUnlocked, nRegion>>
  /\ UNCHANGED <<nRef, pShm>>

WrLock(c) ==
  LET p == ProcOf[c] IN
  /\ pc[c] = "wrlck"
  /\ \/ InUse(p) /\ Goto(c, "refused") /\ UNCHANGED <<dms, isUnlocked>>
     \/ /\ ~InUse(p)
        /\ dms' = [dms EXCEPT ![p] = "WRLCK"]
        /\ isUnlocked' = IF p \in isReadonly THEN isUnlocked \cup {p} ELSE isUnlocked
        /\ Goto(c, IF p \in isReadonly THEN "unlockFail" ELSE "truncate")
  /\ UNCHANGED <<fileVars, klock, node, isReadonly, nRef, nRegion, pFirst, pShm, maskVars>>

Truncate(c) ==
  /\ pc[c] = "truncate"
  /\ \/ /\ size' = 0 /\ trusted' = 1 /\ missed' = 0
        /\ Goto(c, "unlock")
     \/ Goto(c, "unlockFail") /\ UNCHANGED fileVars
  /\ UNCHANGED <<dms, klock, nodeVars, pShm, maskVars>>

(* The DMS byte is given up, and locked again as one of its readers.       *)
DropWriteLock(c) ==
  /\ pc[c] = "unlock"
  /\ dms' = [dms EXCEPT ![ProcOf[c]] = "UNLCK"]
  /\ Goto(c, "rdlck")
  /\ UNCHANGED <<fileVars, klock, nodeVars, pShm, maskVars>>

(* Somebody else has taken the lock for that of a user of the file.        *)
Refused == \E d \in Conn : pc[d] = "refused"
LeaveUntruncated == missed' = IF Refused /\ trusted = 0 THEN 1 ELSE missed

(* The error returns: SQLITE_READONLY_CANTINIT, with which a new node is   *)
(* kept, or a failed truncation.                                           *)
Abandon(c) ==
  LET p == ProcOf[c] IN
  /\ pc[c] = "unlockFail"
  /\ LeaveUntruncated
  /\ IF p \in isReadonly
     THEN /\ dms' = [dms EXCEPT ![p] = "UNLCK"]
          /\ IF c \in pShm THEN Goto(c, "idle") /\ UNCHANGED <<node, nRef, pShm>>
             ELSE Attach(c) /\ Goto(c, "linkFail")
          /\ UNCHANGED <<klock, isReadonly, isUnlocked, nRegion>>
     ELSE Fail(c)
  /\ UNCHANGED <<size, trusted, pFirst, maskVars>>

(* Mutated: an unlocked node counts as locked whatever the lock call says. *)
RdLockUnchecked(c) ==
  LET p == ProcOf[c] IN
  /\ pc[c] \in {"rdlck", "refused"}
  /\ dms' = [dms EXCEPT ![p] = IF WriteLocked(p) THEN @ ELSE "RDLCK"]
  /\ isUnlocked' = isUnlocked \ {p}
  /\ Goto(c, IF c \in pShm THEN "size" ELSE "link")
  /\ IF c \in pShm THEN UNCHANGED <<node, nRef, pShm>> ELSE Attach(c)
  /\ UNCHANGED <<fileVars, klock, isReadonly, nRegion, pFirst, maskVars>>

RdLock(c) ==
  LET p == ProcOf[c] IN
  /\ pc[c] \in {"rdlck", "refused"}
  /\ \/ /\ ~WriteLocked(p)
        /\ dms' = [dms EXCEPT ![p] = "RDLCK"]
        /\ isUnlocked' = isUnlocked \ {p}
        /\ Goto(c, IF c \in pShm THEN "size" ELSE "link")
        /\ IF c \in pShm THEN UNCHANGED <<node, nRef, pShm>> ELSE Attach(c)
        /\ UNCHANGED <<klock, isReadonly, nRegion>>
     \/ WriteLocked(p) /\ Fail(c)
  /\ UNCHANGED <<fileVars, pFirst, maskVars>>

(***************************************************************************)
(* winShmMap.                                                              *)
(***************************************************************************)
ShmMap(c, region) ==
  LET p == ProcOf[c] IN
  /\ \/ pc[c] = "enter" /\ region = iRegion[c]
     \/ pc[c] = "idle" /\ c \in pShm
  /\ NodeMutexFree(p)
  /\ Enter(c, IF p \in isUnlocked THEN "wrlck" ELSE "size", region)
  /\ UNCHANGED <<fileVars, dms, klock, nodeVars, pShm, maskVars>>

Size(c) ==
  /\ pc[c] = "size"
  /\ \/ /\ nRegion[ProcOf[c]] <= iRegion[c]
        /\ Goto(c, IF size > iRegion[c] THEN "mmap" ELSE "extend")
     \/ Goto(c, "idle")       \* mapped already, too short and not isWrite, or an error
  /\ UNCHANGED <<fileVars, dms, klock, nodeVars, pShm, maskVars>>

(* Another process may have made the file longer since its size was asked; *)
(* SetEndOfFile() refuses to cut what somebody has mapped, and winTruncate *)
(* takes that for success.                                                 *)
CanEndAt(n) == \A q \in Process : nRegion[q] <= n

Extend(c) ==
  LET n == iRegion[c] + 1 IN
  /\ pc[c] = "extend"
  /\ \/ /\ ProcOf[c] \notin isReadonly
        /\ size' = IF CanEndAt(n) THEN n ELSE size
        /\ Goto(c, "mmap")
     \/ Goto(c, "idle") /\ UNCHANGED size
  /\ UNCHANGED <<trusted, missed, dms, klock, nodeVars, pShm, maskVars>>

(* CreateFileMapping() makes a file that is too short longer, unless it is *)
(* read-only.                                                              *)
SizeOfMapping(c) == IF size > iRegion[c] THEN size ELSE iRegion[c] + 1

Mmap(c) ==
  LET p == ProcOf[c] IN
  /\ pc[c] = "mmap"
  /\ \/ /\ nRegion[p] <= iRegion[c]
        /\ p \in isReadonly => size > iRegion[c]
        /\ size' = SizeOfMapping(c)
        /\ nRegion' = [nRegion EXCEPT ![p] = @ + 1]
        /\ UNCHANGED <<pc, iRegion>>
     \/ Goto(c, "idle") /\ UNCHANGED <<size, nRegion>>
  /\ UNCHANGED <<trusted, missed, dms, klock, node, isReadonly, isUnlocked, nRef, pFirst, pShm,
                 maskVars>>

(***************************************************************************)
(* winShmLock, under the mutex of the node: the masks of the siblings, and *)
(* at most one system call.                                                *)
(***************************************************************************)
Siblings(c) == {d \in pFirst : ProcOf[d] = ProcOf[c]}      \* c itself included

CanLock(c) ==
  /\ pc[c] = "idle" /\ c \in pFirst
  /\ ProcOf[c] \notin isUnlocked
  /\ NodeMutexFree(ProcOf[c])

Grantable(slots, type) ==
  \A q \in Process : \A l \in klock[q] :
    l.slots \cap slots = {} \/ (l.type = "RDLCK" /\ type = "RDLCK")

SystemLockUnflagged(p, slots, type) ==           \* mutated: no LOCKFILE_EXCLUSIVE_LOCK
  /\ Grantable(slots, "RDLCK")
  /\ klock' = [klock EXCEPT ![p] = @ \cup {[slots |-> slots, type |-> "RDLCK"]}]

SystemLock(p, slots, type) ==
  /\ Grantable(slots, type)
  /\ klock' = [klock EXCEPT ![p] = @ \cup {[slots |-> slots, type |-> type]}]

lockUnchanged == UNCHANGED <<fileVars, dms, nodeVars, pShm, pc, iRegion>>

LockShared(c, s) ==
  /\ CanLock(c)
  /\ \A d \in Siblings(c) : s \notin exclMask[d]
  /\ IF \E d \in Siblings(c) : s \in sharedMask[d] THEN UNCHANGED klock
     ELSE SystemLock(ProcOf[c], {s}, "RDLCK")
  /\ sharedMask' = [sharedMask EXCEPT ![c] = @ \cup {s}]
  /\ UNCHANGED exclMask /\ lockUnchanged

SiblingsHold(c, slots) ==
  \E d \in Siblings(c) : (exclMask[d] \cup sharedMask[d]) \cap slots # {}

LockExclusive(c, slots) ==
  /\ CanLock(c)
  /\ ~SiblingsHold(c, slots)
  /\ SystemLock(ProcOf[c], slots, "WRLCK")
  /\ exclMask' = [exclMask EXCEPT ![c] = @ \cup slots]
  /\ UNCHANGED sharedMask /\ lockUnchanged

(* What UnlockFileEx() is given must be a range that is locked; otherwise  *)
(* it fails and nothing changes.                                           *)
SystemUnlock(p, slots) ==
  \E l \in klock[p] : l.slots = slots /\ klock' = [klock EXCEPT ![p] = @ \ {l}]

NobodyShares(c, slots) == TRUE                             \* mutated
NoSiblingShares(c, slots) ==
  \A d \in Siblings(c) \ {c} : sharedMask[d] \cap slots = {}

(* SQLITE_SHM_UNLOCK, "with the same SHARED or EXCLUSIVE flag" as the lock *)
(* (sqlite3.h): the slots are one shared slot or held exclusively.         *)
Unlock(c, slots) ==
  /\ CanLock(c)
  /\ slots \subseteq exclMask[c] \/ \E s \in sharedMask[c] : slots = {s}
  /\ IF NoSiblingShares(c, slots) THEN SystemUnlock(ProcOf[c], slots) ELSE UNCHANGED klock
  /\ exclMask' = [exclMask EXCEPT ![c] = @ \ slots]
  /\ sharedMask' = [sharedMask EXCEPT ![c] = @ \ slots]
  /\ lockUnchanged

(***************************************************************************)
(* winShmUnmap: off the list under the mutex of the node, then, under      *)
(* winBigLock, the reference is given up and the node purged with the last *)
(* one.  The WAL code has unlocked its slots before.                       *)
(***************************************************************************)
Unmap(c) ==
  /\ pc[c] = "idle" /\ c \in pShm
  /\ sharedMask[c] = {} /\ exclMask[c] = {}
  /\ NodeMutexFree(ProcOf[c])
  /\ pFirst' = pFirst \ {c}
  /\ pShm' = pShm \ {c}
  /\ Goto(c, "unref")
  /\ UNCHANGED <<fileVars, dms, klock, node, isReadonly, isUnlocked, nRef, nRegion, maskVars>>

LastListed(p) == \A d \in pFirst : ProcOf[d] # p           \* mutated: the list instead of nRef
LastRef(p) == nRef[p] = 1

(* A file that somebody has open cannot be deleted.                        *)
CanDelete(p) == \A q \in Process \ {p} : node[q] = "none"

Unref(c) ==
  LET p == ProcOf[c] IN
  /\ pc[c] = "unref" /\ BigLockFree(p)
  /\ nRef' = [nRef EXCEPT ![p] = @ - 1]
  /\ Goto(c, "idle")
  /\ IF LastRef(p)
     THEN /\ Purge(p)
          /\ \/ UNCHANGED fileVars
             \/ CanDelete(p) /\ size' = Absent /\ trusted' = 1 /\ missed' = 0
     ELSE UNCHANGED <<fileVars, dms, klock, node, isReadonly, isUnlocked, nRegion>>
  /\ UNCHANGED <<pFirst, pShm, maskVars>>

(***************************************************************************)
(* Processes die, one or, when the power fails, all of them.               *)
(***************************************************************************)
Die(procs) ==
  LET Lost(f, default) == [p \in Process |-> IF p \in procs THEN default ELSE f[p]]
      left == {c \in Conn : ProcOf[c] \notin procs}
      Cleared(f, default) == [c \in Conn |-> IF c \in left THEN f[c] ELSE default]
  IN
  /\ dms' = Lost(dms, "UNLCK") /\ klock' = Lost(klock, {})
  /\ node' = Lost(node, "none")
  /\ isReadonly' = isReadonly \ procs /\ isUnlocked' = isUnlocked \ procs
  /\ nRef' = Lost(nRef, 0) /\ nRegion' = Lost(nRegion, 0)
  /\ pFirst' = pFirst \cap left /\ pShm' = pShm \cap left
  /\ sharedMask' = Cleared(sharedMask, {}) /\ exclMask' = Cleared(exclMask, {})
  /\ pc' = Cleared(pc, "idle") /\ iRegion' = Cleared(iRegion, 0)

Crash(p) ==
  /\ Die({p})
  /\ IF dms[p] = "WRLCK" THEN LeaveUntruncated ELSE UNCHANGED missed
  /\ UNCHANGED <<size, trusted>>

(* The file then has any contents and may be shorter, or be there again    *)
(* after it was deleted.                                                   *)
PowerFailure ==
  /\ Die(Process)
  /\ size' \in Absent .. (IF size < 1 THEN 1 ELSE size)
  /\ trusted' = IF size' = Absent THEN 1 ELSE 0
  /\ missed' = 0

Ranges == {a .. b : a, b \in Slot} \ {{}}

Next ==
  \/ \E c \in Conn :
       \/ \E region \in Regions : Open(c, region) \/ ShmMap(c, region)
       \/ WrLock(c) \/ Truncate(c) \/ DropWriteLock(c) \/ Abandon(c) \/ RdLock(c)
       \/ Link(c) \/ Size(c) \/ Extend(c) \/ Mmap(c)
       \/ Unmap(c) \/ Unref(c)
       \/ \E s \in Slot : LockShared(c, s)
       \/ \E slots \in Ranges : LockExclusive(c, slots) \/ Unlock(c, slots)
  \/ \E p \in Process : Crash(p)
  \/ PowerFailure

Spec == Init /\ [][Next]_vars

-----------------------------------------------------------------------------
(* Processes that read and write the file through their node.              *)
Using(p) == node[p] = "ready" /\ p \notin isUnlocked

(* "If no other instances of that file are currently open ... the file     *)
(* must be truncated": nobody uses what a power failure left behind, nor   *)
(* is the file cut short under its users.  The first has one exception: a  *)
(* process that was refused the DMS byte by one that left it again without *)
(* truncating takes the byte as a reader and goes on.                      *)
FirstTruncates ==
  /\ \A p \in Process : Using(p) => trusted = 1 \/ missed = 1
  /\ \A c \in Conn : pc[c] \in {"truncate", "unlock"} => \A p \in Process : ~Using(p) \/ p = ProcOf[c]

(* What a process has mapped is inside the file, though its size is asked, *)
(* set and mapped in three calls, between which other processes run; and   *)
(* the node outlives every connection that may touch it.                   *)
Referencing(p) == {c \in Conn : ProcOf[c] = p /\ (c \in pShm \/ pc[c] = "unref")}

MappingsSafe ==
  \A p \in Process :
    /\ nRegion[p] > 0 => nRegion[p] <= size
    /\ nRef[p] = Cardinality(Referencing(p))
    /\ node[p] = "ready" <=> nRef[p] > 0

(* The kernel holds for a process what its connections believe: the slots  *)
(* that some of them share, and those that one of them owns.               *)
HeldBy(p, mask) == UNION {mask[c] : c \in {d \in Conn : ProcOf[d] = p}}
LockedAs(p, type) == UNION {l.slots : l \in {k \in klock[p] : k.type = type}}

KernelMatches ==
  \A p \in Process :
    /\ LockedAs(p, "RDLCK") = HeldBy(p, sharedMask)
    /\ LockedAs(p, "WRLCK") = HeldBy(p, exclMask)

(* The slots behave as ShmSlots promises the WAL code.                     *)
Slots == INSTANCE ShmSlots WITH
  sharers <- [s \in Slot |-> {c \in Conn : s \in sharedMask[c]}],
  owners <- [s \in Slot |-> {c \in Conn : s \in exclMask[c]}]
ImplementsShmSlots == Slots!Spec
=============================================================================
