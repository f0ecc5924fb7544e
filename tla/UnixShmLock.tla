---------------------------- MODULE UnixShmLock ----------------------------
(***************************************************************************)
(* Slot locks on the WAL-index shared memory (src/os/os_unix.c):           *)
(* unixShmLock and unixShmSystemLock, on the unixShmNode that the          *)
(* connections of a process share.                                         *)
(*                                                                         *)
(* A connection keeps the slots it holds in sharedMask and exclMask, the   *)
(* node counts them in aLock (number of sharers, or -1), and the kernel    *)
(* holds one fcntl lock per slot for the whole process.  unixShmLock runs  *)
(* under pShmMutex with a single fcntl call, so a call is one step; a call *)
(* that fails (SQLITE_BUSY, or a failing fcntl) changes nothing.  How the  *)
(* node is opened and closed is modelled in UnixShmNode.                   *)
(***************************************************************************)
EXTENDS FcntlLocks, ShmConnections, Integers, FiniteSets

CONSTANTS
  NLock,   \* SQLITE_SHM_NLOCK
  HeapShm  \* processes whose node has no file (hShm<0): unix-excl, heap memory

ASSUME UnixShmLockAssumption ==
  /\ ProcOf \in [Conn -> Process]
  /\ NLock \in Nat
  /\ HeapShm \subseteq Process
  /\ IsFiniteSet(Conn)

Slot == 0 .. NLock - 1

(* The slots ofst .. ofst+n-1 that a call may name.                        *)
SlotRanges == {ofst .. ofst + n - 1 : ofst \in Slot, n \in 1 .. NLock} \cap SUBSET Slot

VARIABLES
  klock,       \* kernel lock table of the shm file
  aLock,       \* of each process's node: number of sharers, or -1, per slot
  linked,      \* connections with a unixShm (pShm#0)
  sharedMask,  \* slots each connection holds shared
  exclMask     \* slots each connection holds exclusively

slotVars == <<klock, aLock, linked, sharedMask, exclMask>>

SlotInit ==
  /\ klock = [p \in Process |-> NoLocks(Slot)]
  /\ aLock = [p \in Process |-> [s \in Slot |-> 0]]
  /\ linked = {}
  /\ sharedMask = [c \in Conn |-> {}]
  /\ exclMask = [c \in Conn |-> {}]

(* unixShmSystemLock, when it succeeds.                                    *)
SystemLock(p, type, slots) ==
  IF p \in HeapShm THEN UNCHANGED klock
  ELSE Grantable(klock, p, slots, type) /\ klock' = SetLock(klock, p, slots, type)

SetCounts(p, slots, n) ==
  aLock' = [aLock EXCEPT ![p] = [s \in Slot |-> IF s \in slots THEN n ELSE @[s]]]

AddCount(p, s, n) == aLock' = [aLock EXCEPT ![p][s] = @ + n]

(* Mutated: the first sharer counts itself without a lock in the kernel.   *)
LockSharedOnlyLocal(c, s) ==
  LET p == ProcOf[c] IN
  /\ c \in linked /\ s \notin exclMask[c] /\ s \notin sharedMask[c]
  /\ aLock[p][s] >= 0
  /\ UNCHANGED klock
  /\ sharedMask' = [sharedMask EXCEPT ![c] = @ \cup {s}]
  /\ AddCount(p, s, 1)
  /\ UNCHANGED <<linked, exclMask>>

(* SQLITE_SHM_LOCK | SQLITE_SHM_SHARED.  Asking again is a no-op.          *)
LockShared(c, s) ==
  LET p == ProcOf[c] IN
  /\ c \in linked
  /\ s \notin exclMask[c] /\ s \notin sharedMask[c]
  /\ \/ aLock[p][s] > 0 /\ UNCHANGED klock
     \/ aLock[p][s] = 0 /\ SystemLock(p, F_RDLCK, {s})
  /\ sharedMask' = [sharedMask EXCEPT ![c] = @ \cup {s}]
  /\ AddCount(p, s, 1)
  /\ UNCHANGED <<linked, exclMask>>

(* "Make sure no sibling connections hold locks that will block this lock" *)
SiblingOwnersOnly(p, slots) ==           \* mutated: sharers are not looked at
  \E s \in slots : aLock[p][s] < 0
SiblingsHold(p, slots) == \E s \in slots : aLock[p][s] # 0

(* SQLITE_SHM_LOCK | SQLITE_SHM_EXCLUSIVE.  A connection that asks for an  *)
(* exclusive lock holds none of the slots (asserted).                      *)
LockExclusive(c, slots) ==
  LET p == ProcOf[c] IN
  /\ c \in linked
  /\ (sharedMask[c] \cup exclMask[c]) \cap slots = {}
  /\ ~SiblingsHold(p, slots)
  /\ SystemLock(p, F_WRLCK, slots)
  /\ exclMask' = [exclMask EXCEPT ![c] = @ \cup slots]
  /\ SetCounts(p, slots, -1)
  /\ UNCHANGED <<linked, sharedMask>>

(* bUnlock: no other connection of the process still shares the slots.     *)
AlwaysLast(c, slots) == TRUE             \* mutated
LastUser(c, slots) ==
  \A s \in slots : aLock[ProcOf[c]][s] <= (IF s \in sharedMask[c] THEN 1 ELSE 0)

(* SQLITE_SHM_UNLOCK, "with the same SHARED or EXCLUSIVE flag" as the lock *)
(* (sqlite3.h), so the slots are one shared slot or held exclusively.      *)
Unlock(c, slots) ==
  LET p == ProcOf[c] IN
  /\ c \in linked
  /\ slots \subseteq exclMask[c] \/ \E s \in sharedMask[c] : slots = {s}
  /\ \/ /\ LastUser(c, slots)
        /\ SystemLock(p, F_UNLCK, slots)
        /\ SetCounts(p, slots, 0)
     \/ /\ ~LastUser(c, slots)
        /\ \E s \in slots : AddCount(p, s, -1)
        /\ UNCHANGED klock
  /\ exclMask' = [exclMask EXCEPT ![c] = @ \ slots]
  /\ sharedMask' = [sharedMask EXCEPT ![c] = @ \ slots]
  /\ UNCHANGED linked

(* A connection joins the node of its process, or creates it.              *)
Connect(c) ==
  /\ c \notin linked
  /\ linked' = linked \cup {c}
  /\ UNCHANGED <<klock, aLock, sharedMask, exclMask>>

(* unixShmUnmap, which does not look at the masks: the WAL code ends its   *)
(* transactions first.  With the last connection unixShmPurge closes the   *)
(* file, and the node with its counts is gone.                             *)
Disconnect(c) ==
  LET p == ProcOf[c]
      last == \A d \in linked \ {c} : ProcOf[d] # p
  IN
  /\ c \in linked
  /\ sharedMask[c] = {} /\ exclMask[c] = {}
  /\ linked' = linked \ {c}
  /\ klock' = IF last THEN DropLocks(klock, p) ELSE klock
  /\ aLock' = IF last THEN [aLock EXCEPT ![p] = [s \in Slot |-> 0]] ELSE aLock
  /\ UNCHANGED <<sharedMask, exclMask>>

(* The process dies; the kernel drops its locks.                           *)
ProcessDies(p) ==
  LET Lost(f) == [c \in Conn |-> IF ProcOf[c] = p THEN {} ELSE f[c]] IN
  /\ klock' = DropLocks(klock, p)
  /\ aLock' = [aLock EXCEPT ![p] = [s \in Slot |-> 0]]
  /\ linked' = {c \in linked : ProcOf[c] # p}
  /\ sharedMask' = Lost(sharedMask)
  /\ exclMask' = Lost(exclMask)

SlotNext ==
  \/ \E c \in Conn :
       \/ \E s \in Slot : LockShared(c, s)
       \/ \E slots \in SlotRanges : LockExclusive(c, slots) \/ Unlock(c, slots)
       \/ Connect(c) \/ Disconnect(c)
  \/ \E p \in Process : ProcessDies(p)

SlotSpec == SlotInit /\ [][SlotNext]_slotVars

-----------------------------------------------------------------------------
(* Every variable stays in its range, and only connections to the shared   *)
(* memory hold locks in it.                                                *)
TypeOK ==
  /\ klock \in [Process -> [Slot -> LockType]]
  /\ aLock \in [Process -> [Slot -> -1 .. Cardinality(Conn)]]
  /\ linked \subseteq Conn
  /\ sharedMask \in [Conn -> SUBSET Slot]
  /\ exclMask \in [Conn -> SUBSET Slot]
  /\ \A c \in Conn \ linked : sharedMask[c] = {} /\ exclMask[c] = {}

Sharers(p, s) == {c \in Conn : ProcOf[c] = p /\ s \in sharedMask[c]}
Owners(p, s) == {c \in Conn : ProcOf[c] = p /\ s \in exclMask[c]}

(* assertLockingArrayOk: the node counts exactly what the masks of its     *)
(* connections say.                                                        *)
LockingArrayOk ==
  \A p \in Process, s \in Slot :
    \/ /\ aLock[p][s] = -1
       /\ Sharers(p, s) = {}
       /\ \E c \in Conn : Owners(p, s) = {c}
    \/ /\ aLock[p][s] = Cardinality(Sharers(p, s))
       /\ Owners(p, s) = {}

(* The kernel holds for the process exactly what the node counts: a lock   *)
(* is not dropped before its last user goes, nor kept after.               *)
KernelMatches ==
  \A p \in Process \ HeapShm, s \in Slot :
    klock[p][s] = IF aLock[p][s] < 0 THEN F_WRLCK
                  ELSE IF aLock[p][s] > 0 THEN F_RDLCK ELSE F_UNLCK

(* An exclusive slot lock excludes every other connection, in the same     *)
(* process and in others.  Processes with heap memory (unix-excl) are      *)
(* alone on the database.                                                  *)
SameMemory(c, d) ==
  ProcOf[c] = ProcOf[d] \/ (ProcOf[c] \notin HeapShm /\ ProcOf[d] \notin HeapShm)

SlotExclusion ==
  \A c, d \in Conn : c # d /\ SameMemory(c, d) =>
    exclMask[c] \cap (exclMask[d] \cup sharedMask[d]) = {}

(* The slot locks are those of the abstract specification, when all        *)
(* processes share the memory.                                             *)
SharersOf == [s \in Slot |-> {c \in Conn : s \in sharedMask[c]}]
OwnersOf == [s \in Slot |-> {c \in Conn : s \in exclMask[c]}]

Slots == INSTANCE ShmSlots WITH sharers <- SharersOf, owners <- OwnersOf
ImplementsShmSlots == Slots!Spec
=============================================================================
