------------------------- MODULE UnixShmLockProofs -------------------------
(***************************************************************************)
(* Proofs about UnixShmLock for every set of processes and connections and *)
(* every number of slots.                                                  *)
(*                                                                         *)
(* SlotExclusion is not inductive: that a grant excludes the siblings      *)
(* rests on aLock counting the masks exactly, that it excludes the other   *)
(* processes on the kernel's lock matching aLock, and that the kernel does *)
(* not conflict with itself.  IInv is the conjunction.                     *)
(***************************************************************************)
EXTENDS UnixShmLock, FiniteSetTheorems, TLAPS

Typed ==
  /\ klock \in [Process -> [Slot -> LockType]]
  /\ aLock \in [Process -> [Slot -> Int]]
  /\ linked \subseteq Conn
  /\ sharedMask \in [Conn -> SUBSET Slot]
  /\ exclMask \in [Conn -> SUBSET Slot]
  /\ \A c \in Conn \ linked : sharedMask[c] = {} /\ exclMask[c] = {}

KernelConsistent ==
  \A p, q \in Process : p # q => \A s \in Slot : Compatible(klock[p][s], klock[q][s])

IInv == Typed /\ LockingArrayOk /\ KernelMatches /\ KernelConsistent

-----------------------------------------------------------------------------
(* Counting the sharers of a slot.                                         *)

LEMMA SharersFinite ==
  ASSUME NEW p \in Process, NEW s \in Slot
  PROVE  IsFiniteSet(Sharers(p, s)) /\ Cardinality(Sharers(p, s)) \in Nat
<1>1. Sharers(p, s) \subseteq Conn
  BY DEF Sharers
<1>2. IsFiniteSet(Sharers(p, s))
  BY <1>1, FS_Subset, UnixShmLockAssumption
<1>3. QED
  BY <1>2, FS_CardinalityType

(* What the count of a slot says about who holds it.                       *)
LEMMA CountMeans ==
  ASSUME LockingArrayOk, Typed, NEW p \in Process, NEW s \in Slot
  PROVE  /\ aLock[p][s] \in Int /\ aLock[p][s] >= -1
         /\ aLock[p][s] = 0 => Sharers(p, s) = {} /\ Owners(p, s) = {}
         /\ aLock[p][s] >= 0
            => aLock[p][s] = Cardinality(Sharers(p, s)) /\ Owners(p, s) = {}
         /\ aLock[p][s] < 0
            => Sharers(p, s) = {} /\ \E c \in Conn : Owners(p, s) = {c}
<1>1. /\ IsFiniteSet(Sharers(p, s)) /\ Cardinality(Sharers(p, s)) \in Nat
      /\ Cardinality(Sharers(p, s)) = 0 => Sharers(p, s) = {}
  BY SharersFinite, FS_EmptySet
<1>2. CASE aLock[p][s] = -1 /\ Sharers(p, s) = {} /\ \E c \in Conn : Owners(p, s) = {c}
  BY <1>2
<1>3. CASE aLock[p][s] = Cardinality(Sharers(p, s)) /\ Owners(p, s) = {}
  BY <1>1, <1>3
<1>4. QED
  BY <1>2, <1>3 DEF LockingArrayOk

(* A connection that holds a slot exclusively is alone on it in its        *)
(* process; one that shares it is counted.                                 *)
LEMMA HolderMeans ==
  ASSUME LockingArrayOk, Typed, NEW c \in Conn, NEW s \in Slot
  PROVE  /\ s \in exclMask[c]
            => /\ aLock[ProcOf[c]][s] = -1
               /\ Sharers(ProcOf[c], s) = {} /\ Owners(ProcOf[c], s) = {c}
         /\ s \in sharedMask[c]
            => /\ aLock[ProcOf[c]][s] = Cardinality(Sharers(ProcOf[c], s))
               /\ aLock[ProcOf[c]][s] >= 1
               /\ Owners(ProcOf[c], s) = {}
<1> DEFINE p == ProcOf[c]
<1>0. p \in Process
  BY UnixShmLockAssumption
<1>1. ASSUME s \in exclMask[c]
      PROVE  aLock[p][s] = -1 /\ Sharers(p, s) = {} /\ Owners(p, s) = {c}
  <2>1. c \in Owners(p, s)
    BY <1>1 DEF Owners
  <2>2. QED
    BY <2>1, <1>0 DEF LockingArrayOk
<1>2. ASSUME s \in sharedMask[c]
      PROVE  /\ aLock[p][s] = Cardinality(Sharers(p, s)) /\ aLock[p][s] >= 1
             /\ Owners(p, s) = {}
  <2>1. c \in Sharers(p, s)
    BY <1>2 DEF Sharers
  <2>2. aLock[p][s] = Cardinality(Sharers(p, s)) /\ Owners(p, s) = {}
    BY <2>1, <1>0 DEF LockingArrayOk
  <2>3. Cardinality(Sharers(p, s)) \in Nat /\ Cardinality(Sharers(p, s)) # 0
    BY <2>1, <1>0, SharersFinite, FS_EmptySet
  <2>4. QED
    BY <2>2, <2>3
<1>3. QED
  BY <1>1, <1>2

-----------------------------------------------------------------------------
(* The kernel's table.                                                     *)

LEMMA SystemLockOK ==
  ASSUME Typed, KernelConsistent, NEW p \in Process, NEW type \in LockType,
         NEW slots \in SUBSET Slot, SystemLock(p, type, slots)
  PROVE  /\ klock' \in [Process -> [Slot -> LockType]]
         /\ KernelConsistent'
         /\ p \notin HeapShm =>
              \A s \in Slot : klock'[p][s] = IF s \in slots THEN type ELSE klock[p][s]
         /\ \A q \in Process \ {p} : klock'[q] = klock[q]
<1>1. CASE p \in HeapShm
  BY <1>1 DEF SystemLock, Typed, KernelConsistent
<1>2. CASE p \notin HeapShm
  <2>1. klock' = [klock EXCEPT ![p] = [s \in Slot |-> IF s \in slots THEN type ELSE klock[p][s]]]
    BY <1>2 DEF SystemLock, SetLock, Typed
  <2>2. \A q \in Process \ {p}, s \in slots : Compatible(klock[q][s], type)
    BY <1>2 DEF SystemLock, Grantable, Typed
  <2>3. klock' \in [Process -> [Slot -> LockType]]
    BY <2>1 DEF Typed
  <2>4. \A s \in Slot : klock'[p][s] = IF s \in slots THEN type ELSE klock[p][s]
    BY <2>1 DEF Typed
  <2>5. \A q \in Process \ {p} : klock'[q] = klock[q]
    BY <2>1 DEF Typed
  <2>6. ASSUME NEW a \in LockType, NEW b \in LockType
        PROVE  Compatible(a, b) <=> Compatible(b, a)
    BY DEF Compatible, LockType, F_UNLCK, F_RDLCK, F_WRLCK
  <2>7. \A q \in Process \ {p}, s \in Slot :
          Compatible(klock'[q][s], klock'[p][s]) /\ Compatible(klock'[p][s], klock'[q][s])
    <3> TAKE q \in Process \ {p}, s \in Slot
    <3>1. klock[q][s] \in LockType /\ klock[p][s] \in LockType
      BY DEF Typed
    <3>2. Compatible(klock[q][s], klock'[p][s])
      BY <2>2, <2>4 DEF KernelConsistent
    <3>3. QED
      BY <2>4, <2>5, <2>6, <3>1, <3>2
  <2>8. KernelConsistent'
    BY <2>5, <2>7 DEF KernelConsistent
  <2>9. QED
    BY <2>3, <2>4, <2>5, <2>8
<1>3. QED
  BY <1>1, <1>2

LEMMA DropLocksOK ==
  ASSUME Typed, KernelConsistent, NEW p \in Process, klock' = DropLocks(klock, p)
  PROVE  /\ klock' \in [Process -> [Slot -> LockType]]
         /\ KernelConsistent'
         /\ \A s \in Slot : klock'[p][s] = F_UNLCK
         /\ \A q \in Process \ {p} : klock'[q] = klock[q]
<1>1. klock' = [klock EXCEPT ![p] = [s \in Slot |-> F_UNLCK]]
  BY DEF DropLocks, Typed
<1>2. klock' \in [Process -> [Slot -> LockType]]
  BY <1>1 DEF Typed, LockType
<1>3. \A s \in Slot : klock'[p][s] = F_UNLCK
  BY <1>1 DEF Typed
<1>4. \A q \in Process \ {p} : klock'[q] = klock[q]
  BY <1>1 DEF Typed
<1>5. KernelConsistent'
  BY <1>3, <1>4 DEF KernelConsistent, Compatible
<1>6. QED
  BY <1>2, <1>3, <1>4, <1>5

-----------------------------------------------------------------------------
(* One lemma per action.                                                   *)

LEMMA InitOK == SlotInit => IInv
<1> SUFFICES ASSUME SlotInit PROVE IInv
  OBVIOUS
<1>1. Typed
  BY DEF SlotInit, Typed, NoLocks, LockType
<1>2. \A p \in Process, s \in Slot : Sharers(p, s) = {} /\ Owners(p, s) = {}
  BY DEF SlotInit, Sharers, Owners
<1>3. LockingArrayOk
  BY <1>2, FS_EmptySet DEF SlotInit, LockingArrayOk
<1>4. KernelMatches /\ KernelConsistent
  BY DEF SlotInit, KernelMatches, KernelConsistent, NoLocks, Compatible
<1>5. QED
  BY <1>1, <1>3, <1>4 DEF IInv

LEMMA LockSharedOK ==
  ASSUME IInv, NEW c \in Conn, NEW s \in Slot, LockShared(c, s)
  PROVE  IInv'
<1> DEFINE p == ProcOf[c]
<1>0. p \in Process /\ Typed /\ LockingArrayOk /\ KernelMatches /\ KernelConsistent
  BY UnixShmLockAssumption DEF IInv
<1>1. aLock[p][s] \in Int /\ aLock[p][s] >= 0
  BY <1>0, CountMeans DEF LockShared
<1>2. aLock[p][s] = Cardinality(Sharers(p, s)) /\ Owners(p, s) = {}
  BY <1>0, <1>1, CountMeans
<1>3. /\ sharedMask' = [sharedMask EXCEPT ![c] = @ \cup {s}]
      /\ aLock' = [aLock EXCEPT ![p][s] = @ + 1]
      /\ UNCHANGED <<linked, exclMask>>
  BY DEF LockShared, AddCount
<1>4. /\ aLock' \in [Process -> [Slot -> Int]] /\ sharedMask' \in [Conn -> SUBSET Slot]
      /\ aLock'[p][s] = aLock[p][s] + 1
      /\ \A q \in Process, x \in Slot : q # p \/ x # s => aLock'[q][x] = aLock[q][x]
  BY <1>0, <1>1, <1>3 DEF Typed
<1>5. /\ Sharers(p, s)' = Sharers(p, s) \cup {c}
      /\ \A q \in Process, x \in Slot : q # p \/ x # s => Sharers(q, x)' = Sharers(q, x)
      /\ \A q \in Process, x \in Slot : Owners(q, x)' = Owners(q, x)
  BY <1>0, <1>3 DEF Typed, Sharers, Owners
<1>6. c \notin Sharers(p, s)
  BY DEF LockShared, Sharers
<1>7. Cardinality(Sharers(p, s)') = aLock'[p][s]
  BY <1>0, <1>2, <1>4, <1>5, <1>6, SharersFinite, FS_AddElement
<1>8. LockingArrayOk'
  <2> SUFFICES ASSUME NEW q \in Process, NEW x \in Slot
      PROVE  \/ /\ aLock'[q][x] = -1 /\ Sharers(q, x)' = {}
                /\ \E d \in Conn : Owners(q, x)' = {d}
             \/ aLock'[q][x] = Cardinality(Sharers(q, x)') /\ Owners(q, x)' = {}
    BY DEF LockingArrayOk
  <2>1. CASE q = p /\ x = s
    BY <2>1, <1>2, <1>5, <1>7
  <2>2. CASE q # p \/ x # s
    BY <2>2, <1>0, <1>4, <1>5 DEF LockingArrayOk
  <2>3. QED
    BY <2>1, <2>2
<1>9. CASE aLock[p][s] > 0 /\ UNCHANGED klock
  <2>1. KernelMatches' /\ KernelConsistent'
    BY <1>9, <1>0, <1>1, <1>4 DEF KernelMatches, KernelConsistent
  <2>2. Typed'
    BY <1>9, <1>0, <1>3, <1>4 DEF Typed, LockShared
  <2>3. QED
    BY <2>1, <2>2, <1>8 DEF IInv
<1>10. CASE aLock[p][s] = 0 /\ SystemLock(p, F_RDLCK, {s})
  <2>1. F_RDLCK \in LockType /\ {s} \in SUBSET Slot
    BY DEF LockType
  <2>2. /\ klock' \in [Process -> [Slot -> LockType]]
        /\ KernelConsistent'
        /\ p \notin HeapShm =>
             \A x \in Slot : klock'[p][x] = IF x \in {s} THEN F_RDLCK ELSE klock[p][x]
        /\ \A q \in Process \ {p} : klock'[q] = klock[q]
    BY <1>0, <1>10, <2>1, SystemLockOK
  <2>3. KernelMatches'
    BY <1>0, <1>10, <1>4, <2>2 DEF KernelMatches
  <2>4. Typed'
    BY <1>0, <1>3, <1>4, <2>2 DEF Typed, LockShared
  <2>5. QED
    BY <1>8, <2>2, <2>3, <2>4 DEF IInv
<1>11. QED
  BY <1>9, <1>10 DEF LockShared

LEMMA LockExclusiveOK ==
  ASSUME IInv, NEW c \in Conn, NEW slots \in SUBSET Slot, LockExclusive(c, slots)
  PROVE  IInv'
<1> DEFINE p == ProcOf[c]
<1>0. p \in Process /\ Typed /\ LockingArrayOk /\ KernelMatches /\ KernelConsistent
  BY UnixShmLockAssumption DEF IInv
<1>1. /\ exclMask' = [exclMask EXCEPT ![c] = @ \cup slots]
      /\ aLock' = [aLock EXCEPT ![p] = [s \in Slot |-> IF s \in slots THEN -1 ELSE aLock[p][s]]]
      /\ UNCHANGED <<linked, sharedMask>>
  BY <1>0 DEF LockExclusive, SetCounts, Typed
<1>2. /\ aLock' \in [Process -> [Slot -> Int]] /\ exclMask' \in [Conn -> SUBSET Slot]
      /\ \A s \in slots : aLock'[p][s] = -1
      /\ \A q \in Process, s \in Slot : q # p \/ s \notin slots => aLock'[q][s] = aLock[q][s]
  BY <1>0, <1>1 DEF Typed
<1>3. \A s \in slots : Sharers(p, s) = {} /\ Owners(p, s) = {}
  <2> TAKE s \in slots
  <2>1. aLock[p][s] = 0
    BY DEF LockExclusive, SiblingsHold
  <2>2. QED
    BY <1>0, <2>1, CountMeans
<1>4. /\ \A q \in Process, s \in Slot : Sharers(q, s)' = Sharers(q, s)
      /\ \A s \in slots : Owners(p, s)' = {c}
      /\ \A q \in Process, s \in Slot : q # p \/ s \notin slots => Owners(q, s)' = Owners(q, s)
  <2>1. \A q \in Process, s \in Slot : Sharers(q, s)' = Sharers(q, s)
    BY <1>1 DEF Sharers
  <2>2. \A s \in slots : Owners(p, s)' = {c}
    BY <1>0, <1>1, <1>3 DEF Owners, Typed
  <2>3. \A q \in Process, s \in Slot : q # p \/ s \notin slots => Owners(q, s)' = Owners(q, s)
    BY <1>0, <1>1 DEF Owners, Typed
  <2>4. QED
    BY <2>1, <2>2, <2>3
<1>5. LockingArrayOk'
  <2> SUFFICES ASSUME NEW q \in Process, NEW x \in Slot
      PROVE  \/ /\ aLock'[q][x] = -1 /\ Sharers(q, x)' = {}
                /\ \E d \in Conn : Owners(q, x)' = {d}
             \/ aLock'[q][x] = Cardinality(Sharers(q, x)') /\ Owners(q, x)' = {}
    BY DEF LockingArrayOk
  <2>1. CASE q = p /\ x \in slots
    BY <2>1, <1>2, <1>3, <1>4
  <2>2. CASE q # p \/ x \notin slots
    <3>1. /\ aLock'[q][x] = aLock[q][x]
          /\ Sharers(q, x)' = Sharers(q, x) /\ Owners(q, x)' = Owners(q, x)
      BY <2>2, <1>2, <1>4
    <3>2. QED
      BY <3>1, <1>0 DEF LockingArrayOk
  <2>3. QED
    BY <2>1, <2>2
<1>6. /\ klock' \in [Process -> [Slot -> LockType]]
      /\ KernelConsistent'
      /\ p \notin HeapShm =>
           \A x \in Slot : klock'[p][x] = IF x \in slots THEN F_WRLCK ELSE klock[p][x]
      /\ \A q \in Process \ {p} : klock'[q] = klock[q]
  <2>1. F_WRLCK \in LockType /\ SystemLock(p, F_WRLCK, slots)
    BY DEF LockType, LockExclusive
  <2>2. QED
    BY <1>0, <2>1, SystemLockOK
<1>7. KernelMatches'
  <2> SUFFICES ASSUME NEW q \in Process \ HeapShm, NEW x \in Slot
      PROVE  klock'[q][x] = IF aLock'[q][x] < 0 THEN F_WRLCK
                            ELSE IF aLock'[q][x] > 0 THEN F_RDLCK ELSE F_UNLCK
    BY DEF KernelMatches
  <2>1. CASE q = p /\ x \in slots
    BY <2>1, <1>2, <1>6
  <2>2. CASE q # p \/ x \notin slots
    BY <2>2, <1>0, <1>2, <1>6 DEF KernelMatches
  <2>3. QED
    BY <2>1, <2>2
<1>8. Typed'
  BY <1>0, <1>1, <1>2, <1>6 DEF Typed, LockExclusive
<1>9. QED
  BY <1>5, <1>6, <1>7, <1>8 DEF IInv

LEMMA UnlockOK ==
  ASSUME IInv, NEW c \in Conn, NEW slots \in SUBSET Slot, Unlock(c, slots)
  PROVE  IInv'
<1> DEFINE p == ProcOf[c]
<1>0. p \in Process /\ Typed /\ LockingArrayOk /\ KernelMatches /\ KernelConsistent
  BY UnixShmLockAssumption DEF IInv
<1>1. /\ exclMask' = [exclMask EXCEPT ![c] = @ \ slots]
      /\ sharedMask' = [sharedMask EXCEPT ![c] = @ \ slots]
      /\ UNCHANGED linked
  BY DEF Unlock
<1>2. /\ exclMask' \in [Conn -> SUBSET Slot] /\ sharedMask' \in [Conn -> SUBSET Slot]
      /\ \A d \in Conn \ linked' : sharedMask'[d] = {} /\ exclMask'[d] = {}
  BY <1>0, <1>1 DEF Typed
<1>3. /\ \A s \in slots : Sharers(p, s)' = Sharers(p, s) \ {c}
      /\ \A s \in slots : Owners(p, s)' = Owners(p, s) \ {c}
  BY <1>0, <1>1 DEF Sharers, Owners, Typed
<1>4. \A q \in Process, s \in Slot : q # p \/ s \notin slots =>
        Sharers(q, s)' = Sharers(q, s) /\ Owners(q, s)' = Owners(q, s)
  BY <1>0, <1>1 DEF Sharers, Owners, Typed
<1>5. CASE /\ LastUser(c, slots)
           /\ SystemLock(p, F_UNLCK, slots)
           /\ SetCounts(p, slots, 0)
  <2>1. aLock' = [aLock EXCEPT ![p] = [s \in Slot |-> IF s \in slots THEN 0 ELSE aLock[p][s]]]
    BY <1>0, <1>5 DEF SetCounts, Typed
  <2>2. /\ aLock' \in [Process -> [Slot -> Int]]
        /\ \A s \in slots : aLock'[p][s] = 0
        /\ \A q \in Process, s \in Slot : q # p \/ s \notin slots => aLock'[q][s] = aLock[q][s]
    BY <1>0, <2>1 DEF Typed
  <2>3. ASSUME NEW s \in slots
        PROVE  Sharers(p, s)' = {} /\ Owners(p, s)' = {}
    <3>1. CASE slots \subseteq exclMask[c]
      <4>1. Sharers(p, s) = {} /\ Owners(p, s) = {c}
        BY <3>1, <1>0, HolderMeans
      <4>2. QED
        BY <4>1, <1>3
    <3>2. CASE s \in sharedMask[c]
      <4>1. /\ aLock[p][s] = Cardinality(Sharers(p, s)) /\ aLock[p][s] >= 1
            /\ Owners(p, s) = {}
        BY <3>2, <1>0, HolderMeans
      <4>2. aLock[p][s] <= 1
        BY <3>2, <1>5 DEF LastUser
      <4>3. aLock[p][s] \in Int
        BY <1>0 DEF Typed
      <4>4. Cardinality(Sharers(p, s)) = 1 /\ IsFiniteSet(Sharers(p, s))
        BY <4>1, <4>2, <4>3, <1>0, SharersFinite
      <4>5. PICK d : Sharers(p, s) = {d}
        BY <4>4, FS_Singleton
      <4>6. c \in Sharers(p, s)
        BY <3>2 DEF Sharers
      <4>7. QED
        BY <4>1, <4>5, <4>6, <1>3
    <3>3. QED
      BY <3>1, <3>2 DEF Unlock
  <2>4. LockingArrayOk'
    <3> SUFFICES ASSUME NEW q \in Process, NEW x \in Slot
        PROVE  \/ /\ aLock'[q][x] = -1 /\ Sharers(q, x)' = {}
                  /\ \E d \in Conn : Owners(q, x)' = {d}
               \/ aLock'[q][x] = Cardinality(Sharers(q, x)') /\ Owners(q, x)' = {}
      BY DEF LockingArrayOk
    <3>1. CASE q = p /\ x \in slots
      BY <3>1, <2>2, <2>3, FS_EmptySet
    <3>2. CASE q # p \/ x \notin slots
      <4>1. /\ aLock'[q][x] = aLock[q][x]
            /\ Sharers(q, x)' = Sharers(q, x) /\ Owners(q, x)' = Owners(q, x)
        BY <3>2, <2>2, <1>4
      <4>2. QED
        BY <4>1, <1>0 DEF LockingArrayOk
    <3>3. QED
      BY <3>1, <3>2
  <2>5. /\ klock' \in [Process -> [Slot -> LockType]]
        /\ KernelConsistent'
        /\ p \notin HeapShm =>
             \A x \in Slot : klock'[p][x] = IF x \in slots THEN F_UNLCK ELSE klock[p][x]
        /\ \A q \in Process \ {p} : klock'[q] = klock[q]
    <3>1. F_UNLCK \in LockType
      BY DEF LockType
    <3>2. QED
      BY <1>0, <1>5, <3>1, SystemLockOK
  <2>6. KernelMatches'
    <3> SUFFICES ASSUME NEW q \in Process \ HeapShm, NEW x \in Slot
        PROVE  klock'[q][x] = IF aLock'[q][x] < 0 THEN F_WRLCK
                              ELSE IF aLock'[q][x] > 0 THEN F_RDLCK ELSE F_UNLCK
      BY DEF KernelMatches
    <3>1. CASE q = p /\ x \in slots
      BY <3>1, <2>2, <2>5
    <3>2. CASE q # p \/ x \notin slots
      BY <3>2, <1>0, <2>2, <2>5 DEF KernelMatches
    <3>3. QED
      BY <3>1, <3>2
  <2>7. Typed'
    BY <1>0, <1>1, <1>2, <2>2, <2>5 DEF Typed
  <2>8. QED
    BY <2>4, <2>5, <2>6, <2>7 DEF IInv
<1>6. CASE /\ ~LastUser(c, slots)
           /\ \E s \in slots : AddCount(p, s, -1)
           /\ UNCHANGED klock
  (* Only a shared lock has another user, so the range is one slot.        *)
  <2>1. PICK s \in sharedMask[c] : slots = {s}
    <3>1. ASSUME slots \subseteq exclMask[c]
          PROVE  LastUser(c, slots)
      <4>1. \A s \in slots : aLock[p][s] = -1
        BY <3>1, <1>0, HolderMeans
      <4>2. QED
        BY <4>1 DEF LastUser
    <3>2. QED
      BY <3>1, <1>6 DEF Unlock
  <2>2. s \in Slot /\ aLock[p][s] \in Int
    BY <1>0, <2>1 DEF Typed
  <2>3. aLock[p][s] > 1
    <3>1. PICK x \in slots : ~(aLock[p][x] <= (IF x \in sharedMask[c] THEN 1 ELSE 0))
      BY <1>6 DEF LastUser
    <3>2. x = s
      BY <2>1, <3>1
    <3>3. QED
      BY <2>1, <2>2, <3>1, <3>2
  <2>4. aLock' = [aLock EXCEPT ![p][s] = @ + (-1)]
    BY <1>6, <2>1 DEF AddCount
  <2>5. /\ aLock' \in [Process -> [Slot -> Int]]
        /\ aLock'[p][s] = aLock[p][s] - 1
        /\ \A q \in Process, x \in Slot : q # p \/ x # s => aLock'[q][x] = aLock[q][x]
    BY <1>0, <2>2, <2>4 DEF Typed
  <2>6. aLock[p][s] = Cardinality(Sharers(p, s)) /\ Owners(p, s) = {}
    BY <1>0, <2>1, <2>2, HolderMeans
  <2>7. c \in Sharers(p, s)
    BY <2>1 DEF Sharers
  <2>8. aLock'[p][s] = Cardinality(Sharers(p, s)') /\ Owners(p, s)' = {}
    <3>1. Sharers(p, s)' = Sharers(p, s) \ {c} /\ Owners(p, s)' = {}
      BY <1>3, <2>1, <2>6
    <3>2. Cardinality(Sharers(p, s) \ {c}) = Cardinality(Sharers(p, s)) - 1
      BY <1>0, <2>2, <2>7, SharersFinite, FS_RemoveElement
    <3>3. QED
      BY <3>1, <3>2, <2>5, <2>6
  <2>9. LockingArrayOk'
    <3> SUFFICES ASSUME NEW q \in Process, NEW x \in Slot
        PROVE  \/ /\ aLock'[q][x] = -1 /\ Sharers(q, x)' = {}
                  /\ \E d \in Conn : Owners(q, x)' = {d}
               \/ aLock'[q][x] = Cardinality(Sharers(q, x)') /\ Owners(q, x)' = {}
      BY DEF LockingArrayOk
    <3>1. CASE q = p /\ x = s
      BY <3>1, <2>8
    <3>2. CASE q # p \/ x # s
      <4>1. /\ aLock'[q][x] = aLock[q][x]
            /\ Sharers(q, x)' = Sharers(q, x) /\ Owners(q, x)' = Owners(q, x)
        BY <3>2, <2>1, <2>5, <1>4
      <4>2. QED
        BY <4>1, <1>0 DEF LockingArrayOk
    <3>3. QED
      BY <3>1, <3>2
  <2>10. KernelMatches' /\ KernelConsistent'
    BY <1>0, <1>6, <2>2, <2>3, <2>5 DEF KernelMatches, KernelConsistent
  <2>11. Typed'
    BY <1>0, <1>1, <1>2, <1>6, <2>5 DEF Typed
  <2>12. QED
    BY <2>9, <2>10, <2>11 DEF IInv
<1>7. QED
  BY <1>5, <1>6 DEF Unlock

LEMMA SameMasksOK ==
  ASSUME LockingArrayOk, UNCHANGED <<aLock, sharedMask, exclMask>>
  PROVE  LockingArrayOk'
<1>1. \A p, s : Sharers(p, s)' = Sharers(p, s) /\ Owners(p, s)' = Owners(p, s)
  BY DEF Sharers, Owners
<1>2. QED
  BY <1>1 DEF LockingArrayOk

LEMMA ConnectOK ==
  ASSUME IInv, NEW c \in Conn, Connect(c)
  PROVE  IInv'
<1>1. Typed'
  BY DEF IInv, Typed, Connect
<1>2. LockingArrayOk'
  BY SameMasksOK DEF IInv, Connect
<1>3. KernelMatches' /\ KernelConsistent'
  BY DEF IInv, Connect, KernelMatches, KernelConsistent
<1>4. QED
  BY <1>1, <1>2, <1>3 DEF IInv

(* Emptying the node of a process none of whose connections holds a lock.  *)
LEMMA EmptyNodeOK ==
  ASSUME IInv, NEW p \in Process,
         klock' = DropLocks(klock, p),
         aLock' = [aLock EXCEPT ![p] = [s \in Slot |-> 0]],
         linked' \subseteq Conn,
         sharedMask' \in [Conn -> SUBSET Slot], exclMask' \in [Conn -> SUBSET Slot],
         \A c \in Conn \ linked' : sharedMask'[c] = {} /\ exclMask'[c] = {},
         \A c \in Conn : ProcOf[c] = p => sharedMask'[c] = {} /\ exclMask'[c] = {},
         \A c \in Conn : ProcOf[c] # p =>
            sharedMask'[c] = sharedMask[c] /\ exclMask'[c] = exclMask[c]
  PROVE  IInv'
<1>0. Typed /\ LockingArrayOk /\ KernelMatches /\ KernelConsistent
  BY DEF IInv
<1>1. /\ aLock' \in [Process -> [Slot -> Int]]
      /\ \A s \in Slot : aLock'[p][s] = 0
      /\ \A q \in Process \ {p} : aLock'[q] = aLock[q]
  BY <1>0 DEF Typed
<1>2. \A s \in Slot : Sharers(p, s)' = {} /\ Owners(p, s)' = {}
  BY DEF Sharers, Owners
<1>3. \A q \in Process \ {p}, s \in Slot :
        Sharers(q, s)' = Sharers(q, s) /\ Owners(q, s)' = Owners(q, s)
  BY DEF Sharers, Owners
<1>4. LockingArrayOk'
  <2> SUFFICES ASSUME NEW q \in Process, NEW x \in Slot
      PROVE  \/ /\ aLock'[q][x] = -1 /\ Sharers(q, x)' = {}
                /\ \E d \in Conn : Owners(q, x)' = {d}
             \/ aLock'[q][x] = Cardinality(Sharers(q, x)') /\ Owners(q, x)' = {}
    BY DEF LockingArrayOk
  <2>1. CASE q = p
    BY <2>1, <1>1, <1>2, FS_EmptySet
  <2>2. CASE q # p
    <3>1. /\ aLock'[q][x] = aLock[q][x]
          /\ Sharers(q, x)' = Sharers(q, x) /\ Owners(q, x)' = Owners(q, x)
      BY <2>2, <1>1, <1>3
    <3>2. QED
      BY <3>1, <1>0 DEF LockingArrayOk
  <2>3. QED
    BY <2>1, <2>2
<1>5. /\ klock' \in [Process -> [Slot -> LockType]]
      /\ KernelConsistent'
      /\ \A s \in Slot : klock'[p][s] = F_UNLCK
      /\ \A q \in Process \ {p} : klock'[q] = klock[q]
  BY <1>0, DropLocksOK
<1>6. KernelMatches'
  BY <1>0, <1>1, <1>5 DEF KernelMatches
<1>7. Typed'
  BY <1>1, <1>5 DEF Typed
<1>8. QED
  BY <1>4, <1>5, <1>6, <1>7 DEF IInv

LEMMA DisconnectOK ==
  ASSUME IInv, NEW c \in Conn, Disconnect(c)
  PROVE  IInv'
<1> DEFINE p == ProcOf[c]
           last == \A d \in linked \ {c} : ProcOf[d] # p
<1>0. p \in Process /\ Typed
  BY UnixShmLockAssumption DEF IInv
<1>1. /\ linked' = linked \ {c} /\ UNCHANGED <<sharedMask, exclMask>>
      /\ sharedMask[c] = {} /\ exclMask[c] = {}
  BY DEF Disconnect
<1>2. CASE last
  <2>1. klock' = DropLocks(klock, p) /\ aLock' = [aLock EXCEPT ![p] = [s \in Slot |-> 0]]
    BY <1>2 DEF Disconnect
  <2>2. \A d \in Conn : ProcOf[d] = p => sharedMask'[d] = {} /\ exclMask'[d] = {}
    BY <1>0, <1>1, <1>2 DEF Typed
  <2>3. \A d \in Conn \ linked' : sharedMask'[d] = {} /\ exclMask'[d] = {}
    BY <1>0, <1>1 DEF Typed
  <2>4. linked' \subseteq Conn /\ sharedMask' \in [Conn -> SUBSET Slot] /\ exclMask' \in [Conn -> SUBSET Slot]
    BY <1>0, <1>1 DEF Typed
  <2>5. \A d \in Conn : sharedMask'[d] = sharedMask[d] /\ exclMask'[d] = exclMask[d]
    BY <1>1
  <2>6. QED
    BY <1>0, <2>1, <2>2, <2>3, <2>4, <2>5, EmptyNodeOK
<1>3. CASE ~last
  <2>1. UNCHANGED <<klock, aLock>>
    BY <1>3 DEF Disconnect
  <2>2. Typed'
    BY <1>0, <1>1, <2>1 DEF Typed
  <2>3. LockingArrayOk'
    BY <1>1, <2>1, SameMasksOK DEF IInv
  <2>4. KernelMatches' /\ KernelConsistent'
    BY <2>1 DEF IInv, KernelMatches, KernelConsistent
  <2>5. QED
    BY <2>2, <2>3, <2>4 DEF IInv
<1>4. QED
  BY <1>2, <1>3

LEMMA DiesOK ==
  ASSUME IInv, NEW p \in Process, ProcessDies(p)
  PROVE  IInv'
<1>0. Typed
  BY DEF IInv
<1>1. /\ klock' = DropLocks(klock, p)
      /\ aLock' = [aLock EXCEPT ![p] = [s \in Slot |-> 0]]
      /\ linked' = {c \in linked : ProcOf[c] # p}
      /\ sharedMask' = [c \in Conn |-> IF ProcOf[c] = p THEN {} ELSE sharedMask[c]]
      /\ exclMask' = [c \in Conn |-> IF ProcOf[c] = p THEN {} ELSE exclMask[c]]
  BY DEF ProcessDies
<1>2. linked' \subseteq Conn /\ sharedMask' \in [Conn -> SUBSET Slot] /\ exclMask' \in [Conn -> SUBSET Slot]
  BY <1>0, <1>1 DEF Typed
<1>3. \A c \in Conn : ProcOf[c] = p => sharedMask'[c] = {} /\ exclMask'[c] = {}
  BY <1>1
<1>4. \A c \in Conn : ProcOf[c] # p => sharedMask'[c] = sharedMask[c] /\ exclMask'[c] = exclMask[c]
  BY <1>1
<1>5. \A c \in Conn \ linked' : sharedMask'[c] = {} /\ exclMask'[c] = {}
  BY <1>0, <1>1 DEF Typed
<1>6. QED
  BY <1>1, <1>2, <1>3, <1>4, <1>5, EmptyNodeOK

LEMMA NextOK ==
  ASSUME IInv, [SlotNext]_slotVars
  PROVE  IInv'
<1>1. ASSUME NEW c \in Conn, NEW s \in Slot, LockShared(c, s) PROVE IInv'
  BY <1>1, LockSharedOK
<1>2. ASSUME NEW c \in Conn, NEW slots \in SlotRanges, LockExclusive(c, slots) PROVE IInv'
  BY <1>2, LockExclusiveOK DEF SlotRanges
<1>3. ASSUME NEW c \in Conn, NEW slots \in SlotRanges, Unlock(c, slots) PROVE IInv'
  BY <1>3, UnlockOK DEF SlotRanges
<1>4. ASSUME NEW c \in Conn, Connect(c) \/ Disconnect(c) PROVE IInv'
  BY <1>4, ConnectOK, DisconnectOK
<1>5. ASSUME NEW p \in Process, ProcessDies(p) PROVE IInv'
  BY <1>5, DiesOK
<1>6. CASE UNCHANGED slotVars
  <2>1. Typed' /\ KernelMatches' /\ KernelConsistent'
    BY <1>6 DEF slotVars, IInv, Typed, KernelMatches, KernelConsistent
  <2>2. QED
    BY <1>6, <2>1, SameMasksOK DEF slotVars, IInv
<1>7. QED
  BY <1>1, <1>2, <1>3, <1>4, <1>5, <1>6 DEF SlotNext

-----------------------------------------------------------------------------
(* In every reachable state, for every number of processes, connections    *)
(* and slots, the counts of a node are those of its connections' masks     *)
(* (assertLockingArrayOk) and the kernel holds exactly what they say.      *)
THEOREM InvariantHolds == SlotSpec => []IInv
<1>1. SlotInit => IInv
  BY InitOK
<1>2. IInv /\ [SlotNext]_slotVars => IInv'
  BY NextOK
<1>3. QED
  BY <1>1, <1>2, PTL DEF SlotSpec

THEOREM ArrayAlwaysOk == SlotSpec => []LockingArrayOk
<1>1. IInv => LockingArrayOk
  BY DEF IInv
<1>2. QED
  BY <1>1, InvariantHolds, PTL

(* unixShmSystemLock keeps the kernel in step with aLock: a slot lock is   *)
(* neither dropped under a sibling nor kept after the last user.           *)
THEOREM KernelAlwaysMatches == SlotSpec => []KernelMatches
<1>1. IInv => KernelMatches
  BY DEF IInv
<1>2. QED
  BY <1>1, InvariantHolds, PTL

(* Every reachable state is well typed; a count never leaves               *)
(* -1 .. number of connections.                                            *)
THEOREM TypeCorrect == SlotSpec => []TypeOK
<1>1. ASSUME IInv PROVE TypeOK
  <2>1. ASSUME NEW p \in Process, NEW s \in Slot
        PROVE  aLock[p][s] \in -1 .. Cardinality(Conn)
    <3>1. Sharers(p, s) \subseteq Conn
      BY DEF Sharers
    <3>2. /\ Cardinality(Sharers(p, s)) \in Nat
          /\ Cardinality(Sharers(p, s)) <= Cardinality(Conn) /\ Cardinality(Conn) \in Nat
      BY <3>1, FS_Subset, FS_CardinalityType, SharersFinite, UnixShmLockAssumption
    <3>3. aLock[p][s] = -1 \/ aLock[p][s] = Cardinality(Sharers(p, s))
      BY <1>1 DEF IInv, LockingArrayOk
    <3>4. QED
      BY <3>2, <3>3
  <2>2. aLock \in [Process -> [Slot -> -1 .. Cardinality(Conn)]]
    BY <1>1, <2>1 DEF IInv, Typed
  <2>3. QED
    BY <1>1, <2>2 DEF IInv, Typed, TypeOK
<1>2. QED
  BY <1>1, InvariantHolds, PTL

(* An exclusive slot lock excludes every other connection to the same      *)
(* memory, in its own process and in all others.                           *)
LEMMA InvExcludes ==
  ASSUME IInv, NEW c \in Conn, NEW d \in Conn, c # d, SameMemory(c, d), NEW s \in exclMask[c]
  PROVE  s \notin exclMask[d] \cup sharedMask[d]
<1> DEFINE p == ProcOf[c]
           q == ProcOf[d]
<1>0. p \in Process /\ q \in Process /\ s \in Slot
  BY UnixShmLockAssumption DEF IInv, Typed
<1>1. aLock[p][s] = -1 /\ Sharers(p, s) = {} /\ Owners(p, s) = {c}
  BY <1>0, HolderMeans DEF IInv
<1>2. CASE p = q
  BY <1>1, <1>2 DEF Sharers, Owners
<1>3. CASE p # q
  <2>1. p \notin HeapShm /\ q \notin HeapShm
    BY <1>3 DEF SameMemory
  <2>2. klock[p][s] = F_WRLCK
    BY <1>0, <1>1, <2>1 DEF IInv, KernelMatches
  <2>3. klock[q][s] = F_UNLCK
    <3>1. Compatible(klock[q][s], klock[p][s])
      BY <1>0, <1>3 DEF IInv, KernelConsistent
    <3>2. QED
      BY <2>2, <3>1 DEF Compatible, F_UNLCK, F_RDLCK, F_WRLCK
  <2>4. aLock[q][s] = 0
    <3>1. aLock[q][s] \in Int
      BY <1>0 DEF IInv, Typed
    <3>2. QED
      BY <1>0, <2>1, <2>3, <3>1 DEF IInv, KernelMatches, F_UNLCK, F_RDLCK, F_WRLCK
  <2>5. Sharers(q, s) = {} /\ Owners(q, s) = {}
    BY <1>0, <2>4, CountMeans DEF IInv
  <2>6. QED
    BY <2>5 DEF Sharers, Owners
<1>4. QED
  BY <1>2, <1>3

THEOREM ExclusionHolds == SlotSpec => []SlotExclusion
<1>1. IInv => SlotExclusion
  BY InvExcludes DEF SlotExclusion
<1>2. QED
  BY <1>1, InvariantHolds, PTL

-----------------------------------------------------------------------------
(* The refinement of ShmSlots.                                             *)

LEMMA InitRefines == SlotInit => Slots!Init
  BY DEF SlotInit, Slots!Init, SharersOf, OwnersOf

LEMMA LockSharedRefines ==
  ASSUME HeapShm = {}, IInv, SlotExclusion', NEW c \in Conn, NEW s \in Slot, LockShared(c, s)
  PROVE  Slots!Share(c, s)
<1>1. sharedMask' = [sharedMask EXCEPT ![c] = @ \cup {s}] /\ UNCHANGED exclMask
  BY DEF LockShared
<1>2. s \in sharedMask'[c] /\ s \notin exclMask[c]
  BY <1>1 DEF LockShared, IInv, Typed
<1>3. ASSUME NEW d \in Conn, s \in exclMask[d] PROVE FALSE
  <2>1. d # c /\ s \in exclMask'[d]
    BY <1>1, <1>2, <1>3
  <2>2. QED
    BY <1>2, <2>1 DEF SlotExclusion, SameMemory
<1>4. OwnersOf[s] = {} /\ OwnersOf' = OwnersOf
  BY <1>1, <1>3 DEF OwnersOf
<1>5. SharersOf' = [SharersOf EXCEPT ![s] = @ \cup {c}]
  <2>1. \A x \in Slot : SharersOf'[x] = IF x = s THEN SharersOf[x] \cup {c} ELSE SharersOf[x]
    BY <1>1 DEF SharersOf, IInv, Typed
  <2>2. QED
    BY <2>1 DEF SharersOf
<1>6. QED
  BY <1>4, <1>5 DEF Slots!Share

LEMMA LockExclusiveRefines ==
  ASSUME HeapShm = {}, IInv, SlotExclusion', NEW c \in Conn, NEW slots \in SUBSET Slot,
         LockExclusive(c, slots)
  PROVE  Slots!Own(c, slots)
<1>1. exclMask' = [exclMask EXCEPT ![c] = @ \cup slots] /\ UNCHANGED sharedMask
  BY DEF LockExclusive
<1>2. \A s \in slots : s \in exclMask'[c] /\ s \notin exclMask[c] /\ s \notin sharedMask[c]
  BY <1>1 DEF LockExclusive, IInv, Typed
<1>3. ASSUME NEW s \in slots, NEW d \in Conn PROVE s \notin exclMask[d] \cup sharedMask[d]
  <2>2. CASE d # c
    <3>1. s \notin exclMask'[d] \cup sharedMask'[d]
      BY <1>2, <2>2 DEF SlotExclusion, SameMemory
    <3>2. QED
      BY <3>1, <1>1, <2>2 DEF IInv, Typed
  <2>3. CASE d = c
    BY <1>2, <2>3
  <2>4. QED
    BY <2>2, <2>3
<1>4. \A s \in slots : SharersOf[s] = {} /\ OwnersOf[s] = {}
  BY <1>3 DEF SharersOf, OwnersOf
<1>5. SharersOf' = SharersOf
  BY <1>1 DEF SharersOf
<1>6. OwnersOf' = [s \in Slot |-> IF s \in slots THEN {c} ELSE OwnersOf[s]]
  <2>1. \A s \in Slot : OwnersOf'[s] = IF s \in slots THEN {c} ELSE OwnersOf[s]
    BY <1>1, <1>3 DEF OwnersOf, IInv, Typed
  <2>2. QED
    BY <2>1 DEF OwnersOf
<1>7. QED
  BY <1>4, <1>5, <1>6 DEF Slots!Own

LEMMA UnlockRefines ==
  ASSUME IInv, NEW c \in Conn, NEW slots \in SUBSET Slot, Unlock(c, slots)
  PROVE  Slots!Lose
<1>1. /\ exclMask' = [exclMask EXCEPT ![c] = @ \ slots]
      /\ sharedMask' = [sharedMask EXCEPT ![c] = @ \ slots]
  BY DEF Unlock
<1>2. \A s \in Slot : SharersOf'[s] = IF s \in slots THEN SharersOf[s] \ {c} ELSE SharersOf[s]
  BY <1>1 DEF SharersOf, IInv, Typed
<1>3. \A s \in Slot : OwnersOf'[s] = IF s \in slots THEN OwnersOf[s] \ {c} ELSE OwnersOf[s]
  BY <1>1 DEF OwnersOf, IInv, Typed
<1>4. QED
  BY <1>2, <1>3 DEF Slots!Lose, SharersOf, OwnersOf

LEMMA DiesRefines ==
  ASSUME IInv, NEW p \in Process, ProcessDies(p)
  PROVE  Slots!Lose
<1>1. /\ sharedMask' = [c \in Conn |-> IF ProcOf[c] = p THEN {} ELSE sharedMask[c]]
      /\ exclMask' = [c \in Conn |-> IF ProcOf[c] = p THEN {} ELSE exclMask[c]]
  BY DEF ProcessDies
<1>2. \A s \in Slot : SharersOf'[s] = SharersOf[s] \ {c \in Conn : ProcOf[c] = p}
  BY <1>1 DEF SharersOf
<1>3. \A s \in Slot : OwnersOf'[s] = OwnersOf[s] \ {c \in Conn : ProcOf[c] = p}
  BY <1>1 DEF OwnersOf
<1>4. QED
  BY <1>2, <1>3 DEF Slots!Lose, SharersOf, OwnersOf

(* Every step grants, drops or loses slot locks as ShmSlots allows.        *)
LEMMA StepRefines ==
  ASSUME HeapShm = {}, IInv, SlotExclusion', [SlotNext]_slotVars
  PROVE  [Slots!Next]_Slots!vars
<1>1. ASSUME NEW c \in Conn, NEW s \in Slot, LockShared(c, s) PROVE Slots!Next
  BY <1>1, LockSharedRefines DEF Slots!Next
<1>2. ASSUME NEW c \in Conn, NEW slots \in SlotRanges, LockExclusive(c, slots) PROVE Slots!Next
  <2>1. slots \in SUBSET Slot
    BY DEF SlotRanges
  <2>2. QED
    BY <1>2, <2>1, LockExclusiveRefines DEF Slots!Next
<1>3. ASSUME NEW c \in Conn, NEW slots \in SlotRanges, Unlock(c, slots) PROVE Slots!Next
  <2>1. slots \in SUBSET Slot
    BY DEF SlotRanges
  <2>2. QED
    BY <1>3, <2>1, UnlockRefines DEF Slots!Next
<1>4. ASSUME NEW c \in Conn, Connect(c) \/ Disconnect(c) PROVE UNCHANGED Slots!vars
  BY <1>4 DEF Connect, Disconnect, Slots!vars, SharersOf, OwnersOf
<1>5. ASSUME NEW p \in Process, ProcessDies(p) PROVE Slots!Next
  BY <1>5, DiesRefines DEF Slots!Next
<1>6. CASE UNCHANGED slotVars
  BY <1>6 DEF slotVars, Slots!vars, SharersOf, OwnersOf
<1>7. QED
  BY <1>1, <1>2, <1>3, <1>4, <1>5, <1>6 DEF SlotNext

(* When every process shares the memory through the file, unixShmLock      *)
(* implements the abstract slot locks.                                     *)
THEOREM Refinement ==
  ASSUME HeapShm = {}
  PROVE  SlotSpec => ImplementsShmSlots
<1>1. SlotInit => Slots!Init
  BY InitRefines
<1>2. IInv /\ SlotExclusion' /\ [SlotNext]_slotVars => [Slots!Next]_Slots!vars
  BY StepRefines
<1>3. QED
  BY <1>1, <1>2, InvariantHolds, ExclusionHolds, PTL DEF SlotSpec, ImplementsShmSlots, Slots!Spec
=============================================================================
