--------------------------- MODULE WinLockProofs ---------------------------
(***************************************************************************)
(* Proofs about WinLock for every set of processes and handles, on NT and  *)
(* on Windows CE.                                                          *)
(***************************************************************************)
EXTENDS WinLock, FiniteSetTheorems, TLAPS

-----------------------------------------------------------------------------
(***************************************************************************)
(* The lock table: locks of different handles are compatible, and the      *)
(* winceLock counts at least the locks that are held.                      *)
(***************************************************************************)
TableTyped ==
  /\ build \in {"NT", "CE"}
  /\ local \in [Handle -> [Byte -> Strength]]
  /\ shared \in [Field -> Nat]
  /\ \A f \in Field \ {"nReaders"} : shared[f] \in 0 .. 1

Compatible ==
  \A g, h \in Handle : g # h => \A b \in Byte :
    \/ local[g][b] = UNLOCKED \/ local[h][b] = UNLOCKED
    \/ local[g][b] = SHARED /\ local[h][b] = SHARED

Readers == {h \in Handle : local[h]["shared"] = SHARED}

Counted ==
  build = "CE" =>
    /\ \A h \in Handle :
         /\ local[h]["pending"] # SHARED /\ local[h]["reserved"] # SHARED
         /\ \A b \in Byte : local[h][b] = EXCLUSIVE => shared[FieldOf(b, EXCLUSIVE)] = 1
    /\ Cardinality(Readers) <= shared["nReaders"]
    /\ shared["nReaders"] <= Cardinality(Readers) + MaxLost

TableInv == TableTyped /\ Compatible /\ Counted

(* On CE a flag that a dead process has left keeps everybody from the      *)
(* whole range only together with the pending byte.                        *)
StaleRange ==
  build = "CE" /\ shared["bExclusive"] = 1 =>
    \/ \E h \in Handle : local[h]["shared"] = EXCLUSIVE
    \/ shared["bPending"] = 1 /\ \A h \in Handle : local[h]["pending"] = UNLOCKED

LEMMA ReadersFinite == IsFiniteSet(Readers) /\ Cardinality(Readers) \in Nat
BY WinLockAssumption, FS_Subset, FS_CardinalityType DEF Readers

LEMMA FieldOfType ==
  ASSUME NEW b \in Byte, NEW s
  PROVE  /\ FieldOf(b, s) \in Field
         /\ b # "shared" => FieldOf(b, s) = FieldOf(b, EXCLUSIVE)
         /\ s = EXCLUSIVE => FieldOf(b, s) # "nReaders"
         /\ FieldOf(b, s) = "nReaders" <=> b = "shared" /\ s # EXCLUSIVE
BY DEF FieldOf, Byte, Field

(* Different bytes are counted in different fields.                        *)
LEMMA FieldOfInjective ==
  ASSUME NEW b \in Byte, NEW c \in Byte, b # c, NEW s, NEW u
  PROVE  FieldOf(b, s) # FieldOf(c, u)
BY DEF FieldOf, Byte

(* A request for bytes of which the handle has none keeps the table.       *)
LEMMA LockFileLocal ==
  ASSUME TableTyped, NEW h \in Handle, NEW b \in Byte, NEW s \in {SHARED, EXCLUSIVE},
         ~LocksNothing(h), LockFile(h, b, s)
  PROVE  /\ local' = [local EXCEPT ![h][b] = Obtained(b, s)]
         /\ Obtained(b, s) \in {SHARED, EXCLUSIVE}
         /\ local'[h][b] = Obtained(b, s)
         /\ \A c \in Byte \ {b} : local'[h][c] = local[h][c]
         /\ \A g \in Handle \ {h} : local'[g] = local[g]
         /\ local' \in [Handle -> [Byte -> Strength]]
<1>1. local' = [local EXCEPT ![h][b] = Obtained(b, s)]
  BY DEF LockFile
<1>2. Obtained(b, s) \in {SHARED, EXCLUSIVE}
  BY DEF Obtained
<1>3. local \in [Handle -> [Byte -> Strength]] /\ Obtained(b, s) \in Strength
  BY <1>2 DEF TableTyped, Strength
<1>4. QED
  BY <1>1, <1>2, <1>3

LEMMA LockFileKeepsTable ==
  ASSUME TableInv, NEW h \in Handle, NEW b \in Byte, NEW s \in {SHARED, EXCLUSIVE},
         ~LocksNothing(h), LockFile(h, b, s), local[h][b] = UNLOCKED, build' = build
  PROVE  TableInv'
<1> USE DEF TableInv
<1>0. /\ local'[h][b] = Obtained(b, s)
      /\ Obtained(b, s) \in {SHARED, EXCLUSIVE}
      /\ \A c \in Byte \ {b} : local'[h][c] = local[h][c]
      /\ \A g \in Handle \ {h} : local'[g] = local[g]
      /\ local' \in [Handle -> [Byte -> Strength]]
  <2>1. TableTyped
    OBVIOUS
  <2>2. QED
    BY <2>1, LockFileLocal
<1>1. FieldOf(b, s) \in Field
  BY FieldOfType, Zenon
<1>a. CASE build = "NT"
  <2>1. shared' = shared
    BY <1>a DEF LockFile, LocksNothing, Count
  <2>2. TableTyped'
    BY <1>0, <2>1 DEF TableTyped
  <2>3. \A g \in Handle : local[g][b] = UNLOCKED \/ (s = SHARED /\ (g = h \/ local[g][b] = SHARED))
    BY <1>a DEF LockFile, Grantable, LocksNothing, LockFileExGrants
  <2>4. Obtained(b, s) = s
    BY <1>a DEF Obtained
  <2>5. Compatible'
    BY <1>0, <2>3, <2>4 DEF Compatible
  <2>6. QED
    BY <1>a, <2>2, <2>5 DEF Counted
<1>b. CASE build = "CE"
  <2>1. shared' = [shared EXCEPT ![FieldOf(b, s)] = @ + 1]
    BY <1>b DEF LockFile, Count
  <2>2. winceGrants(b, s)
    BY <1>b DEF LockFile, Grantable
  <2>3. FieldOf(b, s) # "nReaders" => shared[FieldOf(b, s)] = 0
    BY <2>2, FieldOfType DEF winceGrants
  <2>4. /\ shared'[FieldOf(b, s)] = shared[FieldOf(b, s)] + 1
        /\ \A f \in Field \ {FieldOf(b, s)} : shared'[f] = shared[f]
        /\ shared' \in [Field -> Nat]
    BY <1>1, <2>1 DEF TableTyped
  <2>5. TableTyped'
    BY <1>0, <1>1, <2>3, <2>4 DEF TableTyped
  <2>6. \A g \in Handle : local[g][b] # EXCLUSIVE
    BY <1>b, <2>2 DEF winceGrants, Counted
  <2>7. b # "shared" => /\ \A g \in Handle : local[g][b] = UNLOCKED
                        /\ Obtained(b, s) = EXCLUSIVE
    BY <1>b, <2>6 DEF Counted, Byte, TableTyped, Strength, Obtained
  <2>8. b = "shared" => Obtained(b, s) = s
    BY DEF Obtained
  <2>9. CASE b = "shared" /\ s = SHARED
    <3>1. FieldOf(b, s) = "nReaders"
      BY <2>9, FieldOfType DEF SHARED, EXCLUSIVE
    <3>2. Readers' = Readers \cup {h} /\ h \notin Readers
      BY <1>0, <2>8, <2>9 DEF Readers, SHARED, UNLOCKED
    <3>3. Cardinality(Readers') = Cardinality(Readers) + 1
      BY <3>2, ReadersFinite, FS_AddElement
    <3>4. /\ Cardinality(Readers)' <= shared'["nReaders"]
          /\ shared'["nReaders"] <= Cardinality(Readers)' + MaxLost
      BY <1>b, <2>4, <3>1, <3>3, ReadersFinite, WinLockAssumption DEF Counted, TableTyped, Field
    <3>5. \A f \in Field \ {"nReaders"} : shared'[f] = shared[f]
      BY <2>4, <3>1
    <3>6. Counted'
      BY <1>0, <1>b, <2>8, <2>9, <3>4, <3>5, FieldOfType DEF Counted, Byte, SHARED, EXCLUSIVE
    <3>7. Compatible'
      BY <1>0, <2>6, <2>8, <2>9 DEF Compatible, TableTyped, Strength
    <3>8. QED
      BY <2>5, <3>6, <3>7
  <2>10. CASE ~(b = "shared" /\ s = SHARED)
    <3>1. Obtained(b, s) = EXCLUSIVE /\ FieldOf(b, s) = FieldOf(b, EXCLUSIVE)
      BY <2>7, <2>8, <2>10, FieldOfType
    <3>2. FieldOf(b, s) # "nReaders"
      BY <3>1, FieldOfType
    <3>3. b = "shared" => shared["nReaders"] = 0
      BY <2>2, <2>10 DEF winceGrants
    <3>4. b = "shared" => Readers = {}
      BY <1>b, <3>3, ReadersFinite, FS_EmptySet DEF Counted
    <3>5. \A g \in Handle : local[g][b] = UNLOCKED
      BY <2>6, <2>7, <3>4 DEF Readers, TableTyped, Strength
    <3>6. Compatible'
      BY <1>0, <3>5 DEF Compatible
    <3>7. Readers' = Readers
      BY <1>0, <3>1, <3>5 DEF Readers, UNLOCKED, EXCLUSIVE, SHARED, Byte
    <3>8. shared'[FieldOf(b, EXCLUSIVE)] = 1 /\ shared'["nReaders"] = shared["nReaders"]
      BY <2>3, <2>4, <3>1, <3>2 DEF Field
    <3>9. \A c \in Byte \ {b} : shared'[FieldOf(c, EXCLUSIVE)] = shared[FieldOf(c, EXCLUSIVE)]
      BY <2>4, FieldOfInjective, FieldOfType
    <3>10. ASSUME NEW g \in Handle
           PROVE  /\ local'[g]["pending"] # SHARED /\ local'[g]["reserved"] # SHARED
                  /\ \A c \in Byte : local'[g][c] = EXCLUSIVE => shared'[FieldOf(c, EXCLUSIVE)] = 1
      BY <1>0, <1>b, <3>1, <3>8, <3>9 DEF Counted, Byte, SHARED, EXCLUSIVE
    <3>11. Counted'
      <4>1. /\ Cardinality(Readers)' <= shared'["nReaders"]
            /\ shared'["nReaders"] <= Cardinality(Readers)' + MaxLost
        BY <1>b, <3>7, <3>8 DEF Counted
      <4>2. QED
        BY <3>10, <4>1 DEF Counted
    <3>12. QED
      BY <2>5, <3>6, <3>11
  <2>11. QED
    BY <2>9, <2>10
<1>2. QED
  BY <1>a, <1>b DEF TableTyped

LEMMA LockFileKeepsStaleRange ==
  ASSUME TableInv, StaleRange, NEW h \in Handle, NEW b \in Byte, NEW s \in {SHARED, EXCLUSIVE},
         ~LocksNothing(h), LockFile(h, b, s), local[h][b] = UNLOCKED, build' = build
  PROVE  StaleRange'
<1>0. TableTyped
  BY DEF TableInv
<1>1. /\ local'[h][b] = Obtained(b, s)
      /\ \A c \in Byte \ {b} : local'[h][c] = local[h][c]
      /\ \A g \in Handle \ {h} : local'[g] = local[g]
  BY <1>0, LockFileLocal
<1> SUFFICES ASSUME build = "CE", shared'["bExclusive"] = 1
             PROVE  StaleRange'
  BY DEF StaleRange
<1>2. shared' = [shared EXCEPT ![FieldOf(b, s)] = @ + 1] /\ winceGrants(b, s)
  BY DEF LockFile, Count, Grantable
<1>3. CASE b = "shared" /\ s = EXCLUSIVE
  BY <1>1, <1>3 DEF StaleRange, Obtained
<1>4. CASE ~(b = "shared" /\ s = EXCLUSIVE)
  <2>0. FieldOf(b, s) \in Field \ {"bExclusive"}
    BY <1>4 DEF FieldOf, Byte, Field
  <2>1. shared["bExclusive"] = 1
    BY <1>0, <1>2, <2>0 DEF TableTyped, Field
  <2>2. b # "shared"
    BY <1>2, <2>1 DEF winceGrants, FieldOf
  <2>3. \A g \in Handle : local'[g]["shared"] = local[g]["shared"]
    BY <1>1, <2>2 DEF Byte
  <2>4. CASE b = "pending"
    BY <1>2, <2>1, <2>3, <2>4 DEF StaleRange, winceGrants, FieldOf
  <2>5. CASE b = "reserved"
    <3>1. \A g \in Handle : local'[g]["pending"] = local[g]["pending"]
      BY <1>1, <2>5 DEF Byte
    <3>2. shared'["bPending"] = shared["bPending"]
      BY <1>0, <1>2, <2>5 DEF FieldOf, TableTyped, Field
    <3>3. QED
      BY <2>1, <2>3, <3>1, <3>2 DEF StaleRange
  <2>6. QED
    BY <2>2, <2>4, <2>5 DEF Byte
<1>5. QED
  BY <1>3, <1>4

-----------------------------------------------------------------------------
LEMMA UnlockFileLocal ==
  ASSUME TableTyped, NEW h \in Handle, NEW b \in Byte, UnlockFile(h, b)
  PROVE  /\ local'[h][b] = UNLOCKED
         /\ \A c \in Byte \ {b} : local'[h][c] = local[h][c]
         /\ \A g \in Handle \ {h} : local'[g] = local[g]
         /\ local' \in [Handle -> [Byte -> Strength]]
<1>1. local' = [local EXCEPT ![h][b] = UNLOCKED]
  BY DEF UnlockFile
<1>2. local \in [Handle -> [Byte -> Strength]] /\ UNLOCKED \in Strength
  BY DEF TableTyped, Strength
<1>3. QED
  BY <1>1, <1>2

LEMMA UnlockFileKeepsTable ==
  ASSUME TableInv, NEW h \in Handle, NEW b \in Byte, UnlockFile(h, b), build' = build
  PROVE  TableInv'
<1> USE DEF TableInv
<1>t. TableTyped
  OBVIOUS
<1>0. /\ local'[h][b] = UNLOCKED
      /\ \A c \in Byte \ {b} : local'[h][c] = local[h][c]
      /\ \A g \in Handle \ {h} : local'[g] = local[g]
      /\ local' \in [Handle -> [Byte -> Strength]]
  BY <1>t, UnlockFileLocal
<1>1. Compatible'
  BY <1>0 DEF Compatible
<1>a. CASE local[h][b] = UNLOCKED
  <2>1. shared' = shared
    BY <1>a DEF UnlockFile
  <2>2. local' = local
    BY <1>a DEF UnlockFile, TableTyped
  <2>3. QED
    BY <1>0, <1>1, <2>1, <2>2 DEF TableTyped, Counted, Readers
<1>b. CASE local[h][b] # UNLOCKED /\ build = "NT"
  BY <1>0, <1>1, <1>b DEF UnlockFile, Count, TableTyped, Counted
<1>c. CASE local[h][b] # UNLOCKED /\ build = "CE"
  <2> DEFINE f == FieldOf(b, local[h][b])
  <2>1. shared' = [shared EXCEPT ![f] = @ + (-1)] /\ f \in Field
    BY <1>c, FieldOfType DEF UnlockFile, Count
  <2>2. local[h][b] \in {SHARED, EXCLUSIVE}
    BY <1>c DEF TableTyped, Strength
  <2>3. CASE local[h][b] = EXCLUSIVE
    <3>1. f = FieldOf(b, EXCLUSIVE) /\ shared[f] = 1 /\ f # "nReaders"
      BY <1>c, <2>3, FieldOfType DEF Counted
    <3>2. shared'[f] = 0 /\ \A x \in Field \ {f} : shared'[x] = shared[x]
      BY <2>1, <3>1 DEF TableTyped
    <3>3. shared' \in [Field -> Nat]
      BY <2>1, <3>1 DEF TableTyped
    <3>4. TableTyped'
      BY <1>0, <2>1, <3>1, <3>2, <3>3 DEF TableTyped
    <3>5. Readers' = Readers
      BY <1>0, <2>3 DEF Readers, Byte, UNLOCKED, SHARED, EXCLUSIVE
    <3>6. \A g \in Handle \ {h} : local[g][b] # EXCLUSIVE
      BY <2>3 DEF Compatible, UNLOCKED, SHARED, EXCLUSIVE
    <3>7. \A c \in Byte \ {b} : shared'[FieldOf(c, EXCLUSIVE)] = shared[FieldOf(c, EXCLUSIVE)]
      BY <3>1, <3>2, FieldOfInjective, FieldOfType
    <3>8. ASSUME NEW g \in Handle
          PROVE  /\ local'[g]["pending"] # SHARED /\ local'[g]["reserved"] # SHARED
                 /\ \A c \in Byte : local'[g][c] = EXCLUSIVE => shared'[FieldOf(c, EXCLUSIVE)] = 1
      BY <1>0, <1>c, <3>6, <3>7 DEF Counted, Byte, SHARED, EXCLUSIVE, UNLOCKED
    <3>9. shared'["nReaders"] = shared["nReaders"]
      BY <3>1, <3>2 DEF Field
    <3>10. Counted'
      <4>1. /\ Cardinality(Readers)' <= shared'["nReaders"]
            /\ shared'["nReaders"] <= Cardinality(Readers)' + MaxLost
        BY <1>c, <3>5, <3>9 DEF Counted
      <4>2. QED
        BY <3>8, <4>1 DEF Counted
    <3>11. QED
      BY <1>1, <3>4, <3>10
  <2>4. CASE local[h][b] = SHARED
    <3>1. b = "shared" /\ f = "nReaders"
      BY <1>c, <2>4, FieldOfType DEF Counted, Byte, SHARED, EXCLUSIVE
    <3>2. h \in Readers /\ Readers' = Readers \ {h}
      BY <1>0, <2>4, <3>1 DEF Readers, UNLOCKED, SHARED
    <3>3. Cardinality(Readers') = Cardinality(Readers) - 1
      BY <3>2, ReadersFinite, FS_RemoveElement
    <3>4. Cardinality(Readers') \in Nat
      BY <3>2, ReadersFinite, FS_RemoveElement, FS_CardinalityType
    <3>5. shared'["nReaders"] = shared["nReaders"] - 1
      BY <2>1, <3>1 DEF TableTyped
    <3>6. /\ Cardinality(Readers') <= shared'["nReaders"]
          /\ shared'["nReaders"] <= Cardinality(Readers') + MaxLost
      BY <1>c, <3>3, <3>5, ReadersFinite, WinLockAssumption DEF Counted, TableTyped, Field
    <3>7. \A x \in Field \ {"nReaders"} : shared'[x] = shared[x]
      BY <2>1, <3>1 DEF TableTyped
    <3>8. shared' \in [Field -> Nat]
      <4>1. shared["nReaders"] - 1 \in Nat
        BY <1>c, <3>3, <3>4, ReadersFinite DEF Counted, TableTyped, Field
      <4>2. QED
        BY <2>1, <3>1, <4>1 DEF TableTyped
    <3>9. TableTyped'
      BY <1>0, <3>7, <3>8 DEF TableTyped
    <3>10. ASSUME NEW g \in Handle
           PROVE  /\ local'[g]["pending"] # SHARED /\ local'[g]["reserved"] # SHARED
                  /\ \A c \in Byte : local'[g][c] = EXCLUSIVE => shared'[FieldOf(c, EXCLUSIVE)] = 1
      <4>1. \A c \in Byte : local'[g][c] = EXCLUSIVE => local[g][c] = EXCLUSIVE
        BY <1>0, <3>1 DEF Byte, UNLOCKED, EXCLUSIVE
      <4>2. local'[g]["pending"] = local[g]["pending"] /\ local'[g]["reserved"] = local[g]["reserved"]
        BY <1>0, <3>1 DEF Byte
      <4>3. \A c \in Byte : shared'[FieldOf(c, EXCLUSIVE)] = shared[FieldOf(c, EXCLUSIVE)]
        BY <3>7, FieldOfType
      <4>4. QED
        BY <1>c, <4>1, <4>2, <4>3 DEF Counted
    <3>11. Counted'
      BY <3>6, <3>10 DEF Counted
    <3>12. QED
      BY <1>1, <3>9, <3>11
  <2>5. QED
    BY <2>2, <2>3, <2>4
<1>2. QED
  BY <1>t, <1>a, <1>b, <1>c DEF TableTyped

LEMMA UnlockFileKeepsStaleRange ==
  ASSUME TableInv, StaleRange, NEW h \in Handle, NEW b \in Byte, UnlockFile(h, b), build' = build
  PROVE  StaleRange'
<1>t. TableTyped
  BY DEF TableInv
<1>0. /\ local'[h][b] = UNLOCKED
      /\ \A c \in Byte \ {b} : local'[h][c] = local[h][c]
      /\ \A g \in Handle \ {h} : local'[g] = local[g]
  BY <1>t, UnlockFileLocal
<1> SUFFICES ASSUME build = "CE", shared'["bExclusive"] = 1
             PROVE  StaleRange'
  BY DEF StaleRange
<1>a. CASE local[h][b] = UNLOCKED
  <2>1. shared' = shared
    BY <1>a DEF UnlockFile
  <2>2. local' = local
    BY <1>a, <1>t DEF UnlockFile, TableTyped
  <2>3. QED
    BY <2>1, <2>2 DEF StaleRange
<1>b. CASE local[h][b] # UNLOCKED
  <2>1. shared' = [shared EXCEPT ![FieldOf(b, local[h][b])] = @ + (-1)]
    BY <1>b DEF UnlockFile, Count
  <2>2. ~(b = "shared" /\ local[h][b] = EXCLUSIVE)
    BY <1>t, <2>1 DEF FieldOf, TableTyped, Field
  <2>8. FieldOf(b, local[h][b]) \in Field \ {"bExclusive"}
    BY <2>2 DEF FieldOf, Byte, Field
  <2>3. shared["bExclusive"] = 1
    BY <1>t, <2>1, <2>8 DEF TableTyped, Field
  <2>4. \A g \in Handle : local[g]["shared"] = EXCLUSIVE => local'[g]["shared"] = EXCLUSIVE
    BY <1>0, <2>2 DEF Byte
  <2>5. CASE b = "pending"
    BY <1>b, <2>3, <2>4, <2>5 DEF StaleRange
  <2>6. CASE b # "pending"
    <3>1. \A g \in Handle : local'[g]["pending"] = local[g]["pending"]
      BY <1>0, <2>6 DEF Byte
    <3>2. shared'["bPending"] = shared["bPending"]
      BY <1>t, <2>1, <2>6 DEF FieldOf, TableTyped, Field
    <3>3. QED
      BY <2>3, <2>4, <3>1, <3>2 DEF StaleRange
  <2>7. QED
    BY <2>5, <2>6
<1>1. QED
  BY <1>a, <1>b

-----------------------------------------------------------------------------
(***************************************************************************)
(* Opening, closing and dying.                                             *)
(***************************************************************************)
LEMMA FieldsHeldIs ==
  ASSUME TableInv, build = "CE", NEW h \in Handle
  PROVE  /\ "nReaders" \in FieldsHeld(h) <=> local[h]["shared"] = SHARED
         /\ "bExclusive" \in FieldsHeld(h) <=> local[h]["shared"] = EXCLUSIVE
         /\ "bPending" \in FieldsHeld(h) <=> local[h]["pending"] # UNLOCKED
         /\ "bReserved" \in FieldsHeld(h) <=> local[h]["reserved"] # UNLOCKED
<1>1. local[h]["shared"] \in Strength
  BY DEF TableInv, TableTyped, Byte
<1>2. \A f : f \in FieldsHeld(h) <=> \E b \in Byte : local[h][b] # UNLOCKED /\ f = FieldOf(b, local[h][b])
  BY DEF FieldsHeld
<1>3. QED
  BY <1>1, <1>2 DEF FieldOf, Byte, Strength, UNLOCKED, SHARED, EXCLUSIVE

LEMMA DropLocksLocal ==
  ASSUME TableTyped, NEW dead \in SUBSET Handle, DropLocks(dead)
  PROVE  /\ \A g \in dead, b \in Byte : local'[g][b] = UNLOCKED
         /\ \A g \in Handle \ dead : local'[g] = local[g]
         /\ local' \in [Handle -> [Byte -> Strength]]
BY DEF DropLocks, TableTyped, Nothing, Strength

LEMMA DropKeepsCompatible ==
  ASSUME TableTyped, Compatible, NEW dead \in SUBSET Handle, DropLocks(dead)
  PROVE  Compatible' /\ Readers' = Readers \ dead
BY DropLocksLocal DEF Compatible, Readers, Byte, UNLOCKED, SHARED

LEMMA CloseKeepsTable ==
  ASSUME TableInv, StaleRange, NEW h \in Handle, build' = build, winceDestroyLock(h),
         DropLocks({h})
  PROVE  TableInv' /\ StaleRange'
<1>t. TableTyped /\ Compatible /\ Counted
  BY DEF TableInv
<1>1. /\ \A b \in Byte : local'[h][b] = UNLOCKED
      /\ \A g \in Handle \ {h} : local'[g] = local[g]
      /\ local' \in [Handle -> [Byte -> Strength]]
  BY <1>t, DropLocksLocal
<1>2. Compatible' /\ Readers' = Readers \ {h}
  BY <1>t, DropKeepsCompatible
<1>a. CASE build = "NT"
  <2>1. \A f \in Field : shared'[f] = shared[f]
    BY <1>a DEF winceDestroyLock
  <2>2. shared' = [f \in Field |-> shared[f]]
    BY <1>a DEF winceDestroyLock
  <2>3. TableTyped'
    BY <1>t, <1>1, <2>1, <2>2 DEF TableTyped
  <2>4. QED
    BY <1>a, <1>2, <2>3 DEF TableInv, Counted, StaleRange
<1>b. CASE build = "CE"
  <2>1. /\ DOMAIN shared' = Field
        /\ shared' = [f \in Field |-> shared'[f]]
        /\ \A f \in Field : shared'[f] = IF f \in FieldsHeld(h) THEN shared[f] - 1 ELSE shared[f]
    BY <1>b DEF winceDestroyLock
  <2>2. \A f \in Field \ {"nReaders"} : f \in FieldsHeld(h) => shared[f] = 1 /\ shared'[f] = 0
    <3>1. local[h]["pending"] # UNLOCKED => local[h]["pending"] = EXCLUSIVE /\ shared["bPending"] = 1
      BY <1>b, <1>t DEF Counted, FieldOf, TableTyped, Byte, Strength
    <3>2. local[h]["reserved"] # UNLOCKED => local[h]["reserved"] = EXCLUSIVE /\ shared["bReserved"] = 1
      BY <1>b, <1>t DEF Counted, FieldOf, TableTyped, Byte, Strength
    <3>3. local[h]["shared"] = EXCLUSIVE => shared["bExclusive"] = 1
      BY <1>b, <1>t DEF Counted, FieldOf, Byte
    <3>4. QED
      BY <1>b, <2>1, <3>1, <3>2, <3>3, FieldsHeldIs DEF Field
  <2>3. /\ Cardinality(Readers') <= shared'["nReaders"]
        /\ shared'["nReaders"] <= Cardinality(Readers') + MaxLost
        /\ Cardinality(Readers') \in Nat
    <3>1. "nReaders" \in FieldsHeld(h) <=> h \in Readers
      BY <1>b, FieldsHeldIs DEF Readers
    <3>2. /\ Cardinality(Readers \ {h}) =
             IF h \in Readers THEN Cardinality(Readers) - 1 ELSE Cardinality(Readers)
          /\ Cardinality(Readers \ {h}) \in Nat
      BY ReadersFinite, FS_RemoveElement, FS_CardinalityType
    <3>3. shared'["nReaders"] = IF h \in Readers THEN shared["nReaders"] - 1 ELSE shared["nReaders"]
      BY <2>1, <3>1 DEF Field
    <3>4. shared["nReaders"] \in Nat /\ Cardinality(Readers) <= shared["nReaders"]
          /\ shared["nReaders"] <= Cardinality(Readers) + MaxLost
      BY <1>b, <1>t DEF Counted, TableTyped, Field
    <3>5. QED
      BY <1>2, <3>2, <3>3, <3>4, ReadersFinite, WinLockAssumption
  <2>4. TableTyped'
    <3>1. \A f \in Field \ {"nReaders"} : shared'[f] \in 0 .. 1
      BY <1>t, <2>1, <2>2 DEF TableTyped
    <3>2. shared'["nReaders"] \in Nat
      <4>1. shared'["nReaders"] \in Int
        BY <1>t, <2>1 DEF TableTyped, Field
      <4>2. QED
        BY <2>3, <4>1
    <3>3. \A f \in Field : shared'[f] \in Nat
      BY <3>1, <3>2
    <3>4. shared' \in [Field -> Nat]
      BY <2>1, <3>3
    <3>5. QED
      BY <1>t, <1>1, <3>1, <3>4 DEF TableTyped
  <2>5. ASSUME NEW g \in Handle
        PROVE  /\ local'[g]["pending"] # SHARED /\ local'[g]["reserved"] # SHARED
               /\ \A c \in Byte : local'[g][c] = EXCLUSIVE => shared'[FieldOf(c, EXCLUSIVE)] = 1
    <3>1. CASE g = h
      BY <1>1, <3>1 DEF Byte, UNLOCKED, SHARED, EXCLUSIVE
    <3>2. CASE g # h
      <4>1. local'[g] = local[g]
        BY <1>1, <3>2
      <4>2. ASSUME NEW c \in Byte, local[g][c] = EXCLUSIVE
            PROVE  shared'[FieldOf(c, EXCLUSIVE)] = 1
        <5>1. local[h][c] = UNLOCKED
          BY <1>t, <3>2, <4>2 DEF Compatible, UNLOCKED, SHARED, EXCLUSIVE
        <5>2. FieldOf(c, EXCLUSIVE) \notin FieldsHeld(h)
          BY <1>b, <5>1, FieldsHeldIs DEF FieldOf, Byte, UNLOCKED, EXCLUSIVE
        <5>3. shared[FieldOf(c, EXCLUSIVE)] = 1
          BY <1>b, <1>t, <4>2 DEF Counted
        <5>4. QED
          BY <2>1, <5>2, <5>3, FieldOfType
      <4>3. QED
        BY <1>b, <1>t, <4>1, <4>2 DEF Counted
    <3>3. QED
      BY <3>1, <3>2
  <2>6. Counted'
    BY <2>3, <2>5 DEF Counted
  <2>7. StaleRange'
    <3> SUFFICES ASSUME shared'["bExclusive"] = 1
                 PROVE  \/ \E g \in Handle : local'[g]["shared"] = EXCLUSIVE
                        \/ shared'["bPending"] = 1 /\ \A g \in Handle : local'[g]["pending"] = UNLOCKED
      BY DEF StaleRange
    <3>1. "bExclusive" \notin FieldsHeld(h) /\ shared["bExclusive"] = 1
      BY <2>1, <2>2 DEF Field
    <3>2. local[h]["shared"] # EXCLUSIVE
      BY <1>b, <3>1, FieldsHeldIs
    <3>3. CASE \E g \in Handle : local[g]["shared"] = EXCLUSIVE
      BY <1>1, <3>2, <3>3
    <3>4. CASE shared["bPending"] = 1 /\ \A g \in Handle : local[g]["pending"] = UNLOCKED
      <4>1. "bPending" \notin FieldsHeld(h)
        BY <1>b, <3>4, FieldsHeldIs
      <4>2. shared'["bPending"] = 1
        BY <2>1, <3>4, <4>1 DEF Field
      <4>3. \A g \in Handle : local'[g]["pending"] = UNLOCKED
        BY <1>1, <3>4 DEF Byte
      <4>4. QED
        BY <4>2, <4>3
    <3>5. QED
      BY <1>b, <3>1, <3>3, <3>4 DEF StaleRange
  <2>8. QED
    BY <1>2, <2>4, <2>6, <2>7 DEF TableInv
<1>3. QED
  BY <1>t, <1>a, <1>b DEF TableTyped

(* A process that dies leaves its counts in the winceLock.                 *)
LEMMA CrashKeepsTable ==
  ASSUME TableInv, StaleRange, NEW dead \in SUBSET Handle, build' = build, shared' = shared,
         DropLocks(dead),
         build = "CE" =>
           Stale["nReaders"] + Cardinality({g \in dead : "nReaders" \in FieldsHeld(g)}) <= MaxLost,
         \A g \in Handle : local[g]["shared"] = EXCLUSIVE => local[g]["pending"] = EXCLUSIVE
  PROVE  TableInv' /\ StaleRange'
<1>t. TableTyped /\ Compatible /\ Counted
  BY DEF TableInv
<1>1. /\ \A g \in dead, b \in Byte : local'[g][b] = UNLOCKED
      /\ \A g \in Handle \ dead : local'[g] = local[g]
      /\ local' \in [Handle -> [Byte -> Strength]]
  BY <1>t, DropLocksLocal
<1>2. Compatible' /\ Readers' = Readers \ dead
  BY <1>t, DropKeepsCompatible
<1>3. TableTyped'
  BY <1>t, <1>1 DEF TableTyped
<1>a. CASE build = "NT"
  BY <1>a, <1>2, <1>3 DEF TableInv, Counted, StaleRange
<1>b. CASE build = "CE"
  <2>1. {g \in Handle : "nReaders" \in FieldsHeld(g)} = Readers
    BY <1>b, FieldsHeldIs DEF Readers
  <2>2. {g \in dead : "nReaders" \in FieldsHeld(g)} = Readers \cap dead
    BY <1>b, FieldsHeldIs DEF Readers
  <2>3. Stale["nReaders"] = shared["nReaders"] - Cardinality(Readers)
    BY <2>1 DEF Stale, Field
  <2>4. /\ Cardinality(Readers \ dead) = Cardinality(Readers) - Cardinality(Readers \cap dead)
        /\ Cardinality(Readers \cap dead) \in Nat
    <3>1. IsFiniteSet(dead)
      BY FS_Subset, WinLockAssumption
    <3>2. QED
      BY <3>1, ReadersFinite, FS_Difference, FS_Intersection, FS_CardinalityType
  <2>5. /\ Cardinality(Readers') <= shared'["nReaders"]
        /\ shared'["nReaders"] <= Cardinality(Readers') + MaxLost
    <3>1. shared["nReaders"] \in Nat /\ Cardinality(Readers) <= shared["nReaders"]
      BY <1>b, <1>t DEF Counted, TableTyped, Field
    <3>2. shared["nReaders"] - Cardinality(Readers) + Cardinality(Readers \cap dead) <= MaxLost
      BY <1>b, <2>2, <2>3
    <3>3. QED
      BY <1>2, <2>4, <3>1, <3>2, ReadersFinite, WinLockAssumption
  <2>6. ASSUME NEW g \in Handle
        PROVE  /\ local'[g]["pending"] # SHARED /\ local'[g]["reserved"] # SHARED
               /\ \A c \in Byte : local'[g][c] = EXCLUSIVE => shared'[FieldOf(c, EXCLUSIVE)] = 1
    BY <1>b, <1>t, <1>1 DEF Counted, Byte, UNLOCKED, SHARED, EXCLUSIVE
  <2>7. Counted'
    BY <2>5, <2>6 DEF Counted
  <2>8. ASSUME shared["bExclusive"] = 1
        PROVE  \/ \E g \in Handle : local'[g]["shared"] = EXCLUSIVE
               \/ shared'["bPending"] = 1 /\ \A g \in Handle : local'[g]["pending"] = UNLOCKED
    <3>1. CASE \E g \in Handle \ dead : local[g]["shared"] = EXCLUSIVE
      BY <1>1, <3>1
    <3>2. ASSUME NEW g \in dead, local[g]["shared"] = EXCLUSIVE
          PROVE  shared'["bPending"] = 1 /\ \A k \in Handle : local'[k]["pending"] = UNLOCKED
      <4>1. local[g]["pending"] = EXCLUSIVE
        BY <3>2
      <4>2. shared["bPending"] = 1
        BY <1>b, <1>t, <4>1 DEF Counted, FieldOf, Byte
      <4>3. \A k \in Handle \ {g} : local[k]["pending"] = UNLOCKED
        BY <1>t, <4>1 DEF Compatible, Byte, UNLOCKED, SHARED, EXCLUSIVE
      <4>4. QED
        BY <1>1, <4>2, <4>3 DEF Byte
    <3>3. CASE shared["bPending"] = 1 /\ \A g \in Handle : local[g]["pending"] = UNLOCKED
      BY <1>1, <3>3 DEF Byte
    <3>4. QED
      BY <1>b, <2>8, <3>1, <3>2, <3>3 DEF StaleRange
  <2>9. StaleRange'
    BY <2>8 DEF StaleRange
  <2>10. QED
    BY <1>2, <1>3, <2>7, <2>9 DEF TableInv
<1>4. QED
  BY <1>t, <1>a, <1>b DEF TableTyped

(* The mapping is created while nobody holds a lock.                       *)
LEMMA OpenKeepsTable ==
  ASSUME TableInv, StaleRange, NEW others, UNCHANGED <<build, local>>, winceCreateLock(others),
         build = "CE" /\ others = {} => \A g \in Handle, b \in Byte : local[g][b] = UNLOCKED
  PROVE  TableInv' /\ StaleRange'
<1>t. TableTyped /\ Compatible /\ Counted
  BY DEF TableInv
<1>1. CASE others # {}
  <2>1. UNCHANGED <<build, local, shared>>
    BY <1>1 DEF winceCreateLock
  <2>2. Readers' = Readers
    BY <2>1 DEF Readers
  <2>3. QED
    BY <1>t, <2>1, <2>2 DEF TableInv, TableTyped, Compatible, Counted, StaleRange
<1>2. CASE others = {}
  <2>1. shared' = Zeroed
    BY <1>2 DEF winceCreateLock
  <2>2. TableTyped'
    BY <1>t, <2>1 DEF TableTyped, Zeroed
  <2>3. Compatible'
    BY <1>t DEF Compatible
  <2>4. CASE build = "NT"
    BY <2>2, <2>3, <2>4 DEF TableInv, Counted, StaleRange
  <2>5. CASE build = "CE"
    <3>1. \A g \in Handle, b \in Byte : local'[g][b] = UNLOCKED
      BY <1>2, <2>5
    <3>2. Readers' = {}
      BY <3>1 DEF Readers, Byte, UNLOCKED, SHARED
    <3>3. Cardinality(Readers') = 0 /\ shared'["nReaders"] = 0 /\ shared'["bExclusive"] = 0
      BY <2>1, <3>2, FS_EmptySet DEF Zeroed, Field
    <3>4. Counted'
      <4>1. Cardinality(Readers)' <= shared'["nReaders"] /\ shared'["nReaders"] <= Cardinality(Readers)' + MaxLost
        BY <3>3, WinLockAssumption
      <4>2. ASSUME NEW g \in Handle
            PROVE  /\ local'[g]["pending"] # SHARED /\ local'[g]["reserved"] # SHARED
                   /\ \A c \in Byte : local'[g][c] = EXCLUSIVE => shared'[FieldOf(c, EXCLUSIVE)] = 1
        BY <3>1 DEF Byte, UNLOCKED, SHARED, EXCLUSIVE
      <4>3. QED
        BY <4>1, <4>2 DEF Counted
    <3>5. QED
      BY <2>2, <2>3, <3>3, <3>4 DEF TableInv, StaleRange
  <2>6. QED
    BY <1>t, <2>4, <2>5 DEF TableTyped
<1>3. QED
  BY <1>1, <1>2

-----------------------------------------------------------------------------
(***************************************************************************)
(* The protocol: which locks a handle holds at each step of a call.        *)
(***************************************************************************)

(* Windows CE gives read-only handles no locks.                            *)
EveryHandleLocks == ReadOnly = {} \/ "CE" \notin Builds

UnlockPc == {"unlkShared", "regain", "unlkReserved", "unlkRead", "unlkPending"}
WithPending == {"read", "unpend", "unpendFail", "unread", "exclusive", "reread"}
Steps == WithPending \cup UnlockPc \cup {"idle", "pending", "reserve", "unprobe"}

FilesTyped ==
  /\ build \in Builds
  /\ status \in [Handle -> {"closed", "open", "leaked"}]
  /\ locktype \in [Handle -> Level]
  /\ pc \in [Handle -> Steps]
  /\ req \in [Handle -> Level]
  /\ cnt \in [Handle -> 0 .. PendingTries]

PendingIs(h) ==
  IF pc[h] \in WithPending \/ locktype[h] >= PENDING_LOCK THEN EXCLUSIVE ELSE UNLOCKED

SharedIs(h) ==
  IF locktype[h] = NO_LOCK THEN IF pc[h] = "unpend" THEN SHARED ELSE UNLOCKED
  ELSE IF locktype[h] = EXCLUSIVE_LOCK
  THEN IF pc[h] \in {"idle", "unlkShared"} THEN EXCLUSIVE
       ELSE IF pc[h] \in {"unlkReserved", "unlkPending"} /\ req[h] = SHARED_LOCK THEN SHARED
       ELSE UNLOCKED
  ELSE IF pc[h] \in {"exclusive", "reread"} \/ (pc[h] = "unlkPending" /\ req[h] = NO_LOCK)
  THEN UNLOCKED ELSE SHARED

LocksFit(h) ==
  /\ local[h]["pending"] = PendingIs(h)
  /\ local[h]["shared"] = SharedIs(h)
  /\ locktype[h] <= SHARED_LOCK /\ pc[h] # "unprobe" => local[h]["reserved"] = UNLOCKED
  /\ pc[h] \in {"unlkRead", "unlkPending"} => local[h]["reserved"] = UNLOCKED
  /\ locktype[h] = RESERVED_LOCK /\ pc[h] # "unlkRead" => local[h]["reserved"] = EXCLUSIVE
  /\ build = "NT" /\ pc[h] = "unprobe" => local[h]["reserved"] = SHARED

CallOK(h) ==
  /\ pc[h] = "pending" =>
       \/ locktype[h] = NO_LOCK /\ req[h] = SHARED_LOCK
       \/ locktype[h] \in {SHARED_LOCK, RESERVED_LOCK} /\ req[h] = EXCLUSIVE_LOCK
  /\ pc[h] \in {"read", "unpend", "unpendFail"} => locktype[h] = NO_LOCK
  /\ pc[h] = "reserve" => locktype[h] = SHARED_LOCK
  /\ pc[h] \in {"unread", "exclusive", "reread"} => locktype[h] \in SHARED_LOCK .. PENDING_LOCK
  /\ pc[h] = "unprobe" => locktype[h] \in {NO_LOCK, SHARED_LOCK}
  /\ pc[h] \in UnlockPc =>
       req[h] \in {NO_LOCK, SHARED_LOCK} /\ locktype[h] > req[h] /\ Applies(h, pc[h], req[h])

FileOK(h) ==
  /\ status[h] # "open" => pc[h] = "idle"
  /\ status[h] = "closed" \/ (status[h] = "leaked" /\ build = "CE") => locktype[h] = NO_LOCK

HandleInv(h) == LocksFit(h) /\ CallOK(h) /\ FileOK(h)

IInv ==
  /\ FilesTyped /\ TableInv /\ StaleRange
  /\ \A h \in Handle : HandleInv(h)

LEMMA InitInv ==
  ASSUME Init PROVE IInv
<1> USE DEF Init, LockFileInit, NO_LOCK, SHARED_LOCK, RESERVED_LOCK, PENDING_LOCK, EXCLUSIVE_LOCK
<1>1. FilesTyped
  BY DEF FilesTyped, Level, Steps, PendingTries
<1>2. TableTyped
  BY WinLockFileAssumption DEF TableTyped, Nothing, Strength, Zeroed
<1>3. Compatible
  BY DEF Compatible, Nothing
<1>4. Readers = {}
  BY DEF Readers, Nothing, Byte, UNLOCKED, SHARED
<1>5. Cardinality(Readers) = 0
  BY <1>4, FS_EmptySet
<1>6. Counted
  BY <1>5, WinLockAssumption
  DEF Counted, Nothing, Zeroed, Field, Byte, UNLOCKED, SHARED, EXCLUSIVE
<1>7. StaleRange
  BY DEF StaleRange, Zeroed, Field
<1>8. ASSUME NEW h \in Handle PROVE HandleInv(h)
  BY DEF HandleInv, LocksFit, CallOK, FileOK, PendingIs, SharedIs, Nothing, Byte, WithPending, UnlockPc
<1>9. QED
  BY <1>1, <1>2, <1>3, <1>6, <1>7, <1>8 DEF IInv, TableInv

(* What an action does to its own handle is all there is to show.          *)
Same(g) ==
  /\ status'[g] = status[g] /\ locktype'[g] = locktype[g]
  /\ pc'[g] = pc[g] /\ req'[g] = req[g]
  /\ local'[g] = local[g]

LEMMA SameKeepsInv ==
  ASSUME NEW g, HandleInv(g), Same(g), build' = build
  PROVE  HandleInv(g)'
BY DEF HandleInv, Same, LocksFit, CallOK, FileOK, PendingIs, SharedIs, Applies

LEMMA StepKeepsInv ==
  ASSUME IInv, NEW h \in Handle, FilesTyped', TableInv', StaleRange', build' = build,
         HandleInv(h)', \A g \in Handle \ {h} : Same(g)
  PROVE  IInv'
<1>1. ASSUME NEW g \in Handle PROVE HandleInv(g)'
  <2>1. CASE g = h
    BY <2>1
  <2>2. CASE g # h
    <3>1. HandleInv(g) /\ Same(g)
      BY <2>2 DEF IInv
    <3>2. QED
      BY <3>1, SameKeepsInv
  <2>3. QED
    BY <2>1, <2>2
<1>2. QED
  BY <1>1 DEF IInv

(* What Goto, Call and SetLevel do.                                        *)
LEMMA GotoDoes ==
  ASSUME FilesTyped, NEW h \in Handle, NEW step \in Steps, Goto(h, step)
  PROVE  /\ pc'[h] = step /\ req' = req
         /\ \A g \in Handle \ {h} : pc'[g] = pc[g]
         /\ pc' \in [Handle -> Steps] /\ req' \in [Handle -> Level]
         /\ cnt' \in [Handle -> 0 .. PendingTries]
BY DEF Goto, FilesTyped, PendingTries

LEMMA CallDoes ==
  ASSUME FilesTyped, NEW h \in Handle, NEW step \in Steps, NEW level \in Level,
         Call(h, step, level)
  PROVE  /\ pc'[h] = step /\ req'[h] = level
         /\ \A g \in Handle \ {h} : pc'[g] = pc[g] /\ req'[g] = req[g]
         /\ pc' \in [Handle -> Steps] /\ req' \in [Handle -> Level]
         /\ cnt' \in [Handle -> 0 .. PendingTries]
BY DEF Call, FilesTyped, PendingTries

LEMMA ReturnDoes ==
  ASSUME FilesTyped, NEW h \in Handle, Return(h)
  PROVE  /\ pc'[h] = "idle" /\ req'[h] = NO_LOCK
         /\ \A g \in Handle \ {h} : pc'[g] = pc[g] /\ req'[g] = req[g]
         /\ pc' \in [Handle -> Steps] /\ req' \in [Handle -> Level]
         /\ cnt' \in [Handle -> 0 .. PendingTries]
BY CallDoes DEF Return, Steps, Level, NO_LOCK, EXCLUSIVE_LOCK

LEMMA SetLevelDoes ==
  ASSUME FilesTyped, NEW h \in Handle, NEW level \in Level, SetLevel(h, level)
  PROVE  /\ locktype'[h] = level
         /\ \A g \in Handle \ {h} : locktype'[g] = locktype[g]
         /\ locktype' \in [Handle -> Level]
BY DEF SetLevel, FilesTyped

LEMMA EveryHandleLocksHere ==
  ASSUME EveryHandleLocks, FilesTyped, NEW h \in Handle PROVE ~LocksNothing(h)
BY DEF EveryHandleLocks, FilesTyped, LocksNothing

-----------------------------------------------------------------------------
(***************************************************************************)
(* A step of a call that locks or unlocks one byte.                        *)
(***************************************************************************)
LEMMA LockingStep ==
  ASSUME IInv, EveryHandleLocks, NEW h \in Handle, NEW b \in Byte, NEW s \in {SHARED, EXCLUSIVE},
         LockFile(h, b, s), local[h][b] = UNLOCKED, build' = build
  PROVE  /\ TableInv' /\ StaleRange'
         /\ local'[h][b] = Obtained(b, s)
         /\ \A c \in Byte \ {b} : local'[h][c] = local[h][c]
         /\ \A g \in Handle \ {h} : local'[g] = local[g]
<1>1. ~LocksNothing(h) /\ TableInv /\ StaleRange /\ TableTyped
  BY EveryHandleLocksHere DEF IInv, TableInv
<1>2. TableInv'
  BY <1>1, LockFileKeepsTable
<1>3. StaleRange'
  BY <1>1, LockFileKeepsStaleRange
<1>4. QED
  BY <1>1, <1>2, <1>3, LockFileLocal

LEMMA UnlockingStep ==
  ASSUME IInv, NEW h \in Handle, NEW b \in Byte, UnlockFile(h, b), build' = build
  PROVE  /\ TableInv' /\ StaleRange'
         /\ local'[h][b] = UNLOCKED
         /\ \A c \in Byte \ {b} : local'[h][c] = local[h][c]
         /\ \A g \in Handle \ {h} : local'[g] = local[g]
<1>1. TableInv /\ StaleRange /\ TableTyped
  BY DEF IInv, TableInv
<1>2. TableInv'
  BY <1>1, UnlockFileKeepsTable
<1>3. StaleRange'
  BY <1>1, UnlockFileKeepsStaleRange
<1>4. QED
  BY <1>1, <1>2, <1>3, UnlockFileLocal

LEMMA IdleStep ==
  ASSUME IInv, UNCHANGED lockFileVars
  PROVE  TableInv' /\ StaleRange'
<1>1. Readers' = Readers
  BY DEF Readers, lockFileVars
<1>2. QED
  BY <1>1 DEF IInv, lockFileVars, TableInv, TableTyped, Compatible, Counted, StaleRange

-----------------------------------------------------------------------------
(***************************************************************************)
(* Nobody can have taken the whole range from under a PENDING writer.      *)
(***************************************************************************)
LEMMA WholeRangeNeedsPending ==
  ASSUME IInv, NEW g \in Handle, local[g]["shared"] = EXCLUSIVE
  PROVE  local[g]["pending"] = EXCLUSIVE /\ locktype[g] = EXCLUSIVE_LOCK
BY DEF IInv, HandleInv, LocksFit, PendingIs, SharedIs, UNLOCKED, SHARED, EXCLUSIVE,
       PENDING_LOCK, EXCLUSIVE_LOCK

LEMMA ReadLockIsFree ==
  ASSUME IInv, NEW h \in Handle, pc[h] \in {"reread", "regain"}
  PROVE  Grantable(h, "shared", SHARED) /\ local[h]["shared"] = UNLOCKED
<1>1. HandleInv(h) /\ TableTyped /\ Compatible /\ StaleRange /\ locktype[h] \in Level
  BY DEF IInv, TableInv, FilesTyped
<1>2. local[h]["pending"] = EXCLUSIVE /\ local[h]["shared"] = UNLOCKED
  BY <1>1 DEF HandleInv, LocksFit, CallOK, PendingIs, SharedIs, Applies, WithPending, UnlockPc,
     Level, NO_LOCK, SHARED_LOCK, RESERVED_LOCK, PENDING_LOCK, EXCLUSIVE_LOCK
<1>3. ASSUME NEW g \in Handle \ {h} PROVE local[g]["shared"] # EXCLUSIVE
  BY <1>1, <1>2, WholeRangeNeedsPending DEF Compatible, Byte, UNLOCKED, SHARED, EXCLUSIVE
<1>4. CASE build = "NT"
  <2>1. ASSUME NEW g \in Handle PROVE local[g]["shared"] \in {UNLOCKED, SHARED}
    <3>1. local[g]["shared"] \in Strength
      BY <1>1 DEF TableTyped, Byte
    <3>2. local[g]["shared"] # EXCLUSIVE
      BY <1>2, <1>3 DEF UNLOCKED, EXCLUSIVE
    <3>3. QED
      BY <3>1, <3>2 DEF Strength
  <2>2. LockFileExGrants(h, "shared", SHARED)
    BY <2>1 DEF LockFileExGrants
  <2>3. QED
    BY <1>2, <1>4, <2>2 DEF Grantable
<1>5. CASE build = "CE"
  <2>1. shared["bExclusive"] # 1
    BY <1>1, <1>2, <1>3, <1>5 DEF StaleRange, UNLOCKED, EXCLUSIVE
  <2>2. shared["bExclusive"] = 0
    BY <1>1, <2>1 DEF TableTyped, Field
  <2>3. winceGrants("shared", SHARED)
    BY <2>2 DEF winceGrants, FieldOf, SHARED, EXCLUSIVE
  <2>4. QED
    BY <1>2, <1>5, <2>3 DEF Grantable
<1>6. QED
  BY <1>1, <1>4, <1>5 DEF TableTyped

-----------------------------------------------------------------------------
(***************************************************************************)
(* Every action keeps the invariant.                                       *)
(***************************************************************************)
LEMMA LockInv ==
  ASSUME IInv, NEW h \in Handle, NEW level \in {SHARED_LOCK, RESERVED_LOCK, EXCLUSIVE_LOCK},
         Lock(h, level)
  PROVE  IInv'
<1> USE DEF HandleInv, LocksFit, CallOK, FileOK, PendingIs, SharedIs, Applies,
           WithPending, UnlockPc, Byte, UNLOCKED, SHARED, EXCLUSIVE,
           NO_LOCK, SHARED_LOCK, RESERVED_LOCK, PENDING_LOCK, EXCLUSIVE_LOCK
<1>0. FilesTyped /\ HandleInv(h)
  BY DEF IInv
<1>1. PICK step \in {"pending", "read", "reserve", "unread"} :
        /\ Call(h, step, level)
        /\ step = IF NeedsPendingByte(h, level) THEN "pending"
                  ELSE IF level = SHARED_LOCK THEN "read"
                  ELSE IF level = RESERVED_LOCK THEN "reserve" ELSE "unread"
  BY DEF Lock
<1>2. step \in Steps /\ level \in Level
  BY DEF Steps, Level
<1>3. /\ pc'[h] = step /\ req'[h] = level
      /\ \A g \in Handle \ {h} : pc'[g] = pc[g] /\ req'[g] = req[g]
      /\ pc' \in [Handle -> Steps] /\ req' \in [Handle -> Level]
      /\ cnt' \in [Handle -> 0 .. PendingTries]
  BY <1>0, <1>1, <1>2, CallDoes
<1>4. UNCHANGED lockFileVars /\ UNCHANGED <<build, local, status, locktype>>
  BY DEF Lock, fileVars, lockFileVars
<1>5. TableInv' /\ StaleRange'
  BY <1>4, IdleStep
<1>6. FilesTyped'
  BY <1>0, <1>3, <1>4 DEF FilesTyped
<1>7. pc[h] = "idle" /\ status[h] = "open" /\ LockSequenceOK(h, level)
  BY DEF Lock, CanCall
<1>8. HandleInv(h)'
  BY <1>0, <1>1, <1>3, <1>4, <1>7 DEF NeedsPendingByte, LockSequenceOK, FilesTyped, Level
<1>9. \A g \in Handle \ {h} : Same(g)
  BY <1>3, <1>4 DEF Same
<1>10. QED
  BY <1>4, <1>5, <1>6, <1>8, <1>9, StepKeepsInv

LEMMA LockPendingByteInv ==
  ASSUME IInv, EveryHandleLocks, NEW h \in Handle, LockPendingByte(h)
  PROVE  IInv'
<1> USE DEF HandleInv, LocksFit, CallOK, FileOK, PendingIs, SharedIs, Applies,
           WithPending, UnlockPc, Byte, UNLOCKED, SHARED, EXCLUSIVE,
           NO_LOCK, SHARED_LOCK, RESERVED_LOCK, PENDING_LOCK, EXCLUSIVE_LOCK
<1>0. FilesTyped /\ HandleInv(h) /\ pc[h] = "pending" /\ UNCHANGED <<build, status, locktype>>
  BY DEF IInv, LockPendingByte, fileVars
<1>t. locktype[h] \in Level
  BY <1>0 DEF FilesTyped
<1>1. CASE LockFile(h, "pending", EXCLUSIVE) /\ Goto(h, IF req[h] = SHARED_LOCK THEN "read" ELSE "unread")
  <2>1. PICK step \in {"read", "unread"} :
          Goto(h, step) /\ step = IF req[h] = SHARED_LOCK THEN "read" ELSE "unread"
    BY <1>1
  <2>2. /\ pc'[h] = step /\ req' = req
        /\ \A g \in Handle \ {h} : pc'[g] = pc[g]
        /\ pc' \in [Handle -> Steps] /\ req' \in [Handle -> Level]
        /\ cnt' \in [Handle -> 0 .. PendingTries]
    BY <1>0, <2>1, GotoDoes DEF Steps
  <2>3. local[h]["pending"] = UNLOCKED
    BY <1>0, <1>t DEF Level
  <2>4. /\ TableInv' /\ StaleRange'
        /\ local'[h]["pending"] = Obtained("pending", EXCLUSIVE)
        /\ \A c \in Byte \ {"pending"} : local'[h][c] = local[h][c]
        /\ \A g \in Handle \ {h} : local'[g] = local[g]
    BY <1>0, <1>1, <2>3, LockingStep
  <2>5. FilesTyped'
    BY <1>0, <2>2 DEF FilesTyped
  <2>6. HandleInv(h)'
    BY <1>0, <1>t, <2>1, <2>2, <2>4 DEF Obtained, Level
  <2>7. \A g \in Handle \ {h} : Same(g)
    BY <1>0, <2>2, <2>4 DEF Same
  <2>8. QED
    BY <1>0, <2>4, <2>5, <2>6, <2>7, StepKeepsInv
<1>2. CASE cnt[h] > 1 /\ cnt' = [cnt EXCEPT ![h] = @ - 1] /\ UNCHANGED <<local, shared, pc, req>>
  <2>1. TableInv' /\ StaleRange'
    BY <1>0, <1>2, IdleStep DEF lockFileVars
  <2>2. FilesTyped'
    BY <1>0, <1>2 DEF FilesTyped, PendingTries
  <2>3. \A g \in Handle : Same(g)
    BY <1>0, <1>2 DEF Same
  <2>4. QED
    BY <1>0, <2>1, <2>2, <2>3, SameKeepsInv, StepKeepsInv
<1>3. CASE Return(h) /\ UNCHANGED <<local, shared>>
  <2>1. TableInv' /\ StaleRange'
    BY <1>0, <1>3, IdleStep DEF lockFileVars
  <2>2. /\ pc'[h] = "idle" /\ req'[h] = NO_LOCK
        /\ \A g \in Handle \ {h} : pc'[g] = pc[g] /\ req'[g] = req[g]
        /\ pc' \in [Handle -> Steps] /\ req' \in [Handle -> Level]
        /\ cnt' \in [Handle -> 0 .. PendingTries]
    BY <1>0, <1>3, ReturnDoes
  <2>3. FilesTyped'
    BY <1>0, <2>2 DEF FilesTyped
  <2>4. HandleInv(h)'
    BY <1>0, <1>t, <1>3, <2>2 DEF Level
  <2>5. \A g \in Handle \ {h} : Same(g)
    BY <1>0, <1>3, <2>2 DEF Same
  <2>6. QED
    BY <1>0, <2>1, <2>3, <2>4, <2>5, StepKeepsInv
<1>4. QED
  BY <1>1, <1>2, <1>3 DEF LockPendingByte

LEMMA GetReadLockInv ==
  ASSUME IInv, EveryHandleLocks, NEW h \in Handle, GetReadLock(h)
  PROVE  IInv'
<1> USE DEF HandleInv, LocksFit, CallOK, FileOK, PendingIs, SharedIs, Applies,
           WithPending, UnlockPc, Byte, UNLOCKED, SHARED, EXCLUSIVE,
           NO_LOCK, SHARED_LOCK, RESERVED_LOCK, PENDING_LOCK, EXCLUSIVE_LOCK
<1>0. FilesTyped /\ HandleInv(h) /\ pc[h] = "read" /\ UNCHANGED <<build, status, locktype>>
  BY DEF IInv, GetReadLock, fileVars
<1>1. CASE LockFile(h, "shared", SHARED) /\ Goto(h, "unpend")
  <2>1. /\ pc'[h] = "unpend" /\ req' = req
        /\ \A g \in Handle \ {h} : pc'[g] = pc[g]
        /\ pc' \in [Handle -> Steps] /\ req' \in [Handle -> Level]
        /\ cnt' \in [Handle -> 0 .. PendingTries]
    BY <1>0, <1>1, GotoDoes DEF Steps
  <2>2. /\ TableInv' /\ StaleRange'
        /\ local'[h]["shared"] = Obtained("shared", SHARED)
        /\ \A c \in Byte \ {"shared"} : local'[h][c] = local[h][c]
        /\ \A g \in Handle \ {h} : local'[g] = local[g]
    BY <1>0, <1>1, LockingStep
  <2>3. FilesTyped'
    BY <1>0, <2>1 DEF FilesTyped
  <2>4. HandleInv(h)'
    BY <1>0, <2>1, <2>2 DEF Obtained
  <2>5. \A g \in Handle \ {h} : Same(g)
    BY <1>0, <2>1, <2>2 DEF Same
  <2>6. QED
    BY <1>0, <2>2, <2>3, <2>4, <2>5, StepKeepsInv
<1>2. CASE Goto(h, "unpendFail") /\ UNCHANGED <<local, shared>>
  <2>1. /\ pc'[h] = "unpendFail" /\ req' = req
        /\ \A g \in Handle \ {h} : pc'[g] = pc[g]
        /\ pc' \in [Handle -> Steps] /\ req' \in [Handle -> Level]
        /\ cnt' \in [Handle -> 0 .. PendingTries]
    BY <1>0, <1>2, GotoDoes DEF Steps
  <2>2. TableInv' /\ StaleRange'
    BY <1>0, <1>2, IdleStep DEF lockFileVars
  <2>3. FilesTyped'
    BY <1>0, <2>1 DEF FilesTyped
  <2>4. HandleInv(h)'
    BY <1>0, <1>2, <2>1
  <2>5. \A g \in Handle \ {h} : Same(g)
    BY <1>0, <1>2, <2>1 DEF Same
  <2>6. QED
    BY <1>0, <2>2, <2>3, <2>4, <2>5, StepKeepsInv
<1>3. QED
  BY <1>1, <1>2 DEF GetReadLock

LEMMA DropPendingByteInv ==
  ASSUME IInv, NEW h \in Handle, DropPendingByte(h)
  PROVE  IInv'
<1> USE DEF HandleInv, LocksFit, CallOK, FileOK, PendingIs, SharedIs, Applies,
           WithPending, UnlockPc, Byte, UNLOCKED, SHARED, EXCLUSIVE,
           NO_LOCK, SHARED_LOCK, RESERVED_LOCK, PENDING_LOCK, EXCLUSIVE_LOCK
<1>0. /\ FilesTyped /\ HandleInv(h) /\ pc[h] \in {"unpend", "unpendFail"}
      /\ UNCHANGED <<build, status>> /\ Return(h) /\ UnlockFile(h, "pending")
  BY DEF IInv, DropPendingByte
<1>1. /\ pc'[h] = "idle" /\ req'[h] = NO_LOCK
      /\ \A g \in Handle \ {h} : pc'[g] = pc[g] /\ req'[g] = req[g]
      /\ pc' \in [Handle -> Steps] /\ req' \in [Handle -> Level]
      /\ cnt' \in [Handle -> 0 .. PendingTries]
  BY <1>0, ReturnDoes
<1>2. /\ TableInv' /\ StaleRange'
      /\ local'[h]["pending"] = UNLOCKED
      /\ \A c \in Byte \ {"pending"} : local'[h][c] = local[h][c]
      /\ \A g \in Handle \ {h} : local'[g] = local[g]
  BY <1>0, UnlockingStep
<1>3. PICK level \in {NO_LOCK, SHARED_LOCK} :
        SetLevel(h, level) /\ level = IF pc[h] = "unpend" THEN SHARED_LOCK ELSE NO_LOCK
  BY DEF DropPendingByte
<1>4. /\ locktype'[h] = level
      /\ \A g \in Handle \ {h} : locktype'[g] = locktype[g]
      /\ locktype' \in [Handle -> Level]
  BY <1>0, <1>3, SetLevelDoes DEF Level
<1>5. FilesTyped'
  BY <1>0, <1>1, <1>4 DEF FilesTyped
<1>6. HandleInv(h)'
  BY <1>0, <1>1, <1>2, <1>3, <1>4
<1>7. \A g \in Handle \ {h} : Same(g)
  BY <1>0, <1>1, <1>2, <1>4 DEF Same
<1>8. QED
  BY <1>0, <1>2, <1>5, <1>6, <1>7, StepKeepsInv

LEMMA LockReservedByteInv ==
  ASSUME IInv, EveryHandleLocks, NEW h \in Handle, LockReservedByte(h)
  PROVE  IInv'
<1> USE DEF HandleInv, LocksFit, CallOK, FileOK, PendingIs, SharedIs, Applies,
           WithPending, UnlockPc, Byte, UNLOCKED, SHARED, EXCLUSIVE,
           NO_LOCK, SHARED_LOCK, RESERVED_LOCK, PENDING_LOCK, EXCLUSIVE_LOCK
<1>0. /\ FilesTyped /\ HandleInv(h) /\ pc[h] = "reserve"
      /\ UNCHANGED <<build, status>> /\ Return(h)
  BY DEF IInv, LockReservedByte
<1>1. /\ pc'[h] = "idle" /\ req'[h] = NO_LOCK
      /\ \A g \in Handle \ {h} : pc'[g] = pc[g] /\ req'[g] = req[g]
      /\ pc' \in [Handle -> Steps] /\ req' \in [Handle -> Level]
      /\ cnt' \in [Handle -> 0 .. PendingTries]
  BY <1>0, ReturnDoes
<1>2. CASE LockFile(h, "reserved", EXCLUSIVE) /\ SetLevel(h, RESERVED_LOCK)
  <2>1. /\ TableInv' /\ StaleRange'
        /\ local'[h]["reserved"] = Obtained("reserved", EXCLUSIVE)
        /\ \A c \in Byte \ {"reserved"} : local'[h][c] = local[h][c]
        /\ \A g \in Handle \ {h} : local'[g] = local[g]
    BY <1>0, <1>2, LockingStep
  <2>2. /\ locktype'[h] = RESERVED_LOCK
        /\ \A g \in Handle \ {h} : locktype'[g] = locktype[g]
        /\ locktype' \in [Handle -> Level]
    BY <1>0, <1>2, SetLevelDoes DEF Level
  <2>3. FilesTyped'
    BY <1>0, <1>1, <2>2 DEF FilesTyped
  <2>4. HandleInv(h)'
    BY <1>0, <1>1, <2>1, <2>2 DEF Obtained
  <2>5. \A g \in Handle \ {h} : Same(g)
    BY <1>0, <1>1, <2>1, <2>2 DEF Same
  <2>6. QED
    BY <1>0, <2>1, <2>3, <2>4, <2>5, StepKeepsInv
<1>3. CASE UNCHANGED <<local, shared, locktype>>
  <2>1. TableInv' /\ StaleRange'
    BY <1>0, <1>3, IdleStep DEF lockFileVars
  <2>2. FilesTyped'
    BY <1>0, <1>1, <1>3 DEF FilesTyped
  <2>3. HandleInv(h)'
    BY <1>0, <1>1, <1>3
  <2>4. \A g \in Handle \ {h} : Same(g)
    BY <1>0, <1>1, <1>3 DEF Same
  <2>5. QED
    BY <1>0, <2>1, <2>2, <2>3, <2>4, StepKeepsInv
<1>4. QED
  BY <1>2, <1>3 DEF LockReservedByte

LEMMA UnlockReadLockInv ==
  ASSUME IInv, NEW h \in Handle, UnlockReadLock(h)
  PROVE  IInv'
<1> USE DEF HandleInv, LocksFit, CallOK, FileOK, PendingIs, SharedIs, Applies,
           WithPending, UnlockPc, Byte, UNLOCKED, SHARED, EXCLUSIVE,
           NO_LOCK, SHARED_LOCK, RESERVED_LOCK, PENDING_LOCK, EXCLUSIVE_LOCK
<1>0. /\ FilesTyped /\ HandleInv(h) /\ pc[h] = "unread"
      /\ UNCHANGED <<build, status, locktype>>
      /\ UnlockFile(h, "shared") /\ Goto(h, "exclusive")
  BY DEF IInv, UnlockReadLock, fileVars
<1>1. /\ pc'[h] = "exclusive" /\ req' = req
      /\ \A g \in Handle \ {h} : pc'[g] = pc[g]
      /\ pc' \in [Handle -> Steps] /\ req' \in [Handle -> Level]
      /\ cnt' \in [Handle -> 0 .. PendingTries]
  BY <1>0, GotoDoes DEF Steps
<1>2. /\ TableInv' /\ StaleRange'
      /\ local'[h]["shared"] = UNLOCKED
      /\ \A c \in Byte \ {"shared"} : local'[h][c] = local[h][c]
      /\ \A g \in Handle \ {h} : local'[g] = local[g]
  BY <1>0, UnlockingStep
<1>3. FilesTyped'
  BY <1>0, <1>1 DEF FilesTyped
<1>4. HandleInv(h)'
  BY <1>0, <1>1, <1>2 DEF FilesTyped, Level
<1>5. \A g \in Handle \ {h} : Same(g)
  BY <1>0, <1>1, <1>2 DEF Same
<1>6. QED
  BY <1>0, <1>2, <1>3, <1>4, <1>5, StepKeepsInv

LEMMA LockSharedRangeInv ==
  ASSUME IInv, EveryHandleLocks, NEW h \in Handle, LockSharedRange(h)
  PROVE  IInv'
<1> USE DEF HandleInv, LocksFit, CallOK, FileOK, PendingIs, SharedIs, Applies,
           WithPending, UnlockPc, Byte, UNLOCKED, SHARED, EXCLUSIVE,
           NO_LOCK, SHARED_LOCK, RESERVED_LOCK, PENDING_LOCK, EXCLUSIVE_LOCK
<1>0. /\ FilesTyped /\ HandleInv(h) /\ pc[h] = "exclusive"
      /\ UNCHANGED <<build, status>>
  BY DEF IInv, LockSharedRange
<1>t. FilesTyped /\ UNCHANGED <<build, status>>
  BY <1>0
<1>1. CASE LockFile(h, "shared", EXCLUSIVE) /\ SetLevel(h, EXCLUSIVE_LOCK) /\ Return(h)
  <2>1. /\ pc'[h] = "idle" /\ req'[h] = NO_LOCK
        /\ \A g \in Handle \ {h} : pc'[g] = pc[g] /\ req'[g] = req[g]
        /\ pc' \in [Handle -> Steps] /\ req' \in [Handle -> Level]
        /\ cnt' \in [Handle -> 0 .. PendingTries]
    BY <1>0, <1>1, ReturnDoes
  <2>2. local[h]["shared"] = UNLOCKED
    BY <1>0
  <2>3. /\ TableInv' /\ StaleRange'
        /\ local'[h]["shared"] = Obtained("shared", EXCLUSIVE)
        /\ \A c \in Byte \ {"shared"} : local'[h][c] = local[h][c]
        /\ \A g \in Handle \ {h} : local'[g] = local[g]
    BY <1>0, <1>1, <2>2, LockingStep
  <2>4. /\ locktype'[h] = EXCLUSIVE_LOCK
        /\ \A g \in Handle \ {h} : locktype'[g] = locktype[g]
        /\ locktype' \in [Handle -> Level]
  BY <1>0, <1>1, SetLevelDoes DEF Level
  <2>5. FilesTyped'
    BY <1>t, <2>1, <2>4 DEF FilesTyped
  <2>6. HandleInv(h)'
    BY <1>0, <2>1, <2>3, <2>4 DEF Obtained
  <2>7. \A g \in Handle \ {h} : Same(g)
    BY <1>0, <2>1, <2>3, <2>4 DEF Same
  <2>8. QED
    BY <1>0, <2>3, <2>5, <2>6, <2>7, StepKeepsInv
<1>2. CASE Goto(h, "reread") /\ UNCHANGED <<local, shared, locktype>>
  <2>1. /\ pc'[h] = "reread" /\ req' = req
        /\ \A g \in Handle \ {h} : pc'[g] = pc[g]
        /\ pc' \in [Handle -> Steps] /\ req' \in [Handle -> Level]
        /\ cnt' \in [Handle -> 0 .. PendingTries]
  BY <1>0, <1>2, GotoDoes DEF Steps
  <2>2. TableInv' /\ StaleRange'
    BY <1>0, <1>2, IdleStep DEF lockFileVars
  <2>3. FilesTyped'
    BY <1>t, <1>2, <2>1 DEF FilesTyped
  <2>4. HandleInv(h)'
    BY <1>0, <1>2, <2>1 DEF FilesTyped, Level
  <2>5. \A g \in Handle \ {h} : Same(g)
    BY <1>0, <1>2, <2>1 DEF Same
  <2>6. QED
    BY <1>0, <2>2, <2>3, <2>4, <2>5, StepKeepsInv
<1>3. QED
  BY <1>1, <1>2 DEF LockSharedRange

LEMMA ReadAgainStep ==
  ASSUME IInv, EveryHandleLocks, NEW h \in Handle, pc[h] \in {"reread", "regain"},
         ReadAgain(h), build' = build
  PROVE  /\ TableInv' /\ StaleRange'
         /\ local'[h]["shared"] = SHARED
         /\ \A c \in Byte \ {"shared"} : local'[h][c] = local[h][c]
         /\ \A g \in Handle \ {h} : local'[g] = local[g]
<1>1. Grantable(h, "shared", SHARED) /\ local[h]["shared"] = UNLOCKED
  BY ReadLockIsFree
<1>2. LockFile(h, "shared", SHARED)
  BY <1>1 DEF ReadAgain
<1>3. Obtained("shared", SHARED) = SHARED
  BY DEF Obtained
<1>4. QED
  BY <1>1, <1>2, <1>3, LockingStep DEF Byte

LEMMA GetReadLockAgainInv ==
  ASSUME IInv, EveryHandleLocks, NEW h \in Handle, GetReadLockAgain(h)
  PROVE  IInv'
<1> USE DEF HandleInv, LocksFit, CallOK, FileOK, PendingIs, SharedIs, Applies,
           WithPending, UnlockPc, Byte, UNLOCKED, SHARED, EXCLUSIVE,
           NO_LOCK, SHARED_LOCK, RESERVED_LOCK, PENDING_LOCK, EXCLUSIVE_LOCK
<1>0. /\ FilesTyped /\ HandleInv(h) /\ pc[h] = "reread"
      /\ UNCHANGED <<build, status>> /\ ReadAgain(h)
      /\ SetLevel(h, PENDING_LOCK) /\ Return(h)
  BY DEF IInv, GetReadLockAgain
<1>1. /\ pc'[h] = "idle" /\ req'[h] = NO_LOCK
      /\ \A g \in Handle \ {h} : pc'[g] = pc[g] /\ req'[g] = req[g]
      /\ pc' \in [Handle -> Steps] /\ req' \in [Handle -> Level]
      /\ cnt' \in [Handle -> 0 .. PendingTries]
  BY <1>0, ReturnDoes
<1>2. /\ TableInv' /\ StaleRange'
      /\ local'[h]["shared"] = SHARED
      /\ \A c \in Byte \ {"shared"} : local'[h][c] = local[h][c]
      /\ \A g \in Handle \ {h} : local'[g] = local[g]
  BY <1>0, ReadAgainStep
<1>3. /\ locktype'[h] = PENDING_LOCK
      /\ \A g \in Handle \ {h} : locktype'[g] = locktype[g]
      /\ locktype' \in [Handle -> Level]
  BY <1>0, SetLevelDoes DEF Level
<1>4. FilesTyped'
  BY <1>0, <1>1, <1>3 DEF FilesTyped
<1>5. HandleInv(h)'
  BY <1>0, <1>1, <1>2, <1>3
<1>6. \A g \in Handle \ {h} : Same(g)
  BY <1>0, <1>1, <1>2, <1>3 DEF Same
<1>7. QED
  BY <1>0, <1>2, <1>4, <1>5, <1>6, StepKeepsInv

LEMMA CheckReservedLockInv ==
  ASSUME IInv, EveryHandleLocks, NEW h \in Handle, CheckReservedLock(h)
  PROVE  IInv'
<1> USE DEF HandleInv, LocksFit, CallOK, FileOK, PendingIs, SharedIs, Applies,
           WithPending, UnlockPc, Byte, UNLOCKED, SHARED, EXCLUSIVE,
           NO_LOCK, SHARED_LOCK, RESERVED_LOCK, PENDING_LOCK, EXCLUSIVE_LOCK
<1>0. /\ FilesTyped /\ HandleInv(h) /\ pc[h] = "idle" /\ status[h] = "open"
      /\ UNCHANGED <<build, status, locktype>>
      /\ locktype[h] < RESERVED_LOCK /\ LockFile(h, "reserved", SHARED)
      /\ Call(h, "unprobe", NO_LOCK) /\ locktype[h] \in Level
  BY DEF IInv, CheckReservedLock, CanCall, SeesReserved, ProbeStrength, fileVars, FilesTyped, Level
<1>1. /\ pc'[h] = "unprobe" /\ req'[h] = NO_LOCK
      /\ \A g \in Handle \ {h} : pc'[g] = pc[g] /\ req'[g] = req[g]
      /\ pc' \in [Handle -> Steps] /\ req' \in [Handle -> Level]
      /\ cnt' \in [Handle -> 0 .. PendingTries]
  BY <1>0, CallDoes DEF Steps, Level
<1>2. local[h]["reserved"] = UNLOCKED
  BY <1>0 DEF Level
<1>3. /\ TableInv' /\ StaleRange'
      /\ local'[h]["reserved"] = Obtained("reserved", SHARED)
      /\ \A c \in Byte \ {"reserved"} : local'[h][c] = local[h][c]
      /\ \A g \in Handle \ {h} : local'[g] = local[g]
  BY <1>0, <1>2, LockingStep
<1>4. FilesTyped'
  BY <1>0, <1>1 DEF FilesTyped
<1>5. HandleInv(h)'
  <2>1. build' = "NT" => local'[h]["reserved"] = SHARED
    BY <1>0, <1>3 DEF Obtained
  <2>2. /\ local'[h]["shared"] = local[h]["shared"]
        /\ local'[h]["pending"] = local[h]["pending"]
    BY <1>3
  <2>3. QED
    BY <1>0, <1>1, <2>1, <2>2 DEF Level
<1>6. \A g \in Handle \ {h} : Same(g)
  BY <1>0, <1>1, <1>3 DEF Same
<1>7. QED
  BY <1>0, <1>3, <1>4, <1>5, <1>6, StepKeepsInv

LEMMA EndCheckReservedLockInv ==
  ASSUME IInv, NEW h \in Handle, EndCheckReservedLock(h)
  PROVE  IInv'
<1> USE DEF HandleInv, LocksFit, CallOK, FileOK, PendingIs, SharedIs, Applies,
           WithPending, UnlockPc, Byte, UNLOCKED, SHARED, EXCLUSIVE,
           NO_LOCK, SHARED_LOCK, RESERVED_LOCK, PENDING_LOCK, EXCLUSIVE_LOCK
<1>0. /\ FilesTyped /\ HandleInv(h) /\ pc[h] = "unprobe"
      /\ UNCHANGED <<build, status, locktype>>
      /\ UnlockFile(h, "reserved") /\ Return(h)
  BY DEF IInv, EndCheckReservedLock, fileVars
<1>1. /\ pc'[h] = "idle" /\ req'[h] = NO_LOCK
      /\ \A g \in Handle \ {h} : pc'[g] = pc[g] /\ req'[g] = req[g]
      /\ pc' \in [Handle -> Steps] /\ req' \in [Handle -> Level]
      /\ cnt' \in [Handle -> 0 .. PendingTries]
  BY <1>0, ReturnDoes
<1>2. /\ TableInv' /\ StaleRange'
      /\ local'[h]["reserved"] = UNLOCKED
      /\ \A c \in Byte \ {"reserved"} : local'[h][c] = local[h][c]
      /\ \A g \in Handle \ {h} : local'[g] = local[g]
  BY <1>0, UnlockingStep
<1>3. FilesTyped'
  BY <1>0, <1>1 DEF FilesTyped
<1>4. HandleInv(h)'
  BY <1>0, <1>1, <1>2
<1>5. \A g \in Handle \ {h} : Same(g)
  BY <1>0, <1>1, <1>2 DEF Same
<1>6. QED
  BY <1>0, <1>2, <1>3, <1>4, <1>5, StepKeepsInv

(* The steps of winUnlock come in order, and none that applies is skipped. *)
LEMMA UnlockOrder ==
  ASSUME NEW h, NEW i \in 0 .. 5, NEW level, StepsAfter(h, i, level) # {}
  PROVE  \E j \in i + 1 .. 5 :
           /\ FirstOf(StepsAfter(h, i, level)) = UnlockSteps[j]
           /\ Applies(h, UnlockSteps[j], level)
           /\ \A k \in i + 1 .. j - 1 : ~Applies(h, UnlockSteps[k], level)
<1> DEFINE S == StepsAfter(h, i, level)
<1>1. S = {j \in i + 1 .. 5 : Applies(h, UnlockSteps[j], level)}
  BY DEF StepsAfter
<1>2. \A j \in S : j \in 1 .. 5
  BY <1>1
<1> HIDE DEF S
<1>3. \E j \in S : \A k \in S : j <= k
  <2>1. \E j \in S : j \in 1 .. 5
    BY <1>2 DEF S
  <2>2. CASE 1 \in S
    BY <1>2, <2>2
  <2>3. CASE 1 \notin S /\ 2 \in S
    BY <1>2, <2>3
  <2>4. CASE 1 \notin S /\ 2 \notin S /\ 3 \in S
    BY <1>2, <2>4
  <2>5. CASE 1 \notin S /\ 2 \notin S /\ 3 \notin S /\ 4 \in S
    BY <1>2, <2>5
  <2>6. CASE 1 \notin S /\ 2 \notin S /\ 3 \notin S /\ 4 \notin S
    BY <1>2, <2>1, <2>6
  <2>7. QED
    BY <2>2, <2>3, <2>4, <2>5, <2>6
<1> DEFINE m == CHOOSE j \in S : \A k \in S : j <= k
<1>4. m \in S /\ \A k \in S : m <= k
  BY <1>3
<1>5. FirstOf(S) = UnlockSteps[m]
  BY DEF FirstOf
<1> HIDE DEF m
<1>6. m \in i + 1 .. 5 /\ Applies(h, UnlockSteps[m], level)
  BY <1>1, <1>4
<1>7. \A k \in i + 1 .. m - 1 : ~Applies(h, UnlockSteps[k], level)
  BY <1>1, <1>4, <1>6
<1>8. QED
  BY <1>5, <1>6, <1>7 DEF S

LEMMA StepNames ==
  /\ UnlockSteps[1] = "unlkShared" /\ UnlockSteps[2] = "regain"
  /\ UnlockSteps[3] = "unlkReserved" /\ UnlockSteps[4] = "unlkRead"
  /\ UnlockSteps[5] = "unlkPending"
BY DEF UnlockSteps

LEMMA WhichStepsApply ==
  ASSUME NEW h, NEW level, NEW j \in 1 .. 5
  PROVE  Applies(h, UnlockSteps[j], level) <=>
           /\ j \in {1, 2} => locktype[h] >= EXCLUSIVE_LOCK
           /\ j = 2 => level = SHARED_LOCK
           /\ j = 3 => locktype[h] >= RESERVED_LOCK
           /\ j = 4 => level = NO_LOCK
           /\ j = 5 => locktype[h] >= PENDING_LOCK
<1>1. CASE j = 1
  BY <1>1, StepNames DEF Applies
<1>2. CASE j = 2
  BY <1>2, StepNames DEF Applies
<1>3. CASE j = 3
  BY <1>3, StepNames DEF Applies
<1>4. CASE j = 4
  BY <1>4, StepNames DEF Applies
<1>5. CASE j = 5
  BY <1>5, StepNames DEF Applies
<1>6. QED
  BY <1>1, <1>2, <1>3, <1>4, <1>5

UnlockNext(h) ==
  IF pc[h] = "unlkShared"
  THEN IF req[h] = SHARED_LOCK THEN "regain" ELSE "unlkReserved"
  ELSE IF pc[h] = "regain" THEN "unlkReserved"
  ELSE IF pc[h] = "unlkReserved" /\ req[h] = NO_LOCK THEN "unlkRead"
  ELSE IF pc[h] \in {"unlkReserved", "unlkRead"} /\ locktype[h] >= PENDING_LOCK
  THEN "unlkPending" ELSE "idle"

LEMMA NextUnlockStep ==
  ASSUME NEW h, locktype[h] \in Level, CallOK(h), NEW i \in 1 .. 5, pc[h] = UnlockSteps[i]
  PROVE  /\ StepsAfter(h, i, req[h]) = {} => UnlockNext(h) = "idle"
         /\ StepsAfter(h, i, req[h]) # {} => FirstOf(StepsAfter(h, i, req[h])) = UnlockNext(h)
<1> USE DEF NO_LOCK, SHARED_LOCK, RESERVED_LOCK, PENDING_LOCK, EXCLUSIVE_LOCK, Level
<1> DEFINE rq == req[h]
           lt == locktype[h]
           Ap(j) == /\ j \in {1, 2} => lt >= EXCLUSIVE_LOCK
                    /\ j = 2 => rq = SHARED_LOCK
                    /\ j = 3 => lt >= RESERVED_LOCK
                    /\ j = 4 => rq = NO_LOCK
                    /\ j = 5 => lt >= PENDING_LOCK
<1>0. /\ pc[h] \in UnlockPc
      /\ rq \in {NO_LOCK, SHARED_LOCK} /\ lt > rq /\ lt \in 0 .. 4
      /\ Ap(i)
  BY StepNames, WhichStepsApply DEF CallOK, UnlockPc
<1>1. \A j \in 1 .. 5 : Applies(h, UnlockSteps[j], rq) <=> Ap(j)
  BY WhichStepsApply
<1>2. CASE StepsAfter(h, i, rq) = {}
  <2>1. \A j \in i + 1 .. 5 : ~Ap(j)
    BY <1>1, <1>2 DEF StepsAfter
  <2>2. QED
    BY <1>0, <1>2, <2>1, StepNames DEF UnlockNext
<1>3. CASE StepsAfter(h, i, rq) # {}
  <2>1. PICK j \in i + 1 .. 5 :
          /\ FirstOf(StepsAfter(h, i, rq)) = UnlockSteps[j]
          /\ Applies(h, UnlockSteps[j], rq)
          /\ \A k \in i + 1 .. j - 1 : ~Applies(h, UnlockSteps[k], rq)
    BY <1>3, UnlockOrder
  <2>2. Ap(j) /\ \A k \in i + 1 .. j - 1 : ~Ap(k)
    BY <1>1, <2>1
  <2>3. UnlockNext(h) = UnlockSteps[j]
    <3>1. CASE i = 1
      BY <1>0, <2>2, <3>1, StepNames DEF UnlockNext
    <3>2. CASE i = 2
      BY <1>0, <2>2, <3>2, StepNames DEF UnlockNext
    <3>3. CASE i = 3
      BY <1>0, <2>2, <3>3, StepNames DEF UnlockNext
    <3>4. CASE i \in {4, 5}
      BY <1>0, <2>2, <3>4, StepNames DEF UnlockNext
    <3>5. QED
      BY <3>1, <3>2, <3>3, <3>4
  <2>4. QED
    BY <1>3, <2>1, <2>3
<1>4. QED
  BY <1>2, <1>3

LEMMA UnlockInv ==
  ASSUME IInv, NEW h \in Handle, NEW level \in {NO_LOCK, SHARED_LOCK}, Unlock(h, level)
  PROVE  IInv'
<1> USE DEF HandleInv, LocksFit, CallOK, FileOK, PendingIs, SharedIs,
           WithPending, UnlockPc, Byte, UNLOCKED, SHARED, EXCLUSIVE, Level,
           NO_LOCK, SHARED_LOCK, RESERVED_LOCK, PENDING_LOCK, EXCLUSIVE_LOCK
<1>0. /\ FilesTyped /\ HandleInv(h) /\ pc[h] = "idle" /\ status[h] = "open"
      /\ UNCHANGED <<build, local, shared, status, locktype>>
      /\ locktype[h] > level /\ locktype[h] \in Level
      /\ Call(h, FirstOf(StepsAfter(h, 0, level)), level)
  BY DEF IInv, Unlock, CanCall, lockFileVars, fileVars, FilesTyped
<1>1. StepsAfter(h, 0, level) # {}
  <2>1. \E j \in 1 .. 5 : Applies(h, UnlockSteps[j], level)
    <3>1. CASE level = NO_LOCK
      BY <3>1, WhichStepsApply
    <3>2. CASE level = SHARED_LOCK
      BY <1>0, <3>2, WhichStepsApply
    <3>3. QED
      BY <3>1, <3>2
  <2>2. QED
    BY <2>1 DEF StepsAfter
<1>2. PICK j \in 1 .. 5 :
        /\ FirstOf(StepsAfter(h, 0, level)) = UnlockSteps[j]
        /\ Applies(h, UnlockSteps[j], level)
        /\ \A k \in 1 .. j - 1 : ~Applies(h, UnlockSteps[k], level)
  BY <1>1, UnlockOrder
<1>3. \/ j = 1 /\ locktype[h] = EXCLUSIVE_LOCK
      \/ j = 3 /\ locktype[h] \in {RESERVED_LOCK, PENDING_LOCK}
      \/ j = 4 /\ locktype[h] = SHARED_LOCK /\ level = NO_LOCK
  BY <1>0, <1>2, WhichStepsApply
<1>4. UnlockSteps[j] \in Steps /\ UnlockSteps[j] \in UnlockPc
  BY <1>3, StepNames DEF Steps
<1>5. /\ pc'[h] = UnlockSteps[j] /\ req'[h] = level
      /\ \A g \in Handle \ {h} : pc'[g] = pc[g] /\ req'[g] = req[g]
      /\ pc' \in [Handle -> Steps] /\ req' \in [Handle -> Level]
      /\ cnt' \in [Handle -> 0 .. PendingTries]
  BY <1>0, <1>2, <1>4, CallDoes
<1>6. TableInv' /\ StaleRange'
  BY <1>0, IdleStep DEF lockFileVars
<1>7. FilesTyped'
  BY <1>0, <1>5 DEF FilesTyped
<1>8. Applies(h, UnlockSteps[j], level)'
  BY <1>0, <1>2 DEF Applies
<1>9. HandleInv(h)'
  <2>1. CASE j = 1
    BY <1>0, <1>3, <1>5, <1>8, <2>1, StepNames
  <2>2. CASE j = 3
    BY <1>0, <1>3, <1>5, <1>8, <2>2, StepNames
  <2>3. CASE j = 4
    BY <1>0, <1>3, <1>5, <1>8, <2>3, StepNames
  <2>4. QED
    BY <1>3, <2>1, <2>2, <2>3
<1>10. \A g \in Handle \ {h} : Same(g)
  BY <1>0, <1>5 DEF Same
<1>11. QED
  BY <1>0, <1>6, <1>7, <1>9, <1>10, StepKeepsInv

LEMMA UnlockGoesOn ==
  ASSUME IInv, NEW h \in Handle, UnlockStep(h)
  PROVE  /\ pc'[h] = UnlockNext(h)
         /\ UnlockNext(h) # "idle" => req'[h] = req[h] /\ locktype'[h] = locktype[h]
         /\ UnlockNext(h) = "idle" => req'[h] = NO_LOCK /\ locktype'[h] = req[h]
         /\ \A g \in Handle \ {h} :
              pc'[g] = pc[g] /\ req'[g] = req[g] /\ locktype'[g] = locktype[g]
         /\ UNCHANGED <<build, status>>
         /\ FilesTyped'
         /\ pc[h] \in UnlockPc
<1>0. /\ FilesTyped /\ CallOK(h) /\ locktype[h] \in Level /\ req[h] \in Level
      /\ UNCHANGED <<build, status>>
  BY DEF IInv, HandleInv, FilesTyped, UnlockStep
<1>1. PICK i \in 1 .. 5 :
        /\ pc[h] = UnlockSteps[i]
        /\ IF StepsAfter(h, i, req[h]) = {} THEN SetLevel(h, req[h]) /\ Return(h)
           ELSE Goto(h, FirstOf(StepsAfter(h, i, req[h]))) /\ UNCHANGED locktype
  BY DEF UnlockStep
<1>2. pc[h] \in UnlockPc
  BY <1>1, StepNames DEF UnlockPc
<1>3. CASE StepsAfter(h, i, req[h]) = {}
  <2>1. UnlockNext(h) = "idle"
    BY <1>0, <1>1, <1>3, NextUnlockStep
  <2>2. /\ locktype'[h] = req[h]
        /\ \A g \in Handle \ {h} : locktype'[g] = locktype[g]
        /\ locktype' \in [Handle -> Level]
    BY <1>0, <1>1, <1>3, SetLevelDoes
  <2>3. /\ pc'[h] = "idle" /\ req'[h] = NO_LOCK
        /\ \A g \in Handle \ {h} : pc'[g] = pc[g] /\ req'[g] = req[g]
        /\ pc' \in [Handle -> Steps] /\ req' \in [Handle -> Level]
        /\ cnt' \in [Handle -> 0 .. PendingTries]
    BY <1>0, <1>1, <1>3, ReturnDoes
  <2>4. FilesTyped'
    BY <1>0, <2>2, <2>3 DEF FilesTyped
  <2>5. QED
    BY <1>0, <1>2, <2>1, <2>2, <2>3, <2>4
<1>4. CASE StepsAfter(h, i, req[h]) # {}
  <2>1. /\ FirstOf(StepsAfter(h, i, req[h])) = UnlockNext(h)
        /\ UnlockNext(h) # "idle"
    <3>1. FirstOf(StepsAfter(h, i, req[h])) = UnlockNext(h)
      BY <1>0, <1>1, <1>4, NextUnlockStep
    <3>2. PICK j \in i + 1 .. 5 : FirstOf(StepsAfter(h, i, req[h])) = UnlockSteps[j]
      BY <1>4, UnlockOrder
    <3>3. j \in 1 .. 5
      OBVIOUS
    <3>4. UnlockSteps[j] # "idle"
      BY <3>3, StepNames
    <3>5. QED
      BY <3>1, <3>2, <3>4
  <2>2. UnlockNext(h) \in Steps
    BY DEF UnlockNext, Steps, UnlockPc
  <2>3. Goto(h, UnlockNext(h)) /\ UNCHANGED locktype
    BY <1>1, <1>4, <2>1
  <2>4. /\ pc'[h] = UnlockNext(h) /\ req' = req
        /\ \A g \in Handle \ {h} : pc'[g] = pc[g]
        /\ pc' \in [Handle -> Steps] /\ req' \in [Handle -> Level]
        /\ cnt' \in [Handle -> 0 .. PendingTries]
    BY <1>0, <2>2, <2>3, GotoDoes
  <2>5. FilesTyped'
    BY <1>0, <2>3, <2>4 DEF FilesTyped
  <2>6. QED
    BY <1>0, <1>2, <2>1, <2>3, <2>4, <2>5
<1>5. QED
  BY <1>3, <1>4

(* What a step of winUnlock does to the lock on byte b.                    *)
LEMMA UnlockStepTable ==
  ASSUME IInv, EveryHandleLocks, NEW h \in Handle, UnlockStep(h)
  PROVE  \E b \in Byte :
           /\ TableInv' /\ StaleRange'
           /\ pc[h] \in {"unlkShared", "unlkRead"} => b = "shared" /\ local'[h][b] = UNLOCKED
           /\ pc[h] = "regain" => b = "shared" /\ local'[h][b] = SHARED
           /\ pc[h] = "unlkReserved" => b = "reserved" /\ local'[h][b] = UNLOCKED
           /\ pc[h] = "unlkPending" => b = "pending" /\ local'[h][b] = UNLOCKED
           /\ \A c \in Byte \ {b} : local'[h][c] = local[h][c]
           /\ \A g \in Handle \ {h} : local'[g] = local[g]
<1>0. build' = build
  BY DEF UnlockStep
<1>1. \/ pc[h] \in {"unlkShared", "unlkRead"} /\ UnlockFile(h, "shared")
      \/ pc[h] = "regain" /\ ReadAgain(h)
      \/ pc[h] = "unlkReserved" /\ UnlockFile(h, "reserved")
      \/ pc[h] = "unlkPending" /\ UnlockFile(h, "pending")
  BY DEF UnlockStep
<1>2. "shared" \in Byte /\ "reserved" \in Byte /\ "pending" \in Byte
  BY DEF Byte
<1>3. CASE pc[h] \in {"unlkShared", "unlkRead"} /\ UnlockFile(h, "shared")
  <2>1. /\ TableInv' /\ StaleRange'
        /\ local'[h]["shared"] = UNLOCKED
        /\ \A c \in Byte \ {"shared"} : local'[h][c] = local[h][c]
        /\ \A g \in Handle \ {h} : local'[g] = local[g]
    BY <1>0, <1>2, <1>3, UnlockingStep
  <2>2. QED
    BY <1>2, <1>3, <2>1
<1>4. CASE pc[h] = "regain" /\ ReadAgain(h)
  <2>1. /\ TableInv' /\ StaleRange'
        /\ local'[h]["shared"] = SHARED
        /\ \A c \in Byte \ {"shared"} : local'[h][c] = local[h][c]
        /\ \A g \in Handle \ {h} : local'[g] = local[g]
    BY <1>0, <1>4, ReadAgainStep
  <2>2. QED
    BY <1>2, <1>4, <2>1
<1>5. CASE pc[h] = "unlkReserved" /\ UnlockFile(h, "reserved")
  <2>1. /\ TableInv' /\ StaleRange'
        /\ local'[h]["reserved"] = UNLOCKED
        /\ \A c \in Byte \ {"reserved"} : local'[h][c] = local[h][c]
        /\ \A g \in Handle \ {h} : local'[g] = local[g]
    BY <1>0, <1>2, <1>5, UnlockingStep
  <2>2. QED
    BY <1>2, <1>5, <2>1
<1>6. CASE pc[h] = "unlkPending" /\ UnlockFile(h, "pending")
  <2>1. /\ TableInv' /\ StaleRange'
        /\ local'[h]["pending"] = UNLOCKED
        /\ \A c \in Byte \ {"pending"} : local'[h][c] = local[h][c]
        /\ \A g \in Handle \ {h} : local'[g] = local[g]
    BY <1>0, <1>2, <1>6, UnlockingStep
  <2>2. QED
    BY <1>2, <1>6, <2>1
<1>7. QED
  BY <1>1, <1>3, <1>4, <1>5, <1>6

LEMMA UnlockStepInv ==
  ASSUME IInv, EveryHandleLocks, NEW h \in Handle, UnlockStep(h)
  PROVE  IInv'
<1> USE DEF HandleInv, LocksFit, CallOK, FileOK, PendingIs, SharedIs, Applies,
           WithPending, UnlockPc, Byte, UNLOCKED, SHARED, EXCLUSIVE, Level,
           NO_LOCK, SHARED_LOCK, RESERVED_LOCK, PENDING_LOCK, EXCLUSIVE_LOCK
<1>0. HandleInv(h) /\ locktype[h] \in Level
  BY DEF IInv, FilesTyped
<1>1. /\ pc'[h] = UnlockNext(h)
      /\ UnlockNext(h) # "idle" => req'[h] = req[h] /\ locktype'[h] = locktype[h]
      /\ UnlockNext(h) = "idle" => req'[h] = NO_LOCK /\ locktype'[h] = req[h]
      /\ \A g \in Handle \ {h} : pc'[g] = pc[g] /\ req'[g] = req[g] /\ locktype'[g] = locktype[g]
      /\ UNCHANGED <<build, status>> /\ FilesTyped'
      /\ pc[h] \in UnlockPc
  BY UnlockGoesOn
<1>2. PICK b \in Byte :
        /\ TableInv' /\ StaleRange'
        /\ pc[h] \in {"unlkShared", "unlkRead"} => b = "shared" /\ local'[h][b] = UNLOCKED
        /\ pc[h] = "regain" => b = "shared" /\ local'[h][b] = SHARED
        /\ pc[h] = "unlkReserved" => b = "reserved" /\ local'[h][b] = UNLOCKED
        /\ pc[h] = "unlkPending" => b = "pending" /\ local'[h][b] = UNLOCKED
        /\ \A c \in Byte \ {b} : local'[h][c] = local[h][c]
        /\ \A g \in Handle \ {h} : local'[g] = local[g]
  BY UnlockStepTable
<1>3. HandleInv(h)'
  <2>1. CASE pc[h] = "unlkShared"
    BY <1>0, <1>1, <1>2, <2>1 DEF UnlockNext
  <2>2. CASE pc[h] = "regain"
    BY <1>0, <1>1, <1>2, <2>2 DEF UnlockNext
  <2>3. CASE pc[h] = "unlkReserved"
    BY <1>0, <1>1, <1>2, <2>3 DEF UnlockNext
  <2>4. CASE pc[h] = "unlkRead"
    BY <1>0, <1>1, <1>2, <2>4 DEF UnlockNext
  <2>5. CASE pc[h] = "unlkPending"
    BY <1>0, <1>1, <1>2, <2>5 DEF UnlockNext
  <2>6. QED
    BY <1>1, <2>1, <2>2, <2>3, <2>4, <2>5
<1>4. \A g \in Handle \ {h} : Same(g)
  BY <1>1, <1>2 DEF Same
<1>5. QED
  BY <1>1, <1>2, <1>3, <1>4, StepKeepsInv

LEMMA ClosedHoldsNothing ==
  ASSUME IInv, NEW g \in Handle, locktype[g] = NO_LOCK, pc[g] = "idle"
  PROVE  \A b \in Byte : local[g][b] = UNLOCKED
BY DEF IInv, HandleInv, LocksFit, PendingIs, SharedIs, WithPending, Byte,
       NO_LOCK, SHARED_LOCK, PENDING_LOCK

LEMMA OpenInv ==
  ASSUME IInv, EveryHandleLocks, NEW h \in Handle, Open(h)
  PROVE  IInv'
<1>0. /\ FilesTyped /\ HandleInv(h) /\ TableInv /\ StaleRange
      /\ status[h] = "closed" /\ status' = [status EXCEPT ![h] = "open"]
      /\ UNCHANGED <<build, local, locktype, pc, req, cnt>>
      /\ winceCreateLock(OpenHandles \ ReadOnly)
  BY DEF IInv, Open, callVars
<1>1. ASSUME build = "CE", OpenHandles \ ReadOnly = {}, NEW g \in Handle
      PROVE  \A b \in Byte : local[g][b] = UNLOCKED
  <2>1. ReadOnly = {}
    BY <1>0, <1>1 DEF EveryHandleLocks, FilesTyped
  <2>2. status[g] # "open"
    BY <1>1, <2>1 DEF OpenHandles
  <2>3. status[g] \in {"closed", "leaked"} /\ HandleInv(g)
    BY <1>0, <2>2 DEF FilesTyped, IInv
  <2>4. locktype[g] = NO_LOCK /\ pc[g] = "idle"
    BY <1>1, <2>2, <2>3 DEF HandleInv, FileOK
  <2>5. QED
    BY <2>4, ClosedHoldsNothing
<1>2. TableInv' /\ StaleRange'
  <2>1. build = "CE" /\ OpenHandles \ ReadOnly = {} =>
          \A g \in Handle, b \in Byte : local[g][b] = UNLOCKED
    BY <1>1
  <2>2. QED
    BY <1>0, <2>1, OpenKeepsTable
<1>3. FilesTyped'
  BY <1>0 DEF FilesTyped
<1>4. status'[h] = "open" /\ \A g \in Handle \ {h} : status'[g] = status[g]
  BY <1>0 DEF FilesTyped
<1>5. HandleInv(h)'
  BY <1>0, <1>4 DEF HandleInv, LocksFit, CallOK, FileOK, PendingIs, SharedIs, Applies
<1>6. \A g \in Handle \ {h} : Same(g)
  BY <1>0, <1>4 DEF Same
<1>7. QED
  BY <1>0, <1>2, <1>3, <1>5, <1>6, StepKeepsInv

(* A handle that is closed, or lost on CE, with all its locks.             *)
LEMMA HandleGone ==
  ASSUME IInv, NEW h \in Handle, NEW how \in {"closed", "leaked"}, pc[h] = "idle",
         status' = [status EXCEPT ![h] = how], SetLevel(h, NO_LOCK), DropLocks({h}),
         winceDestroyLock(h), UNCHANGED <<build, callVars>>
  PROVE  IInv'
<1>0. /\ FilesTyped /\ HandleInv(h) /\ TableInv /\ StaleRange /\ TableTyped
      /\ UNCHANGED <<build, pc, req, cnt>>
  BY DEF IInv, callVars, TableInv
<1>1. TableInv' /\ StaleRange'
  BY <1>0, CloseKeepsTable
<1>2. /\ \A b \in Byte : local'[h][b] = UNLOCKED
      /\ \A g \in Handle \ {h} : local'[g] = local[g]
  BY <1>0, DropLocksLocal
<1>3. /\ locktype'[h] = NO_LOCK
      /\ \A g \in Handle \ {h} : locktype'[g] = locktype[g]
      /\ locktype' \in [Handle -> Level]
  BY <1>0, SetLevelDoes DEF Level, NO_LOCK, EXCLUSIVE_LOCK
<1>4. /\ status'[h] = how
      /\ \A g \in Handle \ {h} : status'[g] = status[g]
      /\ status' \in [Handle -> {"closed", "open", "leaked"}]
  BY <1>0 DEF FilesTyped
<1>5. FilesTyped'
  BY <1>0, <1>3, <1>4 DEF FilesTyped
<1>6. HandleInv(h)'
  BY <1>0, <1>2, <1>3, <1>4 DEF HandleInv, LocksFit, CallOK, FileOK, PendingIs, SharedIs,
     WithPending, UnlockPc, Byte, NO_LOCK, SHARED_LOCK, RESERVED_LOCK, PENDING_LOCK,
     EXCLUSIVE_LOCK
<1>7. \A g \in Handle \ {h} : Same(g)
  BY <1>0, <1>2, <1>3, <1>4 DEF Same
<1>8. QED
  BY <1>0, <1>1, <1>5, <1>6, <1>7, StepKeepsInv

LEMMA CloseInv ==
  ASSUME IInv, NEW h \in Handle, Close(h)
  PROVE  IInv'
BY HandleGone DEF Close, CanCall

LEMMA CloseFailsInv ==
  ASSUME IInv, NEW h \in Handle, CloseFails(h)
  PROVE  IInv'
<1>0. /\ FilesTyped /\ HandleInv(h) /\ TableTyped /\ build \in {"NT", "CE"}
      /\ CanCall(h) /\ status' = [status EXCEPT ![h] = "leaked"]
      /\ winceDestroyLock(h) /\ UNCHANGED <<build, callVars>>
      /\ UNCHANGED <<pc, req, cnt>>
  BY DEF IInv, CloseFails, callVars, TableInv, TableTyped
<1>1. CASE build = "CE"
  BY <1>0, <1>1, HandleGone DEF CloseFails, CanCall
<1>2. CASE build = "NT"
  <2>1. UNCHANGED <<locktype, local>>
    BY <1>2 DEF CloseFails
  <2>2. shared' = shared
    BY <1>0, <1>2 DEF winceDestroyLock, TableTyped
  <2>3. TableInv' /\ StaleRange'
    BY <1>0, <2>1, <2>2, IdleStep DEF lockFileVars
  <2>4. /\ status'[h] = "leaked"
        /\ \A g \in Handle \ {h} : status'[g] = status[g]
        /\ status' \in [Handle -> {"closed", "open", "leaked"}]
    BY <1>0 DEF FilesTyped
  <2>5. FilesTyped'
    BY <1>0, <2>1, <2>4 DEF FilesTyped
  <2>6. HandleInv(h)'
    BY <1>0, <1>2, <2>1, <2>4 DEF CanCall, HandleInv, LocksFit, CallOK, FileOK, PendingIs,
       SharedIs, Applies
  <2>7. \A g \in Handle \ {h} : Same(g)
    BY <1>0, <2>1, <2>4 DEF Same
  <2>8. QED
    BY <1>0, <2>3, <2>5, <2>6, <2>7, StepKeepsInv
<1>3. QED
  BY <1>0, <1>1, <1>2

LEMMA CrashInv ==
  ASSUME IInv, NEW p \in Process, Crash(p)
  PROVE  IInv'
<1> DEFINE dead == {h \in Handle : ProcOf[h] = p}
<1>0. /\ FilesTyped /\ TableInv /\ StaleRange /\ TableTyped
      /\ UNCHANGED <<build, shared>> /\ DropLocks(dead)
      /\ build = "CE" =>
           Stale["nReaders"] + Cardinality({g \in dead : "nReaders" \in FieldsHeld(g)}) <= MaxLost
  BY DEF IInv, Crash, TableInv
<1>1. /\ status' = [h \in Handle |-> IF h \in dead THEN "closed" ELSE status[h]]
      /\ locktype' = [h \in Handle |-> IF h \in dead THEN NO_LOCK ELSE locktype[h]]
      /\ pc' = [h \in Handle |-> IF h \in dead THEN "idle" ELSE pc[h]]
      /\ req' = [h \in Handle |-> IF h \in dead THEN NO_LOCK ELSE req[h]]
      /\ cnt' = [h \in Handle |-> IF h \in dead THEN 0 ELSE cnt[h]]
  BY DEF Crash
<1>2. dead \in SUBSET Handle
  OBVIOUS
<1> HIDE DEF dead
<1>3. TableInv' /\ StaleRange'
  BY <1>0, <1>2, WholeRangeNeedsPending, CrashKeepsTable
<1>4. FilesTyped'
  BY <1>0, <1>1 DEF FilesTyped, Level, Steps, PendingTries, NO_LOCK, EXCLUSIVE_LOCK
<1>5. ASSUME NEW g \in Handle PROVE HandleInv(g)'
  <2>1. CASE g \in dead
    <3>1. \A b \in Byte : local'[g][b] = UNLOCKED
      BY <1>0, <1>2, <2>1, DropLocksLocal
    <3>2. /\ status'[g] = "closed" /\ locktype'[g] = NO_LOCK /\ pc'[g] = "idle"
      BY <1>1, <2>1
    <3>3. QED
      BY <3>1, <3>2 DEF HandleInv, LocksFit, CallOK, FileOK, PendingIs, SharedIs, WithPending,
         UnlockPc, Byte, NO_LOCK, SHARED_LOCK, RESERVED_LOCK, PENDING_LOCK, EXCLUSIVE_LOCK
  <2>2. CASE g \notin dead
    <3>1. local'[g] = local[g]
      BY <1>0, <1>2, <2>2, DropLocksLocal
    <3>2. Same(g)
      BY <1>1, <2>2, <3>1 DEF Same
    <3>3. HandleInv(g)
      BY DEF IInv
    <3>4. QED
      BY <1>0, <3>2, <3>3, SameKeepsInv
  <2>3. QED
    BY <2>1, <2>2
<1>6. QED
  BY <1>3, <1>4, <1>5 DEF IInv

LEMMA NextInv ==
  ASSUME IInv, EveryHandleLocks, [Next]_vars
  PROVE  IInv'
<1>1. CASE UNCHANGED vars
  <2>1. TableInv' /\ StaleRange'
    BY <1>1, IdleStep DEF vars
  <2>2. FilesTyped' /\ build' = build
    BY <1>1 DEF IInv, FilesTyped, vars, lockFileVars, fileVars, callVars
  <2>3. ASSUME NEW g \in Handle PROVE HandleInv(g)'
    <3>1. Same(g)
      BY <1>1 DEF Same, vars, lockFileVars, fileVars, callVars
    <3>2. QED
      BY <2>2, <3>1, SameKeepsInv DEF IInv
  <2>4. QED
    BY <2>1, <2>2, <2>3 DEF IInv
<1>2. ASSUME NEW h \in Handle, HandleStep(h) PROVE IInv'
  BY <1>2, LockPendingByteInv, GetReadLockInv, DropPendingByteInv, LockReservedByteInv,
     UnlockReadLockInv, LockSharedRangeInv, GetReadLockAgainInv, EndCheckReservedLockInv,
     UnlockStepInv DEF HandleStep
<1>3. ASSUME NEW h \in Handle, Begin(h) PROVE IInv'
  BY <1>3, OpenInv, LockInv, UnlockInv, CheckReservedLockInv, CloseInv, CloseFailsInv DEF Begin
<1>4. ASSUME NEW p \in Process, Crash(p) PROVE IInv'
  BY <1>4, CrashInv
<1>5. QED
  BY <1>1, <1>2, <1>3, <1>4 DEF Next

-----------------------------------------------------------------------------
(***************************************************************************)
(* Theorems                                                                *)
(***************************************************************************)
LEMMA Invariance ==
  ASSUME EveryHandleLocks PROVE Spec => []IInv
<1>1. Init => IInv
  BY InitInv
<1>2. IInv /\ [Next]_vars => IInv'
  BY NextInv
<1>3. QED
  BY <1>1, <1>2, PTL DEF Spec

(* Every variable of winLock and winUnlock stays in its range, and on CE   *)
(* no flag of the winceLock is set twice and no counter goes negative.     *)
THEOREM TypeCorrect ==
  ASSUME EveryHandleLocks PROVE Spec => []TypeOK
<1>0. Spec => []IInv
  BY Invariance
<1>1. IInv => TypeOK
  <2> SUFFICES ASSUME IInv PROVE TypeOK
    OBVIOUS
  <2>1. FilesTyped /\ TableTyped /\ Counted
    BY DEF IInv, TableInv
  <2>2. /\ Cardinality(Readers) <= Cardinality(Handle)
        /\ Cardinality(Handle) \in Nat /\ Cardinality(Readers) \in Nat /\ MaxLost \in Nat
    BY WinLockAssumption, FS_Subset, FS_CardinalityType DEF Readers
  <2>3. shared["nReaders"] \in Nat
    BY <2>1 DEF TableTyped, Field
  <2>4. build = "CE" => shared["nReaders"] <= MaxLost + Cardinality(Handle)
    BY <2>1, <2>2, <2>3 DEF Counted
  <2>5. QED
    BY <2>1, <2>4 DEF TypeOK, FilesTyped, TableTyped, Steps, WithPending, UnlockPc
<1>2. QED
  BY <1>0, <1>1, PTL

(* Between calls a handle holds exactly the locks its level stands for.    *)
THEOREM LevelsBacked ==
  ASSUME EveryHandleLocks PROVE Spec => []LocksMatchLevel
<1>0. Spec => []IInv
  BY Invariance
<1>1. IInv => LocksMatchLevel
  BY <1>1 DEF IInv, FilesTyped, HandleInv, LocksFit, PendingIs, SharedIs, LocksMatchLevel,
     WithPending, Level, NO_LOCK, SHARED_LOCK, RESERVED_LOCK, PENDING_LOCK, EXCLUSIVE_LOCK
<1>2. QED
  BY <1>0, <1>1, PTL

(* "We should always be able to reacquire the read lock": the attempt that *)
(* follows a failed or given up EXCLUSIVE lock succeeds.                   *)
THEOREM RegainAlwaysSucceeds ==
  ASSUME EveryHandleLocks PROVE Spec => []ReadLockRegained
<1>0. Spec => []IInv
  BY Invariance
<1>1. IInv => ReadLockRegained
  BY <1>1, ReadLockIsFree DEF ReadLockRegained
<1>2. QED
  BY <1>0, <1>1, PTL

(* winCheckReservedLock on NT never answers 1 without a RESERVED lock.     *)
THEOREM ReservedIsReal ==
  ASSUME EveryHandleLocks PROVE Spec => []NoPhantomReserved
<1>0. Spec => []IInv
  BY Invariance
<1>1. ASSUME IInv, build = "NT", NEW h \in Handle, CanCall(h), SeesReserved(h)
      PROVE  \E g \in Handle : locktype[g] >= RESERVED_LOCK
  <2>1. CASE locktype[h] >= RESERVED_LOCK
    BY <2>1
  <2>2. CASE ~Grantable(h, "reserved", SHARED)
    <3>1. PICK g \in Handle : local[g]["reserved"] # UNLOCKED /\ local[g]["reserved"] # SHARED
      BY <1>1, <2>2 DEF Grantable, LockFileExGrants
    <3>2. HandleInv(g) /\ locktype[g] \in Level
      BY <1>1 DEF IInv, FilesTyped
    <3>3. ~(locktype[g] <= SHARED_LOCK)
      BY <1>1, <3>1, <3>2 DEF HandleInv, LocksFit
    <3>4. QED
      BY <3>2, <3>3 DEF Level, NO_LOCK, SHARED_LOCK, RESERVED_LOCK, EXCLUSIVE_LOCK
  <2>3. QED
    BY <1>1, <2>1, <2>2 DEF SeesReserved, ProbeStrength
<1>2. IInv => NoPhantomReserved
  BY <1>1 DEF NoPhantomReserved
<1>3. QED
  BY <1>0, <1>2, PTL

(* What the level others see is backed by.                                 *)
LEMMA UnlockingPc ==
  ASSUME NEW h PROVE Unlocking(h) <=> pc[h] \in UnlockPc
<1>1. Unlocking(h) => pc[h] \in UnlockPc
  BY StepNames DEF Unlocking, UnlockPc
<1>2. ASSUME pc[h] \in UnlockPc PROVE \E i \in 1 .. 5 : pc[h] = UnlockSteps[i]
  <2>1. 1 \in 1 .. 5 /\ 2 \in 1 .. 5 /\ 3 \in 1 .. 5 /\ 4 \in 1 .. 5 /\ 5 \in 1 .. 5
    OBVIOUS
  <2>2. QED
    BY <1>2, <2>1, StepNames DEF UnlockPc
<1>3. QED
  BY <1>1, <1>2 DEF Unlocking

LEMMA HeldMeans ==
  ASSUME IInv, NEW g \in Handle
  PROVE  /\ Held(g) \in Level
         /\ Held(g) >= PENDING_LOCK => local[g]["pending"] = EXCLUSIVE
         /\ Held(g) = EXCLUSIVE_LOCK => local[g]["shared"] = EXCLUSIVE
         /\ Held(g) = RESERVED_LOCK => local[g]["reserved"] = EXCLUSIVE
         /\ Held(g) >= SHARED_LOCK =>
              local[g]["shared"] # UNLOCKED \/ local[g]["pending"] # UNLOCKED
<1> USE DEF NO_LOCK, SHARED_LOCK, RESERVED_LOCK, PENDING_LOCK, EXCLUSIVE_LOCK, Level,
            UNLOCKED, SHARED, EXCLUSIVE
<1>1. HandleInv(g) /\ locktype[g] \in Level /\ req[g] \in Level /\ pc[g] \in Steps
  BY DEF IInv, FilesTyped
<1>2. Held(g) = IF pc[g] \in {"unread", "exclusive", "reread"} THEN PENDING_LOCK
                ELSE IF pc[g] \in UnlockPc THEN req[g] ELSE locktype[g]
  BY UnlockingPc DEF Held, Upgrading
<1>3. CASE pc[g] \in {"unread", "exclusive", "reread"}
  BY <1>1, <1>2, <1>3 DEF HandleInv, LocksFit, PendingIs, WithPending
<1>4. CASE pc[g] \in UnlockPc
  BY <1>1, <1>2, <1>4 DEF HandleInv, LocksFit, CallOK, Applies, PendingIs, SharedIs, WithPending, UnlockPc
<1>5. CASE pc[g] \notin UnlockPc /\ pc[g] \notin {"unread", "exclusive", "reread"}
  BY <1>1, <1>2, <1>5 DEF HandleInv, LocksFit, CallOK, PendingIs, SharedIs, WithPending, UnlockPc, Steps
<1>6. QED
  BY <1>3, <1>4, <1>5

LEMMA ExclusionHolds ==
  ASSUME IInv PROVE Exclusion
<1>1. ASSUME NEW g \in Handle, NEW h \in Handle, g # h
      PROVE  /\ ~(Held(g) = EXCLUSIVE_LOCK /\ Held(h) >= SHARED_LOCK)
             /\ ~(Held(g) = RESERVED_LOCK /\ Held(h) = RESERVED_LOCK)
             /\ ~(Held(g) = PENDING_LOCK /\ Held(h) = PENDING_LOCK)
  <2>1. \A b \in {"pending", "reserved", "shared"} :
          local[g][b] = EXCLUSIVE => local[h][b] = UNLOCKED
    BY <1>1 DEF IInv, TableInv, Compatible, Byte, UNLOCKED, SHARED, EXCLUSIVE
  <2>2. QED
    BY <2>1, HeldMeans DEF Level, NO_LOCK, SHARED_LOCK, RESERVED_LOCK, PENDING_LOCK,
       EXCLUSIVE_LOCK, UNLOCKED, EXCLUSIVE
<1>2. QED
  BY <1>1 DEF Exclusion

(* An EXCLUSIVE lock precludes all others; at most one RESERVED, at most   *)
(* one PENDING.                                                            *)
THEOREM ExclusionCorrect ==
  ASSUME EveryHandleLocks PROVE Spec => []Exclusion
<1>0. Spec => []IInv
  BY Invariance
<1>1. IInv => Exclusion
  BY ExclusionHolds
<1>2. QED
  BY <1>0, <1>1, PTL

-----------------------------------------------------------------------------
(***************************************************************************)
(* Every step is a step of FileLevels.                                     *)
(***************************************************************************)
LEMMA HeldIs ==
  ASSUME NEW g
  PROVE  Held(g) = IF pc[g] \in {"unread", "exclusive", "reread"} THEN PENDING_LOCK
                   ELSE IF pc[g] \in UnlockPc THEN req[g] ELSE locktype[g]
BY UnlockingPc DEF Held, Upgrading

LEMMA HeldIsNext ==
  ASSUME NEW g
  PROVE  Held(g)' = IF pc'[g] \in {"unread", "exclusive", "reread"} THEN PENDING_LOCK
                    ELSE IF pc'[g] \in UnlockPc THEN req'[g] ELSE locktype'[g]
<1>1. Unlocking(g)' <=> pc'[g] \in UnlockPc
  <2>1. Unlocking(g)' => pc'[g] \in UnlockPc
    BY StepNames DEF Unlocking, UnlockPc
  <2>2. ASSUME pc'[g] \in UnlockPc PROVE \E i \in 1 .. 5 : pc'[g] = UnlockSteps[i]
    <3>1. 1 \in 1 .. 5 /\ 2 \in 1 .. 5 /\ 3 \in 1 .. 5 /\ 4 \in 1 .. 5 /\ 5 \in 1 .. 5
      OBVIOUS
    <3>2. QED
      BY <2>2, <3>1, StepNames DEF UnlockPc
  <2>3. QED
    BY <2>1, <2>2 DEF Unlocking
<1>2. QED
  BY <1>1 DEF Held, Upgrading

(* How the level of the handle that moves may change.                      *)
MayMove(old, new) ==
  \/ new = old
  \/ new < old /\ new \in {NO_LOCK, SHARED_LOCK}
  \/ old = NO_LOCK /\ new = SHARED_LOCK
  \/ old = SHARED_LOCK /\ new = RESERVED_LOCK
  \/ old \in {SHARED_LOCK, RESERVED_LOCK} /\ new = PENDING_LOCK
  \/ old \in {SHARED_LOCK, RESERVED_LOCK, PENDING_LOCK} /\ new = EXCLUSIVE_LOCK

LEMMA UnlockMoves ==
  ASSUME IInv, NEW h \in Handle, UnlockStep(h) PROVE Held(h)' = Held(h)
<1>1. /\ pc'[h] = UnlockNext(h)
      /\ UnlockNext(h) # "idle" => req'[h] = req[h] /\ locktype'[h] = locktype[h]
      /\ UnlockNext(h) = "idle" => req'[h] = NO_LOCK /\ locktype'[h] = req[h]
      /\ pc[h] \in UnlockPc
  BY UnlockGoesOn
<1>2. UnlockNext(h) = "idle" \/ UnlockNext(h) \in UnlockPc
  BY DEF UnlockNext, UnlockPc
<1>3. QED
  BY <1>1, <1>2, HeldIs, HeldIsNext DEF UnlockPc

LEMMA BeginMoves ==
  ASSUME IInv, NEW h \in Handle, Begin(h) PROVE MayMove(Held(h), Held(h)')
<1> USE DEF NO_LOCK, SHARED_LOCK, RESERVED_LOCK, PENDING_LOCK, EXCLUSIVE_LOCK, Level, MayMove
<1>0. /\ FilesTyped /\ locktype[h] \in Level /\ req[h] \in Level
  BY DEF IInv, FilesTyped
<1>1. CASE Open(h)
  <2>1. UNCHANGED <<pc, req, locktype>>
    BY <1>1 DEF Open, callVars
  <2>2. QED
    BY <2>1, HeldIs, HeldIsNext
<1>2. ASSUME NEW level \in {SHARED_LOCK, RESERVED_LOCK, EXCLUSIVE_LOCK}, Lock(h, level)
      PROVE  Held(h)' = Held(h) \/ (Held(h) \in {SHARED_LOCK, RESERVED_LOCK} /\ Held(h)' = PENDING_LOCK)
  <2>1. /\ pc[h] = "idle" /\ UNCHANGED locktype /\ LockSequenceOK(h, level)
        /\ pc' = [pc EXCEPT ![h] = IF NeedsPendingByte(h, level) THEN "pending"
                                   ELSE IF level = SHARED_LOCK THEN "read"
                                   ELSE IF level = RESERVED_LOCK THEN "reserve" ELSE "unread"]
    BY <1>2 DEF Lock, CanCall, Call, fileVars
  <2>2. CASE pc'[h] = "unread"
    <3>1. locktype[h] = PENDING_LOCK
      BY <1>0, <2>1, <2>2 DEF LockSequenceOK, NeedsPendingByte, FilesTyped
    <3>2. QED
      BY <2>1, <2>2, <3>1, HeldIs, HeldIsNext DEF UnlockPc
  <2>3. CASE pc'[h] \in {"pending", "read", "reserve"}
    BY <2>1, <2>3, HeldIs, HeldIsNext DEF UnlockPc
  <2>4. QED
    BY <1>0, <2>1, <2>2, <2>3 DEF FilesTyped
<1>3. ASSUME NEW level \in {NO_LOCK, SHARED_LOCK}, Unlock(h, level)
      PROVE  Held(h)' < Held(h) /\ Held(h)' \in {NO_LOCK, SHARED_LOCK}
  <2>1. /\ pc[h] = "idle" /\ UNCHANGED locktype /\ locktype[h] > level
        /\ req' = [req EXCEPT ![h] = level]
    BY <1>3 DEF Unlock, CanCall, Call, fileVars
  <2>2. req'[h] = level
    BY <1>0, <2>1 DEF FilesTyped
  <2>3. pc'[h] \in UnlockPc
    <3>1. StepsAfter(h, 0, level) # {}
      <4>1. \E j \in 1 .. 5 : Applies(h, UnlockSteps[j], level)
        <5>1. CASE level = NO_LOCK
          BY <5>1, WhichStepsApply
        <5>2. CASE level = SHARED_LOCK
          BY <1>0, <2>1, <5>2, WhichStepsApply
        <5>3. QED
          BY <5>1, <5>2
      <4>2. QED
        BY <4>1 DEF StepsAfter
    <3>2. PICK j \in 1 .. 5 : FirstOf(StepsAfter(h, 0, level)) = UnlockSteps[j]
      BY <3>1, UnlockOrder
    <3>3. pc'[h] = UnlockSteps[j]
      BY <1>0, <1>3, <3>2 DEF Unlock, Call, FilesTyped
    <3>4. QED
      BY <3>2, <3>3, StepNames DEF UnlockPc
  <2>4. QED
    BY <1>0, <2>1, <2>2, <2>3, HeldIs, HeldIsNext DEF UnlockPc
<1>4. CASE CheckReservedLock(h)
  <2>1. pc[h] = "idle" /\ UNCHANGED locktype /\ pc'[h] = "unprobe"
    BY <1>0, <1>4 DEF CheckReservedLock, CanCall, Call, fileVars, FilesTyped
  <2>2. QED
    BY <2>1, HeldIs, HeldIsNext DEF UnlockPc
<1>5. CASE Close(h) \/ CloseFails(h)
  <2>1. pc[h] = "idle" /\ UNCHANGED pc
    BY <1>5 DEF Close, CloseFails, CanCall, callVars
  <2>2. locktype'[h] \in {NO_LOCK, locktype[h]}
    BY <1>0, <1>5 DEF Close, CloseFails, SetLevel, FilesTyped
  <2>3. QED
    BY <1>0, <2>1, <2>2, HeldIs, HeldIsNext DEF UnlockPc
<1>6. QED
  BY <1>1, <1>2, <1>3, <1>4, <1>5 DEF Begin

LEMMA StepMoves ==
  ASSUME IInv, NEW h \in Handle, HandleStep(h) PROVE MayMove(Held(h), Held(h)')
<1> USE DEF NO_LOCK, SHARED_LOCK, RESERVED_LOCK, PENDING_LOCK, EXCLUSIVE_LOCK, Level, MayMove
<1>0. /\ FilesTyped /\ CallOK(h) /\ locktype[h] \in Level /\ req[h] \in Level
      /\ pc \in [Handle -> Steps] /\ locktype \in [Handle -> Level]
  BY DEF IInv, FilesTyped, HandleInv
<1>1. CASE LockPendingByte(h)
  <2>1. /\ pc[h] = "pending" /\ UNCHANGED locktype
        /\ pc'[h] \in {"pending", "read", "unread", "idle"}
        /\ pc'[h] = "unread" => req[h] # SHARED_LOCK
    BY <1>0, <1>1 DEF LockPendingByte, Goto, Return, Call, fileVars
  <2>2. pc'[h] = "unread" => locktype[h] \in {SHARED_LOCK, RESERVED_LOCK}
    BY <1>0, <2>1 DEF CallOK
  <2>3. QED
    BY <2>1, <2>2, HeldIs, HeldIsNext DEF UnlockPc
<1>2. CASE GetReadLock(h)
  <2>1. pc[h] = "read" /\ UNCHANGED locktype /\ pc'[h] \in {"unpend", "unpendFail"}
    BY <1>0, <1>2 DEF GetReadLock, Goto, fileVars
  <2>2. QED
    BY <2>1, HeldIs, HeldIsNext DEF UnlockPc
<1>3. CASE DropPendingByte(h)
  <2>1. /\ pc[h] \in {"unpend", "unpendFail"} /\ pc'[h] = "idle"
        /\ locktype'[h] \in {NO_LOCK, SHARED_LOCK}
    BY <1>0, <1>3 DEF DropPendingByte, Return, Call, SetLevel
  <2>2. locktype[h] = NO_LOCK
    BY <1>0, <2>1 DEF CallOK
  <2>3. QED
    BY <2>1, <2>2, HeldIs, HeldIsNext DEF UnlockPc
<1>4. CASE LockReservedByte(h)
  <2>1. /\ pc[h] = "reserve" /\ pc'[h] = "idle"
        /\ locktype'[h] \in {locktype[h], RESERVED_LOCK}
    BY <1>0, <1>4 DEF LockReservedByte, Return, Call, SetLevel
  <2>2. locktype[h] = SHARED_LOCK
    BY <1>0, <2>1 DEF CallOK
  <2>3. QED
    BY <2>1, <2>2, HeldIs, HeldIsNext DEF UnlockPc
<1>5. CASE UnlockReadLock(h)
  <2>1. pc[h] = "unread" /\ pc'[h] = "exclusive"
    BY <1>0, <1>5 DEF UnlockReadLock, Goto
  <2>2. QED
    BY <2>1, HeldIs, HeldIsNext
<1>6. CASE LockSharedRange(h)
  <2>1. /\ pc[h] = "exclusive"
        /\ \/ pc'[h] = "idle" /\ locktype'[h] = EXCLUSIVE_LOCK
           \/ pc'[h] = "reread"
    BY <1>0, <1>6 DEF LockSharedRange, Goto, Return, Call, SetLevel
  <2>2. QED
    BY <2>1, HeldIs, HeldIsNext DEF UnlockPc
<1>7. CASE GetReadLockAgain(h)
  <2>1. pc[h] = "reread" /\ pc'[h] = "idle" /\ locktype'[h] = PENDING_LOCK
    BY <1>0, <1>7 DEF GetReadLockAgain, Return, Call, SetLevel
  <2>2. QED
    BY <2>1, HeldIs, HeldIsNext DEF UnlockPc
<1>8. CASE EndCheckReservedLock(h)
  <2>1. pc[h] = "unprobe" /\ UNCHANGED locktype /\ pc'[h] = "idle"
    BY <1>0, <1>8 DEF EndCheckReservedLock, Return, Call, fileVars
  <2>2. QED
    BY <2>1, HeldIs, HeldIsNext DEF UnlockPc
<1>9. CASE UnlockStep(h)
  BY <1>9, UnlockMoves
<1>10. QED
  BY <1>1, <1>2, <1>3, <1>4, <1>5, <1>6, <1>7, <1>8, <1>9 DEF HandleStep

LEMMA OthersStay ==
  ASSUME IInv, NEW h \in Handle, HandleStep(h) \/ Begin(h), NEW g \in Handle \ {h}
  PROVE  Held(g)' = Held(g) /\ locktype'[g] = locktype[g]
<1>0. /\ FilesTyped /\ pc \in [Handle -> Steps] /\ req \in [Handle -> Level]
      /\ locktype \in [Handle -> Level]
  BY DEF IInv, FilesTyped
<1>1. pc'[g] = pc[g] /\ req'[g] = req[g] /\ locktype'[g] = locktype[g]
  <2>1. CASE UnlockStep(h)
    BY <2>1, UnlockGoesOn
  <2>2. CASE \/ LockPendingByte(h) \/ GetReadLock(h) \/ DropPendingByte(h) \/ LockReservedByte(h)
             \/ UnlockReadLock(h) \/ LockSharedRange(h) \/ GetReadLockAgain(h)
             \/ EndCheckReservedLock(h)
    BY <1>0, <2>2 DEF LockPendingByte, GetReadLock, DropPendingByte, LockReservedByte,
       UnlockReadLock, LockSharedRange, GetReadLockAgain, EndCheckReservedLock,
       Goto, Return, Call, SetLevel, fileVars
  <2>3. CASE \/ \E level \in {SHARED_LOCK, RESERVED_LOCK, EXCLUSIVE_LOCK} : Lock(h, level)
             \/ \E level \in {NO_LOCK, SHARED_LOCK} : Unlock(h, level)
    BY <1>0, <2>3 DEF Lock, Unlock, Call, fileVars
  <2>4. CASE Open(h) \/ CheckReservedLock(h) \/ Close(h) \/ CloseFails(h)
    BY <1>0, <2>4 DEF Open, CheckReservedLock, Close, CloseFails, Call, SetLevel, fileVars, callVars
  <2>5. QED
    BY <2>1, <2>2, <2>3, <2>4 DEF HandleStep, Begin
<1>2. QED
  BY <1>1, HeldIs, HeldIsNext

HeldTyped == \A g \in Handle : Held(g) \in Level

LEMMA ExclusionNext == IInv' => Exclusion' /\ HeldTyped'
<1>1. IInv => Exclusion /\ HeldTyped
  BY ExclusionHolds, HeldMeans DEF HeldTyped
<1>2. QED
  BY <1>1, PTL

LEMMA MoveIsAllowed ==
  ASSUME IInv, IInv', NEW h \in Handle, MayMove(Held(h), Held(h)'),
         \A g \in Handle \ {h} : Held(g)' = Held(g)
  PROVE  Levels!Next \/ UNCHANGED [g \in Handle |-> Held(g)]
<1> USE DEF NO_LOCK, SHARED_LOCK, RESERVED_LOCK, PENDING_LOCK, EXCLUSIVE_LOCK,
            Levels!Free, Levels!Shared, Levels!Reserved, Levels!Pending, Levels!Exclusive
<1>1. \A g \in Handle \ {h} :
        /\ ~(Held(g) = EXCLUSIVE_LOCK /\ Held(h)' >= SHARED_LOCK)
        /\ ~(Held(h)' = EXCLUSIVE_LOCK /\ Held(g) >= SHARED_LOCK)
        /\ ~(Held(g) = RESERVED_LOCK /\ Held(h)' = RESERVED_LOCK)
        /\ ~(Held(g) = PENDING_LOCK /\ Held(h)' = PENDING_LOCK)
  BY ExclusionNext DEF Exclusion
<1>2. /\ Held(h)' \in 0 .. 4 /\ Held(h) \in 0 .. 4
      /\ \A g \in Handle : Held(g) \in 0 .. 4
  BY ExclusionNext, HeldMeans DEF HeldTyped, Level
<1>3. Levels!Raise(h, Held(h)')
  BY DEF Levels!Raise
<1>4. CASE Held(h)' = Held(h)
  BY <1>4
<1>5. CASE Held(h)' < Held(h) /\ Held(h)' \in {NO_LOCK, SHARED_LOCK}
  <2>1. Levels!Lower(h, Held(h)')
    BY <1>3, <1>5 DEF Levels!Lower
  <2>2. QED
    BY <1>5, <2>1 DEF Levels!Next
<1>6. CASE Held(h) = NO_LOCK /\ Held(h)' = SHARED_LOCK
  <2>1. Levels!AcquireShared(h)
    BY <1>1, <1>3, <1>6 DEF Levels!AcquireShared, Levels!Others
  <2>2. QED
    BY <2>1 DEF Levels!Next
<1>7. CASE Held(h) = SHARED_LOCK /\ Held(h)' = RESERVED_LOCK
  <2>1. Levels!AcquireReserved(h)
    BY <1>1, <1>3, <1>7 DEF Levels!AcquireReserved, Levels!Others
  <2>2. QED
    BY <2>1 DEF Levels!Next
<1>8. CASE Held(h) \in {SHARED_LOCK, RESERVED_LOCK} /\ Held(h)' = PENDING_LOCK
  <2>1. Levels!AcquirePending(h)
    BY <1>1, <1>3, <1>8 DEF Levels!AcquirePending, Levels!Others
  <2>2. QED
    BY <2>1 DEF Levels!Next
<1>9. CASE Held(h) \in {SHARED_LOCK, RESERVED_LOCK, PENDING_LOCK} /\ Held(h)' = EXCLUSIVE_LOCK
  <2>1. Levels!AcquireExclusive(h)
    BY <1>1, <1>3, <1>9 DEF Levels!AcquireExclusive, Levels!Others
  <2>2. QED
    BY <2>1 DEF Levels!Next
<1>10. QED
  BY <1>4, <1>5, <1>6, <1>7, <1>8, <1>9 DEF MayMove

LEMMA CrashIsAllowed ==
  ASSUME IInv, NEW p \in Process, Crash(p)
  PROVE  Levels!Next
<1> DEFINE dead == {h \in Handle : ProcOf[h] = p}
<1>1. /\ locktype' = [h \in Handle |-> IF h \in dead THEN NO_LOCK ELSE locktype[h]]
      /\ pc' = [h \in Handle |-> IF h \in dead THEN "idle" ELSE pc[h]]
      /\ req' = [h \in Handle |-> IF h \in dead THEN NO_LOCK ELSE req[h]]
  BY DEF Crash
<1> HIDE DEF dead
<1>2. \A h \in Handle : Held(h)' \in {Held(h), Levels!Free}
  BY <1>1, HeldIs, HeldIsNext DEF UnlockPc, NO_LOCK, Levels!Free
<1>3. Levels!Lose
  BY <1>2 DEF Levels!Lose
<1>4. QED
  BY <1>3 DEF Levels!Next

(* On NT, and on CE without read-only handles, the locking protocol grants *)
(* and takes back levels exactly as FileLevels allows, whatever the number *)
(* of processes and handles.                                               *)
THEOREM Refinement ==
  ASSUME EveryHandleLocks PROVE Spec => ImplementsFileLevels
<1>1. Init => Levels!Init
  BY HeldIs DEF Init, Levels!Init, Levels!Free, UnlockPc, NO_LOCK
<1>2. IInv /\ IInv' /\ [Next]_vars => [Levels!Next]_([h \in Handle |-> Held(h)])
  <2> SUFFICES ASSUME IInv, IInv', [Next]_vars
               PROVE  Levels!Next \/ UNCHANGED [h \in Handle |-> Held(h)]
    OBVIOUS
  <2>1. CASE UNCHANGED vars
    <3>1. \A h \in Handle : Held(h)' = Held(h)
      BY <2>1, HeldIs, HeldIsNext DEF vars, fileVars, callVars
    <3>2. QED
      BY <3>1
  <2>2. ASSUME NEW h \in Handle, HandleStep(h)
        PROVE  Levels!Next \/ UNCHANGED [g \in Handle |-> Held(g)]
    BY <2>2, StepMoves, OthersStay, MoveIsAllowed
  <2>3. ASSUME NEW h \in Handle, Begin(h)
        PROVE  Levels!Next \/ UNCHANGED [g \in Handle |-> Held(g)]
    BY <2>3, BeginMoves, OthersStay, MoveIsAllowed
  <2>4. ASSUME NEW p \in Process, Crash(p) PROVE Levels!Next
    BY <2>4, CrashIsAllowed
  <2>5. QED
    BY <2>1, <2>2, <2>3, <2>4 DEF Next
<1>3. Spec => []IInv
  BY Invariance
<1>4. QED
  BY <1>1, <1>2, <1>3, PTL DEF Spec, ImplementsFileLevels, Levels!Spec

LEMMA OnlyWithPendingByte ==
  ASSUME IInv, NEW h \in Handle, HandleStep(h) \/ Begin(h),
         locktype[h] = NO_LOCK, locktype'[h] = SHARED_LOCK
  PROVE  local[h]["pending"] = EXCLUSIVE
<1> USE DEF NO_LOCK, SHARED_LOCK, RESERVED_LOCK, PENDING_LOCK, EXCLUSIVE_LOCK
<1>0. /\ FilesTyped /\ HandleInv(h) /\ req[h] \in Level /\ locktype \in [Handle -> Level]
  BY DEF IInv, FilesTyped
<1>1. CASE DropPendingByte(h)
  BY <1>0, <1>1 DEF DropPendingByte, HandleInv, LocksFit, PendingIs, WithPending
<1>2. CASE UnlockStep(h)
  <2>1. locktype[h] > req[h]
    BY <1>0, <1>2, UnlockGoesOn DEF HandleInv, CallOK
  <2>2. QED
    BY <1>0, <2>1 DEF Level
<1>3. CASE \/ LockPendingByte(h) \/ GetReadLock(h) \/ LockReservedByte(h)
           \/ UnlockReadLock(h) \/ LockSharedRange(h) \/ GetReadLockAgain(h)
           \/ EndCheckReservedLock(h)
  BY <1>0, <1>3 DEF LockPendingByte, GetReadLock, LockReservedByte, UnlockReadLock,
     LockSharedRange, GetReadLockAgain, EndCheckReservedLock, SetLevel, fileVars
<1>4. CASE Begin(h)
  BY <1>0, <1>4 DEF Begin, Open, Lock, Unlock, CheckReservedLock, Close, CloseFails, SetLevel,
     fileVars, callVars
<1>5. QED
  BY <1>1, <1>2, <1>3, <1>4 DEF HandleStep

(* A PENDING or EXCLUSIVE handle keeps new readers out: a SHARED lock is   *)
(* only obtained with the pending byte in hand.                            *)
THEOREM NewReadersStopped ==
  ASSUME EveryHandleLocks PROVE Spec => PendingStopsNewReaders
<1>1. IInv /\ [Next]_vars =>
        [\A h \in Handle :
           locktype[h] = NO_LOCK /\ locktype'[h] = SHARED_LOCK
           => \A g \in Handle \ {h} : Held(g) < PENDING_LOCK]_vars
  <2> SUFFICES ASSUME IInv, Next, NEW h \in Handle,
                      locktype[h] = NO_LOCK, locktype'[h] = SHARED_LOCK,
                      NEW g \in Handle \ {h}
               PROVE  Held(g) < PENDING_LOCK
    BY DEF vars
  <2>1. HandleStep(h) \/ Begin(h)
    <3>1. ASSUME NEW p \in Process, Crash(p) PROVE FALSE
      <4>1. locktype'[h] \in {NO_LOCK, locktype[h]}
        BY <3>1 DEF Crash
      <4>2. QED
        BY <4>1 DEF NO_LOCK, SHARED_LOCK
    <3>2. ASSUME NEW k \in Handle, HandleStep(k) \/ Begin(k), k # h PROVE FALSE
      BY <3>2, OthersStay DEF NO_LOCK, SHARED_LOCK
    <3>3. QED
      BY <3>1, <3>2 DEF Next
  <2>2. local[h]["pending"] = EXCLUSIVE
    BY <2>1, OnlyWithPendingByte
  <2>3. local[g]["pending"] # EXCLUSIVE
    BY <2>2 DEF IInv, TableInv, Compatible, Byte, UNLOCKED, SHARED, EXCLUSIVE
  <2>4. QED
    BY <2>3, HeldMeans DEF Level, NO_LOCK, PENDING_LOCK, EXCLUSIVE_LOCK
<1>2. Spec => []IInv
  BY Invariance
<1>3. QED
  BY <1>1, <1>2, PTL DEF Spec, PendingStopsNewReaders
-----------------------------------------------------------------------------
(***************************************************************************)
(* Windows CE: the winceLock goes on counting what the handles hold.       *)
(***************************************************************************)
Holders(f) == {h \in Handle : f \in FieldsHeld(h)}

LEMMA HoldersFinite == \A f : IsFiniteSet(Holders(f)) /\ Cardinality(Holders(f)) \in Nat
<1> TAKE f
<1>1. Holders(f) \subseteq Handle
  BY DEF Holders
<1>2. QED
  BY <1>1, WinLockAssumption, FS_Subset, FS_CardinalityType

LEMMA StaleKept ==
  ASSUME \A f \in Field : shared'[f] - Cardinality(Holders(f)') = shared[f] - Cardinality(Holders(f))
  PROVE  Stale' = Stale
<1>1. Stale = [f \in Field |-> shared[f] - Cardinality(Holders(f))]
  BY DEF Stale, Holders
<1>2. Stale' = [f \in Field |-> shared'[f] - Cardinality(Holders(f)')]
  BY DEF Stale, Holders
<1>3. QED
  BY <1>1, <1>2

LEMMA SameTableSameStale ==
  ASSUME UNCHANGED <<local, shared>> PROVE Stale' = Stale
BY DEF Stale, FieldsHeld

(* The fields of a handle depend on its own locks only.                    *)
LEMMA SameLocksSameFields ==
  ASSUME NEW g \in Handle, local'[g] = local[g]
  PROVE  FieldsHeld(g)' = FieldsHeld(g)
BY DEF FieldsHeld

(* What a handle counts in follows from its three bytes.                   *)
LEMMA FieldsHeldMember ==
  ASSUME NEW h \in Handle
  PROVE  /\ \A f : f \in FieldsHeld(h) <=>
              \E b \in Byte : local[h][b] # UNLOCKED /\ f = FieldOf(b, local[h][b])
         /\ \A f : f \in FieldsHeld(h)' <=>
              \E b \in Byte : local'[h][b] # UNLOCKED /\ f = FieldOf(b, local'[h][b])
BY DEF FieldsHeld

LEMMA LockingKeepsStale ==
  ASSUME IInv, build = "CE", NEW h \in Handle, NEW b \in Byte, NEW s \in {SHARED, EXCLUSIVE},
         ~LocksNothing(h), LockFile(h, b, s), local[h][b] = UNLOCKED
  PROVE  Stale' = Stale
<1> DEFINE F == FieldOf(b, s)
<1>t. TableTyped
  BY DEF IInv, TableInv
<1>1. /\ local'[h][b] = Obtained(b, s)
      /\ Obtained(b, s) \in {SHARED, EXCLUSIVE}
      /\ \A c \in Byte \ {b} : local'[h][c] = local[h][c]
      /\ \A g \in Handle \ {h} : local'[g] = local[g]
  BY <1>t, LockFileLocal
<1>2. shared' = [shared EXCEPT ![F] = @ + 1] /\ F \in Field
  BY FieldOfType DEF LockFile, Count
<1>3. FieldOf(b, Obtained(b, s)) = F
  BY FieldOfType DEF Obtained
<1>4. \A c \in Byte \ {b} : FieldOf(c, local[h][c]) # F
  BY FieldOfInjective
<1> HIDE DEF F
<1>5. local'[h][b] # UNLOCKED
  BY <1>1 DEF UNLOCKED, SHARED, EXCLUSIVE
<1>6. \A f : f \in FieldsHeld(h)' <=> f \in FieldsHeld(h) \/ f = F
  BY <1>1, <1>3, <1>5, FieldsHeldMember
<1>7. F \notin FieldsHeld(h)
  BY <1>4, FieldsHeldMember
<1>8. \A g \in Handle \ {h} : FieldsHeld(g)' = FieldsHeld(g)
  BY <1>1, SameLocksSameFields
<1>9. ASSUME NEW f \in Field
      PROVE  shared'[f] - Cardinality(Holders(f)') = shared[f] - Cardinality(Holders(f))
  <2>1. CASE f = F
    <3>1. Holders(f)' = Holders(f) \cup {h} /\ h \notin Holders(f)
      BY <1>6, <1>7, <1>8, <2>1 DEF Holders
    <3>2. Cardinality(Holders(f)') = Cardinality(Holders(f)) + 1
      BY <3>1, HoldersFinite, FS_AddElement
    <3>3. shared'[f] = shared[f] + 1 /\ shared[f] \in Nat
      BY <1>t, <1>2, <2>1 DEF TableTyped
    <3>4. QED
      BY <3>2, <3>3, HoldersFinite
  <2>2. CASE f # F
    <3>1. Holders(f)' = Holders(f)
      BY <1>6, <1>8, <2>2 DEF Holders
    <3>2. shared'[f] = shared[f]
      BY <1>t, <1>2, <2>2 DEF TableTyped
    <3>3. QED
      BY <3>1, <3>2
  <2>3. QED
    BY <2>1, <2>2
<1>10. QED
  BY <1>9, StaleKept

LEMMA UnlockingKeepsStale ==
  ASSUME IInv, build = "CE", NEW h \in Handle, NEW b \in Byte, UnlockFile(h, b)
  PROVE  Stale' = Stale
<1>t. TableTyped
  BY DEF IInv, TableInv
<1>1. /\ local'[h][b] = UNLOCKED
      /\ \A c \in Byte \ {b} : local'[h][c] = local[h][c]
      /\ \A g \in Handle \ {h} : local'[g] = local[g]
  BY <1>t, UnlockFileLocal
<1>2. CASE local[h][b] = UNLOCKED
  <2>1. UNCHANGED <<local, shared>>
    BY <1>t, <1>2 DEF UnlockFile, TableTyped
  <2>2. QED
    BY <2>1, SameTableSameStale
<1>3. CASE local[h][b] # UNLOCKED
  <2> DEFINE F == FieldOf(b, local[h][b])
  <2>1. shared' = [shared EXCEPT ![F] = @ + (-1)] /\ F \in Field
    BY <1>3, FieldOfType DEF UnlockFile, Count
  <2>2. \A c \in Byte \ {b} : FieldOf(c, local[h][c]) # F
    BY FieldOfInjective
  <2>3. F \in FieldsHeld(h)
    BY <1>3, FieldsHeldMember
  <2> HIDE DEF F
  <2>4. \A f : f \in FieldsHeld(h)' <=> f \in FieldsHeld(h) /\ f # F
    <3>1. \A f : f \in FieldsHeld(h) <=>
            f = F \/ \E c \in Byte \ {b} : local[h][c] # UNLOCKED /\ f = FieldOf(c, local[h][c])
      BY <2>3, FieldsHeldMember DEF F
    <3>2. \A f : f \in FieldsHeld(h)' <=>
            \E c \in Byte \ {b} : local[h][c] # UNLOCKED /\ f = FieldOf(c, local[h][c])
      BY <1>1, FieldsHeldMember
    <3>3. QED
      BY <2>2, <3>1, <3>2
  <2>5. \A g \in Handle \ {h} : FieldsHeld(g)' = FieldsHeld(g)
    BY <1>1, SameLocksSameFields
  <2>6. ASSUME NEW f \in Field
        PROVE  shared'[f] - Cardinality(Holders(f)') = shared[f] - Cardinality(Holders(f))
    <3>1. CASE f = F
      <4>1. Holders(f)' = Holders(f) \ {h} /\ h \in Holders(f)
        BY <2>3, <2>4, <2>5, <3>1 DEF Holders
      <4>2. Cardinality(Holders(f)') = Cardinality(Holders(f)) - 1
        BY <4>1, HoldersFinite, FS_RemoveElement
      <4>3. shared'[f] = shared[f] - 1 /\ shared[f] \in Nat
        BY <1>t, <2>1, <3>1 DEF TableTyped
      <4>4. QED
        BY <4>2, <4>3, HoldersFinite
    <3>2. CASE f # F
      <4>1. Holders(f)' = Holders(f)
        BY <2>4, <2>5, <3>2 DEF Holders
      <4>2. shared'[f] = shared[f]
        BY <1>t, <2>1, <3>2 DEF TableTyped
      <4>3. QED
        BY <4>1, <4>2
    <3>3. QED
      BY <3>1, <3>2
  <2>7. QED
    BY <2>6, StaleKept
<1>4. QED
  BY <1>2, <1>3

LEMMA ClosingKeepsStale ==
  ASSUME IInv, build = "CE", NEW h \in Handle, winceDestroyLock(h), DropLocks({h})
  PROVE  Stale' = Stale
<1>t. TableTyped
  BY DEF IInv, TableInv
<1>1. /\ \A b \in Byte : local'[h][b] = UNLOCKED
      /\ \A g \in Handle \ {h} : local'[g] = local[g]
  BY <1>t, DropLocksLocal
<1>2. \A f : f \notin FieldsHeld(h)'
  BY <1>1, FieldsHeldMember
<1>3. \A g \in Handle \ {h} : FieldsHeld(g)' = FieldsHeld(g)
  BY <1>1, SameLocksSameFields
<1>4. ASSUME NEW f \in Field
      PROVE  shared'[f] - Cardinality(Holders(f)') = shared[f] - Cardinality(Holders(f))
  <2>1. shared[f] \in Nat
    BY <1>t DEF TableTyped
  <2>2. CASE f \in FieldsHeld(h)
    <3>1. Holders(f)' = Holders(f) \ {h} /\ h \in Holders(f)
      BY <1>2, <1>3, <2>2 DEF Holders
    <3>2. Cardinality(Holders(f)') = Cardinality(Holders(f)) - 1
      BY <3>1, HoldersFinite, FS_RemoveElement
    <3>3. shared'[f] = shared[f] - 1
      BY <2>2 DEF winceDestroyLock
    <3>4. QED
      BY <2>1, <3>2, <3>3, HoldersFinite
  <2>3. CASE f \notin FieldsHeld(h)
    <3>1. Holders(f)' = Holders(f)
      BY <1>2, <1>3, <2>3 DEF Holders
    <3>2. shared'[f] = shared[f]
      BY <2>3 DEF winceDestroyLock
    <3>3. QED
      BY <3>1, <3>2
  <2>4. QED
    BY <2>2, <2>3
<1>5. QED
  BY <1>4, StaleKept

(* A call locks a byte that the handle does not have, unlocks one, or      *)
(* leaves the table alone.                                                 *)
LEMMA CallsLockOnce ==
  ASSUME IInv, NEW h \in Handle, HandleStep(h) \/ CheckReservedLock(h)
  PROVE  \/ UNCHANGED <<local, shared>>
         \/ \E b \in Byte, s \in {SHARED, EXCLUSIVE} : LockFile(h, b, s) /\ local[h][b] = UNLOCKED
         \/ \E b \in Byte : UnlockFile(h, b)
<1> DEFINE Locks(b, s) == LockFile(h, b, s) /\ local[h][b] = UNLOCKED
<1>b. "pending" \in Byte /\ "reserved" \in Byte /\ "shared" \in Byte
  BY DEF Byte
<1>0. HandleInv(h) /\ locktype[h] \in Level
  BY DEF IInv, FilesTyped
<1>r. ASSUME pc[h] \in {"reread", "regain"}, ReadAgain(h) PROVE Locks("shared", SHARED)
  BY <1>r, ReadLockIsFree DEF ReadAgain
<1>1. CASE LockPendingByte(h)
  <2>1. local[h]["pending"] = UNLOCKED
    BY <1>0, <1>1 DEF LockPendingByte, HandleInv, LocksFit, CallOK, PendingIs, WithPending,
       NO_LOCK, SHARED_LOCK, RESERVED_LOCK, PENDING_LOCK
  <2>2. LockFile(h, "pending", EXCLUSIVE) \/ UNCHANGED <<local, shared>>
    BY <1>1 DEF LockPendingByte
  <2>3. QED
    BY <1>b, <2>1, <2>2
<1>2. CASE GetReadLock(h)
  <2>1. local[h]["shared"] = UNLOCKED
    BY <1>0, <1>2 DEF GetReadLock, HandleInv, LocksFit, CallOK, SharedIs
  <2>2. LockFile(h, "shared", SHARED) \/ UNCHANGED <<local, shared>>
    BY <1>2 DEF GetReadLock
  <2>3. QED
    BY <1>b, <2>1, <2>2
<1>3. CASE LockReservedByte(h)
  <2>1. local[h]["reserved"] = UNLOCKED
    BY <1>0, <1>3 DEF LockReservedByte, HandleInv, LocksFit, CallOK, SHARED_LOCK
  <2>2. LockFile(h, "reserved", EXCLUSIVE) \/ UNCHANGED <<local, shared>>
    BY <1>3 DEF LockReservedByte
  <2>3. QED
    BY <1>b, <2>1, <2>2
<1>4. CASE LockSharedRange(h)
  <2>1. local[h]["shared"] = UNLOCKED
    BY <1>0, <1>4 DEF LockSharedRange, HandleInv, LocksFit, CallOK, SharedIs, NO_LOCK,
       SHARED_LOCK, PENDING_LOCK, EXCLUSIVE_LOCK
  <2>2. LockFile(h, "shared", EXCLUSIVE) \/ UNCHANGED <<local, shared>>
    BY <1>4 DEF LockSharedRange
  <2>3. QED
    BY <1>b, <2>1, <2>2
<1>5. CASE CheckReservedLock(h)
  <2>1. local[h]["reserved"] = UNLOCKED
    BY <1>0, <1>5 DEF CheckReservedLock, CanCall, SeesReserved, HandleInv, LocksFit, Level,
       NO_LOCK, SHARED_LOCK, RESERVED_LOCK
  <2>2. LockFile(h, "reserved", SHARED)
    BY <1>5 DEF CheckReservedLock, ProbeStrength
  <2>3. QED
    BY <1>b, <2>1, <2>2
<1>6. CASE GetReadLockAgain(h)
  BY <1>b, <1>r, <1>6 DEF GetReadLockAgain
<1>7. CASE UnlockStep(h)
  <2>1. \/ pc[h] = "regain" /\ ReadAgain(h)
        \/ \E b \in Byte : UnlockFile(h, b)
    BY <1>b, <1>7 DEF UnlockStep
  <2>2. QED
    BY <1>b, <1>r, <2>1
<1>8. CASE DropPendingByte(h) \/ UnlockReadLock(h) \/ EndCheckReservedLock(h)
  BY <1>b, <1>8 DEF DropPendingByte, UnlockReadLock, EndCheckReservedLock
<1>9. QED
  BY <1>1, <1>2, <1>3, <1>4, <1>5, <1>6, <1>7, <1>8 DEF HandleStep

LEMMA OpeningStale ==
  ASSUME IInv, EveryHandleLocks, build = "CE", NEW h \in Handle, Open(h)
  PROVE  Stale' = Stale \/ (OpenHandles = {} /\ Stale' = Zeroed)
<1>1. ReadOnly = {} /\ winceCreateLock(OpenHandles \ ReadOnly) /\ UNCHANGED local
  BY DEF EveryHandleLocks, Open, IInv, FilesTyped
<1>2. CASE OpenHandles # {}
  <2>1. UNCHANGED <<local, shared>>
    BY <1>1, <1>2 DEF winceCreateLock
  <2>2. QED
    BY <2>1, SameTableSameStale
<1>3. CASE OpenHandles = {}
  <2>1. shared' = Zeroed
    BY <1>1, <1>3 DEF winceCreateLock
  <2>2. ASSUME NEW g \in Handle PROVE \A b \in Byte : local'[g][b] = UNLOCKED
    <3>1. status[g] \in {"closed", "leaked"} /\ HandleInv(g)
      BY <1>3 DEF IInv, FilesTyped, OpenHandles
    <3>2. locktype[g] = NO_LOCK /\ pc[g] = "idle"
      BY <3>1 DEF HandleInv, FileOK
    <3>3. QED
      BY <1>1, <3>2, ClosedHoldsNothing
  <2>3. \A f : Holders(f)' = {}
    BY <2>2, FieldsHeldMember DEF Holders
  <2>4. \A f : Cardinality(Holders(f)') = 0
    BY <2>3, FS_EmptySet
  <2>5. Stale' = [f \in Field |-> shared'[f] - Cardinality(Holders(f)')]
    BY DEF Stale, Holders
  <2>6. \A f \in Field : shared'[f] - Cardinality(Holders(f)') = 0
    BY <2>1, <2>4 DEF Zeroed
  <2>7. Stale' = Zeroed
    BY <2>5, <2>6 DEF Zeroed
  <2>8. QED
    BY <1>3, <2>7
<1>4. QED
  BY <1>2, <1>3

(* The death of a process without an open handle changes nothing.          *)
LEMMA IdleCrashKeepsStale ==
  ASSUME IInv, build = "CE", NEW p \in Process, Crash(p),
         {h \in OpenHandles : ProcOf[h] = p} = {}
  PROVE  Stale' = Stale
<1> DEFINE dead == {h \in Handle : ProcOf[h] = p}
<1>1. DropLocks(dead) /\ UNCHANGED shared /\ TableTyped
  BY DEF Crash, IInv, TableInv
<1>2. ASSUME NEW g \in dead PROVE local[g] = Nothing
  <2>1. status[g] \in {"closed", "leaked"} /\ HandleInv(g)
    BY DEF IInv, FilesTyped, OpenHandles
  <2>2. locktype[g] = NO_LOCK /\ pc[g] = "idle"
    BY <2>1 DEF HandleInv, FileOK
  <2>3. \A b \in Byte : local[g][b] = UNLOCKED
    BY <2>2, ClosedHoldsNothing
  <2>4. local[g] \in [Byte -> Strength]
    BY <1>1 DEF TableTyped
  <2>5. QED
    BY <2>3, <2>4 DEF Nothing
<1> HIDE DEF dead
<1>3. local' = [h \in Handle |-> IF h \in dead THEN Nothing ELSE local[h]]
  BY <1>1 DEF DropLocks
<1>4. local' = local
  BY <1>1, <1>2, <1>3 DEF TableTyped
<1>5. QED
  BY <1>1, <1>4, SameTableSameStale

(* The winceLock still counts what the handles hold: only the death of a   *)
(* process that has the file open makes a difference, and only the         *)
(* creation of the mapping removes it.                                     *)
THEOREM CountersKept ==
  ASSUME EveryHandleLocks PROVE Spec => WinceCountersKept
<1> DEFINE Kept == \/ Stale' = Stale
                   \/ OpenHandles = {} /\ Stale' = Zeroed
                   \/ \E p \in Process : {h \in OpenHandles : ProcOf[h] = p} # {} /\ Crash(p)
<1>1. IInv /\ [Next]_vars => [build = "CE" => Kept]_vars
  <2> SUFFICES ASSUME IInv, Next, build = "CE" PROVE Kept
    BY DEF vars
  <2>1. ASSUME NEW h \in Handle, HandleStep(h) \/ CheckReservedLock(h) PROVE Stale' = Stale
    <3>1. ~LocksNothing(h)
      BY EveryHandleLocksHere DEF IInv
    <3>2. QED
      BY <2>1, <3>1, CallsLockOnce, SameTableSameStale, LockingKeepsStale, UnlockingKeepsStale
  <2>2. ASSUME NEW h \in Handle, Close(h) \/ CloseFails(h) PROVE Stale' = Stale
    BY <2>2, ClosingKeepsStale DEF Close, CloseFails
  <2>3. ASSUME NEW h \in Handle,
               \/ \E level \in {SHARED_LOCK, RESERVED_LOCK, EXCLUSIVE_LOCK} : Lock(h, level)
               \/ \E level \in {NO_LOCK, SHARED_LOCK} : Unlock(h, level)
        PROVE  Stale' = Stale
    BY <2>3, SameTableSameStale DEF Lock, Unlock, lockFileVars
  <2>4. ASSUME NEW h \in Handle, Open(h) PROVE Kept
    BY <2>4, OpeningStale
  <2>5. ASSUME NEW p \in Process, Crash(p) PROVE Kept
    BY <2>5, IdleCrashKeepsStale
  <2>6. QED
    BY <2>1, <2>2, <2>3, <2>4, <2>5 DEF Next, Begin
<1>2. Spec => []IInv
  BY Invariance
<1>3. QED
  BY <1>1, <1>2, PTL DEF Spec, WinceCountersKept
=============================================================================
