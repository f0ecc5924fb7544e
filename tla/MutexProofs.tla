---------------------------- MODULE MutexProofs ----------------------------
(***************************************************************************)
(* Proofs about module Mutex, for any threads, any mutexes and either      *)
(* build, and about VfsList, whose steps are steps of Mutex, for any VFSes *)
(* whose names are no VFSes.                                               *)
(***************************************************************************)
EXTENDS VfsList, TLAPS, WellFoundedInduction, FiniteSetTheorems

USE MutexAssumption

LEMMA MutexInitInv == MutexInit => MutexInv
<1> SUFFICES ASSUME MutexInit PROVE MutexInv
  OBVIOUS
<1>1. MutexTypeOK
  BY DEF MutexInit, MutexTypeOK, Method, Copied, InitSteps
<1>2. \A t \in Thread : InCall(t)
  BY DEF MutexInit, InCall, InitSteps
<1>3. \A m \in Mutexes : FreeOk(m)
  BY DEF MutexInit, FreeOk
<1>4. \A t \in Thread, m \in Mutexes : OutsideOk(t, m) /\ HolderOk(t, m)
  BY DEF MutexInit, OutsideOk, HolderOk
<1> QED
  BY <1>1, <1>2, <1>3, <1>4 DEF MutexInv

LEMMA InitStepType ==
  ASSUME MutexTypeOK, NEW t \in Thread, InitStep(t)
  PROVE  MutexTypeOK'
<1>1. UNCHANGED <<lock, depth, nRef, owner, entered>>
  BY DEF InitStep, mutexVars
<1>2. table' = table /\ unflushed' \in [Thread -> SUBSET Method]
  BY DEF InitStep, TestAlloc, CopyMethods, Barrier, PublishAlloc, CallInit, MutexTypeOK, Method, tableVars
<1>3. trying' \subseteq Thread /\ at' \in [Thread -> Mutexes \cup {NoMutex}]
  BY DEF InitStep, TestAlloc, CopyMethods, Barrier, PublishAlloc, CallInit, Goto, Return, MutexTypeOK
<1>4. pc' \in [Thread -> InitSteps \cup EnterSteps \cup LeaveSteps \cup {"idle"}]
  BY DEF InitStep, TestAlloc, CopyMethods, Barrier, PublishAlloc, CallInit, Goto, Return, MutexTypeOK,
         InitSteps
<1> QED
  BY <1>1, <1>2, <1>3, <1>4 DEF MutexTypeOK

LEMMA InitStepInv ==
  ASSUME MutexInv, NEW t \in Thread, InitStep(t)
  PROVE  MutexInv'
<1>1. MutexTypeOK'
  BY InitStepType DEF MutexInv
<1>2. pc[t] \in InitSteps /\ pc'[t] \in InitSteps \cup {"idle"} /\ at[t] = NoMutex
  BY DEF MutexInv, InCall, InitStep, TestAlloc, CopyMethods, Barrier, PublishAlloc, CallInit, Goto,
         Return, MutexTypeOK, InitSteps
<1>3. at' = at /\ UNCHANGED <<lock, depth, nRef, owner, entered>>
  BY <1>2 DEF InitStep, TestAlloc, CopyMethods, Barrier, PublishAlloc, CallInit, Goto, Return,
         MutexInv, MutexTypeOK, mutexVars
<1>4. \A u \in Thread : u # t => pc'[u] = pc[u]
  BY DEF InitStep, TestAlloc, CopyMethods, Barrier, PublishAlloc, CallInit, Goto, Return,
         MutexInv, MutexTypeOK
<1>5. \A u \in Thread : InCall(u)'
  BY <1>2, <1>3, <1>4 DEF MutexInv, InCall, InitSteps
<1>6. \A m \in Mutexes : FreeOk(m)'
  BY <1>3 DEF MutexInv, FreeOk
<1>7. \A u \in Thread, m \in Mutexes : Within(u, m, EnterSteps \cup LeaveSteps) => u # t
  BY <1>2 DEF Within
<1>8. \A u \in Thread, m \in Mutexes : OutsideOk(u, m)' /\ HolderOk(u, m)'
  <2> SUFFICES ASSUME NEW u \in Thread, NEW m \in Mutexes PROVE OutsideOk(u, m)' /\ HolderOk(u, m)'
    OBVIOUS
  <2>1. OutsideOk(u, m) /\ HolderOk(u, m)
    BY DEF MutexInv
  <2>2. CASE u # t
    BY <1>3, <1>4, <2>1, <2>2 DEF OutsideOk, HolderOk, Within
  <2>3. CASE u = t
    BY <1>2, <1>3, <2>1, <2>3 DEF OutsideOk, HolderOk, Within
  <2> QED BY <2>2, <2>3
<1> QED
  BY <1>1, <1>5, <1>6, <1>8 DEF MutexInv

LEMMA FlushInv ==
  ASSUME MutexInv, NEW t \in Thread, Flush(t)
  PROVE  MutexInv'
<1>1. table' \subseteq Method /\ unflushed' \in [Thread -> SUBSET Method]
  BY DEF Flush, MutexInv, MutexTypeOK
<1>2. UNCHANGED <<lock, depth, nRef, owner, entered, trying, pc, at>>
  BY DEF Flush, mutexVars
<1>3. MutexTypeOK'
  BY <1>1, <1>2 DEF MutexInv, MutexTypeOK
<1>4. \A u \in Thread : InCall(u)'
  BY <1>2 DEF MutexInv, InCall
<1>5. \A m \in Mutexes : FreeOk(m)'
  BY <1>2 DEF MutexInv, FreeOk
<1>6. \A u \in Thread, m \in Mutexes : OutsideOk(u, m)' /\ HolderOk(u, m)'
  BY <1>2 DEF MutexInv, OutsideOk, HolderOk, Within
<1> QED
  BY <1>3, <1>4, <1>5, <1>6 DEF MutexInv

(***************************************************************************)
(* A thread's step on its mutex disturbs nothing that MutexInv says of     *)
(* other mutexes or other threads, if it writes only what it holds: what   *)
(* is left to show of each action is what MutexInv says of the thread and  *)
(* its mutex.                                                              *)
(***************************************************************************)
Only(t, m) ==
  /\ \A n \in Mutexes \ {m} :
       lock'[n] = lock[n] /\ depth'[n] = depth[n] /\ nRef'[n] = nRef[n] /\ owner'[n] = owner[n]
  /\ \A u \in Thread, n \in Mutexes : u # t \/ n # m => entered'[u][n] = entered[u][n]
  /\ \A u \in Thread \ {t} : pc'[u] = pc[u] /\ at'[u] = at[u]
  /\ at[t] \in {NoMutex, m} /\ at'[t] \in {NoMutex, m}

WritesHeld(t, m) ==
  \/ UNCHANGED <<lock, depth, nRef, owner>>
  \/ lock[m] \in {t, NoThread} /\ lock'[m] \in {t, NoThread}

LEMMA StepInv ==
  ASSUME MutexInv, NEW t \in Thread, NEW m \in Mutexes, Only(t, m), WritesHeld(t, m),
         MutexTypeOK', InCall(t)', FreeOk(m)', OutsideOk(t, m)', HolderOk(t, m)'
  PROVE  MutexInv'
<1>1. \A u \in Thread : InCall(u)'
  BY DEF MutexInv, InCall, Only
<1>2. \A n \in Mutexes : FreeOk(n)'
  BY DEF MutexInv, FreeOk, Only
<1>3. ASSUME NEW u \in Thread, NEW n \in Mutexes
      PROVE  OutsideOk(u, n)' /\ HolderOk(u, n)'
  <2>1. OutsideOk(u, n) /\ HolderOk(u, n)
    BY DEF MutexInv
  <2>2. CASE n # m /\ u # t
    BY <2>1, <2>2 DEF Only, OutsideOk, HolderOk, Within
  <2>3. CASE n # m /\ u = t
    <3>1. at[t] # n /\ at'[t] # n
      BY <2>3 DEF Only
    <3>2. lock'[n] = lock[n] /\ depth'[n] = depth[n] /\ nRef'[n] = nRef[n] /\ owner'[n] = owner[n]
      BY <2>3 DEF Only
    <3>3. entered'[t][n] = entered[t][n]
      BY <2>3 DEF Only
    <3> QED
      BY <2>1, <2>3, <3>1, <3>2, <3>3 DEF OutsideOk, HolderOk, Within
  <2>4. CASE n = m /\ u # t
    <3>1. entered'[u][m] = entered[u][m] /\ pc'[u] = pc[u] /\ at'[u] = at[u]
      BY <2>4 DEF Only
    <3>2. CASE UNCHANGED <<lock, depth, nRef, owner>>
      BY <2>1, <2>4, <3>1, <3>2 DEF OutsideOk, HolderOk, Within
    <3>3. CASE lock[m] \in {t, NoThread} /\ lock'[m] \in {t, NoThread}
      BY <2>1, <2>4, <3>1, <3>3 DEF OutsideOk, HolderOk, Within
    <3> QED BY <3>2, <3>3 DEF WritesHeld
  <2>5. CASE n = m /\ u = t
    BY <2>5
  <2> QED BY <2>2, <2>3, <2>4, <2>5
<1> QED
  BY <1>1, <1>2, <1>3 DEF MutexInv

LEMMA BeginEnterInv ==
  ASSUME MutexInv, NEW t \in Thread, NEW m \in Mutexes, NEW try \in BOOLEAN, BeginEnter(t, m, try)
  PROVE  MutexInv'
<1>1. UNCHANGED <<lock, depth, nRef, owner, entered, table, unflushed>>
  BY DEF BeginEnter, mutexVars, tableVars
<1>2. /\ at' = [at EXCEPT ![t] = m]
      /\ pc' = [pc EXCEPT ![t] = IF Homegrown THEN "readRef" ELSE "lock"]
  BY DEF BeginEnter
<1>3. MutexTypeOK'
  BY <1>1, <1>2 DEF BeginEnter, MutexInv, MutexTypeOK, EnterSteps
<1>4. at[t] = NoMutex /\ pc[t] = "idle"
  BY DEF BeginEnter, MutexInv, InCall
<1>5. at'[t] = m /\ pc'[t] = (IF Homegrown THEN "readRef" ELSE "lock")
  BY <1>2 DEF MutexInv, MutexTypeOK
<1>6. Only(t, m) /\ WritesHeld(t, m)
  BY <1>1, <1>2, <1>4 DEF Only, WritesHeld, MutexInv, MutexTypeOK
<1>7. InCall(t)'
  BY <1>5 DEF InCall, InitSteps
<1>8. FreeOk(m)'
  BY <1>1 DEF MutexInv, FreeOk
<1>9. OutsideOk(t, m) /\ HolderOk(t, m) /\ ~Within(t, m, Between) /\ entered[t][m] \in Nat
  BY <1>4 DEF MutexInv, MutexTypeOK, Within
<1>10. OutsideOk(t, m)'
  BY <1>1, <1>5, <1>9 DEF OutsideOk
<1>11. m \notin Recursive => entered[t][m] < 1
  BY DEF BeginEnter
<1>12. HolderOk(t, m)'
  BY <1>1, <1>4, <1>5, <1>9, <1>11 DEF HolderOk, Within, Between, EnterSteps
<1> QED
  BY <1>3, <1>6, <1>7, <1>8, <1>10, <1>12, StepInv

LEMMA CountType ==
  ASSUME MutexTypeOK, NEW t \in Thread, NEW m \in Mutexes, NEW n \in Nat,
         entered' = [entered EXCEPT ![t][m] = n]
  PROVE  entered' \in [Thread -> [Mutexes -> Nat]]
<1>1. entered \in [Thread -> [Mutexes -> Nat]]
  BY DEF MutexTypeOK
<1>2. [entered[t] EXCEPT ![m] = n] \in [Mutexes -> Nat]
  BY <1>1
<1>3. entered' = [entered EXCEPT ![t] = [entered[t] EXCEPT ![m] = n]]
  OBVIOUS
<1> QED
  BY <1>1, <1>2, <1>3

LEMMA CountSet ==
  ASSUME MutexTypeOK, NEW t \in Thread, NEW m \in Mutexes, NEW n,
         entered' = [entered EXCEPT ![t][m] = n]
  PROVE  entered'[t][m] = n
  BY DEF MutexTypeOK

LEMMA CountOthers ==
  ASSUME MutexTypeOK, NEW t \in Thread, NEW m \in Mutexes, NEW n,
         entered' = [entered EXCEPT ![t][m] = n],
         NEW u \in Thread, NEW o \in Mutexes, u # t \/ o # m
  PROVE  entered'[u][o] = entered[u][o]
  BY DEF MutexTypeOK

LEMMA BeginLeaveInv ==
  ASSUME MutexInv, NEW t \in Thread, NEW m \in Mutexes, BeginLeave(t, m)
  PROVE  MutexInv'
<1>1. UNCHANGED <<lock, depth, nRef, owner, table, unflushed, trying>>
  BY DEF BeginLeave, mutexVars, tableVars
<1>2. /\ at' = [at EXCEPT ![t] = m]
      /\ pc' = [pc EXCEPT ![t] = "leave"]
      /\ entered' = [entered EXCEPT ![t][m] = @ - 1]
  BY DEF BeginLeave
<1>3. entered[t][m] \in Nat \ {0} /\ at[t] = NoMutex /\ pc[t] = "idle"
  BY DEF BeginLeave, MutexInv, MutexTypeOK, InCall
<1>4. MutexTypeOK'
  <2>1. entered' \in [Thread -> [Mutexes -> Nat]]
    <3>1. entered[t][m] - 1 \in Nat
      BY <1>3
    <3>2. entered' = [entered EXCEPT ![t][m] = entered[t][m] - 1]
      BY <1>2
    <3> QED BY <3>1, <3>2, CountType DEF MutexInv
  <2>2. pc' \in [Thread -> InitSteps \cup EnterSteps \cup LeaveSteps \cup {"idle"}]
    BY <1>2 DEF MutexInv, MutexTypeOK, LeaveSteps
  <2>3. at' \in [Thread -> Mutexes \cup {NoMutex}]
    BY <1>2 DEF MutexInv, MutexTypeOK
  <2> QED
    BY <1>1, <2>1, <2>2, <2>3 DEF MutexInv, MutexTypeOK
<1>5. at'[t] = m /\ pc'[t] = "leave" /\ entered'[t][m] = entered[t][m] - 1
  BY <1>2 DEF MutexInv, MutexTypeOK
<1>6. Only(t, m) /\ WritesHeld(t, m)
  BY <1>1, <1>2, <1>3 DEF Only, WritesHeld, MutexInv, MutexTypeOK
<1>7. InCall(t)'
  BY <1>5 DEF InCall, InitSteps
<1>8. FreeOk(m)'
  BY <1>1 DEF MutexInv, FreeOk
<1>9. OutsideOk(t, m) /\ HolderOk(t, m) /\ ~Within(t, m, Between)
  BY <1>3 DEF MutexInv, Within
<1>10. lock[m] = t
  BY <1>3, <1>9 DEF OutsideOk
<1>11. OutsideOk(t, m)'
  BY <1>1, <1>10 DEF OutsideOk
<1>12. HolderOk(t, m)'
  BY <1>1, <1>3, <1>5, <1>9, <1>10 DEF HolderOk, Within, Between, EnterSteps
<1> QED
  BY <1>4, <1>6, <1>7, <1>8, <1>11, <1>12, StepInv

(* A thread in a call has a mutex, and no other step reads the table.      *)
LEMMA StepHasMutex ==
  ASSUME MutexInv, NEW t \in Thread, pc[t] \in EnterSteps \cup LeaveSteps
  PROVE  at[t] \in Mutexes
  BY DEF MutexInv, MutexTypeOK, InCall, EnterSteps, LeaveSteps, InitSteps

(* Where a step that goes on, and a step that returns, leave the thread.   *)
LEMMA GotoMoves ==
  ASSUME MutexTypeOK, NEW t \in Thread, NEW step, Goto(t, step),
         step \in EnterSteps \cup LeaveSteps
  PROVE  /\ pc' \in [Thread -> InitSteps \cup EnterSteps \cup LeaveSteps \cup {"idle"}]
         /\ at' \in [Thread -> Mutexes \cup {NoMutex}] /\ trying' \subseteq Thread
         /\ pc'[t] = step /\ at'[t] = at[t]
         /\ \A u \in Thread \ {t} : pc'[u] = pc[u] /\ at'[u] = at[u]
<1>1. at' = at /\ trying' = trying /\ pc' = [pc EXCEPT ![t] = step]
  BY DEF Goto
<1>2. at' \in [Thread -> Mutexes \cup {NoMutex}] /\ trying' \subseteq Thread
  BY <1>1 DEF MutexTypeOK
<1>3. pc' \in [Thread -> InitSteps \cup EnterSteps \cup LeaveSteps \cup {"idle"}]
  BY <1>1 DEF MutexTypeOK
<1>4. pc'[t] = step /\ \A u \in Thread \ {t} : pc'[u] = pc[u]
  BY <1>1 DEF MutexTypeOK
<1> QED
  BY <1>1, <1>2, <1>3, <1>4

LEMMA ReturnMoves ==
  ASSUME MutexTypeOK, NEW t \in Thread, Return(t)
  PROVE  /\ pc' \in [Thread -> InitSteps \cup EnterSteps \cup LeaveSteps \cup {"idle"}]
         /\ at' \in [Thread -> Mutexes \cup {NoMutex}] /\ trying' \subseteq Thread
         /\ pc'[t] = "idle" /\ at'[t] = NoMutex
         /\ \A u \in Thread \ {t} : pc'[u] = pc[u] /\ at'[u] = at[u]
  BY DEF Return, MutexTypeOK

(***************************************************************************)
(* The steps of enter and try.                                             *)
(***************************************************************************)
LEMMA ReadRefInv ==
  ASSUME MutexInv, NEW t \in Thread, NEW m \in Mutexes, at[t] = m, ReadRef(t), UNCHANGED tableVars
  PROVE  MutexInv'
<1> DEFINE step == IF nRef[m] > 0 THEN "readOwner" ELSE "lock"
<1>1. pc[t] = "readRef" /\ Goto(t, step)
  BY DEF ReadRef
<1>2. UNCHANGED <<lock, depth, nRef, owner, entered, table, unflushed>>
  BY DEF ReadRef, mutexVars, tableVars
<1>3. step \in EnterSteps
  BY DEF EnterSteps
<1> HIDE DEF step
<1>4. /\ pc' \in [Thread -> InitSteps \cup EnterSteps \cup LeaveSteps \cup {"idle"}]
      /\ at' \in [Thread -> Mutexes \cup {NoMutex}] /\ trying' \subseteq Thread
      /\ pc'[t] = step /\ at'[t] = m
      /\ \A u \in Thread \ {t} : pc'[u] = pc[u] /\ at'[u] = at[u]
  BY <1>1, <1>3, GotoMoves DEF MutexInv
<1>5. MutexTypeOK'
  BY <1>2, <1>4 DEF MutexInv, MutexTypeOK
<1>6. Only(t, m) /\ WritesHeld(t, m)
  BY <1>2, <1>4 DEF Only, WritesHeld
<1>7. InCall(t) /\ FreeOk(m) /\ OutsideOk(t, m) /\ HolderOk(t, m) /\ entered[t][m] \in Nat
  BY DEF MutexInv, MutexTypeOK
<1>8. InCall(t)'
  BY <1>1, <1>4, <1>7 DEF InCall, InitSteps, step
<1>9. FreeOk(m)'
  BY <1>2, <1>7 DEF FreeOk
<1>10. OutsideOk(t, m)'
  BY <1>2, <1>4, <1>7 DEF OutsideOk, step
<1>11. HolderOk(t, m)'
  BY <1>1, <1>2, <1>4, <1>7 DEF HolderOk, InCall, Within, Between, EnterSteps, step
<1> QED
  BY <1>5, <1>6, <1>8, <1>9, <1>10, <1>11, StepInv

(* A thread that does not have the mutex never reads itself as the owner.  *)
LEMMA ReadOwnerInv ==
  ASSUME MutexInv, NEW t \in Thread, NEW m \in Mutexes, at[t] = m, ReadOwner(t), UNCHANGED tableVars
  PROVE  MutexInv'
<1> DEFINE step == IF owner[m] = t THEN "again" ELSE "lock"
<1>1. pc[t] = "readOwner" /\ Goto(t, step)
  BY DEF ReadOwner, OwnedBy
<1>2. UNCHANGED <<lock, depth, nRef, owner, entered, table, unflushed>>
  BY DEF ReadOwner, OwnedBy, mutexVars, tableVars
<1>3. step \in EnterSteps
  BY DEF EnterSteps
<1> HIDE DEF step
<1>4. /\ pc' \in [Thread -> InitSteps \cup EnterSteps \cup LeaveSteps \cup {"idle"}]
      /\ at' \in [Thread -> Mutexes \cup {NoMutex}] /\ trying' \subseteq Thread
      /\ pc'[t] = step /\ at'[t] = m
      /\ \A u \in Thread \ {t} : pc'[u] = pc[u] /\ at'[u] = at[u]
  BY <1>1, <1>3, GotoMoves DEF MutexInv
<1>5. MutexTypeOK'
  BY <1>2, <1>4 DEF MutexInv, MutexTypeOK
<1>6. Only(t, m) /\ WritesHeld(t, m)
  BY <1>2, <1>4 DEF Only, WritesHeld
<1>7. InCall(t) /\ FreeOk(m) /\ OutsideOk(t, m) /\ HolderOk(t, m) /\ entered[t][m] \in Nat
  BY DEF MutexInv, MutexTypeOK
<1>8. InCall(t)'
  BY <1>1, <1>4, <1>7 DEF InCall, InitSteps, step
<1>9. FreeOk(m)'
  BY <1>2, <1>7 DEF FreeOk
<1>10. OutsideOk(t, m)'
  <2>1. lock[m] # t => owner[m] # t
    <3>1. CASE lock[m] = NoThread
      BY <1>7, <3>1 DEF FreeOk
    <3>2. CASE lock[m] # NoThread
      <4>1. HolderOk(lock[m], m)
        BY <3>2 DEF MutexInv, MutexTypeOK
      <4>2. owner[m] \in {NoThread, lock[m]}
        BY <4>1 DEF HolderOk
      <4> QED BY <4>2
    <3> QED BY <3>1, <3>2
  <2> QED BY <1>2, <1>4, <1>7, <2>1 DEF OutsideOk, step
<1>11. HolderOk(t, m)'
  BY <1>1, <1>2, <1>4, <1>7 DEF HolderOk, InCall, Within, Between, EnterSteps, step
<1> QED
  BY <1>5, <1>6, <1>8, <1>9, <1>10, <1>11, StepInv

LEMMA EnterAgainInv ==
  ASSUME MutexInv, NEW t \in Thread, NEW m \in Mutexes, at[t] = m, EnterAgain(t), UNCHANGED tableVars
  PROVE  MutexInv'
<1>0. InCall(t) /\ FreeOk(m) /\ OutsideOk(t, m) /\ HolderOk(t, m)
  BY DEF MutexInv
<1>1. /\ entered[t][m] \in Nat /\ nRef[m] \in Nat /\ depth[m] \in Nat
      /\ lock[m] \in Thread \cup {NoThread} /\ owner[m] \in Thread \cup {NoThread}
  BY DEF MutexInv, MutexTypeOK
<1>2. pc[t] = "again"
  BY DEF EnterAgain
<1>3. /\ pc' \in [Thread -> InitSteps \cup EnterSteps \cup LeaveSteps \cup {"idle"}]
      /\ at' \in [Thread -> Mutexes \cup {NoMutex}] /\ trying' \subseteq Thread
      /\ pc'[t] = "idle" /\ at'[t] = NoMutex
      /\ \A u \in Thread \ {t} : pc'[u] = pc[u] /\ at'[u] = at[u]
  BY ReturnMoves DEF EnterAgain, Entered, MutexInv
<1>4. /\ entered' \in [Thread -> [Mutexes -> Nat]]
      /\ entered'[t][m] = entered[t][m] + 1
      /\ \A u \in Thread, o \in Mutexes : u # t \/ o # m => entered'[u][o] = entered[u][o]
  <2> DEFINE n == entered[t][m] + 1
  <2>1. n \in Nat /\ MutexTypeOK
    BY <1>1 DEF MutexInv
  <2>2. entered' = [entered EXCEPT ![t][m] = n]
    BY DEF EnterAgain, Entered
  <2> HIDE DEF n
  <2>3. entered' \in [Thread -> [Mutexes -> Nat]]
    BY <2>1, <2>2, CountType
  <2>4. entered'[t][m] = n
    BY <2>1, <2>2, CountSet
  <2>5. \A u \in Thread, o \in Mutexes : u # t \/ o # m => entered'[u][o] = entered[u][o]
    BY <2>1, <2>2, CountOthers
  <2> QED BY <2>3, <2>4, <2>5 DEF n
<1>5. /\ UNCHANGED <<lock, depth, owner, table, unflushed>>
      /\ nRef' = [nRef EXCEPT ![m] = nRef[m] + 1]
  BY DEF EnterAgain, Entered, mutexVars, tableVars
<1>6. MutexTypeOK'
  BY <1>3, <1>4, <1>5 DEF MutexInv, MutexTypeOK
<1>7. Only(t, m)
  BY <1>3, <1>4, <1>5 DEF Only, MutexInv, MutexTypeOK
<1>8. WritesHeld(t, m)
  BY <1>0, <1>2, <1>5 DEF WritesHeld, OutsideOk
<1>9. InCall(t)'
  BY <1>0, <1>2, <1>3 DEF InCall, InitSteps
<1>10. /\ lock'[m] = lock[m] /\ depth'[m] = depth[m] /\ nRef'[m] = nRef[m] + 1 /\ owner'[m] = owner[m]
      /\ entered'[t][m] = entered[t][m] + 1
  BY <1>4, <1>5 DEF MutexInv, MutexTypeOK
<1>11. lock[m] = t
  BY <1>0, <1>2 DEF OutsideOk
<1>12. FreeOk(m)'
  BY <1>1, <1>10, <1>11 DEF FreeOk
<1>13. OutsideOk(t, m)'
  BY <1>10, <1>11 DEF OutsideOk
<1>14. HolderOk(t, m)'
  BY <1>0, <1>1, <1>2, <1>3, <1>10, <1>11 DEF HolderOk, InCall, Within, Between, EnterSteps
<1> QED
  BY <1>6, <1>7, <1>8, <1>9, <1>12, <1>13, <1>14, StepInv

LEMMA SetOwnerInv ==
  ASSUME MutexInv, NEW t \in Thread, NEW m \in Mutexes, at[t] = m, SetOwner(t), UNCHANGED tableVars
  PROVE  MutexInv'
<1>0. InCall(t) /\ FreeOk(m) /\ OutsideOk(t, m) /\ HolderOk(t, m)
  BY DEF MutexInv
<1>1. /\ entered[t][m] \in Nat /\ nRef[m] \in Nat /\ depth[m] \in Nat
      /\ lock[m] \in Thread \cup {NoThread} /\ owner[m] \in Thread \cup {NoThread}
  BY DEF MutexInv, MutexTypeOK
<1>2. pc[t] = "setOwner"
  BY DEF SetOwner
<1>3. /\ pc' \in [Thread -> InitSteps \cup EnterSteps \cup LeaveSteps \cup {"idle"}]
      /\ at' \in [Thread -> Mutexes \cup {NoMutex}] /\ trying' \subseteq Thread
      /\ pc'[t] = "setRef" /\ at'[t] = m
      /\ \A u \in Thread \ {t} : pc'[u] = pc[u] /\ at'[u] = at[u]
  BY GotoMoves DEF SetOwner, MutexInv, EnterSteps, LeaveSteps
<1>4. entered' = entered /\ entered' \in [Thread -> [Mutexes -> Nat]]
  BY DEF SetOwner, mutexVars, MutexInv, MutexTypeOK
<1>5. /\ UNCHANGED <<lock, depth, nRef, table, unflushed>>
      /\ owner' = [owner EXCEPT ![m] = t]
  BY DEF SetOwner, mutexVars, tableVars
<1>6. MutexTypeOK'
  BY <1>3, <1>4, <1>5 DEF MutexInv, MutexTypeOK
<1>7. Only(t, m)
  BY <1>3, <1>4, <1>5 DEF Only, MutexInv, MutexTypeOK
<1>8. WritesHeld(t, m)
  BY <1>0, <1>2, <1>5 DEF WritesHeld, OutsideOk
<1>9. InCall(t)'
  BY <1>0, <1>2, <1>3 DEF InCall, InitSteps
<1>10. /\ lock'[m] = lock[m] /\ depth'[m] = depth[m] /\ nRef'[m] = nRef[m] /\ owner'[m] = t
      /\ entered'[t][m] = entered[t][m]
  BY <1>4, <1>5 DEF MutexInv, MutexTypeOK
<1>11. lock[m] = t
  BY <1>0, <1>2 DEF OutsideOk
<1>12. FreeOk(m)'
  BY <1>1, <1>10, <1>11 DEF FreeOk
<1>13. OutsideOk(t, m)'
  BY <1>10, <1>11 DEF OutsideOk
<1>14. HolderOk(t, m)'
  BY <1>0, <1>1, <1>2, <1>3, <1>10, <1>11 DEF HolderOk, InCall, Within, Between, EnterSteps
<1> QED
  BY <1>6, <1>7, <1>8, <1>9, <1>12, <1>13, <1>14, StepInv

LEMMA SetRefInv ==
  ASSUME MutexInv, NEW t \in Thread, NEW m \in Mutexes, at[t] = m, SetRef(t), UNCHANGED tableVars
  PROVE  MutexInv'
<1>0. InCall(t) /\ FreeOk(m) /\ OutsideOk(t, m) /\ HolderOk(t, m)
  BY DEF MutexInv
<1>1. /\ entered[t][m] \in Nat /\ nRef[m] \in Nat /\ depth[m] \in Nat
      /\ lock[m] \in Thread \cup {NoThread} /\ owner[m] \in Thread \cup {NoThread}
  BY DEF MutexInv, MutexTypeOK
<1>2. pc[t] = "setRef"
  BY DEF SetRef
<1>3. /\ pc' \in [Thread -> InitSteps \cup EnterSteps \cup LeaveSteps \cup {"idle"}]
      /\ at' \in [Thread -> Mutexes \cup {NoMutex}] /\ trying' \subseteq Thread
      /\ pc'[t] = "idle" /\ at'[t] = NoMutex
      /\ \A u \in Thread \ {t} : pc'[u] = pc[u] /\ at'[u] = at[u]
  BY ReturnMoves DEF SetRef, Entered, MutexInv
<1>4. /\ entered' \in [Thread -> [Mutexes -> Nat]]
      /\ entered'[t][m] = entered[t][m] + 1
      /\ \A u \in Thread, o \in Mutexes : u # t \/ o # m => entered'[u][o] = entered[u][o]
  <2> DEFINE n == entered[t][m] + 1
  <2>1. n \in Nat /\ MutexTypeOK
    BY <1>1 DEF MutexInv
  <2>2. entered' = [entered EXCEPT ![t][m] = n]
    BY DEF SetRef, Entered
  <2> HIDE DEF n
  <2>3. entered' \in [Thread -> [Mutexes -> Nat]]
    BY <2>1, <2>2, CountType
  <2>4. entered'[t][m] = n
    BY <2>1, <2>2, CountSet
  <2>5. \A u \in Thread, o \in Mutexes : u # t \/ o # m => entered'[u][o] = entered[u][o]
    BY <2>1, <2>2, CountOthers
  <2> QED BY <2>3, <2>4, <2>5 DEF n
<1>5. /\ UNCHANGED <<lock, depth, owner, table, unflushed>>
      /\ nRef' = [nRef EXCEPT ![m] = IF Homegrown THEN 1 ELSE nRef[m] + 1]
  BY DEF SetRef, Entered, mutexVars, tableVars
<1>6. MutexTypeOK'
  BY <1>3, <1>4, <1>5 DEF MutexInv, MutexTypeOK
<1>7. Only(t, m)
  BY <1>3, <1>4, <1>5 DEF Only, MutexInv, MutexTypeOK
<1>8. WritesHeld(t, m)
  BY <1>0, <1>2, <1>5 DEF WritesHeld, OutsideOk
<1>9. InCall(t)'
  BY <1>0, <1>2, <1>3 DEF InCall, InitSteps
<1>10. /\ lock'[m] = lock[m] /\ depth'[m] = depth[m] /\ nRef'[m] = (IF Homegrown THEN 1 ELSE nRef[m] + 1) /\ owner'[m] = owner[m]
      /\ entered'[t][m] = entered[t][m] + 1
  BY <1>4, <1>5 DEF MutexInv, MutexTypeOK
<1>11. lock[m] = t
  BY <1>0, <1>2 DEF OutsideOk
<1>12. FreeOk(m)'
  BY <1>1, <1>10, <1>11 DEF FreeOk
<1>13. OutsideOk(t, m)'
  BY <1>10, <1>11 DEF OutsideOk
<1>14. HolderOk(t, m)'
  BY <1>0, <1>1, <1>2, <1>3, <1>10, <1>11 DEF HolderOk, InCall, Within, Between, EnterSteps
<1> QED
  BY <1>6, <1>7, <1>8, <1>9, <1>12, <1>13, <1>14, StepInv

LEMMA ClearOwnerInv ==
  ASSUME MutexInv, NEW t \in Thread, NEW m \in Mutexes, at[t] = m, ClearOwner(t), UNCHANGED tableVars
  PROVE  MutexInv'
<1>0. InCall(t) /\ FreeOk(m) /\ OutsideOk(t, m) /\ HolderOk(t, m)
  BY DEF MutexInv
<1>1. /\ entered[t][m] \in Nat /\ nRef[m] \in Nat /\ depth[m] \in Nat
      /\ lock[m] \in Thread \cup {NoThread} /\ owner[m] \in Thread \cup {NoThread}
  BY DEF MutexInv, MutexTypeOK
<1>2. pc[t] = "clearOwner"
  BY DEF ClearOwner
<1>3. /\ pc' \in [Thread -> InitSteps \cup EnterSteps \cup LeaveSteps \cup {"idle"}]
      /\ at' \in [Thread -> Mutexes \cup {NoMutex}] /\ trying' \subseteq Thread
      /\ pc'[t] = "unlock" /\ at'[t] = m
      /\ \A u \in Thread \ {t} : pc'[u] = pc[u] /\ at'[u] = at[u]
  BY GotoMoves DEF ClearOwner, MutexInv, EnterSteps, LeaveSteps
<1>4. entered' = entered /\ entered' \in [Thread -> [Mutexes -> Nat]]
  BY DEF ClearOwner, mutexVars, MutexInv, MutexTypeOK
<1>5. /\ UNCHANGED <<lock, depth, nRef, table, unflushed>>
      /\ owner' = [owner EXCEPT ![m] = NoThread]
  BY DEF ClearOwner, mutexVars, tableVars
<1>6. MutexTypeOK'
  BY <1>3, <1>4, <1>5 DEF MutexInv, MutexTypeOK
<1>7. Only(t, m)
  BY <1>3, <1>4, <1>5 DEF Only, MutexInv, MutexTypeOK
<1>8. WritesHeld(t, m)
  BY <1>0, <1>2, <1>5 DEF WritesHeld, OutsideOk
<1>9. InCall(t)'
  BY <1>0, <1>2, <1>3 DEF InCall, InitSteps
<1>10. /\ lock'[m] = lock[m] /\ depth'[m] = depth[m] /\ nRef'[m] = nRef[m] /\ owner'[m] = NoThread
      /\ entered'[t][m] = entered[t][m]
  BY <1>4, <1>5 DEF MutexInv, MutexTypeOK
<1>11. lock[m] = t
  BY <1>0, <1>2 DEF OutsideOk
<1>12. FreeOk(m)'
  BY <1>1, <1>10, <1>11 DEF FreeOk
<1>13. OutsideOk(t, m)'
  BY <1>10, <1>11 DEF OutsideOk
<1>14. HolderOk(t, m)'
  BY <1>0, <1>1, <1>2, <1>3, <1>10, <1>11 DEF HolderOk, InCall, Within, Between, EnterSteps
<1> QED
  BY <1>6, <1>7, <1>8, <1>9, <1>12, <1>13, <1>14, StepInv

LEMMA LockMutexInv ==
  ASSUME MutexInv, NEW t \in Thread, NEW m \in Mutexes, at[t] = m, LockMutex(t), UNCHANGED tableVars
  PROVE  MutexInv'
<1>0. InCall(t) /\ FreeOk(m) /\ OutsideOk(t, m) /\ HolderOk(t, m)
  BY DEF MutexInv
<1>1. /\ entered[t][m] \in Nat /\ nRef[m] \in Nat /\ depth[m] \in Nat
      /\ lock[m] \in Thread \cup {NoThread} /\ owner[m] \in Thread \cup {NoThread}
  BY DEF MutexInv, MutexTypeOK
<1>2. pc[t] = "lock"
  BY DEF LockMutex
<1>4. entered' = entered /\ entered' \in [Thread -> [Mutexes -> Nat]]
  BY DEF LockMutex, MutexInv, MutexTypeOK
<1>13. CASE /\ Lockable(t, m) /\ Goto(t, "setOwner")
             /\ lock' = [lock EXCEPT ![m] = t] /\ depth' = [depth EXCEPT ![m] = depth[m] + 1]
  <2>3. /\ pc' \in [Thread -> InitSteps \cup EnterSteps \cup LeaveSteps \cup {"idle"}]
        /\ at' \in [Thread -> Mutexes \cup {NoMutex}] /\ trying' \subseteq Thread
        /\ pc'[t] = "setOwner" /\ at'[t] = m
        /\ \A u \in Thread \ {t} : pc'[u] = pc[u] /\ at'[u] = at[u]
    BY <1>13, GotoMoves DEF MutexInv, EnterSteps
  <2>5. /\ UNCHANGED <<nRef, owner, table, unflushed>>
        /\ lock' = [lock EXCEPT ![m] = t]
        /\ depth' = [depth EXCEPT ![m] = depth[m] + 1]
    BY <1>13 DEF LockMutex, tableVars
  <2>6. MutexTypeOK'
    BY <2>3, <1>4, <2>5 DEF MutexInv, MutexTypeOK
  <2>7. Only(t, m)
    BY <2>3, <1>4, <2>5 DEF Only, MutexInv, MutexTypeOK
  <2>8. lock[m] \in {t, NoThread} /\ (lock[m] = t => ~Homegrown)
    BY <1>13 DEF Lockable
  <2>9. WritesHeld(t, m)
    BY <2>5, <2>8 DEF WritesHeld, MutexInv, MutexTypeOK
  <2>10. InCall(t)'
    BY <1>0, <1>2, <2>3 DEF InCall, InitSteps
  <2>11. /\ lock'[m] = t /\ depth'[m] = depth[m] + 1 /\ nRef'[m] = nRef[m] /\ owner'[m] = owner[m]
         /\ entered'[t][m] = entered[t][m]
    BY <1>4, <2>5 DEF MutexInv, MutexTypeOK
  <2>12. FreeOk(m)' /\ OutsideOk(t, m)'
    BY <2>11 DEF FreeOk, OutsideOk
  <2>14. HolderOk(t, m)'
    <3>1. CASE lock[m] = t
      BY <1>0, <1>1, <1>2, <2>3, <2>8, <2>11, <3>1 DEF HolderOk, Within, Between, EnterSteps
    <3>2. CASE lock[m] = NoThread
      BY <1>0, <1>1, <1>2, <2>3, <2>11, <3>2 DEF HolderOk, FreeOk, OutsideOk, Within, Between, EnterSteps
    <3> QED BY <2>8, <3>1, <3>2
  <2> QED
    BY <2>6, <2>7, <2>9, <2>10, <2>12, <2>14, StepInv
<1>14. CASE Return(t) /\ UNCHANGED <<lock, depth>>
  <2>3. /\ pc' \in [Thread -> InitSteps \cup EnterSteps \cup LeaveSteps \cup {"idle"}]
        /\ at' \in [Thread -> Mutexes \cup {NoMutex}] /\ trying' \subseteq Thread
        /\ pc'[t] = "idle" /\ at'[t] = NoMutex
        /\ \A u \in Thread \ {t} : pc'[u] = pc[u] /\ at'[u] = at[u]
    BY <1>14, ReturnMoves DEF MutexInv
  <2>5. UNCHANGED <<lock, depth, nRef, owner, table, unflushed>>
    BY <1>14 DEF LockMutex, tableVars
  <2>6. MutexTypeOK'
    BY <2>3, <1>4, <2>5 DEF MutexInv, MutexTypeOK
  <2>7. Only(t, m)
    BY <2>3, <1>4, <2>5 DEF Only, MutexInv, MutexTypeOK
  <2>8. WritesHeld(t, m)
    BY <2>5 DEF WritesHeld
  <2>9. InCall(t)'
    BY <2>3 DEF InCall, InitSteps
  <2>10. FreeOk(m)'
    BY <1>0, <2>5 DEF FreeOk
  <2>11. OutsideOk(t, m)'
    BY <1>0, <2>3, <1>4, <2>5 DEF OutsideOk
  <2>12. HolderOk(t, m)'
    BY <1>0, <1>1, <1>2, <2>3, <1>4, <2>5 DEF HolderOk, Within, Between, EnterSteps
  <2> QED
    BY <2>6, <2>7, <2>8, <2>9, <2>10, <2>11, <2>12, StepInv
<1> QED
  BY <1>13, <1>14 DEF LockMutex

(***************************************************************************)
(* The steps of leave.                                                     *)
(***************************************************************************)
LEMMA DecRefInv ==
  ASSUME MutexInv, NEW t \in Thread, NEW m \in Mutexes, at[t] = m, DecRef(t), UNCHANGED tableVars
  PROVE  MutexInv'
<1>0. InCall(t) /\ FreeOk(m) /\ OutsideOk(t, m) /\ HolderOk(t, m)
  BY DEF MutexInv
<1>1. /\ entered[t][m] \in Nat /\ nRef[m] \in Nat /\ depth[m] \in Nat
      /\ lock[m] \in Thread \cup {NoThread} /\ owner[m] \in Thread \cup {NoThread}
  BY DEF MutexInv, MutexTypeOK
<1>2. pc[t] = "leave" /\ lock[m] = t /\ nRef[m] = entered[t][m] + 1 /\ owner[m] = t
  BY <1>0, <1>1 DEF DecRef, OutsideOk, HolderOk, Within
<1>3. /\ pc' \in [Thread -> InitSteps \cup EnterSteps \cup LeaveSteps \cup {"idle"}]
      /\ at' \in [Thread -> Mutexes \cup {NoMutex}] /\ trying' \subseteq Thread
      /\ \A u \in Thread \ {t} : pc'[u] = pc[u] /\ at'[u] = at[u]
      /\ \/ nRef[m] = 1 /\ pc'[t] = "clearOwner" /\ at'[t] = m
         \/ nRef[m] # 1 /\ Homegrown /\ pc'[t] = "idle" /\ at'[t] = NoMutex
         \/ nRef[m] # 1 /\ ~Homegrown /\ pc'[t] = "unlock" /\ at'[t] = m
  <2>1. CASE nRef[m] = 1
    BY <2>1, GotoMoves DEF DecRef, MutexInv, LeaveSteps
  <2>2. CASE nRef[m] # 1 /\ Homegrown
    BY <2>2, ReturnMoves DEF DecRef, MutexInv
  <2>3. CASE nRef[m] # 1 /\ ~Homegrown
    BY <2>3, GotoMoves DEF DecRef, MutexInv, LeaveSteps
  <2> QED BY <2>1, <2>2, <2>3
<1>4. entered' = entered /\ entered' \in [Thread -> [Mutexes -> Nat]]
  BY DEF DecRef, MutexInv, MutexTypeOK
<1>5. /\ UNCHANGED <<lock, depth, owner, table, unflushed>>
      /\ nRef' = [nRef EXCEPT ![m] = nRef[m] - 1]
      /\ nRef[m] - 1 \in Nat
  BY <1>1, <1>2 DEF DecRef, tableVars
<1>6. MutexTypeOK'
  BY <1>3, <1>4, <1>5 DEF MutexInv, MutexTypeOK
<1>7. Only(t, m)
  BY <1>3, <1>4, <1>5 DEF Only, MutexInv, MutexTypeOK
<1>8. WritesHeld(t, m)
  BY <1>2, <1>5 DEF WritesHeld
<1>9. InCall(t)'
  BY <1>3 DEF InCall, InitSteps
<1>10. /\ lock'[m] = t /\ depth'[m] = depth[m] /\ nRef'[m] = nRef[m] - 1 /\ owner'[m] = t
       /\ entered'[t][m] = entered[t][m]
  BY <1>2, <1>4, <1>5 DEF MutexInv, MutexTypeOK
<1>11. FreeOk(m)' /\ OutsideOk(t, m)'
  BY <1>10 DEF FreeOk, OutsideOk
<1>12. HolderOk(t, m)'
  BY <1>0, <1>1, <1>2, <1>3, <1>10 DEF HolderOk, Within, Between, EnterSteps
<1> QED
  BY <1>6, <1>7, <1>8, <1>9, <1>11, <1>12, StepInv

LEMMA UnlockInv ==
  ASSUME MutexInv, NEW t \in Thread, NEW m \in Mutexes, at[t] = m, Unlock(t), UNCHANGED tableVars
  PROVE  MutexInv'
<1>0. InCall(t) /\ FreeOk(m) /\ OutsideOk(t, m) /\ HolderOk(t, m)
  BY DEF MutexInv
<1>1. /\ entered[t][m] \in Nat /\ nRef[m] \in Nat /\ depth[m] \in Nat
      /\ lock[m] \in Thread \cup {NoThread} /\ owner[m] \in Thread \cup {NoThread}
  BY DEF MutexInv, MutexTypeOK
<1>2. /\ pc[t] = "unlock" /\ lock[m] = t /\ nRef[m] = entered[t][m]
      /\ depth[m] = IF Homegrown THEN 1 ELSE entered[t][m] + 1
      /\ Homegrown => entered[t][m] = 0
      /\ owner[m] = IF entered[t][m] = 0 THEN NoThread ELSE t
  BY <1>0, <1>1 DEF Unlock, OutsideOk, HolderOk, Within, Between
<1>3. /\ pc' \in [Thread -> InitSteps \cup EnterSteps \cup LeaveSteps \cup {"idle"}]
      /\ at' \in [Thread -> Mutexes \cup {NoMutex}] /\ trying' \subseteq Thread
      /\ pc'[t] = "idle" /\ at'[t] = NoMutex
      /\ \A u \in Thread \ {t} : pc'[u] = pc[u] /\ at'[u] = at[u]
  BY ReturnMoves DEF Unlock, MutexInv
<1>4. entered' = entered /\ entered' \in [Thread -> [Mutexes -> Nat]]
  BY DEF Unlock, MutexInv, MutexTypeOK
<1>5. /\ UNCHANGED <<nRef, owner, table, unflushed>>
      /\ depth' = [depth EXCEPT ![m] = depth[m] - 1]
      /\ depth[m] - 1 = entered[t][m]
      /\ lock' = IF entered[t][m] = 0 THEN [lock EXCEPT ![m] = NoThread] ELSE lock
  <2>1. depth[m] - 1 = entered[t][m] /\ (depth[m] = 1 <=> entered[t][m] = 0)
    BY <1>1, <1>2
  <2> QED BY <2>1 DEF Unlock, tableVars
<1>6. MutexTypeOK'
  BY <1>1, <1>3, <1>4, <1>5 DEF MutexInv, MutexTypeOK
<1>7. Only(t, m)
  BY <1>3, <1>4, <1>5 DEF Only, MutexInv, MutexTypeOK
<1>8. WritesHeld(t, m)
  BY <1>2, <1>5 DEF WritesHeld, MutexInv, MutexTypeOK
<1>9. InCall(t)'
  BY <1>3 DEF InCall, InitSteps
<1>10. /\ lock'[m] = (IF entered[t][m] = 0 THEN NoThread ELSE t) /\ depth'[m] = entered[t][m]
       /\ nRef'[m] = entered[t][m] /\ owner'[m] = (IF entered[t][m] = 0 THEN NoThread ELSE t)
       /\ entered'[t][m] = entered[t][m]
  BY <1>2, <1>4, <1>5 DEF MutexInv, MutexTypeOK
<1>11. FreeOk(m)'
  BY <1>10 DEF FreeOk
<1>12. OutsideOk(t, m)'
  BY <1>3, <1>10 DEF OutsideOk
<1>13. HolderOk(t, m)'
  BY <1>0, <1>1, <1>2, <1>3, <1>10 DEF HolderOk, Within, Between, EnterSteps
<1> QED
  BY <1>6, <1>7, <1>8, <1>9, <1>11, <1>12, <1>13, StepInv

-----------------------------------------------------------------------------
LEMMA MutexNextInv == MutexInv /\ [MutexNext]_mVars => MutexInv'
<1> SUFFICES ASSUME MutexInv, [MutexNext]_mVars PROVE MutexInv'
  OBVIOUS
<1>1. ASSUME NEW t \in Thread, InitStep(t) PROVE MutexInv'
  BY <1>1, InitStepInv
<1>2. ASSUME NEW t \in Thread, Flush(t) PROVE MutexInv'
  BY <1>2, FlushInv
<1>3. ASSUME NEW t \in Thread, MutexStep(t) PROVE MutexInv'
  <2>1. UNCHANGED tableVars
    BY <1>3 DEF MutexStep
  <2>2. pc[t] \in EnterSteps \cup LeaveSteps
    BY <1>3 DEF MutexStep, ReadRef, ReadOwner, EnterAgain, LockMutex, SetOwner, SetRef, DecRef,
       ClearOwner, Unlock, EnterSteps, LeaveSteps
  <2>3. PICK m \in Mutexes : at[t] = m
    BY <2>2, StepHasMutex
  <2>4. CASE ReadRef(t) BY <2>1, <2>3, <2>4, ReadRefInv
  <2>5. CASE ReadOwner(t) BY <2>1, <2>3, <2>5, ReadOwnerInv
  <2>6. CASE EnterAgain(t) BY <2>1, <2>3, <2>6, EnterAgainInv
  <2>7. CASE LockMutex(t) BY <2>1, <2>3, <2>7, LockMutexInv
  <2>8. CASE SetOwner(t) BY <2>1, <2>3, <2>8, SetOwnerInv
  <2>9. CASE SetRef(t) BY <2>1, <2>3, <2>9, SetRefInv
  <2>10. CASE DecRef(t) BY <2>1, <2>3, <2>10, DecRefInv
  <2>11. CASE ClearOwner(t) BY <2>1, <2>3, <2>11, ClearOwnerInv
  <2>12. CASE Unlock(t) BY <2>1, <2>3, <2>12, UnlockInv
  <2> QED
    BY <1>3, <2>4, <2>5, <2>6, <2>7, <2>8, <2>9, <2>10, <2>11, <2>12 DEF MutexStep
<1>4. ASSUME NEW t \in Thread, NEW m \in Mutexes, NEW try \in BOOLEAN, BeginEnter(t, m, try)
      PROVE  MutexInv'
  BY <1>4, BeginEnterInv
<1>5. ASSUME NEW t \in Thread, NEW m \in Mutexes, BeginLeave(t, m) PROVE MutexInv'
  BY <1>5, BeginLeaveInv
<1>6. CASE UNCHANGED mVars
  BY <1>6 DEF mVars, tableVars, mutexVars, MutexInv, MutexTypeOK, InCall, FreeOk, OutsideOk,
     HolderOk, Within
<1> QED
  BY <1>1, <1>2, <1>3, <1>4, <1>5, <1>6 DEF MutexNext

(* The inductive invariant of the mutexes holds in every state: what nRef, *)
(* owner and the pthread mutex are at each step of enter, try and leave.   *)
THEOREM MutexInvariant == MutexSpec => []MutexInv
  BY MutexInitInv, MutexNextInv, PTL DEF MutexSpec

(* Every variable of the mutex subsystem stays in its range; nRef never    *)
(* goes negative.                                                          *)
THEOREM MutexTypeCorrect == MutexSpec => []MutexTypeOK
<1>1. MutexInv => MutexTypeOK
  BY DEF MutexInv
<1> QED
  BY <1>1, MutexInvariant, PTL

(* Two threads are never inside one mutex, recursive or not, on a          *)
(* recursive pthread mutex or on the homegrown one.                        *)
THEOREM MutexExcludes == MutexSpec => []MutualExclusion
<1>1. MutexInv => MutualExclusion
  <2> SUFFICES ASSUME MutexInv, NEW t \in Thread, NEW u \in Thread, NEW m \in Mutexes,
                      entered[t][m] > 0, entered[u][m] > 0
               PROVE  t = u
    BY DEF MutualExclusion
  <2>1. OutsideOk(t, m) /\ OutsideOk(u, m)
    BY DEF MutexInv
  <2> QED BY <2>1 DEF OutsideOk
<1> QED
  BY <1>1, MutexInvariant, PTL

(* pthreadMutexHeld and pthreadMutexNotheld, which read without the lock,  *)
(* tell each thread the truth about itself.                                *)
THEOREM HeldIsTrue == MutexSpec => []HeldTellsTruth
<1>1. MutexInv => HeldTellsTruth
  <2> SUFFICES ASSUME MutexInv, NEW t \in Thread, NEW m \in Mutexes,
                      pc[t] \notin EnterSteps \cup LeaveSteps \/ at[t] # m
               PROVE  nRef[m] # 0 /\ owner[m] = t <=> entered[t][m] > 0
    BY DEF HeldTellsTruth
  <2>1. /\ FreeOk(m) /\ OutsideOk(t, m) /\ HolderOk(t, m) /\ entered[t][m] \in Nat
        /\ lock[m] \in Thread \cup {NoThread}
    BY DEF MutexInv, MutexTypeOK
  <2>2. \A steps \in {Between, {"leave"}, {"setOwner", "unlock"}} : ~Within(t, m, steps)
    BY DEF Within, Between, EnterSteps, LeaveSteps
  <2>3. CASE lock[m] = t
    <3>1. nRef[m] = entered[t][m] /\ entered[t][m] # 0 /\ owner[m] = t
      BY <2>1, <2>2, <2>3 DEF HolderOk
    <3> QED BY <2>1, <3>1
  <2>4. CASE lock[m] # t
    <3>1. entered[t][m] = 0
      BY <2>1, <2>4 DEF OutsideOk
    <3>2. owner[m] # t
      <4>1. CASE lock[m] = NoThread
        BY <2>1, <4>1 DEF FreeOk
      <4>2. CASE lock[m] \in Thread
        <5>1. HolderOk(lock[m], m)
          BY <4>2 DEF MutexInv
        <5> QED BY <2>4, <4>2, <5>1 DEF HolderOk
      <4> QED BY <2>1, <4>1, <4>2
    <3> QED BY <3>1, <3>2
  <2> QED BY <2>3, <2>4
<1> QED
  BY <1>1, MutexInvariant, PTL

(* The asserts of enter and leave hold.                                    *)
THEOREM MutexAssertsHold == MutexSpec => []AssertsHold
<1>1. MutexInv => AssertsHold
  <2> SUFFICES ASSUME MutexInv, NEW t \in Thread, NEW m, at[t] = m
               PROVE  /\ pc[t] = "setOwner" =>
                           IF Homegrown THEN nRef[m] = 0 ELSE nRef[m] > 0 \/ owner[m] = NoThread
                      /\ pc[t] = "leave" =>
                           nRef[m] > 0 /\ owner[m] = t /\ (nRef[m] > 1 => m \in Recursive)
    BY DEF AssertsHold
  <2> SUFFICES ASSUME pc[t] \in {"setOwner", "leave"}
               PROVE  /\ pc[t] = "setOwner" =>
                           IF Homegrown THEN nRef[m] = 0 ELSE nRef[m] > 0 \/ owner[m] = NoThread
                      /\ pc[t] = "leave" =>
                           nRef[m] > 0 /\ owner[m] = t /\ (nRef[m] > 1 => m \in Recursive)
    OBVIOUS
  <2>1. m \in Mutexes
    BY StepHasMutex DEF EnterSteps, LeaveSteps
  <2>2. OutsideOk(t, m) /\ HolderOk(t, m) /\ entered[t][m] \in Nat
    BY <2>1 DEF MutexInv, MutexTypeOK
  <2>3. lock[m] = t
    BY <2>2 DEF OutsideOk
  <2> QED
    BY <2>2, <2>3 DEF HolderOk, Within, EnterSteps, Between
<1> QED
  BY <1>1, MutexInvariant, PTL

(* Whichever threads run sqlite3MutexInit at once, in whatever order their *)
(* stores become visible, one that has returned finds the table complete.  *)
THEOREM TableIsComplete == MutexSpec => []TableComplete
<1>1. MutexInit => TableInv
  BY DEF MutexInit, TableInv, Sees, Method, Copied, InitSteps
<1>2. MutexTypeOK /\ TableInv /\ [MutexNext]_mVars => TableInv'
  <2> SUFFICES ASSUME MutexTypeOK, TableInv, [MutexNext]_mVars PROVE TableInv'
    OBVIOUS
  <2>1. ASSUME NEW t \in Thread, InitStep(t) PROVE TableInv'
    <3>1. CASE TestAlloc(t) \/ CallInit(t)
      BY <3>1 DEF MutexTypeOK, TableInv, TestAlloc, CallInit, Goto, Return, Sees, tableVars, InitSteps
    <3>2. CASE CopyMethods(t)
      BY <3>2 DEF MutexTypeOK, TableInv, CopyMethods, Goto, Sees, Copied, Method, InitSteps
    <3>3. CASE Barrier(t)
      BY <3>3 DEF MutexTypeOK, TableInv, Barrier, Goto, Sees, tableVars, InitSteps
    <3>4. CASE PublishAlloc(t)
      BY <3>4 DEF MutexTypeOK, TableInv, PublishAlloc, Goto, Sees, Method, InitSteps
    <3> QED BY <2>1, <3>1, <3>2, <3>3, <3>4 DEF InitStep
  <2>2. ASSUME NEW t \in Thread, Flush(t) PROVE TableInv'
    BY <2>2 DEF MutexTypeOK, TableInv, Flush, Sees
  <2>3. ASSUME NEW t \in Thread, UNCHANGED tableVars, pc[t] \notin InitSteps,
               pc'[t] \notin InitSteps, \A u \in Thread \ {t} : pc'[u] = pc[u]
        PROVE  TableInv'
    BY <2>3 DEF TableInv, Sees, tableVars, InitSteps
  <2>4. ASSUME NEW t \in Thread, MutexStep(t) PROVE TableInv'
    <3>1. UNCHANGED tableVars /\ pc[t] \notin InitSteps
      BY <2>4 DEF MutexStep, ReadRef, ReadOwner, EnterAgain, LockMutex, SetOwner, SetRef, DecRef,
         ClearOwner, Unlock, InitSteps
    <3>2. pc'[t] \notin InitSteps /\ \A u \in Thread \ {t} : pc'[u] = pc[u]
      BY <2>4 DEF MutexStep, ReadRef, ReadOwner, EnterAgain, LockMutex, SetOwner, SetRef, DecRef,
         ClearOwner, Unlock, Entered, Goto, Return, InitSteps, MutexTypeOK
    <3> QED BY <2>3, <3>1, <3>2
  <2>5. ASSUME NEW t \in Thread, NEW m \in Mutexes, NEW try \in BOOLEAN,
               BeginEnter(t, m, try) \/ BeginLeave(t, m)
        PROVE  TableInv'
    <3>1. UNCHANGED tableVars /\ pc[t] \notin InitSteps
      BY <2>5 DEF BeginEnter, BeginLeave, InitSteps
    <3>2. pc'[t] \notin InitSteps /\ \A u \in Thread \ {t} : pc'[u] = pc[u]
      BY <2>5 DEF BeginEnter, BeginLeave, InitSteps, MutexTypeOK
    <3> QED BY <2>3, <3>1, <3>2
  <2>6. CASE UNCHANGED mVars
    BY <2>6 DEF mVars, tableVars, TableInv, Sees
  <2> QED BY <2>1, <2>2, <2>4, <2>5, <2>6 DEF MutexNext
<1>3. TableInv => TableComplete
  BY DEF TableInv, TableComplete, Sees, Method
<1> QED
  BY <1>1, <1>2, <1>3, MutexTypeCorrect, PTL DEF MutexSpec

(* What the VFS list and sqlite3_initialize do with the mutexes is         *)
(* something that threads may do with mutexes: all that is proved of Mutex *)
(* holds of VfsList.                                                       *)
THEOREM VfsListUsesMutex == VfsSpec => MutexSpec
<1>1. VfsInit => MutexInit
  BY DEF VfsInit
<1>2. [VfsNext]_vfsVars => [MutexNext]_mVars
  <2> SUFFICES ASSUME [VfsNext]_vfsVars PROVE [MutexNext]_mVars
    OBVIOUS
  <2>0. Main \in Mutexes /\ InitMutex \in Mutexes
    BY VfsListAssumption
  <2>1. ASSUME NEW t \in Thread, MutexCall(t) PROVE MutexNext
    BY <2>0, <2>1 DEF MutexCall, EnterInit, LeaveInit, EnterMain, LeaveMain, MutexNext
  <2>2. ASSUME NEW t \in Thread, EndCall(t) PROVE MutexNext
    BY <2>0, <2>2 DEF EndCall, MutexNext
  <2>3. ASSUME NEW t \in Thread, VfsStep(t), ~EndCall(t) PROVE UNCHANGED mVars
    BY <2>3 DEF VfsStep, FindFirst, FindNext, UnlinkHead, UnlinkAfter, Insert, LinkFirst, LinkSecond,
       Doing
  <2>4. ASSUME NEW t \in Thread,
               \/ Find(t) \/ Register(t) \/ Unregister(t)
               \/ OsInit(t) \/ OsInitRegister(t) \/ OsInitDone(t)
        PROVE  UNCHANGED mVars
    BY <2>4 DEF Find, Register, Unregister, OsInit, OsInitRegister, OsInitDone, BeginCall
  <2>5. ASSUME OsEnd PROVE UNCHANGED mVars
    BY <2>5 DEF OsEnd
  <2>6. ASSUME UNCHANGED vfsVars PROVE UNCHANGED mVars
    BY <2>6 DEF vfsVars
  <2> QED
    BY <2>1, <2>2, <2>3, <2>4, <2>5, <2>6 DEF VfsNext
<1> QED
  BY <1>1, <1>2, PTL DEF VfsSpec, MutexSpec

(* Two threads are never inside one mutex, whatever calls of VfsList they  *)
(* are in.                                                                 *)
THEOREM VfsListExcludes == VfsSpec => []MutualExclusion
  BY VfsListUsesMutex, MutexExcludes
-----------------------------------------------------------------------------
HIDE MutexAssumption

(***************************************************************************)
(* The list of VFSes.  Order, which is computed by following the pointers, *)
(* is the sequence s that they link, if there is one.                      *)
(***************************************************************************)
Linked(s, first, next) ==
  /\ s \in Seq(Vfs)
  /\ \A i, j \in DOMAIN s : s[i] = s[j] => i = j
  /\ first = IF s = <<>> THEN Null ELSE s[1]
  /\ \A i \in DOMAIN s : next[s[i]] = IF i = Len(s) THEN Null ELSE s[i + 1]

LEMMA Least ==
  ASSUME NEW T, T \subseteq Nat, T # {}
  PROVE  \E n \in T : \A m \in T : n <= m
<1> DEFINE R == OpToRel(<, Nat)
<1>1. IsWellFoundedOn(R, Nat)
  BY NatLessThanWellFounded
<1>2. \A m, n \in Nat : m < n => <<m, n>> \in R
  BY DEF OpToRel
<1> HIDE DEF R
<1>3. PICK n \in T : \A m \in T : ~(<<m, n>> \in R)
  BY <1>1, WFMin
<1>4. ASSUME NEW m \in T PROVE n <= m
  <2>1. n \in Nat /\ m \in Nat /\ ~(m < n)
    BY <1>2, <1>3
  <2>2. QED
    BY <2>1
<1>5. QED
  BY <1>4

LEMMA SizeOfVfs == Cardinality(Vfs) \in Nat
BY VfsListAssumption, FS_CardinalityType

LEMMA CountUpTo ==
  ASSUME NEW n \in Nat PROVE Cardinality(1 .. n) = n
<1>1. 1 \in Int /\ n \in Int
  OBVIOUS
<1>2. Cardinality(1 .. n) = IF 1 > n THEN 0 ELSE n - 1 + 1
  BY <1>1, FS_Interval, Zenon
<1>3. QED
  BY <1>2

LEMMA LinkedLength ==
  ASSUME NEW s, NEW first, NEW next, Linked(s, first, next)
  PROVE  Len(s) <= Cardinality(Vfs) /\ Len(s) \in Nat /\ DOMAIN s = 1 .. Len(s)
<1>1. s \in Injection(1 .. Len(s), Vfs)
  BY DEF Linked, Injection, IsInjective
<1>2. Len(s) \in Nat /\ DOMAIN s = 1 .. Len(s)
  BY DEF Linked
<1>3. Cardinality(1 .. Len(s)) <= Cardinality(Vfs)
  BY <1>1, VfsListAssumption, FS_Injection
<1>4. Cardinality(1 .. Len(s)) = Len(s)
  BY <1>2, CountUpTo
<1>5. QED
  BY <1>2, <1>3, <1>4

(* Following the pointers: the n-th is s[n + 1], and Null past the end.    *)
LEMMA NthOfLinked ==
  ASSUME NEW s, Linked(s, vfsList, pNext)
  PROVE  \A n \in 0 .. Cardinality(Vfs) : Nth[n] = IF n < Len(s) THEN s[n + 1] ELSE Null
<1> DEFINE N == Cardinality(Vfs)
           At(n) == IF n < Len(s) THEN s[n + 1] ELSE Null
           g == [n \in 0 .. N |-> At(n)]
           Follow(f, n) == IF n = 0 THEN vfsList ELSE IF f[n - 1] = Null THEN Null ELSE pNext[f[n - 1]]
<1>0. N \in Nat /\ Len(s) \in Nat /\ DOMAIN s = 1 .. Len(s) /\ s \in Seq(Vfs)
  BY SizeOfVfs, LinkedLength DEF Linked
<1>1. \A n \in 0 .. N : n < Len(s) => s[n + 1] \in Vfs /\ s[n + 1] # Null
  BY <1>0, VfsListAssumption
<1>2. \A n \in 0 .. N : At(n) = IF n = 0 THEN vfsList
                                ELSE IF At(n - 1) = Null THEN Null ELSE pNext[At(n - 1)]
  <2> TAKE n \in 0 .. N
  <2>1. CASE n = 0
    <3>1. s = <<>> <=> Len(s) = 0
      BY <1>0
    <3>2. QED
      BY <1>0, <2>1, <3>1 DEF Linked
  <2>2. CASE n # 0 /\ n - 1 < Len(s)
    <3>1. n \in DOMAIN s /\ At(n - 1) = s[n] /\ s[n] # Null
      BY <1>0, <2>2, VfsListAssumption
    <3>2. pNext[s[n]] = IF n = Len(s) THEN Null ELSE s[n + 1]
      BY <3>1 DEF Linked
    <3>3. At(n) = IF n = Len(s) THEN Null ELSE s[n + 1]
      <4>0. n \in Nat /\ Len(s) \in Nat /\ n - 1 < Len(s)
        BY <1>0, <2>2
      <4>1. (n = Len(s) \/ n < Len(s)) /\ (n = Len(s) => ~(n < Len(s)))
        BY <4>0
      <4>2. QED
        BY <4>1
    <3>4. QED
      BY <2>2, <3>1, <3>2, <3>3
  <2>3. CASE n # 0 /\ ~(n - 1 < Len(s))
    BY <1>0, <2>3
  <2>4. QED
    BY <2>1, <2>2, <2>3
<1>3. g = [n \in 0 .. N |-> Follow(g, n)]
  <2>1. \A n \in 0 .. N : g[n] = Follow(g, n)
    <3> TAKE n \in 0 .. N
    <3>1. g[n] = At(n) /\ (n # 0 => n - 1 \in 0 .. N /\ g[n - 1] = At(n - 1))
      BY <1>0
    <3> HIDE DEF g, At
    <3>2. QED
      BY <1>2, <3>1
  <2>2. g = [n \in 0 .. N |-> g[n]]
    OBVIOUS
  <2> HIDE DEF g, At
  <2>3. QED
    BY <2>1, <2>2
<1> HIDE DEF g, At
<1>4. Nth = [n \in 0 .. N |-> Follow(Nth, n)]
  BY <1>3 DEF Nth
<1> DEFINE Wrong == {n \in 0 .. N : Nth[n] # At(n)}
<1>5. Wrong = {}
  <2> SUFFICES ASSUME Wrong # {} PROVE FALSE
    OBVIOUS
  <2>0. Wrong \subseteq Nat
    BY <1>0
  <2>1. PICK n \in Wrong : \A m \in Wrong : n <= m
    <3> HIDE DEF Wrong
    <3>1. QED
      BY <2>0, Least
  <2>2. n \in 0 .. N /\ Nth[n] = Follow(Nth, n) /\ Nth[n] # At(n)
    BY <1>4
  <2>3. CASE n = 0
    BY <1>2, <2>2, <2>3
  <2>4. CASE n # 0
    <3>1. n - 1 \in 0 .. N /\ n - 1 \notin Wrong
      BY <1>0, <2>1, <2>2, <2>4
    <3>2. Nth[n - 1] = At(n - 1)
      BY <3>1
    <3>3. QED
      BY <1>2, <2>2, <2>4, <3>2
  <2>5. QED
    BY <2>3, <2>4
<1>6. QED
  BY <1>5 DEF At

LEMMA OrderOfLinked == \A s : Linked(s, vfsList, pNext) => Order = s
<1> SUFFICES ASSUME NEW s, Linked(s, vfsList, pNext) PROVE Order = s
  OBVIOUS
<1>0. /\ Cardinality(Vfs) \in Nat /\ Len(s) \in Nat /\ DOMAIN s = 1 .. Len(s)
      /\ Len(s) <= Cardinality(Vfs) /\ s \in Seq(Vfs)
  BY SizeOfVfs, LinkedLength DEF Linked
<1>1. \A n \in 1 .. Cardinality(Vfs) : Nth[n - 1] = IF n <= Len(s) THEN s[n] ELSE Null
  <2> TAKE n \in 1 .. Cardinality(Vfs)
  <2>1. n - 1 \in 0 .. Cardinality(Vfs) /\ (n - 1 < Len(s) <=> n <= Len(s)) /\ (n - 1) + 1 = n
    BY <1>0
  <2>2. QED
    BY <2>1, NthOfLinked
<1>2. \A n \in 1 .. Len(s) : s[n] \in Vfs /\ s[n] # Null
  BY <1>0, VfsListAssumption
<1>3. Listed = 1 .. Len(s)
  BY <1>0, <1>1, <1>2 DEF Listed
<1>4. Cardinality(Listed) = Len(s)
  BY <1>0, <1>3, CountUpTo
<1>5. \A n \in 1 .. Len(s) : Nth[n - 1] = s[n]
  BY <1>0, <1>1
<1>6. Order = [n \in 1 .. Len(s) |-> s[n]]
  BY <1>4, <1>5 DEF Order
<1>7. QED
  BY <1>0, <1>6

LEMMA OrderOfLinkedNext == \A s : Linked(s, vfsList', pNext') => Order' = s
<1>1. (\A s : Linked(s, vfsList, pNext) => Order = s)'
  BY OrderOfLinked, PTL
<1>2. QED
  BY <1>1

-----------------------------------------------------------------------------
(***************************************************************************)
(* What one store does to the sequence that is linked.                     *)
(***************************************************************************)
Without(s, k) == SubSeq(s, 1, k - 1) \o SubSeq(s, k + 1, Len(s))

LEMMA WithoutIs ==
  ASSUME NEW s \in Seq(Vfs), NEW k \in DOMAIN s
  PROVE  /\ Without(s, k) \in Seq(Vfs)
         /\ Len(Without(s, k)) = Len(s) - 1
         /\ \A i \in 1 .. Len(s) - 1 : Without(s, k)[i] = s[IF i < k THEN i ELSE i + 1]
<1> DEFINE a == SubSeq(s, 1, k - 1)
           b == SubSeq(s, k + 1, Len(s))
<1>1. k \in 1 .. Len(s) /\ Len(s) \in Nat
  OBVIOUS
<1>2. a \in Seq(Vfs) /\ Len(a) = k - 1 /\ \A i \in 1 .. k - 1 : a[i] = s[i]
  BY <1>1
<1>3. b \in Seq(Vfs) /\ Len(b) = Len(s) - k /\ \A i \in 1 .. Len(s) - k : b[i] = s[k + i]
  BY <1>1
<1> HIDE DEF a, b
<1>4. a \o b \in Seq(Vfs) /\ Len(a \o b) = Len(s) - 1
  BY <1>1, <1>2, <1>3
<1>5. \A i \in 1 .. Len(s) - 1 : (a \o b)[i] = IF i <= k - 1 THEN a[i] ELSE b[i - (k - 1)]
  BY <1>1, <1>2, <1>3, SMTT(30)
<1>6. ASSUME NEW i \in 1 .. Len(s) - 1
      PROVE  (a \o b)[i] = s[IF i < k THEN i ELSE i + 1]
  <2>1. CASE i < k
    <3>1. i <= k - 1 /\ i \in 1 .. k - 1
      BY <1>1, <2>1
    <3>2. QED
      BY <1>2, <1>5, <2>1, <3>1
  <2>2. CASE ~(i < k)
    <3>1. ~(i <= k - 1) /\ i - (k - 1) \in 1 .. Len(s) - k /\ k + (i - (k - 1)) = i + 1
      BY <1>1, <2>2
    <3>2. QED
      BY <1>3, <1>5, <2>2, <3>1
  <2>3. QED
    BY <2>1, <2>2
<1>7. Without(s, k) = a \o b
  BY DEF Without, a, b
<1>8. QED
  BY <1>4, <1>6, <1>7

LEMMA RemoveLinked ==
  ASSUME NEW s, NEW first, NEW next \in [Vfs -> Vfs \cup {Null}], Linked(s, first, next),
         NEW k \in DOMAIN s
  PROVE  /\ k = 1 => Linked(Without(s, k), next[s[k]], next)
         /\ k > 1 => Linked(Without(s, k), first, [next EXCEPT ![s[k - 1]] = next[s[k]]])
         /\ \A i \in DOMAIN Without(s, k) : Without(s, k)[i] # s[k]
<1> DEFINE r == Without(s, k)
           At(i) == IF i < k THEN i ELSE i + 1
<1>1. s \in Seq(Vfs) /\ Len(s) \in Nat /\ DOMAIN s = 1 .. Len(s) /\ k \in 1 .. Len(s)
  BY DEF Linked
<1>2. r \in Seq(Vfs) /\ Len(r) = Len(s) - 1 /\ \A i \in 1 .. Len(s) - 1 : r[i] = s[At(i)]
  BY <1>1, WithoutIs
<1> HIDE DEF r
<1>3. DOMAIN r = 1 .. Len(s) - 1
  BY <1>2
<1>4. /\ \A i \in 1 .. Len(s) - 1 : At(i) \in DOMAIN s /\ At(i) # k
      /\ \A i, j \in 1 .. Len(s) - 1 : At(i) = At(j) => i = j
  BY <1>1
<1>5. \A i, j \in DOMAIN s : s[i] = s[j] => i = j
  BY DEF Linked
<1>6. \A i, j \in DOMAIN r : r[i] = r[j] => i = j
  BY <1>2, <1>3, <1>4, <1>5
<1>7. \A i \in DOMAIN r : r[i] # s[k]
  BY <1>2, <1>3, <1>4, <1>5
<1>8. \A i \in DOMAIN s : s[i] \in Vfs /\ next[s[i]] = IF i = Len(s) THEN Null ELSE s[i + 1]
  BY <1>1 DEF Linked
<1>9. r = <<>> <=> Len(s) = 1
  BY <1>1, <1>2
<1>10. first = s[1]
  BY <1>1 DEF Linked
<1>11. CASE k = 1
  <2>1. next[s[k]] = IF r = <<>> THEN Null ELSE r[1]
    <3>1. next[s[1]] = IF 1 = Len(s) THEN Null ELSE s[2]
      BY <1>1, <1>8
    <3>2. Len(s) # 1 => r[1] = s[2]
      BY <1>1, <1>2, <1>11
    <3>3. QED
      BY <1>9, <1>11, <3>1, <3>2
  <2>2. ASSUME NEW i \in DOMAIN r PROVE next[r[i]] = IF i = Len(r) THEN Null ELSE r[i + 1]
    <3>1. i + 1 \in DOMAIN s /\ r[i] = s[i + 1]
      BY <1>1, <1>2, <1>3, <1>11
    <3>2. next[r[i]] = IF i + 1 = Len(s) THEN Null ELSE s[(i + 1) + 1]
      BY <1>8, <3>1
    <3>3. i # Len(r) => r[i + 1] = s[(i + 1) + 1]
      BY <1>1, <1>2, <1>3, <1>11
    <3>4. i = Len(r) <=> i + 1 = Len(s)
      BY <1>1, <1>2, <1>3
    <3>5. QED
      BY <3>2, <3>3, <3>4
  <2>3. Linked(r, next[s[k]], next)
    BY <1>2, <1>6, <2>1, <2>2 DEF Linked
  <2>4. QED
    BY <1>7, <1>11, <2>3 DEF r
<1>12. CASE k > 1
  <2> DEFINE new == [next EXCEPT ![s[k - 1]] = next[s[k]]]
  <2>0. k - 1 \in DOMAIN s /\ k \in DOMAIN s /\ s[k - 1] \in Vfs
    BY <1>1, <1>8, <1>12
  <2>1. new[s[k - 1]] = next[s[k]] /\ \A v \in Vfs : v # s[k - 1] => new[v] = next[v]
    BY <2>0
  <2> HIDE DEF new
  <2>2. first = IF r = <<>> THEN Null ELSE r[1]
    BY <1>1, <1>2, <1>9, <1>10, <1>12
  <2>3. ASSUME NEW i \in DOMAIN r PROVE new[r[i]] = IF i = Len(r) THEN Null ELSE r[i + 1]
    <3>0. i \in 1 .. Len(s) - 1 /\ (i = Len(r) <=> i + 1 = Len(s)) /\ k \in 2 .. Len(s)
      BY <1>1, <1>2, <1>3, <1>12
    <3>1. CASE i = k - 1
      <4>1. r[i] = s[k - 1]
        BY <1>2, <3>0, <3>1
      <4>2. new[r[i]] = IF k = Len(s) THEN Null ELSE s[k + 1]
        BY <1>8, <2>0, <2>1, <4>1
      <4>3. i # Len(r) => r[i + 1] = s[k + 1]
        BY <1>1, <1>2, <3>0, <3>1
      <4>4. i = Len(r) <=> k = Len(s)
        BY <1>1, <3>0, <3>1
      <4>5. QED
        BY <4>2, <4>3, <4>4
    <3>2. CASE i < k - 1
      <4>1. r[i] = s[i] /\ i \in DOMAIN s /\ i # k - 1
        BY <1>1, <1>2, <3>0, <3>2
      <4>2. new[r[i]] = next[s[i]]
        BY <1>5, <1>8, <2>0, <2>1, <4>1
      <4>3. i # Len(s) /\ i # Len(r) /\ r[i + 1] = s[i + 1]
        BY <1>1, <1>2, <3>0, <3>2
      <4>4. QED
        BY <1>8, <4>1, <4>2, <4>3
    <3>3. CASE i > k - 1
      <4>1. r[i] = s[i + 1] /\ i + 1 \in DOMAIN s /\ i + 1 # k - 1
        BY <1>1, <1>2, <3>0, <3>3
      <4>2. new[r[i]] = next[s[i + 1]]
        BY <1>5, <1>8, <2>0, <2>1, <4>1
      <4>3. i # Len(r) => r[i + 1] = s[(i + 1) + 1]
        BY <1>1, <1>2, <3>0, <3>3
      <4>4. next[s[i + 1]] = IF i + 1 = Len(s) THEN Null ELSE s[(i + 1) + 1]
        BY <1>8, <4>1
      <4>5. QED
        BY <3>0, <4>2, <4>3, <4>4
    <3>4. QED
      BY <3>0, <3>1, <3>2, <3>3
  <2>4. Linked(r, first, new)
    BY <1>2, <1>6, <2>2, <2>3 DEF Linked
  <2>5. QED
    BY <1>7, <1>12, <2>4 DEF r, new
<1>13. QED
  BY <1>1, <1>11, <1>12

LEMMA AddFirstLinked ==
  ASSUME NEW s, NEW first, NEW next \in [Vfs -> Vfs \cup {Null}], Linked(s, first, next),
         NEW v \in Vfs, \A i \in DOMAIN s : s[i] # v, next[v] = first
  PROVE  Linked(<<v>> \o s, v, next)
<1> DEFINE r == <<v>> \o s
<1>1. s \in Seq(Vfs) /\ Len(s) \in Nat /\ DOMAIN s = 1 .. Len(s)
  BY DEF Linked
<1>2. /\ r \in Seq(Vfs) /\ Len(r) = Len(s) + 1 /\ r[1] = v
      /\ \A i \in 2 .. Len(s) + 1 : r[i] = s[i - 1]
  BY <1>1
<1> HIDE DEF r
<1>3. DOMAIN r = 1 .. Len(s) + 1 /\ r # <<>>
  BY <1>1, <1>2
<1>4. \A i \in DOMAIN r : i # 1 => i - 1 \in DOMAIN s /\ r[i] = s[i - 1]
  BY <1>1, <1>2, <1>3
<1>5. ASSUME NEW i \in DOMAIN r, NEW j \in DOMAIN r, r[i] = r[j] PROVE i = j
  <2>1. CASE i = 1 \/ j = 1
    BY <1>2, <1>4, <1>5, <2>1
  <2>2. CASE i # 1 /\ j # 1
    <3>1. i - 1 = j - 1
      BY <1>4, <1>5, <2>2 DEF Linked
    <3>2. QED
      BY <1>1, <1>3, <3>1
  <2>3. QED
    BY <2>1, <2>2
<1>6. ASSUME NEW i \in DOMAIN r PROVE next[r[i]] = IF i = Len(r) THEN Null ELSE r[i + 1]
  <2>1. CASE i = 1
    <3>1. s = <<>> <=> Len(s) = 0
      BY <1>1
    <3>2. next[r[i]] = IF Len(s) = 0 THEN Null ELSE s[1]
      BY <1>2, <2>1, <3>1 DEF Linked
    <3>3. Len(s) # 0 => r[i + 1] = s[1]
      BY <1>1, <1>2, <2>1
    <3>4. i = Len(r) <=> Len(s) = 0
      BY <1>1, <1>2, <2>1
    <3>5. QED
      BY <3>2, <3>3, <3>4
  <2>2. CASE i # 1
    <3>1. next[r[i]] = IF i - 1 = Len(s) THEN Null ELSE s[(i - 1) + 1]
      BY <1>4, <2>2 DEF Linked
    <3>2. i # Len(r) => r[i + 1] = s[(i - 1) + 1]
      BY <1>1, <1>2, <1>3, <2>2
    <3>3. i = Len(r) <=> i - 1 = Len(s)
      BY <1>1, <1>2, <1>3
    <3>4. QED
      BY <3>1, <3>2, <3>3
  <2>3. QED
    BY <2>1, <2>2
<1>7. Linked(r, v, next)
  BY <1>2, <1>3, <1>5, <1>6 DEF Linked
<1>8. QED
  BY <1>7 DEF r

LEMMA AddSecondLinked ==
  ASSUME NEW s, NEW first, NEW next \in [Vfs -> Vfs \cup {Null}], Linked(s, first, next), s # <<>>,
         NEW v \in Vfs, \A i \in DOMAIN s : s[i] # v, next[v] = next[first]
  PROVE  Linked(<<Head(s), v>> \o Tail(s), first, [next EXCEPT ![first] = v])
<1> DEFINE r == <<Head(s), v>> \o Tail(s)
           new == [next EXCEPT ![first] = v]
<1>1. /\ s \in Seq(Vfs) /\ Len(s) \in Nat \ {0} /\ DOMAIN s = 1 .. Len(s)
      /\ first = s[1] /\ first \in Vfs /\ Head(s) = s[1]
  BY DEF Linked
<1>2. Tail(s) \in Seq(Vfs) /\ Len(Tail(s)) = Len(s) - 1 /\ \A i \in 1 .. Len(s) - 1 : Tail(s)[i] = s[i + 1]
  BY <1>1
<1>3. /\ r \in Seq(Vfs) /\ Len(r) = Len(s) + 1 /\ r[1] = s[1] /\ r[2] = v
  BY <1>1, <1>2
<1>4. \A i \in 3 .. Len(s) + 1 : r[i] = s[i - 1]
  <2> TAKE i \in 3 .. Len(s) + 1
  <2>1. r[i] = Tail(s)[i - 2] /\ i - 2 \in 1 .. Len(s) - 1 /\ (i - 2) + 1 = i - 1
    BY <1>1, <1>2
  <2>2. QED
    BY <1>2, <2>1
<1> HIDE DEF r
<1>5. DOMAIN r = 1 .. Len(s) + 1 /\ r # <<>>
  BY <1>1, <1>3
<1>6. \A i \in DOMAIN r : i > 2 => i - 1 \in DOMAIN s /\ i - 1 # 1 /\ r[i] = s[i - 1]
  BY <1>1, <1>4, <1>5
<1>7. \A i, j \in DOMAIN s : s[i] = s[j] => i = j
  BY DEF Linked
<1>8. 1 \in DOMAIN s
  BY <1>1
<1>9. \A i \in DOMAIN r : i = 1 \/ i = 2 \/ i > 2
  BY <1>1, <1>5
<1>10. ASSUME NEW i \in DOMAIN r, NEW j \in DOMAIN r, r[i] = r[j] PROVE i = j
  <2>1. CASE i > 2 /\ j > 2
    <3>1. i - 1 = j - 1
      BY <1>6, <1>7, <1>10, <2>1
    <3>2. QED
      BY <1>1, <1>5, <3>1
  <2>2. CASE ~(i > 2 /\ j > 2)
    BY <1>3, <1>6, <1>7, <1>8, <1>9, <1>10, <2>2
  <2>3. QED
    BY <2>1, <2>2
<1>11. new[first] = v /\ \A w \in Vfs : w # first => new[w] = next[w]
  BY <1>1
<1> HIDE DEF new
<1>12. \A i \in DOMAIN s : s[i] \in Vfs /\ next[s[i]] = IF i = Len(s) THEN Null ELSE s[i + 1]
  BY <1>1 DEF Linked
<1>13. ASSUME NEW i \in DOMAIN r PROVE new[r[i]] = IF i = Len(r) THEN Null ELSE r[i + 1]
  <2>1. CASE i = 1
    BY <1>1, <1>3, <1>11, <2>1
  <2>2. CASE i = 2
    <3>1. v # first
      BY <1>1, <1>8
    <3>2. new[r[i]] = IF 1 = Len(s) THEN Null ELSE s[1 + 1]
      BY <1>1, <1>3, <1>8, <1>11, <1>12, <2>2, <3>1
    <3>3. Len(s) # 1 => r[3] = s[1 + 1]
      BY <1>1, <1>4
    <3>4. i = Len(r) <=> 1 = Len(s)
      BY <1>1, <1>3, <2>2
    <3>5. QED
      BY <2>2, <3>2, <3>3, <3>4
  <2>3. CASE i > 2
    <3>1. r[i] = s[i - 1] /\ i - 1 \in DOMAIN s /\ s[i - 1] # first
      BY <1>1, <1>6, <1>7, <1>8, <2>3
    <3>2. new[r[i]] = IF i - 1 = Len(s) THEN Null ELSE s[(i - 1) + 1]
      BY <1>11, <1>12, <3>1
    <3>3. i # Len(r) => r[i + 1] = s[(i - 1) + 1]
      BY <1>1, <1>3, <1>4, <1>5, <2>3
    <3>4. i = Len(r) <=> i - 1 = Len(s)
      BY <1>1, <1>3, <1>5
    <3>5. QED
      BY <3>2, <3>3, <3>4
  <2>4. QED
    BY <1>9, <2>1, <2>2, <2>3
<1>14. Linked(r, first, new)
  BY <1>1, <1>3, <1>5, <1>10, <1>13 DEF Linked
<1>15. QED
  BY <1>14 DEF r, new

(* A store into a VFS that is not on the list.                             *)
LEMMA StoreOutside ==
  ASSUME NEW s, NEW first, NEW next \in [Vfs -> Vfs \cup {Null}], Linked(s, first, next),
         NEW v \in Vfs, \A i \in DOMAIN s : s[i] # v, NEW x
  PROVE  Linked(s, first, [next EXCEPT ![v] = x])
BY DEF Linked

-----------------------------------------------------------------------------
(***************************************************************************)
(* The invariant of the list: whoever is in a call has Main to itself, and *)
(* the pointer that walks along the list is on it and has missed nothing.  *)
(***************************************************************************)
Search == {"first", "compare"}
Unlinking == {"unlink", "unlinkFirst", "walk", "walkFirst"}
Adding == {"insert", "linkFirst", "linkSecond"}

VfsTyped ==
  /\ pNext \in [Vfs -> Vfs \cup {Null}]
  /\ vpc \in [Thread -> Search \cup Unlinking \cup Adding \cup {"none", "leave"}]
  /\ arg \in [Thread -> Vfs \cup Names \cup {Null}]
  /\ p \in [Thread -> Vfs \cup {Null}]
  /\ todo \in Seq(Vfs)

Matches(t, v) == arg[t] \in {Null, NameOf[v]}

FindDone(t, s) ==
  \/ p[t] = Null /\ \A i \in DOMAIN s : ~Matches(t, s[i])
  \/ \E i \in DOMAIN s :
       p[t] = s[i] /\ Matches(t, s[i]) /\ \A j \in DOMAIN s : j < i => ~Matches(t, s[j])

CallOn(t, s) ==
  /\ vpc[t] \in Search => arg[t] \in Names \cup {Null}
  /\ vpc[t] \in Unlinking \cup Adding => arg[t] \in Vfs
  /\ vpc[t] = "compare" =>
       \/ p[t] = Null /\ \A i \in DOMAIN s : ~Matches(t, s[i])
       \/ \E i \in DOMAIN s : p[t] = s[i] /\ \A j \in DOMAIN s : j < i => ~Matches(t, s[j])
  /\ vpc[t] = "leave" /\ arg[t] \in Names \cup {Null} => FindDone(t, s)
  /\ vpc[t] \in {"walk", "walkFirst"} =>
       \E i \in DOMAIN s : p[t] = s[i] /\ \A j \in DOMAIN s : j <= i => s[j] # arg[t]
  /\ vpc[t] \in Adding => \A i \in DOMAIN s : s[i] # arg[t]
  /\ vpc[t] = "linkFirst" => pNext[arg[t]] = vfsList
  /\ vpc[t] = "linkSecond" => s # <<>> /\ pNext[arg[t]] = pNext[vfsList]

HasMain(t) == vpc[t] # "none" => pc[t] = "idle" /\ entered[t][Main] > 0

ListInv ==
  /\ VfsTyped
  /\ Linked(Order, vfsList, pNext)
  /\ \A t \in Thread : HasMain(t) /\ CallOn(t, Order)

LEMMA MainIsMutex == Main \in Mutexes
BY VfsListAssumption, Zenon

LEMMA ListInitInv == VfsInit => ListInv /\ Order = <<>>
<1> SUFFICES ASSUME VfsInit PROVE ListInv /\ Order = <<>>
  OBVIOUS
<1>1. Linked(<<>>, vfsList, pNext)
  BY DEF VfsInit, Linked
<1>2. Order = <<>>
  BY <1>1, OrderOfLinked
<1>3. VfsTyped
  BY DEF VfsInit, VfsTyped
<1>4. ASSUME NEW t \in Thread PROVE HasMain(t) /\ CallOn(t, Order)
  BY DEF VfsInit, HasMain, CallOn, Search, Unlinking, Adding
<1>5. QED
  BY <1>1, <1>2, <1>3, <1>4 DEF ListInv

(* Mutex calls and initialization leave list and calls alone.              *)
LEMMA QuietStep ==
  ASSUME ListInv, UNCHANGED <<listVars, callVars>>, todo' \in Seq(Vfs),
         \A t \in Thread : HasMain(t)'
  PROVE  ListInv' /\ Order' = Order
<1>1. Linked(Order, vfsList', pNext')
  BY DEF ListInv, listVars
<1>2. Order' = Order
  BY <1>1, OrderOfLinkedNext
<1>3. VfsTyped'
  BY DEF ListInv, VfsTyped, listVars, callVars
<1>4. UNCHANGED <<vfsList, pNext, vpc, arg, dflt, p>>
  BY DEF listVars, callVars
<1>5. ASSUME NEW t \in Thread PROVE CallOn(t, Order)'
  <2>1. CallOn(t, Order)
    BY DEF ListInv
  <2>2. QED
    BY <1>2, <1>4, <2>1 DEF CallOn, FindDone, Matches
<1>6. QED
  BY <1>1, <1>2, <1>3, <1>5 DEF ListInv

(* A step of a call in Main: no other thread is in one.                    *)
LEMMA CallStep ==
  ASSUME ListInv, MutexTypeOK, MutualExclusion, NEW t \in Thread, entered[t][Main] > 0, pc[t] = "idle",
         UNCHANGED mVars, VfsTyped', NEW s, Linked(s, vfsList', pNext'),
         \A u \in Thread \ {t} : vpc'[u] = vpc[u],
         CallOn(t, s)'
  PROVE  ListInv' /\ Order' = s
<1>1. Order' = s
  BY OrderOfLinkedNext
<1>2. ASSUME NEW u \in Thread, u # t PROVE vpc'[u] = "none"
  <2>1. ~(entered[u][Main] > 0)
    BY <1>2, MainIsMutex DEF MutualExclusion
  <2>2. vpc[u] = "none"
    BY <2>1 DEF ListInv, HasMain
  <2>3. QED
    BY <1>2, <2>2
<1>3. ASSUME NEW u \in Thread, u # t PROVE HasMain(u)' /\ CallOn(u, s)'
  BY <1>2, <1>3 DEF HasMain, CallOn, Search, Unlinking, Adding
<1>4. HasMain(t)'
  BY DEF HasMain, mVars
<1>5. QED
  BY <1>1, <1>3, <1>4 DEF ListInv

-----------------------------------------------------------------------------
(***************************************************************************)
(* The steps of a call: each keeps the invariant, and its stores move the  *)
(* order as VfsOrder allows.                                               *)
(***************************************************************************)
Moves == Order' = Order \/ OrderSpec!Next

MainHeld == ListInv /\ MutexTypeOK /\ MutualExclusion

LEMMA InCallHasMain ==
  ASSUME MainHeld, NEW t \in Thread, vpc[t] # "none"
  PROVE  /\ ListInv /\ VfsTyped /\ Linked(Order, vfsList, pNext) /\ CallOn(t, Order)
         /\ entered[t][Main] > 0 /\ pc[t] = "idle"
BY DEF MainHeld, ListInv, HasMain

LEMMA BeginCallStep ==
  ASSUME MainHeld, NEW t \in Thread, NEW step \in {"first", "unlink", "unlinkFirst"},
         NEW what, NEW makeDflt, BeginCall(t, step, what, makeDflt),
         IF step = "first" THEN what \in Names \cup {Null} ELSE what \in Vfs,
         todo' \in Seq(Vfs)
  PROVE  ListInv' /\ Order' = Order
<1>0. /\ ListInv /\ VfsTyped /\ Linked(Order, vfsList, pNext)
      /\ entered[t][Main] > 0 /\ pc[t] = "idle"
      /\ UNCHANGED mVars /\ UNCHANGED <<vfsList, pNext, p>>
  BY DEF MainHeld, ListInv, BeginCall, listVars
<1>1. vpc' = [vpc EXCEPT ![t] = step] /\ arg' = [arg EXCEPT ![t] = what]
  BY DEF BeginCall, VGoto
<1>2. VfsTyped'
  BY <1>0, <1>1 DEF VfsTyped, Search, Unlinking
<1>3. vpc'[t] = step /\ arg'[t] = what /\ \A u \in Thread \ {t} : vpc'[u] = vpc[u]
  BY <1>0, <1>1 DEF VfsTyped
<1>4. PICK s : s = Order
  OBVIOUS
<1>5. CallOn(t, s)'
  BY <1>3 DEF CallOn, Search, Unlinking, Adding
<1>6. ListInv' /\ Order' = s
  BY <1>0, <1>2, <1>3, <1>4, <1>5, CallStep DEF MainHeld
<1>7. QED
  BY <1>4, <1>6

LEMMA FindFirstStep ==
  ASSUME MainHeld, NEW t \in Thread, FindFirst(t)
  PROVE  ListInv' /\ Moves
<1>0. vpc[t] = "first"
  BY DEF FindFirst, Doing
<1>1. /\ ListInv /\ VfsTyped /\ Linked(Order, vfsList, pNext) /\ CallOn(t, Order)
      /\ entered[t][Main] > 0 /\ pc[t] = "idle"
  BY <1>0, InCallHasMain
<1>2. /\ UNCHANGED <<mVars, vfsList, pNext, arg, todo>>
      /\ p' = [p EXCEPT ![t] = vfsList] /\ vpc' = [vpc EXCEPT ![t] = "compare"]
  BY DEF FindFirst, Doing, VGoto, listVars, initVars
<1>s. PICK s : s = Order
  OBVIOUS
<1>3. vfsList = (IF s = <<>> THEN Null ELSE s[1]) /\ s \in Seq(Vfs)
  BY <1>1, <1>s DEF Linked
<1>4. s # <<>> => 1 \in DOMAIN s /\ s[1] \in Vfs
  BY <1>3
<1>5. VfsTyped'
  BY <1>1, <1>2, <1>3, <1>4 DEF VfsTyped, Search
<1>6. vpc'[t] = "compare" /\ p'[t] = vfsList /\ \A u \in Thread \ {t} : vpc'[u] = vpc[u]
  BY <1>1, <1>2 DEF VfsTyped
<1>7. CallOn(t, s)'
  <2>1. arg'[t] \in Names \cup {Null}
    BY <1>0, <1>1, <1>2 DEF CallOn, Search
  <2>2. CASE s = <<>>
    BY <1>3, <1>6, <2>1, <2>2 DEF CallOn, Search, Unlinking, Adding
  <2>3. CASE s # <<>>
    <3>1. 1 \in DOMAIN s /\ p'[t] = s[1] /\ \A j \in DOMAIN s : ~(j < 1)
      BY <1>3, <1>4, <1>6, <2>3
    <3>2. QED
      BY <1>6, <2>1, <3>1 DEF CallOn, Search, Unlinking, Adding
  <2>4. QED
    BY <2>2, <2>3
<1>8. ListInv' /\ Order' = s
  BY <1>1, <1>2, <1>s, <1>5, <1>6, <1>7, CallStep DEF MainHeld
<1>9. QED
  BY <1>s, <1>8 DEF Moves

(* The loop of sqlite3_vfs_find: the VFS at p, or the next one.            *)
LEMMA FindNextStep ==
  ASSUME MainHeld, NEW t \in Thread, FindNext(t)
  PROVE  ListInv' /\ Moves
<1>0. vpc[t] = "compare"
  BY DEF FindNext, Doing
<1>1. /\ ListInv /\ VfsTyped /\ Linked(Order, vfsList, pNext) /\ CallOn(t, Order)
      /\ entered[t][Main] > 0 /\ pc[t] = "idle"
  BY <1>0, InCallHasMain
<1>2. UNCHANGED <<mVars, vfsList, pNext, arg, todo>>
  BY DEF FindNext, Doing, listVars, initVars
<1>s. PICK s : s = Order
  OBVIOUS
<1>3. s \in Seq(Vfs) /\ \A i \in DOMAIN s : s[i] \in Vfs
  BY <1>1, <1>s DEF Linked
<1>4. arg[t] \in Names \cup {Null}
  BY <1>0, <1>1 DEF CallOn, Search
<1>5. \/ p[t] = Null /\ \A i \in DOMAIN s : ~Matches(t, s[i])
      \/ \E i \in DOMAIN s : p[t] = s[i] /\ \A j \in DOMAIN s : j < i => ~Matches(t, s[j])
  BY <1>0, <1>1, <1>s DEF CallOn
<1>6. \A v : Matches(t, v)' <=> Matches(t, v)
  BY <1>2 DEF Matches
<1>7. CASE Found(t) /\ VGoto(t, "leave") /\ UNCHANGED p
  <2>1. VfsTyped' /\ vpc'[t] = "leave" /\ \A u \in Thread \ {t} : vpc'[u] = vpc[u]
    BY <1>1, <1>2, <1>7 DEF VfsTyped, VGoto
  <2>2. FindDone(t, s)
    BY <1>3, <1>5, <1>7, VfsListAssumption DEF FindDone, Found, Matches
  <2>3. FindDone(t, s)'
    BY <1>2, <1>6, <1>7, <2>2 DEF FindDone
  <2>4. CallOn(t, s)'
    BY <2>1, <2>3 DEF CallOn, Search, Unlinking, Adding
  <2>5. ListInv' /\ Order' = s
    BY <1>1, <1>2, <1>s, <2>1, <2>4, CallStep DEF MainHeld
  <2>6. QED
    BY <1>s, <2>5 DEF Moves
<1>8. CASE ~Found(t) /\ p' = [p EXCEPT ![t] = pNext[p[t]]] /\ UNCHANGED vpc
  <2>1. PICK i \in DOMAIN s : p[t] = s[i] /\ \A j \in DOMAIN s : j < i => ~Matches(t, s[j])
    BY <1>5, <1>8 DEF Found
  <2>2. ~Matches(t, s[i])
    BY <1>8, <2>1 DEF Found, Matches
  <2>3. i \in 1 .. Len(s) /\ DOMAIN s = 1 .. Len(s) /\ Len(s) \in Nat
    BY <1>3, <2>1
  <2>4. p'[t] = IF i = Len(s) THEN Null ELSE s[i + 1]
    BY <1>1, <1>s, <1>8, <2>1 DEF VfsTyped, Linked
  <2>5. VfsTyped'
    BY <1>1, <1>2, <1>8, <2>1, <1>3 DEF VfsTyped
  <2>6. CASE i = Len(s)
    <3>1. \A j \in DOMAIN s : ~Matches(t, s[j])
      <4>1. \A j \in DOMAIN s : j = i \/ j < i
        BY <2>3, <2>6
      <4>2. QED
        BY <2>1, <2>2, <4>1
    <3>2. CallOn(t, s)'
      BY <1>0, <1>2, <1>4, <1>6, <1>8, <2>4, <2>6, <3>1 DEF CallOn, Search, Unlinking, Adding
    <3>3. ListInv' /\ Order' = s
      BY <1>1, <1>2, <1>s, <1>8, <2>5, <3>2, CallStep DEF MainHeld
    <3>4. QED
      BY <1>s, <3>3 DEF Moves
  <2>7. CASE i # Len(s)
    <3>1. i + 1 \in DOMAIN s /\ \A j \in DOMAIN s : j < i + 1 => j = i \/ j < i
      BY <2>3, <2>7
    <3>2. p'[t] = s[i + 1] /\ \A j \in DOMAIN s : j < i + 1 => ~Matches(t, s[j])
      BY <2>1, <2>2, <2>4, <2>7, <3>1
    <3>3. CallOn(t, s)'
      BY <1>0, <1>2, <1>4, <1>6, <1>8, <3>1, <3>2 DEF CallOn, Search, Unlinking, Adding
    <3>4. ListInv' /\ Order' = s
      BY <1>1, <1>2, <1>s, <1>8, <2>5, <3>3, CallStep DEF MainHeld
    <3>5. QED
      BY <1>s, <3>4 DEF Moves
  <2>8. QED
    BY <2>6, <2>7
<1>9. QED
  BY <1>7, <1>8 DEF FindNext

-----------------------------------------------------------------------------
(* The end of vfsUnlink, whether it found the VFS or not.                  *)
LEMMA UnlinkedStep ==
  ASSUME MainHeld, NEW t \in Thread, vpc[t] \in Unlinking, Unlinked(t),
         UNCHANGED <<mVars, arg, p, todo>>, pNext' \in [Vfs -> Vfs \cup {Null}],
         NEW s, Linked(s, vfsList', pNext'), \A i \in DOMAIN s : s[i] # arg[t]
  PROVE  ListInv' /\ Order' = s
<1>0. vpc[t] # "none"
  BY DEF Unlinking
<1>1. /\ ListInv /\ VfsTyped /\ CallOn(t, Order)
      /\ entered[t][Main] > 0 /\ pc[t] = "idle"
  BY <1>0, InCallHasMain
<1>2. arg[t] \in Vfs /\ arg' = arg
  BY <1>1 DEF CallOn
<1>3. arg[t] \notin Names \cup {Null}
  BY <1>2, VfsListAssumption
<1>4. PICK step \in {"leave", "insert"} : vpc' = [vpc EXCEPT ![t] = step]
  BY DEF Unlinked, VGoto
<1>5. VfsTyped'
  BY <1>1, <1>4 DEF VfsTyped, Adding
<1>6. vpc'[t] = step /\ \A u \in Thread \ {t} : vpc'[u] = vpc[u]
  BY <1>1, <1>4 DEF VfsTyped
<1>7. CallOn(t, s)'
  BY <1>2, <1>3, <1>6 DEF CallOn, Search, Unlinking, Adding
<1>8. QED
  BY <1>1, <1>5, <1>6, <1>7, CallStep DEF MainHeld

LEMMA RemoveMoves ==
  ASSUME NEW s, s = Order, NEW k \in DOMAIN s, s[k] \in Vfs, Order' = Without(s, k)
  PROVE  Moves
<1>1. OrderSpec!Remove(s[k])
  BY DEF OrderSpec!Remove, Without
<1>2. OrderSpec!Next
  BY <1>1 DEF OrderSpec!Next
<1>3. QED
  BY <1>2 DEF Moves

LEMMA UnlinkHeadStep ==
  ASSUME MainHeld, NEW t \in Thread, UnlinkHead(t)
  PROVE  ListInv' /\ Moves
<1>0. vpc[t] \in {"unlink", "unlinkFirst"} /\ vpc[t] \in Unlinking /\ vpc[t] # "none"
  BY DEF UnlinkHead, Doing, Unlinking
<1>1. /\ ListInv /\ VfsTyped /\ Linked(Order, vfsList, pNext) /\ CallOn(t, Order)
      /\ entered[t][Main] > 0 /\ pc[t] = "idle"
  BY <1>0, InCallHasMain
<1>2. UNCHANGED <<mVars, pNext, arg, todo>>
  BY DEF UnlinkHead, Doing, initVars
<1>s. PICK s : s = Order
  OBVIOUS
<1>3. /\ s \in Seq(Vfs) /\ (\A i \in DOMAIN s : s[i] \in Vfs)
      /\ vfsList = (IF s = <<>> THEN Null ELSE s[1])
      /\ pNext \in [Vfs -> Vfs \cup {Null}] /\ arg[t] \in Vfs
  BY <1>0, <1>1, <1>s DEF Linked, VfsTyped, CallOn
<1>4. Null \notin Vfs
  BY VfsListAssumption
<1>5. s # <<>> => 1 \in DOMAIN s
  BY <1>3
<1>6. CASE vfsList = arg[t] /\ vfsList' = pNext[arg[t]] /\ Unlinked(t) /\ UNCHANGED p
  <2>1. s # <<>> /\ 1 \in DOMAIN s /\ s[1] = arg[t]
    BY <1>3, <1>4, <1>5, <1>6
  <2>2. Linked(Without(s, 1), pNext[s[1]], pNext) /\ \A i \in DOMAIN Without(s, 1) : Without(s, 1)[i] # s[1]
    BY <1>1, <1>s, <1>3, <2>1, RemoveLinked
  <2>3. ListInv' /\ Order' = Without(s, 1)
    BY <1>0, <1>2, <1>3, <1>6, <2>1, <2>2, UnlinkedStep
  <2>4. QED
    BY <1>s, <1>3, <2>1, <2>3, RemoveMoves
<1>7. CASE vfsList # arg[t] /\ vfsList = Null /\ Unlinked(t) /\ UNCHANGED <<vfsList, p>>
  <2>1. s = <<>>
    BY <1>3, <1>4, <1>5, <1>7
  <2>2. ListInv' /\ Order' = s
    BY <1>0, <1>1, <1>s, <1>2, <1>3, <1>7, <2>1, UnlinkedStep
  <2>3. QED
    BY <1>s, <2>2 DEF Moves
<1>8. CASE /\ vfsList # arg[t] /\ vfsList # Null /\ p' = [p EXCEPT ![t] = vfsList]
           /\ VGoto(t, IF vpc[t] = "unlink" THEN "walk" ELSE "walkFirst")
           /\ UNCHANGED vfsList
  <2>1. s # <<>> /\ 1 \in DOMAIN s /\ s[1] = vfsList /\ vfsList \in Vfs
    BY <1>3, <1>5, <1>8
  <2>2. PICK step \in {"walk", "walkFirst"} : vpc' = [vpc EXCEPT ![t] = step]
    BY <1>8 DEF VGoto
  <2>3. VfsTyped'
    BY <1>1, <1>2, <1>8, <2>1, <2>2 DEF VfsTyped, Unlinking
  <2>4. vpc'[t] = step /\ p'[t] = s[1] /\ \A u \in Thread \ {t} : vpc'[u] = vpc[u]
    BY <1>1, <1>8, <2>1, <2>2 DEF VfsTyped
  <2>5. \A j \in DOMAIN s : j <= 1 => s[j] # arg[t]
    <3>1. \A j \in DOMAIN s : j <= 1 => j = 1
      BY <1>3
    <3>2. QED
      BY <1>8, <2>1, <3>1
  <2>6. CallOn(t, s)'
    BY <1>2, <1>3, <2>1, <2>4, <2>5 DEF CallOn, Search, Unlinking, Adding
  <2>7. ListInv' /\ Order' = s
    BY <1>1, <1>2, <1>s, <1>8, <2>3, <2>4, <2>6, CallStep DEF MainHeld
  <2>8. QED
    BY <1>s, <2>7 DEF Moves
<1>9. QED
  BY <1>6, <1>7, <1>8 DEF UnlinkHead

(* The loop of vfsUnlink, at a VFS behind which no VFS was the one.        *)
LEMMA UnlinkAfterStep ==
  ASSUME MainHeld, NEW t \in Thread, UnlinkAfter(t)
  PROVE  ListInv' /\ Moves
<1>0. vpc[t] \in {"walk", "walkFirst"} /\ vpc[t] \in Unlinking /\ vpc[t] # "none"
  BY DEF UnlinkAfter, Doing, Unlinking
<1>1. /\ ListInv /\ VfsTyped /\ Linked(Order, vfsList, pNext) /\ CallOn(t, Order)
      /\ entered[t][Main] > 0 /\ pc[t] = "idle"
  BY <1>0, InCallHasMain
<1>2. UNCHANGED <<mVars, vfsList, arg, todo>>
  BY DEF UnlinkAfter, Doing, initVars
<1>s. PICK s : s = Order
  OBVIOUS
<1>3. /\ s \in Seq(Vfs) /\ (\A i \in DOMAIN s : s[i] \in Vfs)
      /\ pNext \in [Vfs -> Vfs \cup {Null}] /\ arg[t] \in Vfs
  BY <1>0, <1>1, <1>s DEF Linked, VfsTyped, CallOn
<1>4. PICK i \in DOMAIN s : p[t] = s[i] /\ \A j \in DOMAIN s : j <= i => s[j] # arg[t]
  BY <1>0, <1>1, <1>s DEF CallOn
<1>5. i \in 1 .. Len(s) /\ DOMAIN s = 1 .. Len(s) /\ Len(s) \in Nat
  BY <1>3, <1>4
<1>6. pNext[p[t]] = IF i = Len(s) THEN Null ELSE s[i + 1]
  BY <1>1, <1>s, <1>4 DEF Linked
<1>7. Null \notin Vfs
  BY VfsListAssumption
<1>8. i # Len(s) => i + 1 \in DOMAIN s /\ (i + 1) - 1 = i /\ i + 1 > 1
  BY <1>5
<1>9. CASE /\ pNext[p[t]] \notin {Null, arg[t]} /\ p' = [p EXCEPT ![t] = pNext[p[t]]]
           /\ UNCHANGED <<pNext, vpc>>
  <2>1. i # Len(s) /\ i + 1 \in DOMAIN s /\ pNext[p[t]] = s[i + 1]
    BY <1>6, <1>8, <1>9
  <2>2. \A j \in DOMAIN s : j <= i + 1 => s[j] # arg[t]
    <3>1. \A j \in DOMAIN s : j <= i + 1 => j = i + 1 \/ j <= i
      BY <1>5
    <3>2. QED
      BY <1>4, <1>9, <2>1, <3>1
  <2>3. p'[t] = s[i + 1] /\ VfsTyped'
    BY <1>1, <1>2, <1>3, <1>9, <2>1 DEF VfsTyped
  <2>4. CallOn(t, s)'
    BY <1>0, <1>2, <1>3, <1>9, <2>1, <2>2, <2>3 DEF CallOn, Search, Unlinking, Adding
  <2>5. ListInv' /\ Order' = s
    BY <1>1, <1>2, <1>s, <1>9, <2>3, <2>4, CallStep DEF MainHeld
  <2>6. QED
    BY <1>s, <2>5 DEF Moves
<1>10. CASE /\ pNext[p[t]] = arg[t] /\ pNext' = [pNext EXCEPT ![p[t]] = pNext[arg[t]]]
            /\ Unlinked(t) /\ UNCHANGED p
  <2>1. i # Len(s) /\ i + 1 \in DOMAIN s /\ s[i + 1] = arg[t] /\ (i + 1) - 1 = i /\ i + 1 > 1
    BY <1>3, <1>6, <1>7, <1>8, <1>10
  <2>2. Linked(s, vfsList, pNext)
    BY <1>1, <1>s
  <2>3. /\ Linked(Without(s, i + 1), vfsList, [pNext EXCEPT ![s[(i + 1) - 1]] = pNext[s[i + 1]]])
        /\ \A j \in DOMAIN Without(s, i + 1) : Without(s, i + 1)[j] # s[i + 1]
    BY <1>3, <2>1, <2>2, RemoveLinked
  <2>4. Linked(Without(s, i + 1), vfsList', pNext')
    BY <1>2, <1>4, <1>10, <2>1, <2>3
  <2>5. pNext' \in [Vfs -> Vfs \cup {Null}]
    BY <1>3, <1>10
  <2>6. ListInv' /\ Order' = Without(s, i + 1)
    BY <1>0, <1>2, <1>10, <2>1, <2>3, <2>4, <2>5, UnlinkedStep
  <2>7. QED
    BY <1>s, <1>3, <2>1, <2>6, RemoveMoves
<1>11. CASE pNext[p[t]] = Null /\ Unlinked(t) /\ UNCHANGED <<pNext, p>>
  <2>1. \A j \in DOMAIN s : s[j] # arg[t]
    <3>1. i = Len(s)
      BY <1>3, <1>6, <1>7, <1>8, <1>11
    <3>2. \A j \in DOMAIN s : j <= i
      BY <1>5, <3>1
    <3>3. QED
      BY <1>4, <3>2
  <2>2. ListInv' /\ Order' = s
    BY <1>0, <1>1, <1>s, <1>2, <1>3, <1>11, <2>1, UnlinkedStep
  <2>3. QED
    BY <1>s, <2>2 DEF Moves
<1>12. QED
  BY <1>9, <1>10, <1>11 DEF UnlinkAfter

-----------------------------------------------------------------------------
(* The new VFS points into the list, and is not on it yet.                 *)
LEMMA InsertStep ==
  ASSUME MainHeld, NEW t \in Thread, Insert(t)
  PROVE  ListInv' /\ Moves
<1>0. vpc[t] = "insert" /\ vpc[t] \in Adding /\ vpc[t] # "none"
  BY DEF Insert, Doing, Adding
<1>1. /\ ListInv /\ VfsTyped /\ Linked(Order, vfsList, pNext) /\ CallOn(t, Order)
      /\ entered[t][Main] > 0 /\ pc[t] = "idle"
  BY <1>0, InCallHasMain
<1>2. UNCHANGED <<mVars, vfsList, arg, todo, p>>
  BY DEF Insert, Doing, initVars
<1>s. PICK s : s = Order
  OBVIOUS
<1>3. /\ s \in Seq(Vfs) /\ vfsList = (IF s = <<>> THEN Null ELSE s[1])
      /\ pNext \in [Vfs -> Vfs \cup {Null}] /\ arg[t] \in Vfs
      /\ \A i \in DOMAIN s : s[i] \in Vfs /\ s[i] # arg[t]
  BY <1>0, <1>1, <1>s DEF Linked, VfsTyped, CallOn
<1>4. s # <<>> => 1 \in DOMAIN s
  BY <1>3
<1>5. vfsList \in Vfs \cup {Null} /\ vfsList # arg[t] /\ Null \notin Vfs
  BY <1>3, <1>4, VfsListAssumption
<1>6. PICK x \in Vfs \cup {Null}, step \in {"linkFirst", "linkSecond"} :
        /\ pNext' = [pNext EXCEPT ![arg[t]] = x] /\ vpc' = [vpc EXCEPT ![t] = step]
        /\ step = "linkFirst" => x = vfsList
        /\ step = "linkSecond" => vfsList # Null /\ x = pNext[vfsList]
  <2>1. vfsList # Null => pNext[vfsList] \in Vfs \cup {Null}
    BY <1>3, <1>5
  <2>2. CASE GoesFirst(t)
    BY <1>5, <2>2 DEF Insert, VGoto
  <2>3. CASE ~GoesFirst(t)
    BY <2>1, <2>3 DEF Insert, VGoto, GoesFirst
  <2>4. QED
    BY <2>2, <2>3
<1>7. Linked(s, vfsList', pNext')
  <2>1. Linked(s, vfsList, pNext)
    BY <1>1, <1>s
  <2>2. Linked(s, vfsList, [pNext EXCEPT ![arg[t]] = x])
    BY <1>3, <2>1, StoreOutside
  <2>3. QED
    BY <1>2, <1>6, <2>2
<1>8. VfsTyped'
  BY <1>1, <1>2, <1>6 DEF VfsTyped, Adding
<1>9. vpc'[t] = step /\ pNext'[arg[t]] = x /\ \A u \in Thread \ {t} : vpc'[u] = vpc[u]
  BY <1>1, <1>3, <1>6 DEF VfsTyped
<1>10. vfsList \in Vfs => pNext'[vfsList] = pNext[vfsList]
  BY <1>3, <1>5, <1>6
<1>11. step = "linkSecond" => s # <<>> /\ vfsList \in Vfs
  BY <1>3, <1>5, <1>6
<1>12. CallOn(t, s)'
  BY <1>2, <1>3, <1>6, <1>9, <1>10, <1>11 DEF CallOn, Search, Unlinking, Adding
<1>13. ListInv' /\ Order' = s
  BY <1>1, <1>2, <1>7, <1>8, <1>9, <1>12, CallStep DEF MainHeld
<1>14. QED
  BY <1>s, <1>13 DEF Moves

(* The store that puts it on the list.                                     *)
LEMMA AddedStep ==
  ASSUME MainHeld, NEW t \in Thread, vpc[t] \in Adding, VGoto(t, "leave"),
         UNCHANGED <<mVars, arg, p, todo>>, pNext' \in [Vfs -> Vfs \cup {Null}],
         NEW s, Linked(s, vfsList', pNext')
  PROVE  ListInv' /\ Order' = s
<1>0. vpc[t] # "none"
  BY DEF Adding
<1>1. /\ ListInv /\ VfsTyped /\ CallOn(t, Order)
      /\ entered[t][Main] > 0 /\ pc[t] = "idle"
  BY <1>0, InCallHasMain
<1>2. arg[t] \in Vfs /\ arg' = arg
  BY <1>1 DEF CallOn
<1>3. arg[t] \notin Names \cup {Null}
  BY <1>2, VfsListAssumption
<1>4. VfsTyped'
  BY <1>1 DEF VfsTyped, VGoto
<1>5. vpc'[t] = "leave" /\ \A u \in Thread \ {t} : vpc'[u] = vpc[u]
  BY <1>1 DEF VfsTyped, VGoto
<1>6. CallOn(t, s)'
  BY <1>2, <1>3, <1>5 DEF CallOn, Search, Unlinking, Adding
<1>7. QED
  BY <1>1, <1>4, <1>5, <1>6, CallStep DEF MainHeld

LEMMA LinkFirstStep ==
  ASSUME MainHeld, NEW t \in Thread, LinkFirst(t)
  PROVE  ListInv' /\ Moves
<1>0. vpc[t] = "linkFirst" /\ vpc[t] \in Adding /\ vpc[t] # "none"
  BY DEF LinkFirst, Doing, Adding
<1>1. /\ VfsTyped /\ Linked(Order, vfsList, pNext) /\ CallOn(t, Order)
  BY <1>0, InCallHasMain
<1>2. /\ UNCHANGED <<mVars, pNext, arg, p, todo>> /\ vfsList' = arg[t] /\ VGoto(t, "leave")
  BY DEF LinkFirst, Doing, initVars
<1>s. PICK s : s = Order
  OBVIOUS
<1>3. /\ pNext \in [Vfs -> Vfs \cup {Null}] /\ arg[t] \in Vfs /\ pNext[arg[t]] = vfsList
      /\ \A i \in DOMAIN s : s[i] # arg[t]
  BY <1>0, <1>1, <1>s DEF VfsTyped, CallOn
<1>4. Linked(<<arg[t]>> \o s, arg[t], pNext)
  BY <1>1, <1>s, <1>3, AddFirstLinked
<1>5. ListInv' /\ Order' = <<arg[t]>> \o s
  BY <1>0, <1>2, <1>3, <1>4, AddedStep
<1>6. OrderSpec!AddFirst(arg[t])
  BY <1>s, <1>3, <1>5 DEF OrderSpec!AddFirst, OrderSpec!IsIn
<1>7. OrderSpec!Next
  BY <1>3, <1>6 DEF OrderSpec!Next
<1>8. QED
  BY <1>5, <1>7 DEF Moves

LEMMA LinkSecondStep ==
  ASSUME MainHeld, NEW t \in Thread, LinkSecond(t)
  PROVE  ListInv' /\ Moves
<1>0. vpc[t] = "linkSecond" /\ vpc[t] \in Adding /\ vpc[t] # "none"
  BY DEF LinkSecond, Doing, Adding
<1>1. /\ VfsTyped /\ Linked(Order, vfsList, pNext) /\ CallOn(t, Order)
  BY <1>0, InCallHasMain
<1>2. /\ UNCHANGED <<mVars, vfsList, arg, p, todo>> /\ VGoto(t, "leave")
      /\ pNext' = [pNext EXCEPT ![vfsList] = arg[t]]
  BY DEF LinkSecond, Doing, initVars
<1>s. PICK s : s = Order
  OBVIOUS
<1>3. /\ pNext \in [Vfs -> Vfs \cup {Null}] /\ arg[t] \in Vfs /\ pNext[arg[t]] = pNext[vfsList]
      /\ s # <<>> /\ \A i \in DOMAIN s : s[i] # arg[t]
  BY <1>0, <1>1, <1>s DEF VfsTyped, CallOn
<1>4. Linked(<<Head(s), arg[t]>> \o Tail(s), vfsList, [pNext EXCEPT ![vfsList] = arg[t]])
  BY <1>1, <1>s, <1>3, AddSecondLinked
<1>5. pNext' \in [Vfs -> Vfs \cup {Null}]
  BY <1>2, <1>3
<1>6. ListInv' /\ Order' = <<Head(s), arg[t]>> \o Tail(s)
  BY <1>0, <1>2, <1>4, <1>5, AddedStep
<1>7. OrderSpec!AddSecond(arg[t])
  BY <1>s, <1>3, <1>6 DEF OrderSpec!AddSecond, OrderSpec!IsIn
<1>8. OrderSpec!Next
  BY <1>3, <1>7 DEF OrderSpec!Next
<1>9. QED
  BY <1>6, <1>8 DEF Moves

-----------------------------------------------------------------------------
LEMMA EndCallStep ==
  ASSUME MainHeld, NEW t \in Thread, EndCall(t)
  PROVE  ListInv' /\ Moves
<1>0. vpc[t] = "leave"
  BY DEF EndCall
<1>1. /\ ListInv /\ VfsTyped /\ Linked(Order, vfsList, pNext)
      /\ entered[t][Main] > 0 /\ pc[t] = "idle"
  BY <1>0, InCallHasMain
<1>2. /\ UNCHANGED <<vfsList, pNext, todo>>
      /\ vpc' = [vpc EXCEPT ![t] = "none"] /\ arg' = [arg EXCEPT ![t] = Null]
      /\ p' = [p EXCEPT ![t] = Null]
  BY DEF EndCall, VGoto, listVars, initVars
<1>s. PICK s : s = Order
  OBVIOUS
<1>3. Linked(s, vfsList', pNext')
  BY <1>1, <1>2, <1>s
<1>4. Order' = s
  BY <1>3, OrderOfLinkedNext
<1>5. VfsTyped'
  BY <1>1, <1>2 DEF VfsTyped
<1>6. vpc'[t] = "none" /\ \A u \in Thread \ {t} : vpc'[u] = vpc[u]
  BY <1>1, <1>2 DEF VfsTyped
<1>7. ASSUME NEW u \in Thread PROVE vpc'[u] = "none"
  <2>1. CASE u = t
    BY <1>6, <2>1
  <2>2. CASE u # t
    <3>1. ~(entered[u][Main] > 0)
      BY <1>1, <2>2, MainIsMutex DEF MainHeld, MutualExclusion
    <3>2. vpc[u] = "none"
      BY <1>1, <3>1 DEF ListInv, HasMain
    <3>3. QED
      BY <1>6, <2>2, <3>2
  <2>3. QED
    BY <2>1, <2>2
<1>8. \A u \in Thread : HasMain(u)' /\ CallOn(u, s)'
  BY <1>7 DEF HasMain, CallOn, Search, Unlinking, Adding
<1>9. ListInv'
  BY <1>3, <1>4, <1>5, <1>8 DEF ListInv
<1>10. QED
  BY <1>s, <1>4, <1>9 DEF Moves

(* A step of the mutex subsystem is one thread's, and a thread that is not *)
(* in a call of it takes none.                                             *)
LEMMA MutexStepMine ==
  ASSUME MutexTypeOK, NEW t \in Thread, MutexStep(t)
  PROVE  pc[t] # "idle" /\ \A u \in Thread \ {t} : pc'[u] = pc[u] /\ entered'[u] = entered[u]
<1>1. pc \in [Thread -> InitSteps \cup EnterSteps \cup LeaveSteps \cup {"idle"}] /\ DOMAIN entered = Thread
  BY DEF MutexTypeOK
<1>2. CASE ReadRef(t)
  BY <1>1, <1>2 DEF ReadRef, Goto
<1>3. CASE ReadOwner(t)
  BY <1>1, <1>3 DEF ReadOwner, Goto
<1>4. CASE EnterAgain(t)
  BY <1>1, <1>4 DEF EnterAgain, Entered, Return
<1>5. CASE LockMutex(t)
  BY <1>1, <1>5 DEF LockMutex, Goto, Return
<1>6. CASE SetOwner(t)
  BY <1>1, <1>6 DEF SetOwner, Goto
<1>7. CASE SetRef(t)
  BY <1>1, <1>7 DEF SetRef, Entered, Return
<1>8. CASE DecRef(t)
  <2>1. PICK step : pc' = [pc EXCEPT ![t] = step]
    BY <1>8, Zenon DEF DecRef, Goto, Return
  <2>2. pc[t] # "idle" /\ entered' = entered
    BY <1>8 DEF DecRef
  <2>3. QED
    BY <1>1, <2>1, <2>2
<1>9. CASE ClearOwner(t)
  BY <1>1, <1>9 DEF ClearOwner, Goto
<1>10. CASE Unlock(t)
  BY <1>1, <1>10 DEF Unlock, Return
<1>11. QED
  BY <1>2, <1>3, <1>4, <1>5, <1>6, <1>7, <1>8, <1>9, <1>10 DEF MutexStep

LEMMA InitStepMine ==
  ASSUME MutexTypeOK, NEW t \in Thread, InitStep(t)
  PROVE  pc[t] # "idle" /\ \A u \in Thread \ {t} : pc'[u] = pc[u] /\ entered'[u] = entered[u]
<1>1. pc \in [Thread -> InitSteps \cup EnterSteps \cup LeaveSteps \cup {"idle"}]
  BY DEF MutexTypeOK
<1>2. entered' = entered
  BY DEF InitStep
<1>3. CASE TestAlloc(t)
  BY <1>1, <1>2, <1>3 DEF TestAlloc, Goto
<1>4. CASE CopyMethods(t)
  BY <1>1, <1>2, <1>4 DEF CopyMethods, Goto
<1>5. CASE Barrier(t)
  BY <1>1, <1>2, <1>5 DEF Barrier, Goto
<1>6. CASE PublishAlloc(t)
  BY <1>1, <1>2, <1>6 DEF PublishAlloc, Goto
<1>7. CASE CallInit(t)
  BY <1>1, <1>2, <1>7 DEF CallInit, Return
<1>8. QED
  BY <1>3, <1>4, <1>5, <1>6, <1>7 DEF InitStep

LEMMA MutexCallStep ==
  ASSUME MainHeld, NEW t \in Thread, MutexCall(t)
  PROVE  ListInv' /\ Moves
<1>1. UNCHANGED <<listVars, initVars, callVars>> /\ todo' = todo /\ vpc' = vpc
  BY DEF MutexCall, initVars, callVars
<1>2. todo' \in Seq(Vfs) /\ \A u \in Thread : HasMain(u)
  BY <1>1 DEF MainHeld, ListInv, VfsTyped
<1>3. pc \in [Thread -> InitSteps \cup EnterSteps \cup LeaveSteps \cup {"idle"}] /\ DOMAIN entered = Thread
  BY DEF MainHeld, MutexTypeOK
<1>4. ASSUME NEW u \in Thread PROVE HasMain(u)'
  <2>1. CASE Flush(t)
    BY <1>1, <1>2, <2>1 DEF Flush, HasMain
  <2>2. CASE InitStep(t)
    <3>1. pc[t] # "idle" /\ \A w \in Thread \ {t} : pc'[w] = pc[w] /\ entered'[w] = entered[w]
      BY <2>2, InitStepMine DEF MainHeld
    <3>2. QED
      BY <1>1, <1>2, <3>1 DEF HasMain
  <2>3. CASE MutexStep(t)
    <3>1. pc[t] # "idle" /\ \A w \in Thread \ {t} : pc'[w] = pc[w] /\ entered'[w] = entered[w]
      BY <2>3, MutexStepMine DEF MainHeld
    <3>2. QED
      BY <1>1, <1>2, <3>1 DEF HasMain
  <2>4. CASE EnterInit(t) \/ LeaveInit(t) \/ EnterMain(t) \/ LeaveMain(t)
    <3>1. vpc[t] = "none"
      BY <2>4 DEF EnterInit, LeaveInit, EnterMain, LeaveMain
    <3>2. \A w \in Thread \ {t} : pc'[w] = pc[w] /\ entered'[w] = entered[w]
      <4>1. (\E m, try : BeginEnter(t, m, try)) \/ (\E m : BeginLeave(t, m))
        BY <2>4 DEF EnterInit, LeaveInit, EnterMain, LeaveMain
      <4>2. ASSUME NEW m, NEW try, BeginEnter(t, m, try)
            PROVE  \A w \in Thread \ {t} : pc'[w] = pc[w] /\ entered'[w] = entered[w]
        BY <1>3, <4>2 DEF BeginEnter
      <4>3. ASSUME NEW m, BeginLeave(t, m)
            PROVE  \A w \in Thread \ {t} : pc'[w] = pc[w] /\ entered'[w] = entered[w]
        BY <1>3, <4>3 DEF BeginLeave
      <4>4. QED
        BY <4>1, <4>2, <4>3
    <3>3. QED
      BY <1>1, <1>2, <3>1, <3>2 DEF HasMain
  <2>5. QED
    BY <2>1, <2>2, <2>3, <2>4 DEF MutexCall
<1>5. ListInv' /\ Order' = Order
  BY <1>1, <1>2, <1>4, QuietStep DEF MainHeld
<1>6. QED
  BY <1>5 DEF Moves

LEMMA InitializationStep ==
  ASSUME MainHeld, UNCHANGED <<mVars, listVars, callVars>>, todo' \in Seq(Vfs)
  PROVE  ListInv' /\ Moves
<1>1. \A u \in Thread : HasMain(u)'
  BY DEF MainHeld, ListInv, HasMain, mVars, callVars
<1>2. ListInv' /\ Order' = Order
  BY <1>1, QuietStep DEF MainHeld
<1>3. QED
  BY <1>2 DEF Moves

LEMMA ListNext == MainHeld /\ [VfsNext]_vfsVars => ListInv' /\ Moves
<1> SUFFICES ASSUME MainHeld, [VfsNext]_vfsVars PROVE ListInv' /\ Moves
  OBVIOUS
<1>0. todo \in Seq(Vfs) /\ BuiltIn \in Seq(Vfs)
  <2>1. BuiltIn \in Seq(Vfs)
    BY VfsListAssumption, Zenon
  <2>2. QED
    BY <2>1 DEF MainHeld, ListInv, VfsTyped
<1>1. ASSUME NEW t \in Thread, VfsStep(t) PROVE ListInv' /\ Moves
  BY <1>1, FindFirstStep, FindNextStep, UnlinkHeadStep, UnlinkAfterStep, InsertStep,
     LinkFirstStep, LinkSecondStep, EndCallStep, Zenon DEF VfsStep
<1>2. ASSUME NEW t \in Thread, Find(t) PROVE ListInv' /\ Moves
  <2>1. PICK name \in Names \cup {Null} : BeginCall(t, "first", name, FALSE)
    BY <1>2 DEF Find
  <2>2. todo' \in Seq(Vfs)
    BY <1>0, <1>2 DEF Find
  <2>3. QED
    BY <2>1, <2>2, BeginCallStep DEF Moves
<1>3. ASSUME NEW t \in Thread, Register(t) PROVE ListInv' /\ Moves
  <2>1. PICK v \in Vfs, makeDflt \in BOOLEAN : BeginCall(t, "unlinkFirst", v, makeDflt)
    BY <1>3 DEF Register
  <2>2. todo' \in Seq(Vfs)
    BY <1>0, <1>3 DEF Register
  <2>3. QED
    BY <2>1, <2>2, BeginCallStep DEF Moves
<1>4. ASSUME NEW t \in Thread, Unregister(t) PROVE ListInv' /\ Moves
  <2>1. PICK v \in Vfs : BeginCall(t, "unlink", v, FALSE)
    BY <1>4 DEF Unregister
  <2>2. todo' \in Seq(Vfs)
    BY <1>0, <1>4 DEF Unregister
  <2>3. QED
    BY <2>1, <2>2, BeginCallStep DEF Moves
<1>5. ASSUME NEW t \in Thread, OsInitRegister(t) PROVE ListInv' /\ Moves
  <2>1. todo # <<>> /\ BeginCall(t, "unlinkFirst", Head(todo), todo = BuiltIn) /\ todo' = Tail(todo)
    BY <1>5 DEF OsInitRegister
  <2>2. Head(todo) \in Vfs /\ todo' \in Seq(Vfs)
    BY <1>0, <2>1
  <2>3. QED
    BY <2>1, <2>2, BeginCallStep DEF Moves
<1>6. ASSUME NEW t \in Thread, OsInit(t) PROVE ListInv' /\ Moves
  <2>1. UNCHANGED <<mVars, listVars, callVars>> /\ todo' \in Seq(Vfs)
    BY <1>0, <1>6 DEF OsInit
  <2>2. QED
    BY <2>1, InitializationStep
<1>7. ASSUME NEW t \in Thread, OsInitDone(t) PROVE ListInv' /\ Moves
  <2>1. UNCHANGED <<mVars, listVars, callVars>> /\ todo' \in Seq(Vfs)
    BY <1>0, <1>7 DEF OsInitDone
  <2>2. QED
    BY <2>1, InitializationStep
<1>8. CASE OsEnd
  <2>1. UNCHANGED <<mVars, listVars, callVars>> /\ todo' \in Seq(Vfs)
    BY <1>0, <1>8 DEF OsEnd
  <2>2. QED
    BY <2>1, InitializationStep
<1>9. CASE UNCHANGED vfsVars
  <2>1. UNCHANGED <<mVars, listVars, callVars>> /\ todo' \in Seq(Vfs)
    BY <1>0, <1>9 DEF vfsVars, initVars
  <2>2. QED
    BY <2>1, InitializationStep
<1>10. QED
  BY <1>1, <1>2, <1>3, <1>4, <1>5, <1>6, <1>7, <1>8, <1>9, MutexCallStep, Zenon DEF VfsNext

LEMMA InvFinds == ListInv => FindCorrect
<1> SUFFICES ASSUME ListInv, NEW t \in Thread, vpc[t] = "leave", arg[t] \in Names \cup {Null},
                    NEW hits, hits = {n \in DOMAIN Order : arg[t] \in {Null, NameOf[Order[n]]}}
             PROVE  \/ hits = {} /\ p[t] = Null
                    \/ \E n \in hits : p[t] = Order[n] /\ \A m \in hits : n <= m
  BY DEF FindCorrect
<1>s. PICK s : s = Order
  OBVIOUS
<1>1. FindDone(t, s) /\ s \in Seq(Vfs)
  BY <1>s DEF ListInv, CallOn, Linked
<1>2. hits = {n \in DOMAIN s : Matches(t, s[n])}
  BY <1>s DEF Matches
<1>3. CASE p[t] = Null /\ \A i \in DOMAIN s : ~Matches(t, s[i])
  BY <1>2, <1>3
<1>4. ASSUME NEW i \in DOMAIN s, p[t] = s[i], Matches(t, s[i]),
             \A j \in DOMAIN s : j < i => ~Matches(t, s[j])
      PROVE  \E n \in hits : p[t] = Order[n] /\ \A m \in hits : n <= m
  <2>1. DOMAIN s \subseteq Nat
    BY <1>1
  <2>2. i \in hits /\ p[t] = Order[i]
    BY <1>2, <1>4, <1>s
  <2>3. ASSUME NEW m \in hits PROVE i <= m
    <3>1. m \in DOMAIN s /\ ~(m < i)
      BY <1>2, <1>4
    <3>2. i \in Nat /\ m \in Nat
      BY <2>1, <3>1
    <3>3. QED
      BY <3>1, <3>2
  <2>4. QED
    BY <2>2, <2>3
<1>5. QED
  BY <1>1, <1>3, <1>4 DEF FindDone

THEOREM ListInvariant == VfsSpec => []ListInv
<1>1. VfsSpec => [](MutexTypeOK /\ MutualExclusion)
  BY VfsListUsesMutex, MutexTypeCorrect, MutexExcludes, PTL
<1>2. ListInv /\ (MutexTypeOK /\ MutualExclusion) /\ [VfsNext]_vfsVars => ListInv'
  BY ListNext DEF MainHeld
<1>3. VfsInit => ListInv
  BY ListInitInv
<1> QED
  BY <1>1, <1>2, <1>3, PTL DEF VfsSpec

(* sqlite3_vfs_find returns the first VFS of the name, in whatever order   *)
(* other threads register and unregister.                                  *)
THEOREM FindIsCorrect == VfsSpec => []FindCorrect
  BY ListInvariant, InvFinds, PTL

(* Each store of a registration or removal is one step of the registry as  *)
(* its users see it, and all else leaves it alone.                         *)
THEOREM VfsListRefines == VfsSpec => ImplementsVfsOrder
<1>1. VfsSpec => [](MutexTypeOK /\ MutualExclusion)
  BY VfsListUsesMutex, MutexTypeCorrect, MutexExcludes, PTL
<1>2. VfsInit => OrderSpec!Init
  BY ListInitInv DEF OrderSpec!Init
<1>3. ListInv /\ (MutexTypeOK /\ MutualExclusion) /\ [VfsNext]_vfsVars => [OrderSpec!Next]_Order
  BY ListNext DEF MainHeld, Moves
<1> QED
  BY <1>1, <1>2, <1>3, ListInvariant, PTL DEF VfsSpec, ImplementsVfsOrder, OrderSpec!Spec
=============================================================================
