------------------------------- MODULE Mutex -------------------------------
(***************************************************************************)
(* The mutex subsystem of one process (src/mutex/mutex.cpp and             *)
(* mutex_unix.cpp): sqlite3MutexInit, which publishes the method table,    *)
(* and the pthread implementation of enter, try and leave in a build that  *)
(* keeps nRef and owner (SQLITE_MUTEX_NREF).  With Homegrown, recursion is *)
(* built from nRef and owner, which a thread reads without the lock.       *)
(*                                                                         *)
(* nRef and owner are read and written one at a time; as the comment in    *)
(* pthreadMutexEnter assumes, each access is atomic and all threads see    *)
(* one order of them.  No such assumption is made for the plain stores     *)
(* into the method table: without a barrier they become visible to other   *)
(* threads in any order.                                                   *)
(***************************************************************************)
EXTENDS Integers

CONSTANTS
  Thread,
  NoThread,     \* no thread: a free mutex, owner==0
  Mutexes,
  NoMutex,      \* no mutex: the thread is in no call
  Recursive,    \* the mutexes of type SQLITE_MUTEX_RECURSIVE
  Homegrown,    \* SQLITE_HOMEGROWN_RECURSIVE_MUTEX
  MaxEntered    \* bound: how often a thread enters a mutex without leaving it

ASSUME MutexAssumption ==
  /\ NoThread \notin Thread /\ NoMutex \notin Mutexes
  /\ Recursive \subseteq Mutexes
  /\ Homegrown \in BOOLEAN
  /\ MaxEntered \in Nat

(* The methods that matter; the others are copied along with these.        *)
Copied == {"xMutexInit", "xMutexEnter", "xMutexLeave"}
Method == Copied \cup {"xMutexAlloc"}

VARIABLES
  table,      \* methods of sqlite3GlobalConfig.mutex that every thread sees
  unflushed,  \* methods each thread has stored and others may not see yet
  lock,       \* thread that has the pthread mutex
  depth,      \* how often, when that is recursive
  nRef,
  owner,
  entered,    \* how often each thread is inside each mutex, as its caller knows
  trying,     \* threads whose call is sqlite3_mutex_try
  pc,         \* next step of each thread
  at          \* mutex its call is about

tableVars == <<table, unflushed>>
mutexVars == <<lock, depth, nRef, owner>>
mVars == <<tableVars, mutexVars, entered, trying, pc, at>>

Goto(t, step) == pc' = [pc EXCEPT ![t] = step] /\ UNCHANGED <<trying, at>>
Return(t) ==
  /\ pc' = [pc EXCEPT ![t] = "idle"]
  /\ at' = [at EXCEPT ![t] = NoMutex]
  /\ trying' = trying \ {t}
Sees(t, method) == method \in table \cup unflushed[t]

MutexInit ==
  /\ table \in {{}, Method}       \* or set by sqlite3_config
  /\ unflushed = [t \in Thread |-> {}]
  /\ lock = [m \in Mutexes |-> NoThread]
  /\ depth = [m \in Mutexes |-> 0]
  /\ nRef = [m \in Mutexes |-> 0]
  /\ owner = [m \in Mutexes |-> NoThread]
  /\ entered = [t \in Thread |-> [m \in Mutexes |-> 0]]
  /\ trying = {}
  /\ pc = [t \in Thread |-> "init"]
  /\ at = [t \in Thread |-> NoMutex]

(***************************************************************************)
(* sqlite3MutexInit and the call of xMutexAlloc for a static mutex.        *)
(***************************************************************************)
TestAlloc(t) ==
  /\ pc[t] = "init"
  /\ Goto(t, IF Sees(t, "xMutexAlloc") THEN "callInit" ELSE "copy")
  /\ UNCHANGED tableVars

CopyMethods(t) ==
  /\ pc[t] = "copy"
  /\ unflushed' = [unflushed EXCEPT ![t] = @ \cup Copied]
  /\ Goto(t, "barrier")
  /\ UNCHANGED table

BarrierSkipped(t) ==                     \* mutated
  /\ pc[t] = "barrier"
  /\ Goto(t, "publish")
  /\ UNCHANGED tableVars

Barrier(t) ==
  /\ pc[t] = "barrier"
  /\ unflushed[t] = {}
  /\ Goto(t, "publish")
  /\ UNCHANGED tableVars

PublishAlloc(t) ==
  /\ pc[t] = "publish"
  /\ unflushed' = [unflushed EXCEPT ![t] = @ \cup {"xMutexAlloc"}]
  /\ Goto(t, "callInit")
  /\ UNCHANGED table

CallInit(t) == pc[t] = "callInit" /\ Return(t) /\ UNCHANGED tableVars

InitStep(t) ==
  /\ TestAlloc(t) \/ CopyMethods(t) \/ Barrier(t) \/ PublishAlloc(t) \/ CallInit(t)
  /\ UNCHANGED <<mutexVars, entered>>

(* A store becomes visible.                                                *)
Flush(t) ==
  /\ \E method \in unflushed[t] :
       /\ table' = table \cup {method}
       /\ unflushed' = [unflushed EXCEPT ![t] = @ \ {method}]
  /\ UNCHANGED <<mutexVars, entered, trying, pc, at>>

(***************************************************************************)
(* pthreadMutexEnter and pthreadMutexTry.  To enter a mutex again that is  *)
(* not recursive is undefined; the asserts at the start only read.         *)
(***************************************************************************)
BeginEnter(t, m, try) ==
  /\ pc[t] = "idle"
  /\ entered[t][m] < (IF m \in Recursive THEN MaxEntered ELSE 1)
  /\ at' = [at EXCEPT ![t] = m]
  /\ trying' = IF try THEN trying \cup {t} ELSE trying
  /\ pc' = [pc EXCEPT ![t] = IF Homegrown THEN "readRef" ELSE "lock"]
  /\ UNCHANGED <<tableVars, mutexVars, entered>>

Entered(t) ==
  /\ entered' = [entered EXCEPT ![t][at[t]] = @ + 1]
  /\ Return(t)

(* p->nRef>0 && pthread_equal(p->owner, self)                              *)
ReadRef(t) ==
  /\ pc[t] = "readRef"
  /\ Goto(t, IF nRef[at[t]] > 0 THEN "readOwner" ELSE "lock")
  /\ UNCHANGED <<mutexVars, entered>>

IgnoreOwner(t) == TRUE                   \* mutated
OwnedBy(t) == owner[at[t]] = t

ReadOwner(t) ==
  /\ pc[t] = "readOwner"
  /\ Goto(t, IF OwnedBy(t) THEN "again" ELSE "lock")
  /\ UNCHANGED <<mutexVars, entered>>

EnterAgain(t) ==
  /\ pc[t] = "again"
  /\ nRef' = [nRef EXCEPT ![at[t]] = @ + 1]
  /\ Entered(t)
  /\ UNCHANGED <<lock, depth, owner>>

(* pthread_mutex_lock and pthread_mutex_trylock.                           *)
Lockable(t, m) ==
  lock[m] = NoThread \/ (lock[m] = t /\ m \in Recursive /\ ~Homegrown)

LockMutex(t) ==
  LET m == at[t] IN
  /\ pc[t] = "lock"
  /\ \/ /\ Lockable(t, m)
        /\ lock' = [lock EXCEPT ![m] = t]
        /\ depth' = [depth EXCEPT ![m] = @ + 1]
        /\ Goto(t, "setOwner")
     \/ /\ t \in trying /\ ~Lockable(t, m)    \* SQLITE_BUSY
        /\ Return(t)
        /\ UNCHANGED <<lock, depth>>
  /\ UNCHANGED <<nRef, owner, entered>>

SetOwner(t) ==
  /\ pc[t] = "setOwner"
  /\ owner' = [owner EXCEPT ![at[t]] = t]
  /\ Goto(t, "setRef")
  /\ UNCHANGED <<lock, depth, nRef, entered>>

SetRef(t) ==
  /\ pc[t] = "setRef"
  /\ nRef' = [nRef EXCEPT ![at[t]] = IF Homegrown THEN 1 ELSE @ + 1]
  /\ Entered(t)
  /\ UNCHANGED <<lock, depth, owner>>

(***************************************************************************)
(* pthreadMutexLeave.                                                      *)
(***************************************************************************)
BeginLeave(t, m) ==
  /\ pc[t] = "idle"
  /\ entered[t][m] > 0
  /\ at' = [at EXCEPT ![t] = m]
  /\ entered' = [entered EXCEPT ![t][m] = @ - 1]
  /\ pc' = [pc EXCEPT ![t] = "leave"]
  /\ UNCHANGED <<tableVars, mutexVars, trying>>

DecRef(t) ==
  LET m == at[t] IN
  /\ pc[t] = "leave"
  /\ nRef' = [nRef EXCEPT ![m] = @ - 1]
  /\ IF nRef[m] = 1 THEN Goto(t, "clearOwner")
     ELSE IF Homegrown THEN Return(t) ELSE Goto(t, "unlock")
  /\ UNCHANGED <<lock, depth, owner, entered>>

ClearOwner(t) ==
  /\ pc[t] = "clearOwner"
  /\ owner' = [owner EXCEPT ![at[t]] = NoThread]
  /\ Goto(t, "unlock")
  /\ UNCHANGED <<lock, depth, nRef, entered>>

Unlock(t) ==
  LET m == at[t] IN
  /\ pc[t] = "unlock"
  /\ depth' = [depth EXCEPT ![m] = @ - 1]
  /\ lock' = IF depth[m] = 1 THEN [lock EXCEPT ![m] = NoThread] ELSE lock
  /\ Return(t)
  /\ UNCHANGED <<nRef, owner, entered>>

MutexStep(t) ==
  /\ \/ ReadRef(t) \/ ReadOwner(t) \/ EnterAgain(t) \/ LockMutex(t) \/ SetOwner(t) \/ SetRef(t)
     \/ DecRef(t) \/ ClearOwner(t) \/ Unlock(t)
  /\ UNCHANGED tableVars

(* Threads that enter and leave as they like.                              *)
MutexNext ==
  \E t \in Thread :
    \/ InitStep(t) \/ Flush(t) \/ MutexStep(t)
    \/ \E m \in Mutexes :
         \/ \E try \in BOOLEAN : BeginEnter(t, m, try)
         \/ BeginLeave(t, m)

MutexSpec == MutexInit /\ [][MutexNext]_mVars

-----------------------------------------------------------------------------
InitSteps == {"init", "copy", "barrier", "publish", "callInit"}
EnterSteps == {"readRef", "readOwner", "again", "lock", "setOwner", "setRef"}
LeaveSteps == {"leave", "clearOwner", "unlock"}

(* Every variable stays in its range; nRef never goes negative.            *)
MutexTypeOK ==
  /\ table \subseteq Method
  /\ unflushed \in [Thread -> SUBSET Method]
  /\ lock \in [Mutexes -> Thread \cup {NoThread}]
  /\ depth \in [Mutexes -> Nat] /\ nRef \in [Mutexes -> Nat]
  /\ owner \in [Mutexes -> Thread \cup {NoThread}]
  /\ entered \in [Thread -> [Mutexes -> Nat]]
  /\ trying \subseteq Thread
  /\ pc \in [Thread -> InitSteps \cup EnterSteps \cup LeaveSteps \cup {"idle"}]
  /\ at \in [Thread -> Mutexes \cup {NoMutex}]

(* "If another thread is already within the mutex, sqlite3_mutex_enter()   *)
(* will block": two threads are never inside one mutex.                    *)
MutualExclusion ==
  \A t, u \in Thread, m \in Mutexes : entered[t][m] > 0 /\ entered[u][m] > 0 => t = u

(* A thread that has returned from sqlite3MutexInit, or is about to call   *)
(* xMutexInit, finds every method in the table, whoever stored it.         *)
TableComplete ==
  \A t \in Thread :
    pc[t] \notin InitSteps \ {"callInit"} => \A method \in Method : Sees(t, method)

(* pthreadMutexHeld and pthreadMutexNotheld read nRef and owner without    *)
(* the lock, and still tell a thread the truth about itself.               *)
HeldTellsTruth ==
  \A t \in Thread, m \in Mutexes :
    pc[t] \notin EnterSteps \cup LeaveSteps \/ at[t] # m
    => (nRef[m] # 0 /\ owner[m] = t <=> entered[t][m] > 0)

(* The asserts inside enter and leave.                                     *)
AssertsHold ==
  \A t \in Thread :
    LET m == at[t] IN
    /\ pc[t] = "setOwner" =>
         IF Homegrown THEN nRef[m] = 0 ELSE nRef[m] > 0 \/ owner[m] = NoThread
    /\ pc[t] = "leave" =>
         nRef[m] > 0 /\ owner[m] = t /\ (nRef[m] > 1 => m \in Recursive)

-----------------------------------------------------------------------------
(***************************************************************************)
(* Why the properties hold: what lock, depth, nRef and owner are, given    *)
(* where the holder of a mutex is and how often it has entered.            *)
(***************************************************************************)
Within(t, m, steps) == at[t] = m /\ pc[t] \in steps

InCall(t) ==
  /\ at[t] = NoMutex <=> pc[t] \in InitSteps \cup {"idle"}
  /\ pc[t] \in {"readRef", "readOwner", "again"} => Homegrown

FreeOk(m) == lock[m] = NoThread => depth[m] = 0 /\ nRef[m] = 0 /\ owner[m] = NoThread

OutsideOk(t, m) ==
  lock[m] # t =>
    /\ entered[t][m] = 0
    /\ at[t] = m => pc[t] \in {"readRef", "readOwner", "lock"}

(* Between the pthread calls and the caller's entry or leave.              *)
Between == {"setOwner", "setRef", "leave", "clearOwner", "unlock"}

HolderOk(t, m) ==
  lock[m] = t =>
    /\ nRef[m] = entered[t][m] + (IF Within(t, m, {"leave"}) THEN 1 ELSE 0)
    /\ depth[m] = IF Homegrown THEN 1
                  ELSE entered[t][m] + (IF Within(t, m, Between) THEN 1 ELSE 0)
    /\ owner[m] = IF entered[t][m] = 0 /\ Within(t, m, {"setOwner", "unlock"})
                  THEN NoThread ELSE t
    /\ entered[t][m] = 0 => Within(t, m, Between)
    /\ Within(t, m, {"clearOwner"}) => entered[t][m] = 0
    /\ Homegrown /\ Within(t, m, {"setOwner", "setRef", "unlock"}) => entered[t][m] = 0
    /\ Homegrown => ~Within(t, m, {"lock"})
    /\ m \notin Recursive => entered[t][m] + (IF Within(t, m, EnterSteps \cup {"leave"}) THEN 1 ELSE 0) <= 1

MutexInv ==
  /\ MutexTypeOK
  /\ \A t \in Thread : InCall(t)
  /\ \A m \in Mutexes : FreeOk(m)
  /\ \A t \in Thread, m \in Mutexes : OutsideOk(t, m) /\ HolderOk(t, m)

(* Why the table is complete: xMutexAlloc is stored after the others are   *)
(* visible to every thread.                                                *)
TableInv ==
  /\ table \subseteq Method
  /\ \A t \in Thread :
       /\ unflushed[t] \subseteq Method
       /\ Sees(t, "xMutexAlloc") => Copied \subseteq table
       /\ pc[t] = "barrier" => \A method \in Copied : Sees(t, method)
       /\ pc[t] = "publish" => Copied \subseteq table
       /\ pc[t] \notin InitSteps \ {"callInit"} => Sees(t, "xMutexAlloc")
=============================================================================
