------------------------------ MODULE VfsList ------------------------------
(***************************************************************************)
(* The list of VFSes (src/os/os.c): sqlite3_vfs_find, _register and        *)
(* _unregister, on a linked list that SQLITE_MUTEX_STATIC_MAIN protects,   *)
(* and sqlite3_os_init and sqlite3_os_end of src/os/os_unix.c, which       *)
(* sqlite3_initialize calls under a recursive mutex of its own.  The       *)
(* mutexes are those of module Mutex, so a thread's call is a mutex call,  *)
(* steps through the list, each reading or writing one pointer, and        *)
(* another mutex call.                                                     *)
(***************************************************************************)
EXTENDS Mutex, Sequences, FiniteSets

CONSTANTS
  Vfs,       \* sqlite3_vfs objects
  Null,
  NameOf,    \* zName of each
  BuiltIn,   \* the VFSes of sqlite3_os_init, in order
  Main,      \* SQLITE_MUTEX_STATIC_MAIN
  InitMutex  \* pInitMutex of sqlite3_initialize

Names == {NameOf[v] : v \in Vfs}

ASSUME VfsListAssumption ==
  /\ IsFiniteSet(Vfs) /\ Null \notin Vfs
  /\ Names \cap Vfs = {}
  /\ BuiltIn \in Seq(Vfs)
  /\ Main \in Mutexes \ Recursive
  /\ InitMutex \in Recursive

VARIABLES
  vfsList,     \* first of the list
  pNext,
  isInit,      \* sqlite3GlobalConfig.isInit
  inProgress,  \* thread in sqlite3_os_init
  todo,        \* VFSes that it has still to register
  vpc,         \* what each thread does inside Main
  arg,         \* the VFS, or for a search the name or Null
  dflt,        \* threads whose call has makeDflt
  p            \* the pointer that walks along the list

listVars == <<vfsList, pNext>>
initVars == <<isInit, inProgress, todo>>
callVars == <<vpc, arg, dflt, p>>
vfsVars == <<mVars, listVars, initVars, callVars>>

VfsInit ==
  /\ MutexInit
  /\ vfsList = Null
  /\ pNext = [v \in Vfs |-> Null]
  /\ isInit = FALSE
  /\ inProgress = NoThread
  /\ todo = <<>>
  /\ vpc = [t \in Thread |-> "none"]
  /\ arg = [t \in Thread |-> Null]
  /\ dflt = {}
  /\ p = [t \in Thread |-> Null]

VGoto(t, step) == vpc' = [vpc EXCEPT ![t] = step]

(* A call that has entered Main, whose arguments matter from here on.      *)
BeginCall(t, step, what, makeDflt) ==
  /\ vpc[t] = "none" /\ pc[t] = "idle" /\ entered[t][Main] > 0
  /\ VGoto(t, step)
  /\ arg' = [arg EXCEPT ![t] = what]
  /\ dflt' = IF makeDflt THEN dflt \cup {t} ELSE dflt
  /\ UNCHANGED <<mVars, listVars, isInit, inProgress, p>>

(* The thread is inside Main and about to do "step".                       *)
Doing(t, step) ==
  /\ vpc[t] = step
  /\ UNCHANGED <<mVars, initVars, arg, dflt>>

(* It leaves the mutex, and returns.                                       *)
EndCall(t) ==
  /\ vpc[t] = "leave"
  /\ BeginLeave(t, Main)
  /\ VGoto(t, "none")
  /\ arg' = [arg EXCEPT ![t] = Null]
  /\ dflt' = dflt \ {t}
  /\ p' = [p EXCEPT ![t] = Null]
  /\ UNCHANGED <<listVars, initVars>>

(***************************************************************************)
(* sqlite3_vfs_find.                                                       *)
(***************************************************************************)
Find(t) ==
  /\ inProgress # t
  /\ \E name \in Names \cup {Null} : BeginCall(t, "first", name, FALSE)
  /\ UNCHANGED todo

FindFirst(t) ==
  /\ Doing(t, "first")
  /\ p' = [p EXCEPT ![t] = vfsList]
  /\ VGoto(t, "compare")
  /\ UNCHANGED listVars

FoundAny(t) == TRUE                      \* mutated
Found(t) == p[t] # Null => arg[t] \in {Null, NameOf[p[t]]}

FindNext(t) ==
  /\ Doing(t, "compare")
  /\ \/ Found(t) /\ VGoto(t, "leave") /\ UNCHANGED p
     \/ ~Found(t) /\ p' = [p EXCEPT ![t] = pNext[p[t]]] /\ UNCHANGED vpc
  /\ UNCHANGED listVars

(***************************************************************************)
(* vfsUnlink, and what its two callers do after it.                        *)
(***************************************************************************)
Unregister(t) ==
  /\ inProgress # t
  /\ \E v \in Vfs : BeginCall(t, "unlink", v, FALSE)
  /\ UNCHANGED todo

Register(t) ==
  /\ inProgress # t
  /\ \E v \in Vfs, makeDflt \in BOOLEAN : BeginCall(t, "unlinkFirst", v, makeDflt)
  /\ UNCHANGED todo

(* The step after vfsUnlink.                                               *)
Unlinked(t) ==
  VGoto(t, IF vpc[t] \in {"unlink", "walk"} THEN "leave" ELSE "insert")

UnlinkHeadMissed(t) ==                   \* mutated
  /\ Doing(t, "unlink") \/ Doing(t, "unlinkFirst")
  /\ \/ vfsList = Null /\ Unlinked(t) /\ UNCHANGED p
     \/ /\ vfsList # Null
        /\ p' = [p EXCEPT ![t] = vfsList]
        /\ VGoto(t, IF vpc[t] = "unlink" THEN "walk" ELSE "walkFirst")
  /\ UNCHANGED listVars

UnlinkHead(t) ==
  /\ Doing(t, "unlink") \/ Doing(t, "unlinkFirst")
  /\ \/ /\ vfsList = arg[t]
        /\ vfsList' = pNext[arg[t]]
        /\ Unlinked(t) /\ UNCHANGED p
     \/ /\ vfsList # arg[t] /\ vfsList = Null
        /\ Unlinked(t) /\ UNCHANGED <<vfsList, p>>
     \/ /\ vfsList # arg[t] /\ vfsList # Null
        /\ p' = [p EXCEPT ![t] = vfsList]
        /\ VGoto(t, IF vpc[t] = "unlink" THEN "walk" ELSE "walkFirst")
        /\ UNCHANGED vfsList
  /\ UNCHANGED pNext

UnlinkAfter(t) ==
  LET next == pNext[p[t]] IN
  /\ Doing(t, "walk") \/ Doing(t, "walkFirst")
  /\ \/ /\ next \notin {Null, arg[t]}
        /\ p' = [p EXCEPT ![t] = next]
        /\ UNCHANGED <<pNext, vpc>>
     \/ /\ next = arg[t]
        /\ pNext' = [pNext EXCEPT ![p[t]] = pNext[arg[t]]]
        /\ Unlinked(t) /\ UNCHANGED p
     \/ next = Null /\ Unlinked(t) /\ UNCHANGED <<pNext, p>>
  /\ UNCHANGED vfsList

GoesFirst(t) == t \in dflt \/ vfsList = Null

Insert(t) ==
  /\ Doing(t, "insert")
  /\ \/ /\ GoesFirst(t)
        /\ pNext' = [pNext EXCEPT ![arg[t]] = vfsList]
        /\ VGoto(t, "linkFirst")
     \/ /\ ~GoesFirst(t)
        /\ pNext' = [pNext EXCEPT ![arg[t]] = pNext[vfsList]]
        /\ VGoto(t, "linkSecond")
  /\ UNCHANGED <<vfsList, p>>

LinkFirst(t) ==
  /\ Doing(t, "linkFirst")
  /\ vfsList' = arg[t]
  /\ VGoto(t, "leave")
  /\ UNCHANGED <<pNext, p>>

LinkSecond(t) ==
  /\ Doing(t, "linkSecond")
  /\ pNext' = [pNext EXCEPT ![vfsList] = arg[t]]
  /\ VGoto(t, "leave")
  /\ UNCHANGED <<vfsList, p>>

(***************************************************************************)
(* Every call begins with sqlite3_initialize, which returns at once if     *)
(* isInit and otherwise enters its recursive mutex; the thread that is     *)
(* first there runs sqlite3_os_init.  The calls of sqlite3_vfs_register    *)
(* there enter the recursive mutex again.  After sqlite3_shutdown all of   *)
(* it is done again, on the list as it is.                                 *)
(***************************************************************************)
EnterInit(t) ==
  /\ ~isInit /\ vpc[t] = "none" /\ entered[t][Main] = 0
  /\ inProgress = t => todo # <<>>
  /\ BeginEnter(t, InitMutex, FALSE)

(* With ~isInit and nothing in progress, sqlite3OsInit had no memory.      *)
LeaveInit(t) ==
  /\ vpc[t] = "none" /\ entered[t][Main] = 0
  /\ inProgress = t => entered[t][InitMutex] > 1
  /\ BeginLeave(t, InitMutex)

OsInit(t) ==
  /\ ~isInit /\ inProgress = NoThread
  /\ pc[t] = "idle" /\ entered[t][InitMutex] > 0
  /\ inProgress' = t
  /\ todo' = BuiltIn
  /\ UNCHANGED <<mVars, listVars, isInit, callVars>>

OsInitRegister(t) ==
  /\ inProgress = t /\ todo # <<>>
  /\ BeginCall(t, "unlinkFirst", Head(todo), todo = BuiltIn)
  /\ todo' = Tail(todo)

OsInitDone(t) ==
  /\ inProgress = t /\ todo = <<>>
  /\ vpc[t] = "none" /\ pc[t] = "idle"
  /\ isInit' = TRUE
  /\ inProgress' = NoThread
  /\ UNCHANGED <<mVars, listVars, todo, callVars>>

(* sqlite3_shutdown, which the application calls while no other thread     *)
(* uses the library.                                                       *)
OsEnd ==
  /\ isInit
  /\ \A t \in Thread : vpc[t] = "none" /\ pc[t] = "idle"
  /\ \A t \in Thread, m \in Mutexes : entered[t][m] = 0
  /\ isInit' = FALSE
  /\ UNCHANGED <<mVars, listVars, inProgress, todo, callVars>>

(* A call of this module enters Main; an application may try to.           *)
EnterMain(t) ==
  /\ vpc[t] = "none"
  /\ \/ /\ isInit /\ entered[t][InitMutex] = 0
        /\ \E try \in BOOLEAN : BeginEnter(t, Main, try)
     \/ inProgress = t /\ todo # <<>> /\ BeginEnter(t, Main, FALSE)

(* An application that has entered Main itself leaves it.                  *)
LeaveMain(t) == inProgress # t /\ vpc[t] = "none" /\ BeginLeave(t, Main)

MutexCall(t) ==
  /\ \/ InitStep(t) \/ Flush(t) \/ MutexStep(t)
     \/ EnterInit(t) \/ LeaveInit(t) \/ EnterMain(t) \/ LeaveMain(t)
  /\ UNCHANGED <<listVars, initVars, callVars>>

VfsStep(t) ==
  \/ FindFirst(t) \/ FindNext(t)
  \/ UnlinkHead(t) \/ UnlinkAfter(t) \/ Insert(t) \/ LinkFirst(t) \/ LinkSecond(t)
  \/ EndCall(t)

VfsNext ==
  \/ \E t \in Thread :
       \/ MutexCall(t) \/ VfsStep(t)
       \/ Find(t) \/ Register(t) \/ Unregister(t)
       \/ OsInit(t) \/ OsInitRegister(t) \/ OsInitDone(t)
  \/ OsEnd

VfsSpec == VfsInit /\ [][VfsNext]_vfsVars

-----------------------------------------------------------------------------
(* The VFSes on the list, in order, as far as Cardinality(Vfs) pointers go.*)
Nth[n \in 0 .. Cardinality(Vfs)] ==
  IF n = 0 THEN vfsList ELSE IF Nth[n - 1] = Null THEN Null ELSE pNext[Nth[n - 1]]

Listed == {n \in 1 .. Cardinality(Vfs) : Nth[n - 1] # Null}

Order == [n \in 1 .. Cardinality(Listed) |-> Nth[n - 1]]

(* A search ends at the first VFS of the name, or of any name, and at Null *)
(* only if there is none: no call of another thread moves the list under   *)
(* it.                                                                     *)
FindCorrect ==
  \A t \in Thread :
    LET hits == {n \in DOMAIN Order : arg[t] \in {Null, NameOf[Order[n]]}}
    IN vpc[t] = "leave" /\ arg[t] \in Names \cup {Null}
       => \/ hits = {} /\ p[t] = Null
          \/ \E n \in hits : p[t] = Order[n] /\ \A m \in hits : n <= m

(* Each store of a call removes one VFS or adds one, first or second.      *)
OrderSpec == INSTANCE VfsOrder WITH order <- Order
ImplementsVfsOrder == OrderSpec!Spec
=============================================================================
