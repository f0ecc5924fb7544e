---------------------------- MODULE UnixShmNode ----------------------------
(***************************************************************************)
(* The shared-memory file of the WAL index (src/os/os_unix.c): how a       *)
(* process opens it and decides whether to truncate it                     *)
(* (unixOpenSharedMemory, unixLockSharedMemory), maps regions of it        *)
(* (unixShmMap) and lets it go (unixShmUnmap, unixShmPurge).               *)
(*                                                                         *)
(* The connections of a process share one unixShmNode.  Each process that  *)
(* uses the file holds a read lock on the DMS byte, the dead man's switch: *)
(* who finds the byte unlocked is the first, and truncates the file, whose *)
(* contents may stem from before a power failure.                          *)
(***************************************************************************)
EXTENDS FcntlLocks, ShmConnections, Integers, FiniteSets

CONSTANTS
  ReadonlyShm,  \* connections opened with readonly_shm=1
  ShmPerMap,    \* unixShmRegionPerMap()
  RegionPages,  \* pages of 4096 bytes in a region
  Regions       \* bound: the regions the WAL code asks for

ASSUME UnixShmNodeAssumption ==
  /\ ProcOf \in [Conn -> Process]
  /\ ReadonlyShm \subseteq Conn
  /\ ShmPerMap \in Nat \ {0} /\ RegionPages \in Nat \ {0}
  /\ Regions \subseteq Nat
  /\ IsFiniteSet(Conn) /\ IsFiniteSet(Regions)

Absent == -1

VARIABLES
  \* the file
  size,        \* pages, or Absent
  trusted,     \* 1 if nothing in it is older than the last power failure
  dms,         \* kernel locks on the DMS byte
  \* unixShmNode of each process
  node,        \* "none", "new" while it is being opened, or "ready"
  isReadonly,  \* processes whose node is read-only
  isUnlocked,  \* processes whose node has no DMS lock yet
  nRef,
  nRegion,
  pFirst,      \* connections on the node's list
  \* connections
  pShm,        \* connections with a unixShm
  pc,          \* next step of the call each connection is in
  iRegion,     \* region asked for
  bExtend,     \* connections that may extend the file
  iPg          \* next page to write

fileVars == <<size, trusted, dms>>
nodeVars == <<node, isReadonly, isUnlocked, nRef, nRegion, pFirst>>
argVars  == <<iRegion, bExtend, iPg>>
vars == <<fileVars, nodeVars, pShm, pc, argVars>>

Goto(c, step) == pc' = [pc EXCEPT ![c] = step]

(* unixBigLock is held while a node is opened, pShmMutex while a call      *)
(* works on an open one.                                                   *)
LockSteps == {"getlk", "wrlck", "truncate", "rdlck"}
HoldsBigLock(c) == pc[c] \in LockSteps /\ c \notin pShm
HoldsShmMutex(c) == pc[c] \in {"size", "grow", "mmap"} \/ (pc[c] \in LockSteps /\ c \in pShm)

BigLockFree(p)  == \A c \in Conn : ProcOf[c] = p => ~HoldsBigLock(c)
ShmMutexFree(p) == \A c \in Conn : ProcOf[c] = p => ~HoldsShmMutex(c)

Init ==
  /\ size = Absent /\ trusted = 1
  /\ dms = [p \in Process |-> F_UNLCK]
  /\ node = [p \in Process |-> "none"]
  /\ isReadonly = {} /\ isUnlocked = {}
  /\ nRef = [p \in Process |-> 0]
  /\ nRegion = [p \in Process |-> 0]
  /\ pFirst = {} /\ pShm = {}
  /\ pc = [c \in Conn |-> "idle"]
  /\ iRegion = [c \in Conn |-> 0] /\ bExtend = {} /\ iPg = [c \in Conn |-> 0]

(***************************************************************************)
(* unixOpenSharedMemory.                                                   *)
(***************************************************************************)
(* The new unixShm is counted in nRef under unixBigLock ...                *)
Attach(c, step) ==
  LET p == ProcOf[c] IN
  /\ node' = [node EXCEPT ![p] = "ready"]
  /\ nRef' = [nRef EXCEPT ![p] = @ + 1]
  /\ pShm' = pShm \cup {c}
  /\ Goto(c, step)

(* ... and joins the list later, under pShmMutex.                          *)
Link(c) ==
  /\ pc[c] \in {"link", "linkFail"}
  /\ ShmMutexFree(ProcOf[c])
  /\ pFirst' = pFirst \cup {c}
  /\ Goto(c, IF pc[c] = "link" THEN "enter" ELSE "idle")
  /\ UNCHANGED <<fileVars, node, isReadonly, isUnlocked, nRef, nRegion, pShm, argVars>>

(* unixShmPurge; closing the file drops the DMS lock.                      *)
Purge(p) ==
  /\ node' = [node EXCEPT ![p] = "none"]
  /\ isReadonly' = isReadonly \ {p}
  /\ isUnlocked' = isUnlocked \ {p}
  /\ nRegion' = [nRegion EXCEPT ![p] = 0]
  /\ dms' = [dms EXCEPT ![p] = F_UNLCK]

(* Open, or create, the file.  Opening it for writing may fail for want of *)
(* permission and any step for want of memory.                             *)
OpenFile(c) ==
  LET p == ProcOf[c] IN
  /\ node' = [node EXCEPT ![p] = "new"]
  /\ Goto(c, "getlk")
  /\ \/ /\ c \notin ReadonlyShm
        /\ size' = IF size = Absent THEN 0 ELSE size
        /\ trusted' = IF size = Absent THEN 1 ELSE trusted
        /\ UNCHANGED isReadonly
     \/ /\ size # Absent
        /\ isReadonly' = isReadonly \cup {p}
        /\ UNCHANGED <<size, trusted>>
  /\ UNCHANGED <<nRef, pShm>>

Open(c) ==
  LET p == ProcOf[c] IN
  /\ pc[c] = "open" /\ BigLockFree(p)
  /\ \/ /\ node[p] # "none" /\ Attach(c, "link")
        /\ UNCHANGED <<size, trusted, isReadonly>>
     \/ node[p] = "none" /\ OpenFile(c)
     \/ /\ node[p] = "none" /\ Goto(c, "idle")
        /\ UNCHANGED <<size, trusted, isReadonly, node, nRef, pShm>>
  /\ UNCHANGED <<dms, isUnlocked, nRegion, pFirst, argVars>>

(***************************************************************************)
(* unixLockSharedMemory, called for a new node, or again from unixShmMap   *)
(* for a read-only node that could not initialise the file.                *)
(***************************************************************************)
DmsGrantable(p, type) == \A q \in Process \ {p} : Compatible(dms[q], type)

(* An error: a new node is purged, an old one stays as it is.              *)
Fail(c) ==
  /\ Goto(c, "idle")
  /\ \/ c \notin pShm /\ Purge(ProcOf[c])
     \/ c \in pShm /\ UNCHANGED <<node, isReadonly, isUnlocked, nRegion, dms>>
  /\ UNCHANGED <<nRef, pShm>>

(* "an earlier version of this code attempted the SHARED lock at this      *)
(* point"                                                                  *)
BeingInitializedMissed(p) == FALSE       \* mutated
BeingInitialized(p) == \E q \in Process \ {p} : dms[q] = F_WRLCK
InUse(p) == \E q \in Process \ {p} : dms[q] # F_UNLCK

(* A read-only process that is the first: SQLITE_READONLY_CANTINIT.        *)
CannotInit(c) ==
  LET p == ProcOf[c] IN
  /\ isUnlocked' = isUnlocked \cup {p}
  /\ IF c \in pShm THEN Goto(c, "idle") /\ UNCHANGED <<node, nRef, pShm>> ELSE Attach(c, "linkFail")
  /\ UNCHANGED <<isReadonly, nRegion, dms>>

GetLk(c) ==
  LET p == ProcOf[c] IN
  /\ pc[c] = "getlk"
  /\ \/ Fail(c)                            \* fcntl failed, or the next line
     \/ /\ ~BeingInitialized(p) /\ InUse(p) /\ Goto(c, "rdlck")
        /\ UNCHANGED <<node, isReadonly, isUnlocked, nRegion, dms, nRef, pShm>>
     \/ ~InUse(p) /\ p \in isReadonly /\ CannotInit(c)
     \/ /\ ~InUse(p) /\ p \notin isReadonly /\ Goto(c, "wrlck")
        /\ UNCHANGED <<node, isReadonly, isUnlocked, nRegion, dms, nRef, pShm>>
  /\ UNCHANGED <<size, trusted, pFirst, argVars>>

WrLock(c) ==
  LET p == ProcOf[c] IN
  /\ pc[c] = "wrlck"
  /\ \/ /\ DmsGrantable(p, F_WRLCK)
        /\ dms' = [dms EXCEPT ![p] = F_WRLCK]
        /\ Goto(c, "truncate")
        /\ UNCHANGED <<node, isReadonly, isUnlocked, nRegion, nRef, pShm>>
     \/ Fail(c)
  /\ UNCHANGED <<size, trusted, pFirst, argVars>>

(* To 3 bytes: no whole page is left.                                      *)
Truncate(c) ==
  /\ pc[c] = "truncate"
  /\ \/ /\ size' = 0 /\ trusted' = 1
        /\ Goto(c, "rdlck")
        /\ UNCHANGED <<node, isReadonly, isUnlocked, nRegion, dms, nRef, pShm>>
     \/ Fail(c) /\ UNCHANGED <<size, trusted>>
  /\ UNCHANGED <<pFirst, argVars>>

(* Mutated: the result of the lock call is not looked at.                  *)
RdLockUnchecked(c) ==
  LET p == ProcOf[c] IN
  /\ pc[c] = "rdlck"
  /\ dms' = [dms EXCEPT ![p] = IF DmsGrantable(p, F_RDLCK) THEN F_RDLCK ELSE @]
  /\ isUnlocked' = isUnlocked \ {p}
  /\ IF c \in pShm THEN Goto(c, "size") /\ UNCHANGED <<node, nRef, pShm>> ELSE Attach(c, "link")
  /\ UNCHANGED <<isReadonly, nRegion, size, trusted, pFirst, argVars>>

RdLock(c) ==
  LET p == ProcOf[c] IN
  /\ pc[c] = "rdlck"
  /\ \/ /\ DmsGrantable(p, F_RDLCK)
        /\ dms' = [dms EXCEPT ![p] = F_RDLCK]
        /\ isUnlocked' = isUnlocked \ {p}
        /\ IF c \in pShm THEN Goto(c, "size") /\ UNCHANGED <<node, nRef, pShm>>
           ELSE Attach(c, "link")
        /\ UNCHANGED <<isReadonly, nRegion>>
     \/ Fail(c)
  /\ UNCHANGED <<size, trusted, pFirst, argVars>>

(***************************************************************************)
(* unixShmMap.                                                             *)
(***************************************************************************)
ShmMap(c, region, extend) ==
  /\ pc[c] = "idle"
  /\ iRegion' = [iRegion EXCEPT ![c] = region]
  /\ bExtend' = IF extend THEN bExtend \cup {c} ELSE bExtend \ {c}
  /\ Goto(c, IF c \in pShm THEN "enter" ELSE "open")
  /\ UNCHANGED <<fileVars, nodeVars, pShm, iPg>>

Enter(c) ==
  LET p == ProcOf[c] IN
  /\ pc[c] = "enter" /\ ShmMutexFree(p)
  /\ Goto(c, IF p \in isUnlocked THEN "getlk" ELSE "size")
  /\ UNCHANGED <<fileVars, nodeVars, pShm, argVars>>

(* The regions to map, a multiple of ShmPerMap, and the pages they take.   *)
ReqRegions(c) == ((iRegion[c] + ShmPerMap) \div ShmPerMap) * ShmPerMap
ReqPagesOfRegion(c) == (iRegion[c] + 1) * RegionPages   \* mutated: the region alone
ReqPages(c) == ReqRegions(c) * RegionPages

(* The call is over, and with it its argument.                             *)
ReturnFromMap(c) == Goto(c, "idle") /\ iRegion' = [iRegion EXCEPT ![c] = 0]

Size(c) ==
  LET p == ProcOf[c] IN
  /\ pc[c] = "size"
  /\ \/ /\ nRegion[p] < ReqRegions(c)
        /\ \/ size >= ReqPages(c) /\ Goto(c, "mmap") /\ UNCHANGED <<iPg, iRegion>>
           \/ /\ size < ReqPages(c) /\ c \in bExtend
              /\ iPg' = [iPg EXCEPT ![c] = size]
              /\ Goto(c, "grow") /\ UNCHANGED iRegion
     \/ ReturnFromMap(c) /\ UNCHANGED iPg   \* mapped already, too short, or an error
  /\ bExtend' = bExtend \ {c}              \* not needed any more
  /\ UNCHANGED <<fileVars, nodeVars, pShm>>

(* Extend the file page by page.                                           *)
Grow(c) ==
  /\ pc[c] = "grow"
  /\ \/ /\ iPg[c] < ReqPages(c) /\ ProcOf[c] \notin isReadonly
        /\ size' = IF size > iPg[c] THEN size ELSE iPg[c] + 1
        /\ iPg' = [iPg EXCEPT ![c] = @ + 1]
        /\ UNCHANGED <<pc, iRegion>>
     \/ /\ iPg' = [iPg EXCEPT ![c] = 0]
        /\ \/ iPg[c] < ReqPages(c) /\ ReturnFromMap(c)
           \/ iPg[c] >= ReqPages(c) /\ Goto(c, "mmap") /\ UNCHANGED iRegion
        /\ UNCHANGED size
  /\ UNCHANGED <<trusted, dms, nodeVars, pShm, bExtend>>

(* Map ShmPerMap regions at a time until the request is met, or fail.      *)
Mmap(c) ==
  LET p == ProcOf[c] IN
  /\ pc[c] = "mmap"
  /\ \/ /\ nRegion[p] < ReqRegions(c)
        /\ nRegion' = [nRegion EXCEPT ![p] = @ + ShmPerMap]
        /\ UNCHANGED <<pc, iRegion>>
     \/ ReturnFromMap(c) /\ UNCHANGED nRegion
  /\ UNCHANGED <<fileVars, node, isReadonly, isUnlocked, nRef, pFirst, pShm, bExtend, iPg>>

(***************************************************************************)
(* unixShmUnmap: off the list under pShmMutex, then, under unixBigLock,    *)
(* the reference is given up and the node purged with the last one.        *)
(***************************************************************************)
Unmap(c) ==
  /\ pc[c] = "idle" /\ c \in pShm
  /\ ShmMutexFree(ProcOf[c])
  /\ pFirst' = pFirst \ {c}
  /\ pShm' = pShm \ {c}
  /\ Goto(c, "unref")
  /\ UNCHANGED <<fileVars, node, isReadonly, isUnlocked, nRef, nRegion, argVars>>

LastListed(p) == \A d \in pFirst : ProcOf[d] # p   \* mutated: the list instead of nRef
LastRef(p) == nRef[p] = 1

(* The WAL code passes deleteFlag only while it has the database locked    *)
(* exclusively, so that no other process has the shared memory open.       *)
MayDelete(p) ==
  /\ \A q \in Process \ {p} : node[q] = "none"
  /\ \A c \in Conn : ProcOf[c] # p => pc[c] # "open"

Unref(c) ==
  LET p == ProcOf[c] IN
  /\ pc[c] = "unref" /\ BigLockFree(p)
  /\ nRef' = [nRef EXCEPT ![p] = @ - 1]
  /\ Goto(c, "idle")
  /\ \/ ~LastRef(p) /\ UNCHANGED <<fileVars, node, isReadonly, isUnlocked, nRegion>>
     \/ /\ LastRef(p) /\ Purge(p)
        /\ \/ UNCHANGED <<size, trusted>>
           \/ MayDelete(p) /\ size' = Absent /\ trusted' = 1
  /\ UNCHANGED <<pFirst, pShm, argVars>>

(***************************************************************************)
(* Processes die, one or, when the power fails, all of them.  After a      *)
(* power failure the file has any contents and may be shorter, or be there *)
(* again after it was deleted.                                             *)
(***************************************************************************)
Die(procs) ==
  LET Zero(f) == [p \in Process |-> IF p \in procs THEN 0 ELSE f[p]]
      left == {c \in Conn : ProcOf[c] \notin procs}
  IN
  /\ dms' = [p \in Process |-> IF p \in procs THEN F_UNLCK ELSE dms[p]]
  /\ node' = [p \in Process |-> IF p \in procs THEN "none" ELSE node[p]]
  /\ isReadonly' = isReadonly \ procs /\ isUnlocked' = isUnlocked \ procs
  /\ nRef' = Zero(nRef) /\ nRegion' = Zero(nRegion)
  /\ pFirst' = pFirst \cap left /\ pShm' = pShm \cap left
  /\ pc' = [c \in Conn |-> IF c \in left THEN pc[c] ELSE "idle"]
  /\ bExtend' = bExtend \cap left
  /\ iRegion' = [c \in Conn |-> IF c \in left THEN iRegion[c] ELSE 0]
  /\ iPg' = [c \in Conn |-> IF c \in left THEN iPg[c] ELSE 0]

Crash(p) == Die({p}) /\ UNCHANGED <<size, trusted>>

SizesAfterFailure == Absent .. (IF size < 1 THEN 1 ELSE size)

PowerFailure ==
  /\ Die(Process)
  /\ size' \in SizesAfterFailure
  /\ trusted' = IF size' = Absent THEN 1 ELSE 0

Next ==
  \/ \E c \in Conn :
       \/ \E region \in Regions, extend \in BOOLEAN : ShmMap(c, region, extend)
       \/ Open(c) \/ GetLk(c) \/ WrLock(c) \/ Truncate(c) \/ RdLock(c) \/ Link(c)
       \/ Enter(c) \/ Size(c) \/ Grow(c) \/ Mmap(c)
       \/ Unmap(c) \/ Unref(c)
  \/ \E p \in Process : Crash(p)
  \/ PowerFailure

Spec == Init /\ [][Next]_vars

-----------------------------------------------------------------------------
(* Processes that read and write the file through their node.              *)
Using(p) == node[p] = "ready" /\ p \notin isUnlocked

(* "if the process holding EXCLUSIVE failed just before truncating the     *)
(* *-shm file, then this process might open and use the *-shm file without *)
(* truncating it": no process uses what a power failure has left behind.   *)
NoStaleShm == \A p \in Process : Using(p) => trusted = 1

(* The file is never cut short under a process that uses it.               *)
TruncatedWhileUnused ==
  [][size' < size => \A p \in Process : Using(p) => node'[p] = "none"]_vars

(* What a process has mapped is inside the file: touching it beyond the    *)
(* end would kill the process.                                             *)
MappedIsBacked == \A p \in Process : nRegion[p] > 0 => nRegion[p] * RegionPages <= size

(* The node outlives every connection that may touch it, though joining    *)
(* the list and being counted are two critical sections, and goes with the *)
(* last of them.                                                           *)
Referencing(p) == {c \in Conn : ProcOf[c] = p /\ (c \in pShm \/ pc[c] = "unref")}

RefsCounted ==
  \A p \in Process :
    /\ nRef[p] = Cardinality(Referencing(p))
    /\ node[p] = "ready" <=> nRef[p] > 0
=============================================================================
