----------------------------- MODULE OpenFile -----------------------------
(***************************************************************************)
(* xOpen and xClose as far as descriptors, access modes and names go       *)
(* (src/os/os_unix.c: unixOpen, fillInUnixFile, findReusableFd, unixClose; *)
(* src/os/os_win.c: winOpen, winClose, winDelete).  Handles of several     *)
(* processes open a database, its journal or temporary files; every system *)
(* call is a step.  The three kinds of files do not depend on one another, *)
(* so each behaviour is about one kind on one system.                      *)
(*                                                                         *)
(* The flags of a call are a record: the kind of file and whether it asks  *)
(* for READWRITE (or READONLY), CREATE and EXCLUSIVE.  Temporary files are *)
(* opened without a name, with all three and with DELETEONCLOSE.           *)
(***************************************************************************)
EXTENDS Naturals, FiniteSets

CONSTANTS
  Host,        \* processes
  FileHandle,  \* sqlite3_file objects
  HostOf,      \* the process of each
  Descriptor,  \* bound: descriptors; open() fails when all are in use
  NoFd,        \* no descriptor (-1)
  Node,        \* files, enough for those that have a name or are open
  TempNames,   \* bound: names that unixGetTempname and winGetTempname make
  Systems      \* "unix", "windows" or "wince"

Absent == "absent"
Names == {"db", "journal"} \cup TempNames

ASSUME OpenFileAssumption ==
  /\ HostOf \in [FileHandle -> Host]
  /\ NoFd \notin Descriptor /\ Absent \notin Node
  /\ IsFiniteSet(FileHandle) /\ IsFiniteSet(Descriptor) /\ IsFiniteSet(TempNames)
  /\ IsFiniteSet(Node) => Cardinality(Node) > Cardinality(Descriptor) + Cardinality(Names)
  /\ Systems \subseteq {"unix", "windows", "wince"}
  /\ {"db", "journal"} \cap TempNames = {}

VARIABLES
  os, kind,    \* the system, and the kind of files: "db", "journal" or "temp"
  names,       \* the file that has each name, or Absent
  mode,        \* permissions of a journal: "db", those of its database, or
               \* "masked", fewer, as the umask of its creator left them
  content,     \* journals that are not empty
  fds,         \* open descriptors: [host, node, write]
  hstep,       \* "closed", "open", or the step of xOpen a handle is at
  flags,       \* flags of a handle; write is what *pOutFlags tells the caller
  zName,       \* its name
  fd,          \* its descriptor, or NoFd
  locked,      \* handles with a lock
  pUnused      \* descriptors whose closing is deferred: [fd, node, host, write]

diskVars == <<names, mode, content>>
openVars == <<os, kind, diskVars, fds, hstep, flags, zName, fd, locked, pUnused>>

Flags(write, create, excl) == [write |-> write, create |-> create, excl |-> excl]

(* What callers ask for, as the asserts of unixOpen and winOpen have it.   *)
Requests ==
  IF kind = "temp" THEN {Flags(TRUE, TRUE, TRUE)}
  ELSE {Flags(FALSE, FALSE, FALSE), Flags(TRUE, FALSE, FALSE), Flags(TRUE, TRUE, FALSE)}

OpenInit ==
  /\ os \in Systems /\ kind \in {"db", "journal", "temp"}
  /\ names = [n \in Names |-> Absent]
  /\ mode = [i \in Node |-> "db"] /\ content = {}
  /\ fds = [d \in {} |-> 0]
  /\ hstep = [h \in FileHandle |-> "closed"]
  /\ flags = [h \in FileHandle |-> Flags(FALSE, FALSE, FALSE)]
  /\ zName = [h \in FileHandle |-> "db"]
  /\ fd = [h \in FileHandle |-> NoFd]
  /\ locked = {} /\ pUnused = {}

NodeOf(h) == fds[fd[h]].node
OpenNodes == {fds[d].node : d \in DOMAIN fds}
NewNode == CHOOSE i \in Node : i \notin OpenNodes \cup {names[n] : n \in Names}
Of(host, node) == {h \in FileHandle : hstep[h] = "open" /\ HostOf[h] = host /\ NodeOf(h) = node}
nLock(host, node) == Cardinality(Of(host, node) \cap locked)

Set(f, h, value) == [f EXCEPT ![h] = value]
At(h, step) == hstep' = Set(hstep, h, step)
CloseFds(closed) == fds' = [d \in DOMAIN fds \ closed |-> fds[d]]

(* A call that fails leaves the handle closed.                             *)
Forget(h) == At(h, "closed") /\ fd' = Set(fd, h, NoFd) /\ zName' = Set(zName, h, "db")
               /\ flags' = Set(flags, h, Flags(FALSE, FALSE, FALSE))

(***************************************************************************)
(* xOpen up to its first open(): the name and a descriptor to reuse.       *)
(***************************************************************************)
(* findReusableFd: of the file that has the name now, with the same mode.  *)
ReusableInAnyMode(h, request) ==                     \* mutated: the flags are not compared
  {u \in pUnused : u.host = HostOf[h] /\ u.node = names["db"]}
findReusableFd(h, request) ==
  {u \in pUnused : u.host = HostOf[h] /\ u.node = names["db"] /\ u.write = request.write}

(* The one looks for a name that nobody has, the other makes one at random.*)
unixGetTempname == {n \in TempNames : names[n] = Absent}
winGetTempname == TempNames

NewNames ==
  IF kind # "temp" THEN {kind} ELSE IF os = "unix" THEN unixGetTempname ELSE winGetTempname

Open(h) ==
  /\ hstep[h] = "closed"
  /\ \E request \in Requests, n \in NewNames :
       /\ flags' = Set(flags, h, request) /\ zName' = Set(zName, h, n)
       /\ IF kind = "db" /\ findReusableFd(h, request) # {}
          THEN /\ \E u \in findReusableFd(h, request) :
                    fd' = Set(fd, h, u.fd) /\ pUnused' = pUnused \ {u}
               /\ At(h, "fill")
          ELSE At(h, "create") /\ UNCHANGED <<fd, pUnused>>
  /\ UNCHANGED <<os, kind, diskVars, fds, locked>>

(***************************************************************************)
(* open() and CreateFile().                                                *)
(***************************************************************************)
(* What comes after a descriptor was had.                                  *)
AfterOpen == IF os = "unix" /\ kind = "journal" THEN "fstat"
             ELSE IF os = "unix" /\ kind = "temp" THEN "unlink"
             ELSE "fill"

Given(h, node, write) ==
  LET d == CHOOSE new \in Descriptor : new \notin DOMAIN fds IN
  /\ DOMAIN fds # Descriptor
  /\ fds' = [e \in DOMAIN fds \cup {d} |->
               IF e = d THEN [host |-> HostOf[h], node |-> node, write |-> write] ELSE fds[e]]
  /\ fd' = Set(fd, h, d)
  /\ At(h, AfterOpen)

(* A file that Windows will delete with its handle is not shared.          *)
Openable(n) == names[n] # Absent /\ (os = "windows" /\ kind = "temp" => names[n] \notin OpenNodes)

(* The permissions a new file gets, from which the umask of the process    *)
(* may take some away; they matter for journals on Unix.                   *)
findCreateFileMode == IF AfterOpen = "fstat" THEN {"db", "masked"} ELSE {"db"}

NewFile(h) ==
  /\ names[zName[h]] = Absent
  /\ names' = Set(names, zName[h], NewNode)
  /\ mode' \in {Set(mode, NewNode, m) : m \in findCreateFileMode}
  /\ content' = content \ {NewNode}

OpensAnything(h) == Openable(zName[h])               \* mutated: without O_EXCL, CREATE_NEW
OpensExisting(h) == Openable(zName[h]) /\ ~flags[h].excl

(* Both try once more without CREATE and for reading only; on Windows not  *)
(* when the file was to be a new one, on Unix not for some reasons of the  *)
(* failure, of which EEXIST is none.  Windows repeats a failed call first. *)
WinTriesReadonly(h) == flags[h].write /\ ~flags[h].excl
TriesReadonly(h) == IF os = "unix" THEN flags[h].write ELSE WinTriesReadonly(h)
MayGiveUp(h) == ~TriesReadonly(h) \/ (os = "unix" /\ ~(flags[h].excl /\ Openable(zName[h])))

(* robust_open closes a descriptor that the C library uses and tries again,*)
(* when the file it may have created exists.                               *)
LowDescriptor == os = "unix"

Create(h) ==
  /\ hstep[h] = "create"
  /\ \/ /\ flags[h].create /\ NewFile(h) /\ Given(h, NewNode, flags[h].write)
        /\ UNCHANGED <<flags, zName>>
     \/ LowDescriptor /\ flags[h].create /\ NewFile(h) /\ UNCHANGED <<fds, hstep, flags, zName, fd>>
     \/ /\ OpensExisting(h) /\ Given(h, names[zName[h]], flags[h].write)
        /\ UNCHANGED <<diskVars, flags, zName>>
     \/ /\ TriesReadonly(h) /\ At(h, "readonly")
        /\ flags' = [flags EXCEPT ![h].write = FALSE]
        /\ UNCHANGED <<diskVars, fds, zName, fd>>
     \/ MayGiveUp(h) /\ Forget(h) /\ UNCHANGED <<diskVars, fds>>
  /\ UNCHANGED <<os, kind, locked, pUnused>>

(* (An O_EXCL without O_CREAT has no effect.)                              *)
OpenReadonlyFile(h) ==
  /\ hstep[h] = "readonly"
  /\ \/ Openable(zName[h]) /\ Given(h, names[zName[h]], FALSE) /\ UNCHANGED <<flags, zName>>
     \/ Forget(h) /\ UNCHANGED fds
  /\ UNCHANGED <<os, kind, diskVars, locked, pUnused>>

(***************************************************************************)
(* robust_open gives an empty journal the permissions of the database.     *)
(* All processes run as the owner of the files, so fstat() and fchmod() do *)
(* not fail.                                                               *)
(***************************************************************************)
NeedsModeOnce(i) ==                    \* mutated: left to the handle that created it
  i \notin content /\ mode[i] # "db" /\ Cardinality({d \in DOMAIN fds : fds[d].node = i}) = 1
NeedsMode(i) == i \notin content /\ mode[i] # "db"

Fstat(h) ==
  /\ hstep[h] = "fstat"
  /\ At(h, IF NeedsMode(NodeOf(h)) THEN "fchmod" ELSE "fill")
  /\ UNCHANGED <<os, kind, diskVars, fds, flags, zName, fd, locked, pUnused>>

Fchmod(h) ==
  /\ hstep[h] = "fchmod"
  /\ mode' = Set(mode, NodeOf(h), "db")
  /\ At(h, "fill")
  /\ UNCHANGED <<os, kind, names, content, fds, flags, zName, fd, locked, pUnused>>

(* A file to be deleted on close loses its name at once.                   *)
UnlinkTemp(h) ==
  /\ hstep[h] = "unlink"
  /\ names' = Set(names, zName[h], Absent)
  /\ At(h, "fill")
  /\ UNCHANGED <<os, kind, mode, content, fds, flags, zName, fd, locked, pUnused>>

(* fillInUnixFile and the end of winOpen: findInodeInfo, or on Windows CE  *)
(* winceCreateLock, may fail, which closes the descriptor again.           *)
winceCreateLockFails(h) == os = "wince" /\ flags[h].write
FillMayFail(h) == kind = "db" /\ (os = "unix" \/ winceCreateLockFails(h))

FillIn(h) ==
  /\ hstep[h] = "fill"
  /\ \/ /\ At(h, "open")
        /\ flags' = Set(flags, h, Flags(flags[h].write, FALSE, FALSE))
        /\ UNCHANGED <<fds, zName, fd>>
     \/ FillMayFail(h) /\ CloseFds({fd[h]}) /\ Forget(h)
  /\ UNCHANGED <<os, kind, diskVars, locked, pUnused>>

(***************************************************************************)
(* xLock and xUnlock, as far as they decide what is closed.                *)
(***************************************************************************)
LockFile(h) ==
  /\ hstep[h] = "open" /\ kind = "db" /\ h \notin locked
  /\ locked' = locked \cup {h}
  /\ UNCHANGED <<os, kind, diskVars, fds, hstep, flags, zName, fd, pUnused>>

Pending(h) == {u \in pUnused : u.host = HostOf[h] /\ u.node = NodeOf(h)}

closePendingFds(h, closed) ==
  /\ CloseFds(closed \cup {u.fd : u \in Pending(h)})
  /\ pUnused' = pUnused \ Pending(h)

UnlockFile(h) ==
  /\ h \in locked
  /\ locked' = locked \ {h}
  /\ IF os = "unix" /\ nLock(HostOf[h], NodeOf(h)) = 1 THEN closePendingFds(h, {})
     ELSE UNCHANGED <<fds, pUnused>>
  /\ UNCHANGED <<os, kind, diskVars, hstep, flags, zName, fd>>

(***************************************************************************)
(* xClose, which has unlocked the file first.                              *)
(***************************************************************************)
setPendingFd(h) ==
  pUnused' = pUnused \cup {[fd |-> fd[h], node |-> NodeOf(h), host |-> HostOf[h],
                            write |-> flags[h].write]}

CloseUnix(h) ==
  /\ IF kind = "db" /\ nLock(HostOf[h], NodeOf(h)) > 0 THEN setPendingFd(h) /\ UNCHANGED fds
     ELSE IF kind = "db" /\ Of(HostOf[h], NodeOf(h)) = {h} THEN closePendingFds(h, {fd[h]})
     ELSE CloseFds({fd[h]}) /\ UNCHANGED pUnused
  /\ UNCHANGED names

(* Windows CE deletes by name, in vain if that fails four times.           *)
CloseWindows(h) ==
  /\ CloseFds({fd[h]}) /\ UNCHANGED pUnused
  /\ names' \in {IF kind = "temp" THEN Set(names, zName[h], Absent) ELSE names}
                 \cup (IF os = "wince" THEN {names} ELSE {})

CloseFile(h) ==
  /\ hstep[h] = "open" /\ h \notin locked
  /\ IF os = "unix" THEN CloseUnix(h) ELSE CloseWindows(h)
  /\ Forget(h)
  /\ UNCHANGED <<os, kind, mode, content, locked>>

(***************************************************************************)
(* What the callers do to a journal: write to it, make it empty, delete it *)
(* (unixDelete; winDelete, which has to wait until nobody has it open).    *)
(***************************************************************************)
WriteJournal(h) ==
  /\ hstep[h] = "open" /\ kind = "journal" /\ flags[h].write
  /\ content' \in {content \cup {NodeOf(h)}, content \ {NodeOf(h)}}
  /\ UNCHANGED <<os, kind, names, mode, fds, hstep, flags, zName, fd, locked, pUnused>>

WinDeletes(n) == names[n] \notin OpenNodes

DeleteJournal ==
  /\ kind = "journal" /\ names["journal"] # Absent
  /\ os = "unix" \/ WinDeletes("journal")
  /\ names' = Set(names, "journal", Absent)
  /\ UNCHANGED <<os, kind, mode, content, fds, hstep, flags, zName, fd, locked, pUnused>>

(***************************************************************************)
(* The environment: a database is put in the place of another, a process   *)
(* dies.                                                                   *)
(***************************************************************************)
ReplaceDatabase ==
  /\ kind = "db"
  /\ os = "unix" \/ WinDeletes("db")
  /\ names' \in {Set(names, "db", NewNode), Set(names, "db", Absent)}
  /\ UNCHANGED <<os, kind, mode, content, fds, hstep, flags, zName, fd, locked, pUnused>>

HostDies(p) ==
  LET gone == {h \in FileHandle : HostOf[h] = p}
      Cleared(f, default) == [h \in FileHandle |-> IF h \in gone THEN default ELSE f[h]]
      deleted == {zName[h] : h \in {g \in gone : os = "windows" /\ kind = "temp" /\ fd[g] # NoFd}}
  IN
  /\ CloseFds({d \in DOMAIN fds : fds[d].host = p})
  /\ hstep' = Cleared(hstep, "closed") /\ fd' = Cleared(fd, NoFd) /\ zName' = Cleared(zName, "db")
  /\ flags' = Cleared(flags, Flags(FALSE, FALSE, FALSE))
  /\ locked' = locked \ gone
  /\ pUnused' = {u \in pUnused : u.host # p}
  /\ names' = [n \in Names |-> IF n \in deleted THEN Absent ELSE names[n]]
  /\ UNCHANGED <<os, kind, mode, content>>

OpenNext ==
  \/ \E h \in FileHandle :
       Open(h) \/ Create(h) \/ OpenReadonlyFile(h) \/ Fstat(h) \/ Fchmod(h) \/ UnlinkTemp(h)
       \/ FillIn(h) \/ LockFile(h) \/ UnlockFile(h) \/ CloseFile(h) \/ WriteJournal(h)
  \/ \E p \in Host : HostDies(p)
  \/ DeleteJournal \/ ReplaceDatabase

OpenSpec == OpenInit /\ [][OpenNext]_openVars

-----------------------------------------------------------------------------
(* Each descriptor of a process is that of one handle or waits on one      *)
(* pUnused list to be closed, whatever failed on the way, and it may write *)
(* exactly when its handle was told so, also when it is used again.        *)
Owners(d) == {h \in FileHandle : fd[h] = d} \cup {u \in pUnused : u.fd = d}

DescriptorsAccounted ==
  /\ \A d \in DOMAIN fds : Cardinality(Owners(d)) = 1
  /\ \A h \in FileHandle : fd[h] # NoFd =>
       /\ fd[h] \in DOMAIN fds
       /\ fds[fd[h]].host = HostOf[h] /\ fds[fd[h]].write = flags[h].write
  /\ \A u \in pUnused :
       /\ u.fd \in DOMAIN fds
       /\ fds[u.fd] = [host |-> u.host, node |-> u.node, write |-> u.write]
       /\ nLock(u.host, u.node) > 0

(* Two processes may hit upon one name for their temporary files, however  *)
(* they choose it.  On Windows the second is then refused the file; on     *)
(* Unix it may get a descriptor to read the file of the first, but there   *)
(* is never more than one that writes to it.                               *)
TempFilesPrivate ==
  kind = "temp" =>
    \A g, h \in FileHandle :
      g # h /\ fd[g] # NoFd /\ fd[h] # NoFd /\ NodeOf(g) = NodeOf(h) =>
        os = "unix" /\ ~(flags[g].write /\ flags[h].write)

(* A journal with content has the permissions of its database, so that     *)
(* every process that can write to the database can roll it back, even if  *)
(* the one that created it died, or had not got to set them, when another  *)
(* opened and wrote it.                                                    *)
JournalMode ==
  kind = "journal" => \A i \in content \cap ({names["journal"]} \cup OpenNodes) : mode[i] = "db"
=============================================================================
