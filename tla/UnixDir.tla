------------------------------ MODULE UnixDir ------------------------------
(***************************************************************************)
(* The directory entry of a journal on Unix (src/os/os_unix.c: unixOpen,   *)
(* unixSync, unixDelete): whether the journal is found again, or stays     *)
(* away, after the power fails.  A rollback journal, a super-journal or a  *)
(* WAL is created by one handle, may be opened by others and is deleted by *)
(* its name.  Each system call is a step.                                  *)
(*                                                                         *)
(* The kernel keeps the entry in its cache and writes it to the disk when  *)
(* it likes, or when the directory is synced; syncing a file does not      *)
(* write its entry.                                                        *)
(***************************************************************************)
EXTENDS FiniteSets

CONSTANTS
  DirHandle,   \* unixFile objects of journals
  Inode        \* bound: inodes in use at a time

None == "none"
ASSUME UnixDirAssumption == {None, "gone"} \cap Inode = {} /\ IsFiniteSet(Inode)

VARIABLES
  entry,       \* the inode that has the name, as processes see it
  diskEntry,   \* the same on the disk
  inode,       \* inode each handle has open, or None
  isNewJrnl,   \* handles opened with SQLITE_OPEN_CREATE
  DIRSYNC,     \* handles with UNIXFILE_DIRSYNC set
  step,        \* next step of the call each handle is in
  deleting,    \* step of unixDelete
  promised,    \* what the last successful call said: the inode, "gone" or None
  unsyncable   \* 1 if an error of syncing the directory was ignored since

dirVars == <<entry, diskEntry, inode, isNewJrnl, DIRSYNC, step, deleting, promised, unsyncable>>

DirInit ==
  /\ entry \in Inode \cup {None} /\ diskEntry = entry
  /\ inode = [h \in DirHandle |-> None]
  /\ isNewJrnl = {} /\ DIRSYNC = {}
  /\ step = [h \in DirHandle |-> "closed"]
  /\ deleting = "no"
  /\ promised = None /\ unsyncable = 0

Step(h, s) == step' = [step EXCEPT ![h] = s]
promiseUnchanged == UNCHANGED <<promised, unsyncable>>
Unpromised == promised' = None /\ unsyncable' = 0

Unused == {i \in Inode : i # diskEntry /\ \A h \in DirHandle : inode[h] # i}

(***************************************************************************)
(* unixOpen of a journal.                                                  *)
(***************************************************************************)
Opened(h, i, create) ==
  /\ inode' = [inode EXCEPT ![h] = i]
  /\ isNewJrnl' = IF create THEN isNewJrnl \cup {h} ELSE isNewJrnl
  /\ Step(h, "idle")

(* Mutated: a journal that is there already counts as synced.              *)
DirSyncIfCreated(h, create) == IF create /\ entry = None THEN DIRSYNC \cup {h} ELSE DIRSYNC
DirSync(h, create) == IF create THEN DIRSYNC \cup {h} ELSE DIRSYNC

OpenJournal(h) ==
  /\ step[h] = "closed"
  /\ \E create \in BOOLEAN :
       \/ /\ entry # None
          /\ Opened(h, entry, create)
          /\ DIRSYNC' = DirSync(h, create)
          /\ UNCHANGED entry /\ promiseUnchanged
       \/ /\ entry = None /\ create
          /\ \E i \in Unused : entry' = i /\ Opened(h, i, create)
          /\ DIRSYNC' = DirSync(h, create)
          /\ Unpromised
       \/ /\ create                       \* not for writing: try without CREATE
          /\ Step(h, "readonly")
          /\ UNCHANGED <<entry, inode, isNewJrnl, DIRSYNC>> /\ promiseUnchanged
  /\ UNCHANGED <<diskEntry, deleting>>

(* The flags of the call, not those of the second open(), make the journal *)
(* a new one.                                                              *)
OpenReadonly(h) ==
  /\ step[h] = "readonly"
  /\ \/ Step(h, "closed") /\ UNCHANGED <<inode, isNewJrnl, DIRSYNC>>
     \/ entry # None /\ Opened(h, entry, TRUE) /\ DIRSYNC' = DIRSYNC \cup {h}
  /\ UNCHANGED <<entry, diskEntry, deleting>> /\ promiseUnchanged

CloseJournal(h) ==
  /\ step[h] = "idle"
  /\ inode' = [inode EXCEPT ![h] = None]
  /\ isNewJrnl' = isNewJrnl \ {h} /\ DIRSYNC' = DIRSYNC \ {h}
  /\ Step(h, "closed")
  /\ UNCHANGED <<entry, diskEntry, deleting>> /\ promiseUnchanged

(***************************************************************************)
(* unixSync: the file, then, the first time, its directory.  What fails    *)
(* for the directory is ignored.                                           *)
(***************************************************************************)
SyncReturns(h) ==
  /\ Step(h, "idle")
  /\ promised' = IF h \in isNewJrnl /\ entry = inode[h] THEN entry ELSE promised

Sync(h) ==
  /\ step[h] = "idle"
  /\ IF h \in DIRSYNC THEN Step(h, "openDir") /\ UNCHANGED promised ELSE SyncReturns(h)
  /\ UNCHANGED <<entry, diskEntry, inode, isNewJrnl, DIRSYNC, deleting, unsyncable>>

SyncDir(h) ==
  /\ step[h] = "openDir"
  /\ \/ diskEntry' = entry /\ UNCHANGED unsyncable
     \/ unsyncable' = 1 /\ UNCHANGED diskEntry
  /\ DIRSYNC' = DIRSYNC \ {h}
  /\ SyncReturns(h)
  /\ UNCHANGED <<entry, inode, isNewJrnl, deleting>>

(***************************************************************************)
(* unixDelete, with or without dirSync, by any process; one at a time, as  *)
(* deleting a journal takes a lock on its database.                        *)
(***************************************************************************)
Unlink(dirSync) ==
  /\ deleting = "no" /\ entry # None
  /\ entry' = None
  /\ deleting' = IF dirSync THEN "syncDir" ELSE "no"
  /\ Unpromised
  /\ UNCHANGED <<diskEntry, inode, isNewJrnl, DIRSYNC, step>>

DeleteSyncDir ==
  /\ deleting = "syncDir"
  /\ deleting' = "no"
  /\ \/ /\ diskEntry' = entry             \* synced
        /\ promised' = IF entry = None THEN "gone" ELSE promised
        /\ UNCHANGED unsyncable
     \/ UNCHANGED <<diskEntry, promised, unsyncable>>   \* SQLITE_IOERR_DIR_FSYNC
     \/ /\ unsyncable' = 1                 \* the directory cannot be opened
        /\ promised' = IF entry = None THEN "gone" ELSE promised
        /\ UNCHANGED diskEntry
  /\ UNCHANGED <<entry, inode, isNewJrnl, DIRSYNC, step>>

(***************************************************************************)
(* Crashes.                                                                *)
(***************************************************************************)
WriteBack ==
  /\ diskEntry' = entry
  /\ UNCHANGED <<entry, inode, isNewJrnl, DIRSYNC, step, deleting, promised, unsyncable>>

Dies(handles) ==
  /\ inode' = [h \in DirHandle |-> IF h \in handles THEN None ELSE inode[h]]
  /\ isNewJrnl' = isNewJrnl \ handles /\ DIRSYNC' = DIRSYNC \ handles
  /\ step' = [h \in DirHandle |-> IF h \in handles THEN "closed" ELSE step[h]]

ProcessDies(h) ==
  /\ Dies({h})
  /\ deleting' \in {deleting, "no"}
  /\ UNCHANGED <<entry, diskEntry>> /\ promiseUnchanged

DirPowerFailure ==
  /\ Dies(DirHandle)
  /\ entry' = diskEntry /\ deleting' = "no"
  /\ UNCHANGED diskEntry /\ promiseUnchanged

DirNext ==
  \/ \E h \in DirHandle :
       OpenJournal(h) \/ OpenReadonly(h) \/ CloseJournal(h) \/ Sync(h) \/ SyncDir(h)
       \/ ProcessDies(h)
  \/ \E dirSync \in BOOLEAN : Unlink(dirSync)
  \/ DeleteSyncDir \/ WriteBack \/ DirPowerFailure

DirSpec == DirInit /\ [][DirNext]_dirVars

-----------------------------------------------------------------------------
(* A journal that was synced through a handle that may have created it is  *)
(* found again after any number of crashes and power failures, and one     *)
(* whose deletion with dirSync succeeded stays away, until somebody        *)
(* deletes or creates it again; unless the system would not sync the       *)
(* directory, which the code ignores on purpose.                           *)
JournalKept ==
  unsyncable = 0 =>
    /\ promised \in Inode => entry = promised /\ diskEntry = promised
    /\ promised = "gone" => entry = None /\ diskEntry = None
=============================================================================
