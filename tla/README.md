# Formal model of the SQLite OS layer (os/, mutex/)

This directory holds TLA+ specifications of the code under `src/`: the SQLite
virtual file system for Unix and Windows (`os/`), the VFS registry (`os/os.c`)
and the mutex subsystem (`mutex/`).  The specifications are translated from
the C code; TLC checks them on small instances and TLAPS checks the proofs.
`PROJECT.json` lists the components, runs, hazards and theorems, and maps each
definition to the lines it stands for.

## 1. Inventory

Everything above this layer (pager, WAL, b-tree, SQL) is *not* in the
repository; `sqlite3.h` and `sqliteInt.h` are the vendored headers through
which it talks to this layer.  The models use the calling rules that the
asserts, the comments and `sqlite3.h` state for those callers.

| Component | Source | State | Operations |
|---|---|---|---|
| Unix file locking (fcntl) | `os_unix.c` 797–1912, 4441–4543, 4625–4670 | kernel lock table; per process and file one `unixInodeInfo` (`eFileLock`, `nShared`, `nLock`, `bProcessLock`, `pUnused`, `nRef`); per connection one `unixFile` (`eFileLock`, `h`) | `unixLock`, `unixUnlock`/`posixUnlock`, `unixCheckReservedLock`, `unixClose`, `findInodeInfo`/`releaseInodeInfo`, `findReusableFd`, `robust_open` |
| Dot-file, flock, no-op locking | 1925–2360 | the lock directory; the flock of the descriptor; `eFileLock` | `dotlock*`, `flock*`, `nolock*` |
| Unix shared memory (WAL index) | 3357–4079 | `-shm` file, DMS byte, slot locks; per process one `unixShmNode` (`nRef`, `aLock[]`, regions, `isReadonly`, `isUnlocked`); per connection one `unixShm` (masks) | `unixShmMap`, `unixShmLock`, `unixShmUnmap`, `unixOpenSharedMemory`, `unixLockSharedMemory`, `unixShmPurge` |
| Unix file I/O | 2396–3180 | file contents and size, `lastErrno`, `DIRSYNC`, chunk size | `unixRead`, `unixWrite`, `unixSync`, `unixTruncate`, `unixFileSize`, `unixFileControl`, `fcntlSizeHint` |
| Memory-mapped I/O | 4093–4304 | `mmapSize`, `mmapSizeActual`, `mmapSizeMax`, `nFetchOut`, `pMapRegion` | `unixMapfile`, `unixRemapfile`, `unixFetch`, `unixUnfetch` |
| Opening, naming, deleting | 4441–5281 | directory entries, descriptors and the deferred ones, open flags, permissions | `unixOpen`, `fillInUnixFile`, `findReusableFd`, `robust_open`, `unixGetTempname`, `unixDelete`, `unixAccess`, `unixFullPathname`, `findCreateFileMode` |
| System call table | 356–618 | current and default function pointers | `unixSetSystemCall`, `unixGetSystemCall`, `unixNextSystemCall` |
| VFS registry and dispatch | `os.c` | `vfsList` | `sqlite3_vfs_find/register/unregister`, `sqlite3Os*` |
| Mutex subsystem | `mutex/` | the method table in `sqlite3GlobalConfig`, `mutexIsInit`; `nRef`, `owner` of a mutex | `sqlite3MutexInit`, `pthreadMutex*`, `noopMutex*`, `debugMutex*` |
| Windows file locking | `os_win.c` 2244–2539, 2657–2709, 3154–3445 | the locks of each handle; on CE the `winceLock` in shared memory; `locktype` | `winLock`, `winUnlock`, `winCheckReservedLock`, `winClose`, `winceLockFile`, `winceUnlockFile`, `winceCreateLock`, `winceDestroyLock` |
| Windows shared memory | `os_win.c` 3671–4354 | `-shm` file, DMS byte, slot locks as ranges; per process one `winShmNode` (`nRef`, regions, `isReadonly`, `isUnlocked`); per connection one `winShm` (masks) | `winShmMap`, `winShmLock`, `winShmUnmap`, `winOpenSharedMemory`, `winLockSharedMemory`, `winShmPurge` |
| Windows file I/O and mapping | `os_win.c` 2148–2172, 2713–2977, 3530–3623, 4355–4580 | file contents and size; `mmapSize`, `mmapSizeMax`, `nFetchOut`, `hMap`, `pMapRegion` | `winRead`, `winWrite`, `winTruncate`, `winFileControl`, `winMapfile`, `winUnmapfile`, `winFetch`, `winUnfetch`, `winRetryIoerr` |
| Windows opening, naming, deleting | `os_win.c` 2657–2709, 4716–5412, 5554–5700 | names, access and sharing modes, `zDeleteOnClose` | `winOpen`, `winClose`, `winDelete`, `winAccess`, `winGetTempname`, `winFullPathname` |

How they interact: the `sqlite3Os*` wrappers call the method table of a file,
which `unixOpen` chose from the locking style.  All handles of a process on
one file share a `unixInodeInfo` (found by device and inode number under
`unixBigLock`), because POSIX advisory locks belong to the process.  The
shared-memory node hangs off the same inode, and descriptors whose closing was
put off wait there for the next handle.  Mutexes nest in one order:
`unixBigLock`, then `pLockMutex` (the comment at `os_unix.c:706`).

Hard behaviours: several processes interleave their fcntl calls; several
threads share one inode; `close()` drops the locks of the whole process; each
fcntl call may fail on its own; processes die at any moment; lock levels must
exclude each other, and readers that overlap must not starve a waiting writer; reads and writes are
short, interrupted or refused; the power fails with the directory half written.
The hazards in `PROJECT.json` list them line by line.

What makes each component correct:

* *Locking*: what a handle believes it holds is what the kernel holds for its
  process; levels exclude each other as `os.h` describes; a `PENDING` writer
  turns new readers away, and proceeds unless another process shares its lock
  among its connections without end; nothing stays locked after the last close.
* *Shared memory*: an exclusive slot excludes every other connection; the
  local lock counts match the masks and the kernel; the `-shm` file is
  truncated by the first process only, and never under a process that uses it.
* *I/O and mapping*: loops neither lose nor repeat bytes; a fetched page stays
  mapped and inside the file; a size hint makes room and, with the exception of
  one on Unix without chunks (`hint_shrinks`), cuts nothing off.
* *Opening and naming*: a synced journal is found again after a power failure
  and a deleted one is not; a name leads where the kernel says it leads; every
  descriptor has one owner, may do what its handle was told it may, and is closed
  once; whoever may write a database may roll back its journal.
* *Registry, mutexes*: a lookup sees complete entries; no thread uses the mutex
  table before it is complete; a recursive mutex is held by one thread.

## 2. Plan

In this order; each module is written so that it can be proved about.

1. `FcntlLocks`, `UnixLock`, abstract `FileLevels`, `UnixLockProofs` —
   **done**.
2. `UnixShmLock` with the abstract `ShmSlots`, `UnixShmLockProofs` — **done**.
3. `UnixShmNode`: opening the `-shm` file, the dead man's switch, mapping,
   `UnixShmNodeProofs` — **done**.
4. `Mutex`, `VfsList` with the abstract `VfsOrder`, `MutexProofs` for both —
   **done**, except for the no-op and debug mutexes.
5. `WinLockFile` and `WinLock`, refining `FileLevels`; `WinLockProofs` —
   **done**.  `WinShm`, refining `ShmSlots`; `WinShmProofs` — **done**.
6. `LockStyles`: dot-file, flock and no-op locking, refining `FileLevels`;
   `LockStylesProofs` — **done**.
7. `FileIo`, `UnixIo`, `WinIo`, composed by `Files`, refining `FileApi`: reads,
   writes, truncation, size hints and memory mapping; `FilesProofs` — **done**.
8. `UnixDir` (the directory entry of a journal), `UnixPath` (links), `OpenFile`
   (descriptors, access modes, permissions, temporary names) — **done**; the
   proofs about them are in `FilesProofs` too.

`Files`, `UnixDir`, `UnixPath`, `OpenFile` and `LockStyles` share no state;
`MCFiles` checks them in one run, each behaviour being about one of them.
`MCUnixShm` does the same for `UnixShmNode` and `UnixShmLock`, which take who
uses the memory from `ShmConnections`.

What is left, in the order of what it would add: `UnixLock` with a node of
shared memory on its inodes, so that closing a connection and unmapping its
shared memory meet; the debug mutexes of `mutex_noop.cpp`.

## 3. Modules

A step between two actions is one call to the kernel, or one access to shared
memory that no mutex protects, so another process or thread can act between any
two of them.

### FcntlLocks (external)
The kernel's POSIX locks on one file, as the code uses them: a table from
process and byte range to `F_UNLCK`, `F_RDLCK` or `F_WRLCK`.  `close()` of any
descriptor and the death of a process drop all of the process's locks.

### UnixLock
One database file, any number of processes, threads and handles.
`klock` is the kernel's table; `iLock`, `nShared`, `nLock`, `bProcessLock`,
`nUnused`, `nRef` are the fields of each process's `unixInodeInfo`;
`status` and `eFileLock` belong to the handle; `pc`, `on`, `req` say where each
thread is in a call.

| Code | Action |
|---|---|
| `unixLock` up to the first fcntl call | `LockSharedAgain` (granted from the counters), `Lock` |
| its fcntl calls | `LockPendingByte`, `LockSharedRange`, `DropPendingByte`, `LockForWrite` |
| `posixUnlock` | `Unlock`, then `DemoteSharedRange`, `UnlockWriterBytes`, `UnlockFile` |
| `unixCheckReservedLock` | operator `CheckReservedLock` |
| `unixFileLock` (with the process lock of `unix-excl`) | `FileLock`, `Apply` |
| `unixClose`, `setPendingFd`, `releaseInodeInfo`, `closeUnixFile` | `Close`, the unlock steps, `DeferClose`, `Release` |
| `unixOpen`: `findReusableFd` or `robust_open`, `findInodeInfo` | `OpenDescriptor`, `Attach` |
| death of a process | `Crash` |

`UnderLockMutex` and `UnderBigLock` name the steps in which a thread holds a
mutex of its process.  Byte ranges are modelled as three lockable units
(`PENDING_BYTE`, `RESERVED_BYTE`, the shared range, which the code always locks
as a whole).  `robust_open` holds no mutex, so `OpenDescriptor` may come in the
middle of another thread's call, with the `close()` of a low descriptor; only
`findReusableFd` waits for both mutexes.  `Faults` says which fcntl calls may fail for no reason of
locking, `LowFdFree` whether `open()` may return a descriptor below 3, which
`robust_open` closes again at once.

### FileLevels
The abstract promise of xLock and xUnlock: one level per handle and which
levels exclude which.  `UnixLock` implements it with `held` mapped to `Held`,
the level a handle still has in the kernel while `posixUnlock` is part way down.
`PENDING` is allowed beside another handle's `RESERVED`, because a hot journal
is rolled back without `RESERVED`.

### LockStyles
The three other styles of `os_unix.c`, chosen in the initial state: `lockDir` is
the directory `<file>.lock` of dot-file locking, `flocked` the handle whose
descriptor has the flock.  Handles share nothing else, so a step is one system
call with what the handle does on its own.

| Code | Action |
|---|---|
| the lock, unlock and close methods of each style | operators with the names of the code, chosen by `Lock`, `Unlock`, `StyleClose` |
| `flockCheckReservedLock` | `flockCheckReservedLock` takes the lock, `EndCheckReservedLock` drops it, at the levels of `ProbeAt` |
| death of a process | `Crash`: its flocks go, its lock directory stays until `ClearStaleLock` |

### WinLockFile, WinLock
The same promise kept without a mutex or a shared inode.  `WinLockFile` is the
lock table: `local` is what each handle holds, on NT through `LockFileEx`
(external), on Windows CE through `winceLockFile`, which counts in the
`winceLock` that all openers map (`shared`).  `build` is chosen in the initial
state, so one run covers both.  `WinLock` is the protocol; every call to
`winLockFile` or `winUnlockFile` is a step.

| Code | Action |
|---|---|
| `winLock` | `Lock`, then `LockPendingByte` (three attempts), `GetReadLock` and `DropPendingByte` for SHARED, `LockReservedByte` for RESERVED, `UnlockReadLock`, `LockSharedRange` and, if that fails, `GetReadLockAgain` for EXCLUSIVE |
| `winUnlock` | `Unlock`, then `UnlockStep` through those of `UnlockSteps` that apply |
| `winCheckReservedLock` | `SeesReserved` for the answer 1, `CheckReservedLock` and `EndCheckReservedLock` when the probe succeeds |
| `winClose`, also when `CloseHandle` fails three times | `Close`, `CloseFails` |
| `winOpen`, `winceCreateLock` | `Open` |
| death of a process | `Crash` (on CE its counts stay; `MaxLost` bounds the readers lost this way) |

`Faults` names the steps that may fail without a conflict, for example because
of a virus scanner; taking back the read lock is not among them (the code says
that it never fails, and `ReadLockRegained` shows why).

### ShmSlots, UnixShmLock
`ShmSlots` is what xShmLock promises: per slot many sharers or one owner, a
range locked as a whole or not at all.  `UnixShmLock` is what does it: the masks
of a connection (`sharedMask`, `exclMask`), the counts of the node (`aLock`,
-1 for exclusive) and one kernel lock per slot and process (`klock`).
`unixShmLock` holds `pShmMutex` throughout and makes one fcntl call, so each
call is one action: `LockShared`, `LockExclusive`, `Unlock`; `Connect` and
`Disconnect` are the parts of opening and closing that matter to slots,
`ProcessDies` the death of a process.  `HeapShm` are the processes whose node has no file
(`hShm<0`), for which `unixShmSystemLock` does nothing.

### UnixShmNode
How the `-shm` file is opened, truncated, extended and mapped.  The file is its
`size` in pages and whether it is `trusted`, that is, holds nothing from before
the last power failure; `dms` are the locks on the DMS byte; `node`,
`isReadonly`, `isUnlocked`, `nRef`, `nRegion`, `pFirst` are the node of each
process.

| Code | Action |
|---|---|
| `unixOpenSharedMemory` | `Open`, then the DMS steps, then `Link` |
| `unixLockSharedMemory` | `GetLk`, `WrLock`, `Truncate`, `RdLock`, one system call each |
| `unixShmMap` | `ShmMap`, `Enter`, `Size`, `Grow` (page by page), `Mmap` |
| `unixShmUnmap`, `unixShmPurge` | `Unmap`, `Unref` (two critical sections) |
| environment | `Crash`, `PowerFailure` |

### WinShm
Both halves of the shared memory on Windows.  The locks belong to the handle of
the `winShmNode`: `klock` is the set of ranges that each process has locked, and
a range has to be given back as it was taken.  `missed` remembers that a process
was refused the exclusive DMS byte by one that then left without truncating.

| Code | Action |
|---|---|
| `winOpenSharedMemory` | `Open`, `OpenFile`, `Attach`, `Link`, `Abandon` |
| `winLockSharedMemory` | `WrLock`, `Truncate`, `DropWriteLock`, `RdLock`, one system call each |
| `winShmMap` | `ShmMap`, `Size`, `Extend`, `Mmap` |
| `winShmLock`, `winShmSystemLock` | `LockShared`, `LockExclusive`, `Unlock` |
| `winShmUnmap`, `winShmPurge` | `Unmap`, `Unref` (two critical sections) |
| environment | `Crash`, `PowerFailure` |

### FileApi, FileIo, UnixIo, WinIo, Files
One open file on either system.  `file` says of every byte where it is from (it
was there when the call began, it is a hole, or it is the i-th byte of the
buffer), which is all that the promises of `FileApi` tell apart.  `mmapSize`,
`mmapSizeActual`, `mmapSizeMax`, `nFetchOut`, `szChunk` are the fields of the
handle, `fetched` the pages that are out, `moved` whether one was unmapped or
moved while it was.  `build` chooses the system and, on Unix, `mremap`,
`posix_fallocate` and writing through the mapping.  The calls on one handle
follow one another (its user is one thread); what varies is their order and
what each system call does: it is interrupted, transfers less than asked, or
fails.

| Code | Action |
|---|---|
| `unixRead`, `unixWrite`, `seekAndRead`, `seekAndWrite` | `Begin`, `ReadMapping`, `WriteMapping`, `seekAndRead`, `seekAndWrite`, one system call each, `Return` |
| `fcntlSizeHint` | `SizeHint`, `Allocate`, `Fill`, `HintMap` |
| `unixTruncate`, `unixFileControl` | `unixTruncate`, `SetChunkSize`, `SetMmapSize` |
| `unixMapfile`, `unixRemapfile`, `unixUnmapfile`, `unixFetch`, `unixUnfetch` | operators and actions of the same names |
| the same of `os_win.c`, with `winRetryIoerr` | the actions of `WinIo` |

`FileApi` is what a caller may rely on: a read returns the bytes of the file and
zeros beyond its end, a failed write has written a prefix, and a hint does not
touch the bytes it leaves (section 6 says when it shortens a file).

### UnixDir
The directory entry of a journal: `entry` is what processes see, `diskEntry`
what survives a power failure.  `unixOpen` with its read-only fallback, `Sync`
and `SyncDir` of `unixSync`, `Unlink` and `DeleteSyncDir` of `unixDelete`, the
kernel's `WriteBack`, death of a process, power failure.  `promised` is what the
last successful call told its caller.

### UnixPath
`unixFullPathname`: one step per `lstat`/`readlink`, with the loop, its bound
and the textual simplification of `mkFullPathname`.  The file system is the set
of links, chosen in the initial state, in a tree of directories that do not
change: with a directory those that contain it are directories, their names are
not `.` or `..`, and a link is none of them.  `Location` is where the kernel gets
on a path, `Nowhere` if it refuses; `Beyond` follows links from there.

### OpenFile
xOpen and xClose as far as descriptors go, for a database, a journal or
temporary files (`kind`) on Unix, Windows or Windows CE (`os`).  `names` and
`mode` are the file system's, `fds` the open descriptors; `flags`, `fd`,
`pUnused` the fields of the code.

| Code | Action |
|---|---|
| `unixOpen`, `winOpen` up to the first open, `findReusableFd` | `Open` |
| `robust_open`, `CreateFile` | `Create`, `OpenReadonlyFile` (the fall-back), `Fstat`, `Fchmod` |
| `DELETEONCLOSE` | `UnlinkTemp` (Unix), `CloseWindows` |
| `fillInUnixFile`, the end of `winOpen` | `FillIn` |
| `posixUnlock`, `closePendingFds` | `UnlockFile` |
| `unixClose`, `winClose` | `CloseFile` |
| `unixDelete`, `winDelete` | `DeleteJournal` |
| environment | `ReplaceDatabase`, `HostDies` |

Locks are reduced to whether a handle has one, since `UnixLock` models them; the
race between `unixClose` and a lock is a matter of that module, and here
`unixClose` is one step.

### Mutex
`sqlite3MutexInit` and the pthread mutexes of one process.  `table` holds the
methods that all threads see, `unflushed` what a thread has stored without a
barrier; `lock` and `depth` are the pthread mutex, `nRef` and `owner` the
fields beside it.

| Code | Action |
|---|---|
| `sqlite3MutexInit` | `TestAlloc`, `CopyMethods`, `Barrier`, `PublishAlloc`, `CallInit`; `Flush` makes a store visible |
| `pthreadMutexEnter`, `pthreadMutexTry` | `BeginEnter`, `ReadRef`, `ReadOwner`, `EnterAgain` (homegrown only), `LockMutex`, `SetOwner`, `SetRef` |
| `pthreadMutexLeave` | `BeginLeave`, `DecRef`, `ClearOwner`, `Unlock` |
| `pthreadMutexHeld` | the formula in `HeldTellsTruth`, which is proved and not in a run |

`entered` counts what the callers have been told; it is not in the code.  The
build is one with `SQLITE_MUTEX_NREF`; `Homegrown` is
`SQLITE_HOMEGROWN_RECURSIVE_MUTEX`.  Each read and write of `nRef` and `owner`
is a step and all threads see one order of them, which the comment in
`pthreadMutexEnter` states as its assumption.  The order in which a thread
*reads* the method table is not modelled: its test of `xMutexAlloc` and its
later calls are taken to happen in program order.

### VfsOrder, VfsList
`VfsOrder` is the registry as a sequence without repeats whose head is the
default.  `VfsList` composes with `Mutex`: a thread enters
`SQLITE_MUTEX_STATIC_MAIN` step by step, then walks and relinks `vfsList` and
`pNext` one pointer at a time (`FindFirst`, `FindNext`; `UnlinkHead`,
`UnlinkAfter`, the loop of `vfsUnlink`; `Insert`, `LinkFirst`, `LinkSecond`),
and leaves.  `EnterInit`, `LeaveInit` and `OsInit...` are
`sqlite3_initialize` around `sqlite3_os_init`, under a recursive mutex that the
registrations enter again; `OsEnd` is `sqlite3_shutdown`, after which the list
stays and the built-in VFSes are registered once more.  A call's arguments are
chosen when it has entered the mutex, since nothing depends on them before.

## 4. Runs

Every run also checks for deadlock: somebody can always go on.

| Run | Instance | What it shows |
|---|---|---|
| `unixlock_single` | 3 processes with 1 thread each, two with 2 handles, those of the third `unix-excl`; lock calls may fail | what a handle believes is in the kernel, the counters are exact, RESERVED is visible within the process, no new readers beside PENDING, refinement of `FileLevels`, and with it the exclusion of levels, also between `unix-excl` and other processes |
| `unixlock_threads` | 2 processes, a second thread in one; any fcntl call may fail; low descriptors free | one writer per process, no deferred descriptor and no kernel lock left when nothing is locked or open |
| `unixlock_live` | `MCUnixLockLive`: 3 processes of one handle, or 2 of which one has 2 handles, chosen at the start; one handle writes, or two of different processes, the others read; fairness | a writer at PENDING gets EXCLUSIVE or gives up, unless another process shares its lock among its handles for ever |
| `unixshm` | 2 processes, 3 connections, one of them read-only for the node; two regions per map; 3 slots; crashes, power failures | no use of a stale file, no truncation under a user, mappings inside the file, exact reference counts; slot counts, masks and kernel agree, refinement of `ShmSlots` |
| `winlock` | NT and CE; 2 processes, 3 handles; crashes, spurious failures, failing closes | exactly the right locks between calls, the read lock can be regained, no phantom RESERVED on NT, no new readers past PENDING, CE counters kept, refinement of `FileLevels` |
| `winshm` | 2 processes, 3 connections, 2 slots, 2 regions; crashes, power failures | the first process truncates, with the one exception that is named; mappings inside the file; the kernel's ranges are the masks; refinement of `ShmSlots` |
| `files` | a file of up to 6 bytes on 2 Unix builds and Windows; a journal with 2 handles; 6 link targets at 3 places, chains and cycles; databases, journals and temporary files with 3 descriptors on 3 systems; 3 locking styles with 4 handles of 2 processes, where `mkdir`, `rmdir` and `flock` may fail | reads, writes and hints do what `FileApi` says; hints reach; mappings valid; journals kept; names resolved; descriptors accounted for; temporary files private; modes of journals; one handle at most has a lock of the other styles, no level without its lock or flock without a level, refinement of `FileLevels` |
| `vfslist` | 2 threads, 2 mutexes, 3 VFSes of which 2 have one name; homegrown recursion | exclusion, complete method table, correct search, refinement of `VfsOrder` |

Four runs are expected to fail, each a disagreement of the code with its own
comments (see "findings" in `PROJECT.json`):

* `unixlock_close_race`: a lock that is taken while another thread closes is lost
  with the `close()`.
* `unixlock_starved`: two connections of one process take turns in sharing its
  lock, so that it never goes, and starve a writer at PENDING in another process,
  although every reader ends and the writer asks again for ever.
* `flock_probe`: a handle at SHARED that asks for a RESERVED lock drops its own
  flock; `files` asks at other levels only.
* `hint_shrinks`: a size hint without chunks cuts off a file that is longer.

*Why the bounds are enough.*  The lock protocol compares one handle with "some
other handle of my process" and with "some other process": two handles in one
process and one in another have every such pair, and a second thread in the
first process every race for its mutexes.  In the liveness run a writer meets
readers of two other processes, a reader or a writer of one beside a sibling of its
own, or two connections that share the lock of their process; `Readers` says who
only reads.
`MaxFd` (2 or 3) admits a descriptor
in use, one waiting on `pUnused` and one being opened.  On Windows,
where only handles count, three give a writer, a reader and one more on either
side; the connections of one process are interchangeable there.  Three slots give ranges
that overlap, contain one another or are apart.  One request for region 2 with
two regions per map makes `nReqRegion` differ from the region asked for and the
file need more than one page.  Three VFSes give the first, second and a later
place on the list; `MaxEntered` = 2 is one recursive entry, which
`sqlite3_vfs_register` under `sqlite3_initialize` makes.  For a file, six bytes hold a
read or write before, across and after the end of the file and of the mapping, a
chunk of 3 and a block and page of 2 make every rounding differ, and amounts of
up to 3 make two partial transfers and one more.  `SQLITE_MAX_SYMLINKS` = 3 is
reached by chains of the three links as well as by cycles.  Three descriptors are
one with a lock, one put off and one being opened; a fourth open finds none
free, which is another failure.  For a database the two handles are in one
process, because descriptors of others do not matter to it; for journals and
temporary files they are in two.  What the small
instances leave open is covered, where there is a proof, by section 5.

*Fairness* is used in `unixlock_live` and `unixlock_starved` only.  Weak fairness of `ThreadStep`: a call that has begun runs on, since no step
waits for another process (fcntl is called with `F_SETLK`, which does not block).
Strong fairness of unlocking a handle below PENDING: transactions end.  Strong
fairness of asking for EXCLUSIVE again from PENDING: the busy handler retries as
long as it does not give up.  Both have to be strong because the thread is in
other calls in between.  Readers get no fairness for *not* starting again.  The
pending byte keeps readers of different processes from starving the writer.
Where connections share the lock of their process, `LockSharedAgain` grants SHARED
without a look at that byte, and they can starve it: `PendingWriterProceeds` has
that one exception, `unixlock_live` shows that there is no other, and
`unixlock_starved` that the exception is needed.  The
safety half, `NoNewReaders`, holds with any number of connections: a process
without a lock gets none beside PENDING, nor does another connection of the
writer's own process.

## 5. Proofs

All theorems hold for every value of the constants that the named assumptions
allow (finitely many handles or connections, each of one process; nothing about
their number).

Every invariant and action property of the passing runs is a theorem, and so is
every refinement.

### Unix file locking: UnixLockProofs

`TypeCorrect` (with the assert of `posixUnlock` that `nLock` does not go
negative) and `CountsCorrect`.  `TypeOK` alone is not inductive: that
`nShared - 1` is a natural number needs the fact that the handle giving up its
lock is counted.  `CountInv` therefore says that `nShared` and `nLock` are at
least the number of handles of the process that hold a lock, that `nRef` is the
number of attached ones, that an unlocked inode has no holder, and which calls
can be under way in a process at once.  It has to be an inequality, because with
failing unlocks and threads the counters may exceed what the handles hold.

`OneWriter` and `NothingLeft` need no further assumption: they hold with any
threads, low descriptors, failing calls and the race of `unixClose`, since they
are about what a process does to itself under its mutexes.  `WriterInv` adds to
`CountInv` that a handle past SHARED has the level of the inode (`WriterOK`) and
that no two are past SHARED (`Apart`).  `LeftInv` says that `pUnused` is not empty
only behind a lock, that an inode without references has nothing in the kernel,
that one thread of a process holds `unixBigLock`, and why a close that was
deferred may go: its descriptor is on the list still, or the locks are gone, or
another handle is there.

`LocksBacked`, `ReservedIsVisible`, `Bookkeeping`, `NoNewReaders` and the
refinement of `FileLevels` are false in general, so their theorems come in two
forms (`NoNewReaders` in the first only), both with the assumption `Regular`: the
handles of a process are all `unix-excl` or none of them is, there is no free
descriptor below 3, and the fcntl calls that unlock do
not fail.  `OnlyTheCloseRace`, `ReservedIsSeen`, `BooksBalance` and
`RefinesButForTheRace` hold for any number of threads, of every behaviour in
which no thread gets a lock between another's look at `nLock` and its `close()`
(`NoCloseRace`): the race of `unixlock_close_race` is the only way to lose a lock.
`SingleThreadsBacked`, `SingleThreadsSeeReserved`, `SingleThreadsBooks` and
`SingleThreadsRefine` need no such premise for processes with one thread, which
is what `unixlock_single` checks.  The invariant `BackInv` says that the kernel's table for
a process follows from the level of its inode (`KernelOK`), that the only handle
past SHARED has that level (`WriterOK`, `Apart`), and what each step of a call may
rely on.  Between processes exclusion then follows from the kernel's table,
within one from the inode.  `PlainZero` (only `unix-excl` takes a process lock) is
what makes RESERVED visible to other processes; `BooksOK` replaces the
inequalities of `CountInv` by equations.

`PendingKeepsReadersOut` proves `NoNewReaders` of every behaviour without that
race.  A reader is counted in `nShared` only after the last of its three fcntl
calls, so what the kernel told the first has to last: `PendingByteOK` says that it
has the pending byte until that last call gives it back.  A writer at PENDING has that byte for
writing (`KernelOK`), so both cannot be on their way, and within a process
`pLockMutex` and the level of the inode turn the reader away.

### The other locking styles: LockStylesProofs

`LevelsExclude` is about `FileLevels` itself, which implies `Exclusion`:
EXCLUSIVE precludes every other level, at most one handle is at RESERVED, at most
one at PENDING.  So each refinement of `FileLevels` is exclusion for its system.

`SoleUserHolds` and the refinement of `FileLevels` for the three styles have the
assumption `NoProbeAtShared`, which `flock_probe` shows to be needed.
`LocksBackLevels` assumes besides that the `LOCK_UN` of a probe does not fail
(`"unprobe" \notin Faults`): a probe that cannot drop its flock leaves one
without a level, in the code as in the model, and the run leaves that fault out
for the same reason.

### Unix shared memory: UnixShmLockProofs, UnixShmNodeProofs

`UnixShmLockProofs` proves `TypeCorrect`, `ArrayAlwaysOk`,
`KernelAlwaysMatches`, `ExclusionHolds` and `Refinement`, from the invariant
`IInv`: types, `LockingArrayOk`, `KernelMatches` and `KernelConsistent` (the
kernel's own promise that locks of different processes are compatible).
`SlotExclusion` is not inductive: between processes it follows from
`KernelMatches` and the kernel's consistency, within one process from
`LockingArrayOk`.  `Refinement` assumes `HeapShm = {}`, since processes with
heap memory share nothing with others, and `ShmSlots` is about one memory; the
safety theorems hold for every `HeapShm`.

`UnixShmNodeProofs` proves all that `unixshm` checks of the node: `NeverStale`,
`AlwaysCounted`, `AlwaysBacked` and `NeverCut`.  None of them is inductive alone.
`IInv` adds what each step of a call may count on (`CallOK`), how the node, its
references and its DMS lock belong together (`NodeOK`), that the kernel's locks
on the DMS byte are compatible (`KernelOK`), and that `unixBigLock` and the
mutex of the node have one holder in a process (`MutexOK`).  A process that
truncates holds the byte for writing, so nobody uses the file; one that starts to
use it holds it for reading, which it got either from itself after truncating or
while another reader kept the contents good.

### Windows file locking: WinLockProofs

Everything that `winlock` checks, with types and the exclusion of levels.  It
assumes `EveryHandleLocks`: the system is NT, or no handle is read-only (on CE
such a handle gets no lock at all, see section 6, and the run has none).  The
invariant `IInv` has two halves.  `TableInv` is about the locks: those of
different handles are compatible, and the `winceLock` counts at least the locks
that are held.  `LocksFit` says exactly which locks a handle holds at each step of
each call, and `CallOK` which level and request a step goes with.  `StaleRange` is
what makes `ReadLockRegained` true on CE after a crash: the flag for the whole
range that a dead writer leaves behind comes with its flag for the pending byte,
so nobody can be PENDING and stuck behind it.  An action is then reduced to what
it does to one byte of one handle (`LockingStep`, `UnlockingStep`); the others
keep their part of the invariant (`StepKeepsInv`).  Exclusion is read off
`HeldMeans`, which names a lock behind each level that others see, and
`Compatible`; the refinement off exclusion in the *next* state, since a step that
violated a guard of `FileLevels` would end in a state that violates exclusion.
`CountersKept` compares the counts with the locks held: every step but a crash
changes both by the same.

### Windows shared memory: WinShmProofs

Everything that `winshm` checks.  `IInv` is built like that of `UnixShmNode`, with
the one difference that the code has: `rdlck` may be reached from a refusal
(`missed`), so the contents are good *or* `missed` is set.  From it follow
`TruncatedFirst` and `AlwaysSafe`.  `SlotInv` is on top of it: within a node no
two ranges overlap, each range belongs to a connection whose mask has it, and
masks of different connections do not conflict.  `AlwaysMatches` and the
refinement of `ShmSlots` follow without a count of locks in the process, because
on Windows two handles of one process exclude each other in the kernel.

### Mutexes and the registry: MutexProofs

`MutexExcludes`, `HeldIsTrue`, `MutexAssertsHold` and `MutexTypeCorrect` for the
native and the homegrown recursion, from `MutexInv`: it says of the thread that
has the pthread mutex what `nRef`, `owner` and `depth` are at each step, of the
others that they have not got past `lock`, and of a free mutex that `owner` is
clear.  The last is why a thread that reads `owner` without the lock never finds
itself there by mistake.  Lemma `StepInv` reduces each action to what it does to
its own thread and mutex.  `TableIsComplete` needs only that `xMutexAlloc` is
stored when the other methods are visible (`TableInv`).  `VfsListUsesMutex` shows
that `VfsList` only does to mutexes what `Mutex` allows, so all of this holds
there (`VfsListExcludes`).

`FindIsCorrect` and `VfsListRefines` are about a linked list, while their
formulas speak of `Order`, which follows the pointers by recursion.  `Linked(s,
first, next)` says without recursion that the pointers spell out the sequence `s`.
That the recursive definition then gives `s` is a least-element argument on the
natural numbers (no induction over an operator is needed), and that it ends
before it runs out of VFSes an injection into the finite set of them.  `ListInv`
says that the list is `Linked` and what a thread inside the mutex knows at each
step of its walk: which prefix it has left behind without a hit, that the element
it is about to unlink is the next one, or that its new element is not on the
list.  Each store is then one removal, or one insertion in first or second
place, on `s`.  It is assumed that there are finitely many VFSes and that a name
is not a VFS.

### Files, directories, descriptors: FilesProofs

For files, limits, chunks and blocks of any size, for every build:
`MappingAlwaysValid` and `HintMakesRoom`, from `FilesInv`.  Its parts say what holds
between calls (`MapOK`, `RefsOK`) and what a hint knows at each of its steps
(`HintOK`); rounding to chunks is dealt with in lemmas about the arithmetic of
`%`.  `FileApiRefined` shows that reads, writes and hints implement `FileApi`,
where a call begins, works on any part of what is left of it, and ends with an
answer.  `ApiInv` gives the contents of
the file at each step from those at the start of the call and its progress: old
bytes while nothing is written, the written prefix after a partial transfer,
zeroes where a hint has grown the file; every transfer is then
work that `FileApi` allows on the call, and every return an answer it allows.
`HintsReach` takes both invariants: that a hint makes room is in `FilesInv`, and
that no step of it cuts anything off (`HintKeepsSize`) follows from how far the
file has grown since the call began.

`JournalsKept`: `DirInv` adds to `JournalKept` what a handle with a journal it has
created, and not yet synced, knows about the two directory entries.

`FdsAccounted`, `TempsPrivate` and `JournalModes` follow from `OpenInv`.
`DescInv` says which descriptor a handle has at each step of opening and closing
(`FdOK`, `CallOK`), which ones wait on `pUnused` (`WaitingOK`), and that no
descriptor has two owners or none (`OneOwner`).  `TempOK` and `ModeOK` extend the
properties from handles to descriptors, since a file that has lost its name, or
its handle, may still be open.  Handles, descriptors and temporary names are
finitely many, and there are enough nodes for a new file; both are assumptions of
the model, not of the code.

`PathsResolved`, for any directories, links, names and bound on links.  The
invariant `PathInv` says that, while `unixFullPathname` is at work, the path it has
(`zIn`) leads to where the kernel is after `nLink` links, if the kernel gets to the
end of them at all.  Three facts about paths of any length make a step keep it:

* `MkKeeps`: taking `.` and `..` out of the text leads nowhere else.  Taking out
  `x/..` undoes the step to `x`, because the way there went through directories
  (`SimplifiedStays`); a `..` that is kept is one more step from the same place.
* `ReadlinkKeeps`: the path before the last component leads to the directory of the
  link, which is all that a relative target depends on (`LocationOfBoth`).
* `BeyondStays`: where there is no link, following more of them changes nothing, so
  that a kernel that ends somewhere within the bound was never lost before.

What a path leads to is a fold, and `FoldLeft` a function on the sets of its
indices.  The proof shows that this function exists and that its values for `1 .. k`
follow one another (`UnfoldedSteps`); from then on a path is dealt with one
component at a time.  Induction is done with sets of numbers in place of predicates:
`UpTo`, from the fact that a set of numbers has a least element.

### What is only model-checked

`PendingWriterProceeds`, which is liveness under fairness.  Its safety half is the
theorem `PendingKeepsReadersOut`.

The type invariants, `SlotExclusion`, `Exclusion` and the asserts of the mutexes
(`AssertsHold`) are proved and not named in a run.

## 6. Limits

Assumptions about callers, which are not in the repository: the WAL code
unlocks its slots before xShmUnmap, unlocks with the flag it locked with, and
passes `deleteFlag` only while it has the database locked exclusively; a handle
is used by one thread at a time; transactions take the levels in the order that
`unixLock` asserts; `sqlite3_shutdown` is called when no other thread is in the
library.

On Windows the results of unlock calls are ignored by the code and taken to be
success where a lock is held; callers are taken to call `winUnlock` only above
the requested level.

Two facts about systems are assumed: a failed `LockFileEx` has a reason (a
conflict, or one of `Faults`), and `fstat` and `fchmod` of an own file do not
fail.

**Not modelled.**  In the components that are modelled in part:

* `SQLITE_ENABLE_SETLK_TIMEOUT`, proxy, AFP, semaphore and VxWorks locking are
  not in this build or not in this repository; the random lock byte of Win9x
  (`SQLITE_WIN32_HAS_ANSI`) is left out.
* A failing `fstat` in `findInodeInfo` (its comment gives up on that case); in
  `UnixLock`, an open that fails after it has closed a low descriptor.
* `unixShmBarrier` and `winShmBarrier` are memory fences, and no step of the
  models depends on the order of plain loads.  The heap branch of `unixShmMap`
  has no file.
* Flushing the contents of a file (`full_fsync`, `winSync`): which *data* a power
  failure loses is the pager's concern and depends on nothing here.
* File controls that report a field, `unixDeviceCharacteristics`, sector sizes.
* The search of a directory for temporary files, `robustFchown`, `modeof`, the
  change of pid, the `exclusive` parameter of URIs, the conversion of names on
  Windows and `winFullPathname`: values that no state depends on.
* Dynamic allocation of mutexes, `sqlite3MutexEnd`, the no-op and debug mutexes.
* `sqlite3Os*`, which call through a table, and `vfsUnlink(NULL)`, which does
  nothing.
* The distinction of `SQLITE_IOERR_CORRUPTFS` from other failed reads
  (`os_unix.c:2497`): both are `READ`.
* A `CloseHandle` that fails three times, in `OpenFile` (`WinLock` has it), and one
  that leaves `hMap` open in `winUnmapfile`.
* `SQLITE_OPEN_EXCLUSIVE` with a name, which super-journals are opened with.

Components without a model: the *system call table* (functions for tests that
read or overwrite one entry, under no lock), the *build configuration* and the
*SQLite headers* (no behaviour).  The headers are 17 000 of the 31 000 lines of
the implementation, and a third of `os_win.c` are tables of system calls and
conversions of characters; what is mapped is about half of `os_unix.c` and a
third of `os_win.c`.

Noticed while modelling; where a run shows it, the run is named.  Locks:

* A descriptor below 3 that `robust_open` closes takes the locks of the whole
  process with it, as the warning that it logs suggests.
* If the last fcntl call of an unlock fails, the handle may keep EXCLUSIVE in
  `eFileLock` while the kernel has less.
* When `unix` and `unix-excl` handles share an inode in one process, the assert
  that the process lock comes first (`os_unix.c:1383`) need not hold.
* RESERVED of a `unix-excl` handle is not visible to other processes, which
  cannot get SHARED either.
* Registering the default VFS again without `makeDflt` demotes it, although
  `os.c:387` calls a repeated registration harmless.
* `winUnlock` to SHARED sets the level even from NO_LOCK, where no lock is held,
  although the comment at `os_win.c:3409` calls that a no-op.
* On Windows CE `winCheckReservedLock` probes the reserved byte exclusively, so
  two handles that ask at once can both be told of a RESERVED lock that nobody
  has, and the counts of a process that died keep blocking the others until all
  have closed the file.
* On Windows CE `winceCreateLock` is called for read/write handles of a database
  only (`os_win.c:5251`), so a read-only handle reads beside an EXCLUSIVE lock,
  against `os.h:79`.
* `unixLock` grants SHARED from the counters of the process although another
  process has set PENDING since (`os_unix.c:1539`, against `os.h:75`).
  Nothing the writer has done is undone, but connections of that process that
  overlap without end starve it (`unixlock_starved`).
* `dotlockUnlock` and `flockUnlock` return early only when the level is *equal* to
  the one asked for (`os_unix.c:2110`, 2330), while their comments say "at or
  below".  `dotlockLock` lowers the level of a handle that asks for less than it
  has (2055).  `dotlockCheckReservedLock` answers 1 to a handle at SHARED itself.
  `dotlockUnlock` keeps the level when the directory is gone already.
* A process refused the exclusive DMS byte on Windows by one that then leaves
  without truncating goes on with what it finds, although the comment at
  `os_win.c:3910` has the file truncated by whoever is first.  `FirstTruncates`
  leaves that process out (`missed`), which does use the old contents.
* The look at the siblings in `winShmLock` is redundant with the kernel's locks,
  which belong to handles of the same node.
* `pShmMutex` is never held together with `pLockMutex`.
* The pointer that `sqlite3_vfs_find` returns is used after the mutex is left:
  whoever unregisters a VFS must know that nobody uses it.

Files:

* With a mapping limit and no chunk size `fcntlSizeHint` truncates to the hint
  (`os_unix.c:3005`–3013) whenever the mapping is shorter, and so shortens a file
  that is longer, although the comment at 2954 calls it a no-op then
  (`hint_shrinks`); `HintReaches` leaves these hints out.  With a
  chunk size it rounds up a file that is long enough already.  On Windows the hint
  rounds up only a file that is too short and does nothing while pages are out.
* `EINVAL` of `posix_fallocate` is ignored, and the mapping then goes beyond the
  end of the file (`os_unix.c:2980`, 3015).  `HintReaches` and `MappingValid` leave
  a file out after that.
* After a truncation to nothing, `mremap` of a mapping without length disables
  mapping for the handle (4141–4155).  `winMapfile` ignores failed unmaps.
  `winRead` returns `SQLITE_FULL` when the seek fails (`os_win.c:2757`).
* The comment at `os_unix.c:2937` speaks of code that is no longer there.

Opening and naming:

* `unixOpen` with `SQLITE_OPEN_EXCLUSIVE` on a name that exists falls back to
  opening the file read-only (4928–4936), and with `DELETEONCLOSE` removes its
  name, although `sqlite3.h:1299` says of the flag that it is an error if the
  file exists.  `winOpen` does not fall back.
* The same happens to a temporary file when a descriptor below 3 is free:
  `robust_open` closes the descriptor and opens the name again with `O_EXCL`,
  which fails because its first call has created the file.
* `findReusableFd` looks for the mode that is asked for.  A handle that asks for
  read/write and gets read-only leaves a read-only descriptor behind each time it
  is closed, so they pile up as long as another handle has a lock.
* The asserts at `os_unix.c:4916` do not hold for a main database whose `modeof`
  file cannot be read; the return there also leaks `pPreallocatedUnused`.
* `winOpen` passes `zName`, NULL for temporary files, to `winAccess` (5172).
* When the sync of the directory fails, `unixDelete` has removed the name; a
  second try returns `DELETE_NOENT` without syncing it (5046–5053).
* The first link of a chain is not tested against `SQLITE_MAX_SYMLINKS`
  (5236–5244).  `mkFullPathname` removes `..` by the text, which differs from
  the kernel's answer behind links to directories and in directories that do not
  exist.
* `unixSetSystemCall` saves the current pointer as the default when it has
  none, so for entries that start empty a second override saves the first one.
