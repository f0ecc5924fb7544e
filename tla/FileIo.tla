------------------------------- MODULE FileIo -------------------------------
(***************************************************************************)
(* An open file: its bytes, the sqlite3_file that is used to read, write,  *)
(* size and map it, and the call that is under way.  UnixIo and WinIo say  *)
(* what the calls do.  The calls on one handle follow one another; what    *)
(* varies is their order and what the system does in each of them: it      *)
(* interrupts, transfers less than it was asked to, or fails, each time    *)
(* through the loops of the code.                                          *)
(*                                                                         *)
(* Of the contents of the file the model keeps where each byte is from:    *)
(* it was there when the call began (OLD), it is a hole (ZERO), or it is   *)
(* the i-th byte of the buffer being written.                              *)
(***************************************************************************)
EXTENDS Integers, Sequences, FiniteSets

CONSTANTS
  MaxSize,     \* bound: the longest the file gets
  MaxAmount,   \* bound: the most bytes a call reads or writes
  FetchSize,   \* bytes a fetch asks for
  Limits,      \* the values of SQLITE_FCNTL_MMAP_SIZE
  ChunkSizes,  \* the values of SQLITE_FCNTL_CHUNK_SIZE
  szMmap,      \* sqlite3GlobalConfig.szMmap
  Builds       \* the systems and builds

BuildRecord ==
  [system : {"unix", "windows"},
   mmapReadWrite : BOOLEAN,    \* SQLITE_MMAP_READWRITE
   mremap : BOOLEAN,           \* Unix: HAVE_MREMAP
   fallocate : BOOLEAN]        \* Unix: HAVE_POSIX_FALLOCATE

ASSUME FileIoAssumption ==
  /\ {MaxSize, MaxAmount, FetchSize} \subseteq Nat \ {0}
  /\ Limits \subseteq Nat /\ ChunkSizes \subseteq Nat /\ szMmap \in Nat
  /\ Builds \subseteq BuildRecord

OLD == -1
ZERO == 0

Offsets == 0 .. MaxSize - 1

VARIABLES
  build,
  file,            \* where each byte of the file is from
  unallocated,     \* 1 once a refusal (EINVAL) of posix_fallocate() was ignored
  \* unixFile, winFile (without mmapSizeActual)
  pMapRegion,      \* 1 if the file is mapped
  mmapSize, mmapSizeActual, mmapSizeMax,
  nFetchOut,
  szChunk,
  \* the pages handed out, each at most once at a time, and 1 if one is gone
  fetched, moved,
  \* the call
  pc,
  off, amt,        \* its range; for a size hint the next byte to write, and the size
  got,             \* bytes done
  buf,             \* what was read: the numbers of the bytes of the file, or ZERO
  before,          \* size of the file when the call began
  nRetry,          \* Windows: retries
  rc               \* what it returned

fileVars == <<file, unallocated>>
mapVars  == <<pMapRegion, mmapSize, mmapSizeActual, mmapSizeMax, moved>>
refVars  == <<nFetchOut, fetched>>
callVars == <<off, amt, got, buf, before, nRetry, rc>>
ioVars == <<build, fileVars, mapVars, refVars, szChunk, pc, callVars>>

Size == Len(file)
Lower(a, b) == IF a < b THEN a ELSE b
RoundUp(n, unit) == ((n + unit - 1) \div unit) * unit
Chunked(n) == IF szChunk > 0 THEN RoundUp(n, szChunk) ELSE n

FileInit ==
  /\ build \in Builds
  /\ file = <<>> /\ unallocated = 0
  /\ pMapRegion = 0 /\ mmapSize = 0 /\ mmapSizeActual = 0 /\ mmapSizeMax = szMmap /\ moved = 0
  /\ nFetchOut = 0 /\ fetched = {}
  /\ szChunk = 0
  /\ pc = "idle" /\ off = 0 /\ amt = 0 /\ got = 0 /\ buf = <<>> /\ before = 0 /\ nRetry = 0 /\ rc = "OK"

(***************************************************************************)
(* Calls.                                                                  *)
(***************************************************************************)
Begin(step, o, n, bytes, code) ==
  /\ pc = "idle"
  /\ pc' = step /\ off' = o /\ amt' = n /\ got' = bytes
  /\ before' = Size /\ nRetry' = 0 /\ rc' = code

Return(step, code) == pc' = step /\ rc' = code

(* The caller has what the call returned; another call may follow.         *)
Finish ==
  /\ pc \in {"read.done", "write.done", "hint.done"}
  /\ pc' = "idle" /\ off' = 0 /\ amt' = 0 /\ got' = 0 /\ buf' = <<>> /\ before' = 0
  /\ nRetry' = 0 /\ rc' = "OK"
  /\ file' = [i \in 1 .. Size |-> OLD]
  /\ UNCHANGED <<build, unallocated, mapVars, refVars, szChunk>>

callUnchanged == UNCHANGED <<build, szChunk, pc, callVars>>

(* What is mapped is copied to or from the mapping.  Who touches a mapping *)
(* beyond the end of the file does not get further.                        *)
InMapping(o, n) == IF o < mmapSize THEN Lower(n, mmapSize - o) ELSE 0

ReadMapping(o, n) ==
  LET nCopy == InMapping(o, n) IN
  /\ nCopy > 0 => o + nCopy <= Size
  /\ Begin(IF nCopy = n THEN "read.done" ELSE "read", o, n, nCopy, "OK")
  /\ buf' = [i \in 1 .. nCopy |-> o + i]
  /\ UNCHANGED <<build, fileVars, mapVars, refVars, szChunk>>

Resized(f, n) == [i \in 1 .. n |-> IF i <= Len(f) THEN f[i] ELSE ZERO]

(* The file after bytes first to last of the buffer went to offset o on.   *)
Overwritten(f, o, first, last) ==
  LET n == last - first + 1
      longer == IF n > 0 /\ o + n > Len(f) THEN Resized(f, o + n) ELSE f
  IN [i \in 1 .. Len(longer) |-> IF i > o /\ i <= o + n THEN first + (i - o) - 1 ELSE longer[i]]

WriteMapping(o, n) ==
  LET nCopy == IF build.mmapReadWrite THEN InMapping(o, n) ELSE 0 IN
  /\ nCopy > 0 => o + nCopy <= Size
  /\ Begin(IF nCopy = n THEN "write.done" ELSE "write", o, n, nCopy, "OK")
  /\ file' = Overwritten(file, o, 1, nCopy)
  /\ UNCHANGED <<build, unallocated, mapVars, refVars, szChunk, buf>>

(***************************************************************************)
(* The mapping: a new one, or none (size 0), takes the place of the old.   *)
(***************************************************************************)
SetMapping(region, size, max) ==
  /\ pMapRegion' = region /\ mmapSize' = size /\ mmapSizeActual' = size /\ mmapSizeMax' = max
  /\ moved' = IF fetched # {} THEN 1 ELSE moved

(* xFetch hands out a page if the mapping reaches it.                      *)
HandOut(o) ==
  IF mmapSizeMax > 0 /\ mmapSize' >= o + FetchSize
  THEN nFetchOut' = nFetchOut + 1 /\ fetched' = fetched \cup {o}
  ELSE UNCHANGED refVars

Unfetch(o) ==
  /\ pc = "idle" /\ o \in fetched
  /\ nFetchOut' = nFetchOut - 1
  /\ fetched' = fetched \ {o}
  /\ UNCHANGED <<fileVars, mapVars>> /\ callUnchanged

SetChunkSize(n) ==
  /\ pc = "idle" /\ szChunk' = n
  /\ UNCHANGED <<build, fileVars, mapVars, refVars, pc, callVars>>

Close ==
  /\ pc = "idle" /\ nFetchOut = 0
  /\ pMapRegion' = 0 /\ mmapSize' = 0 /\ mmapSizeActual' = 0 /\ mmapSizeMax' = szMmap
  /\ szChunk' = 0 /\ unallocated' = 0
  /\ UNCHANGED <<build, file, moved, refVars, pc, callVars>>

FileNext ==
  \/ \E o \in Offsets : Unfetch(o)
  \/ \E n \in ChunkSizes : SetChunkSize(n)
  \/ Close \/ Finish

-----------------------------------------------------------------------------
(* Reads, writes and hints do what FileApi says, though they are put       *)
(* together from the mapping and from system calls that transfer less than *)
(* they were asked to, are retried or fail in between.                     *)
Ops == [read |-> {"read", "read.done"}, write |-> {"write", "write.done"},
        hint |-> {"hint.allocate", "hint.fill", "hint.map", "hint.done"}]

Op == CHOOSE op \in DOMAIN Ops : pc \in Ops[op]

ApiCall ==
  IF pc = "idle" THEN <<>>
  ELSE [op |-> Op, off |-> IF Op = "hint" THEN 0 ELSE off, amt |-> amt, size |-> before]

ApiDone == IF pc \in Ops.write THEN got ELSE 0

ApiAnswer ==
  IF pc \notin {"read.done", "write.done", "hint.done"} THEN <<>>
  ELSE <<rc, IF pc = "read.done" /\ rc # "READ" THEN buf ELSE <<>> >>

Api == INSTANCE FileApi WITH call <- ApiCall, done <- ApiDone, answer <- ApiAnswer
ImplementsFileApi == Api!Spec

(* After a size hint that succeeds the file has the size asked for,        *)
(* rounded up to whole chunks, however it was made longer.  A refused      *)
(* allocation is ignored; and on Windows, where only a file that is too    *)
(* short is rounded up, so is a hint while a page is handed out.           *)
HintMakesRoom ==
  pc = "hint.done" /\ rc = "OK" /\ szChunk > 0 =>
    \/ Size >= Chunked(amt)
    \/ unallocated = 1
    \/ build.system = "windows" /\ (fetched # {} \/ amt <= before)

(* No step of a hint makes the file shorter, whether or not the hint       *)
(* succeeds, except on Unix that of a hint without chunks.                 *)
HintKeepsSize ==
  pc \in Ops.hint /\ (szChunk > 0 \/ build.system = "windows") => Size >= before

(* A size hint makes room and never takes it away.                         *)
HintReaches == HintMakesRoom /\ HintKeepsSize

(* "Enlarge the database to nBytes in size ... If the database is already  *)
(* nBytes or larger, this routine is a no-op" (fcntlSizeHint).             *)
HintNeverShrinks == pc \in Ops.hint => Size >= before

(* The mapping: what the code uses of it is mapped, inside the file and    *)
(* within the limit (which the asserts of unixRemapfile rest on), and a    *)
(* page that was handed out stays where it is until it is given back.      *)
MappingValid ==
  /\ pMapRegion = 0 => mmapSizeActual = 0
  /\ mmapSize <= mmapSizeActual
  /\ build.system = "unix" => mmapSize <= mmapSizeMax
  /\ mmapSize <= Size \/ unallocated = 1
  /\ moved = 0 /\ nFetchOut = Cardinality(fetched)
  /\ \A o \in fetched : o + FetchSize <= mmapSizeActual
=============================================================================
