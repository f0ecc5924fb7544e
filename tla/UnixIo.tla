------------------------------ MODULE UnixIo ------------------------------
(***************************************************************************)
(* Reading, writing, sizing and mapping an open file on Unix               *)
(* (src/os/os_unix.c: unixRead to unixFileControl, unixUnmapfile to        *)
(* unixUnfetch).                                                           *)
(***************************************************************************)
EXTENDS FileIo

CONSTANT BlockSize   \* st_blksize

ASSUME UnixIoAssumption == BlockSize \in Nat \ {0}

Unix == build.system = "unix"

(***************************************************************************)
(* unixRead, unixWrite: what is not mapped goes through these loops.       *)
(***************************************************************************)
(* One read() of the loop in seekAndRead; it gets nothing only at the end  *)
(* of the file.  An interrupted one is repeated.                           *)
seekAndRead ==
  /\ Unix /\ pc = "read"
  /\ \/ \E k \in 1 .. amt - got :
          /\ off + got + k <= Size
          /\ got' = got + k
          /\ buf' = buf \o [i \in 1 .. k |-> off + got + i]
          /\ IF got' = amt THEN Return("read.done", "OK") ELSE UNCHANGED <<pc, rc>>
     \/ /\ off + got >= Size
        /\ buf' = buf \o [i \in 1 .. amt - got |-> ZERO]
        /\ Return("read.done", "SHORT_READ") /\ UNCHANGED got
     \/ Return("read.done", "READ") /\ UNCHANGED <<got, buf>>
  /\ UNCHANGED <<build, fileVars, mapVars, refVars, szChunk, off, amt, before, nRetry>>

(* Mutated: a short write is taken for the end of the loop.                *)
seekAndWriteOnce ==
  /\ Unix /\ pc = "write"
  /\ \E k \in 1 .. amt - got :
       file' = Overwritten(file, off + got, got + 1, got + k) /\ got' = got + k
  /\ Return("write.done", "OK")
  /\ UNCHANGED <<build, unallocated, mapVars, refVars, szChunk, off, amt, buf, before, nRetry>>

(* One write() of the loop in unixWrite.                                   *)
seekAndWrite ==
  /\ Unix /\ pc = "write"
  /\ \/ \E k \in 1 .. amt - got :
          /\ file' = Overwritten(file, off + got, got + 1, got + k)
          /\ got' = got + k
          /\ IF got' = amt THEN Return("write.done", "OK") ELSE UNCHANGED <<pc, rc>>
     \/ \E code \in {"WRITE", "FULL"} :
          Return("write.done", code) /\ UNCHANGED <<file, got>>
  /\ UNCHANGED <<build, unallocated, mapVars, refVars, szChunk, off, amt, buf, before, nRetry>>

(***************************************************************************)
(* The mapping.  An mremap() of nothing fails: the old mapping has been    *)
(* unmapped before.                                                        *)
(***************************************************************************)
unixUnmapfile ==
  IF pMapRegion = 1 THEN SetMapping(0, 0, mmapSizeMax) ELSE UNCHANGED mapVars

unixRemapfile(nNew, max, mapped) ==
  \/ ~(build.mremap /\ mapped /\ mmapSize = 0) /\ SetMapping(1, nNew, max)
  \/ SetMapping(0, 0, 0)

(* Mutated: an outstanding reference does not keep the mapping.            *)
unixMapfileAnyway(n) ==
  LET nMap == Lower(n, mmapSizeMax) IN
  IF nMap # mmapSize THEN unixRemapfile(nMap, mmapSizeMax, pMapRegion = 1) ELSE UNCHANGED mapVars

unixMapfile(n) ==
  LET nMap == Lower(n, mmapSizeMax) IN
  IF nFetchOut = 0 /\ nMap # mmapSize THEN unixRemapfile(nMap, mmapSizeMax, pMapRegion = 1)
  ELSE UNCHANGED mapVars

(* (If the size of the file cannot be had, nothing happens.)               *)
unixFetch(o) ==
  /\ Unix /\ pc = "idle" /\ o \notin fetched
  /\ IF mmapSizeMax > 0 /\ pMapRegion = 0 THEN unixMapfile(Size) ELSE UNCHANGED mapVars
  /\ HandOut(o)
  /\ UNCHANGED fileVars /\ callUnchanged

(* Other connections change the file while this one has no lock; before it *)
(* uses the file again its pager calls xUnfetch with no page.              *)
OthersWrite ==
  /\ Unix /\ pc = "idle" /\ nFetchOut = 0
  /\ \E n \in 0 .. MaxSize : file' = [i \in 1 .. n |-> OLD]
  /\ unixUnmapfile /\ unallocated' = 0
  /\ UNCHANGED refVars /\ callUnchanged

(* SQLITE_FCNTL_MMAP_SIZE.  If the size of the file cannot be had, the     *)
(* mapping is just gone.                                                   *)
SetMmapSize(newLimit) ==
  /\ Unix /\ pc = "idle" /\ newLimit # mmapSizeMax /\ nFetchOut = 0
  /\ LET nMap == Lower(Size, newLimit) IN
     IF mmapSize = 0
     THEN mmapSizeMax' = newLimit /\ UNCHANGED <<pMapRegion, mmapSize, mmapSizeActual, moved>>
     ELSE \/ SetMapping(0, 0, newLimit)
          \/ nMap > 0 /\ unixRemapfile(nMap, newLimit, FALSE)
  /\ UNCHANGED <<fileVars, refVars>> /\ callUnchanged

(***************************************************************************)
(* unixTruncate; the pager has no page out that it cuts off.               *)
(***************************************************************************)
unixTruncate(n) ==
  /\ Unix /\ pc = "idle" /\ Chunked(n) <= MaxSize
  /\ \A o \in fetched : o + FetchSize <= n
  /\ file' = [i \in 1 .. Chunked(n) |-> OLD]
  /\ mmapSize' = Lower(mmapSize, Chunked(n))
  /\ UNCHANGED <<unallocated, pMapRegion, mmapSizeActual, mmapSizeMax, moved, refVars>>
  /\ callUnchanged

(***************************************************************************)
(* fcntlSizeHint.                                                          *)
(***************************************************************************)
HintEnds(code) == Return("hint.done", code)

BlockEnd(p) == (p \div BlockSize) * BlockSize + BlockSize - 1

SizeHint(n) ==
  /\ Unix /\ Chunked(n) <= MaxSize
  /\ \/ Begin(IF szChunk > 0 /\ Chunked(n) > Size
              THEN IF build.fallocate THEN "hint.allocate" ELSE "hint.fill"
              ELSE "hint.map", BlockEnd(Size), n, 0, "OK")
     \/ szChunk > 0 /\ Begin("hint.done", 0, n, 0, "FSTAT")
  /\ UNCHANGED <<build, fileVars, mapVars, refVars, szChunk, buf>>

(* posix_fallocate(); the answer EINVAL is taken for success.              *)
Allocate ==
  /\ pc = "hint.allocate"
  /\ \/ file' = Resized(file, Chunked(amt)) /\ pc' = "hint.map" /\ UNCHANGED <<unallocated, rc>>
     \/ unallocated' = 1 /\ pc' = "hint.map" /\ UNCHANGED <<file, rc>>
     \/ HintEnds("WRITE") /\ UNCHANGED fileVars
  /\ UNCHANGED <<build, mapVars, refVars, szChunk, off, amt, got, buf, before, nRetry>>

FillStops(i) == i >= Chunked(amt)                    \* mutated: stops before the last byte
Filled(i) == i >= Chunked(amt) + BlockSize - 1

(* Its stand-in writes one byte to each new block and the last byte.       *)
Fill ==
  LET iWrite == Lower(off, Chunked(amt) - 1)
      longer == IF iWrite + 1 > Size THEN Resized(file, iWrite + 1) ELSE file
  IN
  /\ pc = "hint.fill"
  /\ IF Filled(off) THEN pc' = "hint.map" /\ UNCHANGED <<file, off, rc>>
     ELSE \/ /\ file' = [longer EXCEPT ![iWrite + 1] = ZERO]
             /\ off' = iWrite + BlockSize
             /\ UNCHANGED <<pc, rc>>
          \/ HintEnds("WRITE") /\ UNCHANGED <<file, off>>
  /\ UNCHANGED <<build, unallocated, mapVars, refVars, szChunk, amt, got, buf, before, nRetry>>

(* With memory mapping and no chunks the size of the file is set, which    *)
(* may also make it shorter.                                               *)
HintMap ==
  /\ pc = "hint.map"
  /\ \/ /\ IF mmapSizeMax > 0 /\ amt > mmapSize
           THEN /\ file' = IF szChunk = 0 THEN Resized(file, amt) ELSE file
                /\ unixMapfile(amt)
           ELSE UNCHANGED <<file, mapVars>>
        /\ HintEnds("OK")
     \/ /\ mmapSizeMax > 0 /\ amt > mmapSize /\ szChunk = 0
        /\ HintEnds("TRUNCATE") /\ UNCHANGED <<file, mapVars>>
  /\ UNCHANGED <<build, unallocated, refVars, szChunk, off, amt, got, buf, before, nRetry>>

UnixNext ==
  \/ \E o \in Offsets, n \in 1 .. MaxAmount :
       Unix /\ o + n <= MaxSize /\ (ReadMapping(o, n) \/ WriteMapping(o, n))
  \/ seekAndRead \/ seekAndWrite
  \/ \E o \in Offsets : unixFetch(o)
  \/ OthersWrite
  \/ \E n \in Limits : SetMmapSize(n)
  \/ \E n \in 0 .. MaxSize : unixTruncate(n)
  \/ \E n \in 1 .. MaxSize : SizeHint(n)
  \/ Allocate \/ Fill \/ HintMap
=============================================================================
