------------------------------- MODULE WinIo -------------------------------
(***************************************************************************)
(* Reading, writing, sizing and mapping an open file on Windows            *)
(* (src/os/os_win.c: winRead to winFileControl, winUnmapfile to            *)
(* winUnfetch), in the builds that pass the offset to ReadFile and         *)
(* WriteFile.  Unlike on Unix an unmapping can fail, which nobody looks    *)
(* at, and a file that somebody has mapped cannot be made shorter.         *)
(***************************************************************************)
EXTENDS FileIo

CONSTANTS
  PageSize,        \* winSysInfo.dwPageSize
  winIoerrRetry    \* bound: retries of a call, SQLITE_FCNTL_WIN32_AV_RETRY

ASSUME WinIoAssumption == PageSize \in Nat \ {0} /\ winIoerrRetry \in Nat

Windows == build.system = "windows"

(***************************************************************************)
(* winRead, winWrite.  A ReadFile or WriteFile that fails is repeated if   *)
(* the error is of those that pass.                                        *)
(***************************************************************************)
winRetryIoerr == nRetry < winIoerrRetry /\ nRetry' = nRetry + 1 /\ UNCHANGED <<pc, rc>>

(* ReadFile gets all there is.                                             *)
winRead ==
  LET nRead == Lower(amt - got, IF off + got < Size THEN Size - off - got ELSE 0) IN
  /\ Windows /\ pc = "read"
  /\ \/ /\ buf' = buf \o [i \in 1 .. amt - got |-> IF i <= nRead THEN off + got + i ELSE ZERO]
        /\ got' = got + nRead /\ UNCHANGED nRetry
        /\ Return("read.done", IF nRead < amt - got THEN "SHORT_READ" ELSE "OK")
     \/ winRetryIoerr /\ UNCHANGED <<got, buf>>
     \/ Return("read.done", "READ") /\ UNCHANGED <<got, buf, nRetry>>
  /\ UNCHANGED <<build, fileVars, mapVars, refVars, szChunk, off, amt, before>>

(* One WriteFile; one that wrote nothing is an error.                      *)
winWrite ==
  /\ Windows /\ pc = "write"
  /\ \/ \E k \in 1 .. amt - got :
          /\ file' = Overwritten(file, off + got, got + 1, got + k)
          /\ got' = got + k /\ UNCHANGED nRetry
          /\ IF got' = amt THEN Return("write.done", "OK") ELSE UNCHANGED <<pc, rc>>
     \/ winRetryIoerr /\ UNCHANGED <<file, got>>
     \/ \E code \in {"WRITE", "FULL"} :
          Return("write.done", code) /\ UNCHANGED <<file, got, nRetry>>
  /\ UNCHANGED <<build, unallocated, mapVars, refVars, szChunk, off, amt, buf, before>>

(***************************************************************************)
(* The mapping: the sets of what can become of a mapping m.                *)
(***************************************************************************)
Mapping == [region |-> pMapRegion, size |-> mmapSize, moved |-> moved]

Become(m, max) ==
  /\ pMapRegion' = m.region /\ mmapSize' = m.size /\ mmapSizeActual' = m.size
  /\ mmapSizeMax' = max /\ moved' = m.moved

winUnmapfile(m) ==
  IF m.region = 0 THEN {m}
  ELSE {m, [region |-> 0, size |-> 0, moved |-> IF fetched # {} THEN 1 ELSE m.moved]}

(* A mapping that cannot be made is not an error.  One of no pages is of   *)
(* the whole file, but nothing of it counts as mapped.                     *)
winMapfile(m, n, max) ==
  LET nMap == (Lower(n, max) \div PageSize) * PageSize
      old == IF nMap = 0 /\ m.size > 0 THEN winUnmapfile(m) ELSE {m}
      New(u) == {u, [region |-> 1, size |-> nMap, moved |-> u.moved]}
  IN IF nFetchOut > 0 THEN {m}
     ELSE {u \in old : u.size = nMap}
            \cup UNION {New(v) : v \in UNION {winUnmapfile(u) : u \in {w \in old : w.size # nMap}}}

winFetch(o) ==
  /\ Windows /\ pc = "idle" /\ o \notin fetched
  /\ \E m \in IF mmapSizeMax > 0 /\ pMapRegion = 0 THEN winMapfile(Mapping, Size, mmapSizeMax)
              ELSE {Mapping} :
       Become(m, mmapSizeMax)
  /\ HandOut(o)
  /\ UNCHANGED fileVars /\ callUnchanged

(* Other connections change the file, then the pager calls xUnfetch with   *)
(* no page.                                                                *)
WinOthersWrite ==
  /\ Windows /\ pc = "idle" /\ nFetchOut = 0
  /\ \E n \in 0 .. MaxSize : (pMapRegion = 1 => n >= Size) /\ file' = [i \in 1 .. n |-> OLD]
  /\ \E m \in winUnmapfile(Mapping) : Become(m, mmapSizeMax)
  /\ UNCHANGED <<unallocated, refVars>> /\ callUnchanged

(* SQLITE_FCNTL_MMAP_SIZE.                                                 *)
WinSetMmapSize(newLimit) ==
  /\ Windows /\ pc = "idle" /\ newLimit # mmapSizeMax /\ nFetchOut = 0
  /\ \E u \in IF mmapSize > 0 THEN winUnmapfile(Mapping) ELSE {Mapping} :
       \E m \in IF mmapSize > 0 THEN {u} \cup winMapfile(u, Size, newLimit) ELSE {u} :
         Become(m, newLimit)
  /\ UNCHANGED <<fileVars, refVars>> /\ callUnchanged

(***************************************************************************)
(* winTruncate: the sets of what can become of the file, the mapping and   *)
(* what it returns.  Windows refuses to make a mapped file shorter, which  *)
(* is no error either.                                                     *)
(***************************************************************************)
Outcome(n, m, code) == [size |-> n, map |-> m, rc |-> code]

EndsOfFile(n, u) ==
  {Outcome(Size, u, "TRUNCATE")}
    \cup (IF n < Size THEN {Outcome(Size, u, "OK")} ELSE {})
    \cup (IF n < Size /\ u.region = 1 THEN {} ELSE {Outcome(n, u, "OK")})

Remapped(o, n) ==
  LET oldMmapSize == IF pMapRegion = 1 THEN mmapSize ELSE 0
      maps == IF o.rc # "OK" \/ oldMmapSize = 0 THEN {o.map}
              ELSE IF oldMmapSize > n THEN {o.map} \cup winMapfile(o.map, o.size, mmapSizeMax)
              ELSE winMapfile(o.map, oldMmapSize, mmapSizeMax)
  IN {[o EXCEPT !.map = m] : m \in maps}

winTruncate(n) ==
  IF nFetchOut > 0 THEN {Outcome(Size, Mapping, "OK")}
  ELSE UNION {Remapped(o, Chunked(n)) :
              o \in UNION {EndsOfFile(Chunked(n), u) : u \in winUnmapfile(Mapping)}}

WinTruncate(n) ==
  /\ Windows /\ pc = "idle" /\ Chunked(n) <= MaxSize
  /\ \E o \in winTruncate(n) :
       file' = [i \in 1 .. o.size |-> OLD] /\ Become(o.map, mmapSizeMax)
  /\ UNCHANGED <<unallocated, refVars>> /\ callUnchanged

(* SQLITE_FCNTL_SIZE_HINT.                                                 *)
WinSizeHint(n) ==
  /\ Windows /\ Chunked(n) <= MaxSize
  /\ \E o \in IF szChunk > 0
              THEN {Outcome(Size, Mapping, "FSTAT")}
                     \cup (IF n > Size THEN winTruncate(n) ELSE {Outcome(Size, Mapping, "OK")})
              ELSE {Outcome(Size, Mapping, "OK")} :
       /\ Begin("hint.done", 0, n, 0, o.rc)
       /\ file' = Resized(file, o.size)
       /\ Become(o.map, mmapSizeMax)
  /\ UNCHANGED <<build, unallocated, refVars, szChunk, buf>>

WinNext ==
  \/ \E o \in Offsets, n \in 1 .. MaxAmount :
       Windows /\ o + n <= MaxSize /\ (ReadMapping(o, n) \/ WriteMapping(o, n))
  \/ winRead \/ winWrite
  \/ \E o \in Offsets : winFetch(o)
  \/ WinOthersWrite
  \/ \E n \in Limits : WinSetMmapSize(n)
  \/ \E n \in 0 .. MaxSize : WinTruncate(n)
  \/ \E n \in 1 .. MaxSize : WinSizeHint(n)
=============================================================================
