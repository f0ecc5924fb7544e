---------------------------- MODULE FilesProofs ----------------------------
(***************************************************************************)
(* Proofs about Files, UnixDir, OpenFile and UnixPath, the four parts of a *)
(* behaviour of MCFiles.                                                   *)
(*                                                                         *)
(* Files: on Unix and on Windows, for files of any size, limits, chunks    *)
(* and blocks of any size and any failures of the system, the mapping      *)
(* stays valid under the pages that are handed out, a size hint that       *)
(* succeeds has made the file as long as it was asked to, and reads,       *)
(* writes and hints do what FileApi says.                                  *)
(*                                                                         *)
(* UnixDir: a journal whose sync succeeded is still there after a crash.   *)
(*                                                                         *)
(* OpenFile: for any processes and handles, no descriptor is lost or used  *)
(* twice, temporary files have one writer, and journals the permissions of *)
(* their database.                                                         *)
(*                                                                         *)
(* UnixPath: for any directories, links and names, the full pathname leads *)
(* to where the kernel gets by following the links.                        *)
(***************************************************************************)
EXTENDS Files, UnixDir, OpenFile, UnixPath, FiniteSetTheorems, SequenceTheorems,
        WellFoundedInduction, TLAPS

FileTypes == build \in BuildRecord /\ file \in Seq(Int) /\ unallocated \in {0, 1}
MapTypes ==
  /\ pMapRegion \in {0, 1}
  /\ mmapSize \in Nat /\ mmapSizeActual \in Nat /\ mmapSizeMax \in Nat
RefTypes == IsFiniteSet(fetched) /\ fetched \subseteq Nat
CallTypes == szChunk \in Nat /\ off \in Int /\ amt \in Nat /\ got \in Nat /\ before \in Nat

MapOK ==
  /\ pMapRegion = 0 => mmapSizeActual = 0
  /\ mmapSize <= mmapSizeActual
  /\ build.system = "unix" => mmapSize <= mmapSizeMax
  /\ build.system = "windows" => mmapSizeActual = mmapSize
  /\ mmapSize <= Size \/ unallocated = 1

RefsOK ==
  /\ moved = 0 /\ nFetchOut = Cardinality(fetched)
  /\ \A o \in fetched : o + FetchSize <= mmapSizeActual

(* A hint that is under way has a reason to believe what it returns.       *)
HintOK ==
  /\ pc \in {"hint.allocate", "hint.fill", "hint.map"} => build.system = "unix"
  /\ pc = "hint.allocate" => szChunk > 0 /\ Chunked(amt) > Size
  /\ pc = "hint.fill" => szChunk > 0 /\ Chunked(amt) > 0 /\ 0 <= off /\ off <= Size + BlockSize - 1
  /\ pc = "hint.map" => szChunk = 0 \/ Size >= Chunked(amt) \/ unallocated = 1
  /\ HintMakesRoom

FilesInv == FileTypes /\ MapTypes /\ RefTypes /\ CallTypes /\ MapOK /\ RefsOK /\ HintOK

(***************************************************************************)
(* Numbers and sequences.                                                  *)
(***************************************************************************)
LEMMA DivMod ==
  ASSUME NEW a \in Nat, NEW b \in Nat \ {0}
  PROVE  /\ (a \div b) \in Nat
         /\ (a \div b) * b \in Nat
         /\ (a \div b) * b <= a
         /\ a < (a \div b) * b + b
  BY SMTT(60)

LEMMA RoundUpReaches ==
  ASSUME NEW n \in Nat, NEW unit \in Nat \ {0}
  PROVE  RoundUp(n, unit) \in Nat /\ n <= RoundUp(n, unit)
  BY DivMod DEF RoundUp

LEMMA ChunkedReaches ==
  ASSUME NEW n \in Nat, szChunk \in Nat
  PROVE  Chunked(n) \in Nat /\ n <= Chunked(n)
  BY RoundUpReaches DEF Chunked

LEMMA OldSeq ==
  ASSUME NEW n \in Nat
  PROVE  [i \in 1 .. n |-> OLD] \in Seq(Int) /\ Len([i \in 1 .. n |-> OLD]) = n
  BY DEF OLD

LEMMA ResizedSeq ==
  ASSUME NEW f \in Seq(Int), NEW n \in Nat
  PROVE  Resized(f, n) \in Seq(Int) /\ Len(Resized(f, n)) = n
  BY DEF Resized, ZERO

LEMMA OverwrittenSeq ==
  ASSUME NEW f \in Seq(Int), NEW o \in Int, NEW first \in Int, NEW last \in Int
  PROVE  Overwritten(f, o, first, last) \in Seq(Int) /\ Len(Overwritten(f, o, first, last)) >= Len(f)
  <1> DEFINE n == last - first + 1
             longer == IF n > 0 /\ o + n > Len(f) THEN Resized(f, o + n) ELSE f
  <1>1. n \in Int
    OBVIOUS
  <1>2. longer \in Seq(Int) /\ Len(longer) >= Len(f)
    BY <1>1, ResizedSeq
  <1> HIDE DEF longer, n
  <1>3. Overwritten(f, o, first, last)
          = [i \in 1 .. Len(longer) |-> IF i > o /\ i <= o + n THEN first + (i - o) - 1 ELSE longer[i]]
    BY DEF Overwritten, longer, n
  <1>4. \A i \in 1 .. Len(longer) :
          (IF i > o /\ i <= o + n THEN first + (i - o) - 1 ELSE longer[i]) \in Int
    BY <1>1, <1>2
  <1> QED
    BY <1>2, <1>3, <1>4

LEMMA FirstBytesSet ==
  ASSUME NEW f \in Seq(Int), NEW i \in 1 .. Len(f)
  PROVE  [f EXCEPT ![i] = ZERO] \in Seq(Int) /\ Len([f EXCEPT ![i] = ZERO]) = Len(f)
  BY DEF ZERO

(***************************************************************************)
(* The mapping and the pages handed out.                                   *)
(***************************************************************************)
LEMMA NoneOut ==
  ASSUME RefTypes, RefsOK
  PROVE  nFetchOut \in Nat /\ (nFetchOut = 0 <=> fetched = {})
  BY FS_EmptySet, FS_CardinalityType DEF RefTypes, RefsOK

(* A step that leaves the mapping alone and the file as long as it was.    *)
LEMMA MapKept ==
  ASSUME FilesInv, UNCHANGED <<build, mapVars, refVars>>,
         file' \in Seq(Int), unallocated' \in {0, 1},
         mmapSize <= Size' \/ unallocated' = 1
  PROVE  FileTypes' /\ MapTypes' /\ RefTypes' /\ MapOK' /\ RefsOK'
  BY DEF FilesInv, FileTypes, MapTypes, RefTypes, MapOK, RefsOK, mapVars, refVars

(* A new mapping, or none, while no page is handed out.                    *)
LEMMA MapSet ==
  ASSUME FilesInv, UNCHANGED build, fetched = {},
         NEW region \in {0, 1}, NEW size \in Nat, NEW max \in Nat, SetMapping(region, size, max),
         region = 0 => size = 0, build.system = "unix" => size <= max,
         file' \in Seq(Int), unallocated' \in {0, 1},
         size <= Size' \/ unallocated' = 1
  PROVE  FileTypes' /\ MapTypes' /\ MapOK' /\ moved' = 0
  BY DEF FilesInv, FileTypes, MapTypes, MapOK, RefsOK, SetMapping

LEMMA RefsKept ==
  ASSUME FilesInv, UNCHANGED refVars, moved' = 0,
         \A o \in fetched : o + FetchSize <= mmapSizeActual'
  PROVE  RefTypes' /\ RefsOK'
  BY DEF FilesInv, RefTypes, RefsOK, refVars

LEMMA HandedOut ==
  ASSUME FilesInv, NEW o \in Offsets, o \notin fetched, HandOut(o), moved' = 0,
         mmapSize' \in Nat, mmapSizeActual' \in Nat, mmapSize' <= mmapSizeActual',
         \A p \in fetched : p + FetchSize <= mmapSizeActual'
  PROVE  RefTypes' /\ RefsOK'
  <1>1. CASE mmapSizeMax > 0 /\ mmapSize' >= o + FetchSize
    <2>1. nFetchOut' = nFetchOut + 1 /\ fetched' = fetched \cup {o}
      BY <1>1 DEF HandOut
    <2>2. o \in Nat
      BY FileIoAssumption DEF Offsets
    <2>3. IsFiniteSet(fetched') /\ Cardinality(fetched') = Cardinality(fetched) + 1
      BY <2>1, FS_AddElement DEF FilesInv, RefTypes
    <2>4. o + FetchSize <= mmapSizeActual'
      BY <1>1, <2>2, FileIoAssumption
    <2> QED
      BY <2>1, <2>2, <2>3, <2>4 DEF FilesInv, RefTypes, RefsOK
  <1>2. CASE ~(mmapSizeMax > 0 /\ mmapSize' >= o + FetchSize)
    BY <1>2, RefsKept DEF HandOut
  <1> QED
    BY <1>1, <1>2

LEMMA SizeNat ==
  ASSUME FileTypes
  PROVE  Size \in Nat
  BY DEF FileTypes, Size

LEMMA NoHint ==
  ASSUME pc' \notin {"hint.allocate", "hint.fill", "hint.map", "hint.done"}
  PROVE  HintOK'
  BY DEF HintOK, HintMakesRoom

LEMMA CallKept ==
  ASSUME FilesInv, pc = "idle", callUnchanged
  PROVE  UNCHANGED build /\ CallTypes' /\ HintOK'
  BY NoHint DEF FilesInv, callUnchanged, callVars, CallTypes

(***************************************************************************)
(* Reads and writes.                                                       *)
(***************************************************************************)
LEMMA ReadMappingInv ==
  ASSUME FilesInv, NEW o \in Offsets, NEW n \in Nat, ReadMapping(o, n)
  PROVE  FilesInv'
  <1> DEFINE nCopy == InMapping(o, n)
  <1>1. o \in Nat /\ nCopy \in Nat
    BY FileIoAssumption DEF Offsets, InMapping, Lower, FilesInv, MapTypes
  <1>2. CallTypes'
    BY <1>1, SizeNat DEF ReadMapping, Begin, FilesInv, CallTypes
  <1>3. HintOK'
    BY NoHint DEF ReadMapping, Begin
  <1>4. FileTypes' /\ MapTypes' /\ RefTypes' /\ MapOK' /\ RefsOK'
    BY MapKept DEF ReadMapping, fileVars, FilesInv, FileTypes, MapOK, Size
  <1> QED
    BY <1>2, <1>3, <1>4 DEF FilesInv

LEMMA WriteMappingInv ==
  ASSUME FilesInv, NEW o \in Offsets, NEW n \in Nat, WriteMapping(o, n)
  PROVE  FilesInv'
  <1> DEFINE nCopy == IF build.mmapReadWrite THEN InMapping(o, n) ELSE 0
  <1>1. o \in Nat /\ nCopy \in Nat
    BY FileIoAssumption DEF Offsets, InMapping, Lower, FilesInv, MapTypes
  <1>2. CallTypes'
    BY <1>1, SizeNat DEF WriteMapping, Begin, FilesInv, CallTypes
  <1>3. HintOK'
    BY NoHint DEF WriteMapping, Begin
  <1>4. file' = Overwritten(file, o, 1, nCopy)
    BY DEF WriteMapping
  <1>5. file' \in Seq(Int) /\ Size' >= Size
    BY <1>1, <1>4, OverwrittenSeq DEF FilesInv, FileTypes, Size
  <1>6. FileTypes' /\ MapTypes' /\ RefTypes' /\ MapOK' /\ RefsOK'
    <2>1. UNCHANGED <<build, mapVars, refVars, unallocated>>
      BY DEF WriteMapping
    <2>2. mmapSize <= Size' \/ unallocated' = 1
      BY <1>5, <2>1, SizeNat DEF FilesInv, FileTypes, MapTypes, MapOK, Size
    <2> QED
      BY <1>5, <2>1, <2>2, MapKept DEF FilesInv, FileTypes
  <1> QED
    BY <1>2, <1>3, <1>6 DEF FilesInv

LEMMA ReadInv ==
  ASSUME FilesInv, seekAndRead \/ winRead
  PROVE  FilesInv'
  <1>1. UNCHANGED <<build, fileVars, mapVars, refVars, szChunk, off, amt, before>>
    BY DEF seekAndRead, winRead
  <1>2. pc' \in {"read", "read.done"}
    BY DEF seekAndRead, winRead, Return, winRetryIoerr
  <1>3. got' \in Nat
    <2>1. CASE seekAndRead
      BY <2>1 DEF seekAndRead, FilesInv, CallTypes
    <2>2. CASE winRead
      BY <2>2, SizeNat DEF winRead, FilesInv, CallTypes, Lower
    <2> QED
      BY <2>1, <2>2
  <1>4. CallTypes' /\ HintOK'
    BY <1>1, <1>2, <1>3, NoHint DEF FilesInv, CallTypes
  <1>5. FileTypes' /\ MapTypes' /\ RefTypes' /\ MapOK' /\ RefsOK'
    BY <1>1, MapKept DEF fileVars, FilesInv, FileTypes, MapOK, Size
  <1> QED
    BY <1>4, <1>5 DEF FilesInv

LEMMA WriteInv ==
  ASSUME FilesInv, seekAndWrite \/ winWrite
  PROVE  FilesInv'
  <1>1. UNCHANGED <<build, unallocated, mapVars, refVars, szChunk, off, amt, before>>
    BY DEF seekAndWrite, winWrite
  <1>2. pc' \in {"write", "write.done"}
    BY DEF seekAndWrite, winWrite, Return, winRetryIoerr
  <1>3. \/ got' = got /\ file' = file
        \/ \E k \in Nat : got' = got + k /\ file' = Overwritten(file, off + got, got + 1, got + k)
    BY DEF seekAndWrite, winWrite, FilesInv, CallTypes
  <1>4. got' \in Nat /\ file' \in Seq(Int) /\ Size' >= Size
    <2>1. CASE got' = got /\ file' = file
      BY <2>1, SizeNat DEF FilesInv, FileTypes, CallTypes, Size
    <2>2. CASE \E k \in Nat : got' = got + k /\ file' = Overwritten(file, off + got, got + 1, got + k)
      <3>1. PICK k \in Nat : got' = got + k /\ file' = Overwritten(file, off + got, got + 1, got + k)
        BY <2>2
      <3>2. off + got \in Int /\ got + 1 \in Int /\ got + k \in Nat
        BY DEF FilesInv, CallTypes
      <3> QED
        BY <3>1, <3>2, OverwrittenSeq DEF FilesInv, FileTypes, Size
    <2> QED
      BY <1>3, <2>1, <2>2
  <1>5. CallTypes' /\ HintOK'
    BY <1>1, <1>2, <1>4, NoHint DEF FilesInv, CallTypes
  <1>6. mmapSize <= Size' \/ unallocated' = 1
    BY <1>1, <1>4, SizeNat DEF FilesInv, FileTypes, MapTypes, MapOK, Size
  <1>7. FileTypes' /\ MapTypes' /\ RefTypes' /\ MapOK' /\ RefsOK'
    BY <1>1, <1>4, <1>6, MapKept DEF FilesInv, FileTypes
  <1> QED
    BY <1>5, <1>7 DEF FilesInv

LEMMA FinishInv ==
  ASSUME FilesInv, Finish
  PROVE  FilesInv'
  <1>1. file' \in Seq(Int) /\ Size' = Size
    BY OldSeq, SizeNat DEF Finish, Size, FilesInv
  <1>2. CallTypes' /\ HintOK'
    BY NoHint DEF Finish, FilesInv, CallTypes
  <1>3. FileTypes' /\ MapTypes' /\ RefTypes' /\ MapOK' /\ RefsOK'
    BY <1>1, MapKept DEF Finish, FilesInv, FileTypes, MapOK
  <1> QED
    BY <1>2, <1>3 DEF FilesInv

(***************************************************************************)
(* Pages.                                                                  *)
(***************************************************************************)
LEMMA UnfetchInv ==
  ASSUME FilesInv, NEW o \in Offsets, Unfetch(o)
  PROVE  FilesInv'
  <1>1. UNCHANGED <<fileVars, mapVars>> /\ UNCHANGED build /\ CallTypes' /\ HintOK'
    BY CallKept DEF Unfetch
  <1>2. FileTypes' /\ MapTypes' /\ MapOK'
    BY <1>1 DEF FilesInv, FileTypes, MapTypes, MapOK, fileVars, mapVars, Size
  <1>3. o \in fetched /\ nFetchOut' = nFetchOut - 1 /\ fetched' = fetched \ {o}
    BY DEF Unfetch
  <1>4. IsFiniteSet(fetched') /\ Cardinality(fetched') = Cardinality(fetched) - 1
    BY <1>3, FS_RemoveElement DEF FilesInv, RefTypes
  <1>5. RefTypes' /\ RefsOK'
    BY <1>1, <1>3, <1>4 DEF FilesInv, RefTypes, RefsOK, mapVars
  <1> QED
    BY <1>1, <1>2, <1>5 DEF FilesInv

LEMMA SetChunkSizeInv ==
  ASSUME FilesInv, NEW n \in ChunkSizes, SetChunkSize(n)
  PROVE  FilesInv'
  <1>1. UNCHANGED <<build, fileVars, mapVars, refVars, pc, callVars>> /\ pc = "idle" /\ szChunk' = n
    BY DEF SetChunkSize
  <1>2. CallTypes' /\ HintOK'
    BY <1>1, FileIoAssumption, NoHint DEF FilesInv, CallTypes, callVars
  <1>3. FileTypes' /\ MapTypes' /\ RefTypes' /\ MapOK' /\ RefsOK'
    BY <1>1, MapKept DEF fileVars, FilesInv, FileTypes, MapOK, Size
  <1> QED
    BY <1>2, <1>3 DEF FilesInv

LEMMA CloseInv ==
  ASSUME FilesInv, Close
  PROVE  FilesInv'
  <1>1. fetched = {} /\ fetched' = {} /\ UNCHANGED refVars
    BY NoneOut DEF Close, FilesInv, refVars
  <1>2. FileTypes' /\ MapTypes' /\ MapOK'
    BY FileIoAssumption, SizeNat DEF Close, FilesInv, FileTypes, MapTypes, MapOK, Size
  <1>3. RefTypes' /\ RefsOK'
    BY <1>1, RefsKept DEF Close, FilesInv, RefsOK
  <1>4. CallTypes' /\ HintOK'
    BY NoHint DEF Close, FilesInv, CallTypes, callVars
  <1> QED
    BY <1>2, <1>3, <1>4 DEF FilesInv

(***************************************************************************)
(* The mapping on Unix.                                                    *)
(***************************************************************************)
LEMMA UnixUnmapped ==
  ASSUME FilesInv, UNCHANGED build, fetched = {}, unixUnmapfile,
         file' \in Seq(Int), unallocated' \in {0, 1}
  PROVE  FileTypes' /\ MapTypes' /\ MapOK' /\ moved' = 0
  <1>1. CASE pMapRegion = 1
    <2>1. SetMapping(0, 0, mmapSizeMax)
      BY <1>1 DEF unixUnmapfile
    <2>2. 0 <= Size'
      BY DEF Size
    <2> QED
      BY <2>1, <2>2, MapSet DEF FilesInv, MapTypes
  <1>2. CASE pMapRegion # 1
    <2>1. UNCHANGED mapVars
      BY <1>2 DEF unixUnmapfile
    <2>2. mmapSize = 0 /\ 0 <= Size'
      BY <1>2 DEF FilesInv, MapTypes, MapOK, Size
    <2> QED
      BY <2>1, <2>2 DEF FilesInv, FileTypes, MapTypes, MapOK, RefsOK, mapVars
  <1> QED
    BY <1>1, <1>2

LEMMA UnixRemapped ==
  ASSUME FilesInv, UNCHANGED build, fetched = {},
         NEW nNew \in Nat, NEW max \in Nat, NEW mapped, nNew <= max, unixRemapfile(nNew, max, mapped),
         file' \in Seq(Int), unallocated' \in {0, 1}, nNew <= Size' \/ unallocated' = 1
  PROVE  FileTypes' /\ MapTypes' /\ MapOK' /\ moved' = 0
  <1>1. 0 <= Size'
    BY DEF Size
  <1>2. CASE SetMapping(1, nNew, max)
    BY <1>2, MapSet
  <1>3. CASE SetMapping(0, 0, 0)
    BY <1>1, <1>3, MapSet
  <1> QED
    BY <1>2, <1>3 DEF unixRemapfile

LEMMA UnixMapped ==
  ASSUME FilesInv, UNCHANGED build, NEW n \in Nat, unixMapfile(n),
         file' \in Seq(Int), unallocated' \in {0, 1},
         n <= Size' \/ unallocated' = 1, mmapSize <= Size' \/ unallocated' = 1
  PROVE  /\ FileTypes' /\ MapTypes' /\ MapOK' /\ moved' = 0
         /\ \A p \in fetched : p + FetchSize <= mmapSizeActual'
  <1> DEFINE nMap == Lower(n, mmapSizeMax)
  <1>1. nMap \in Nat /\ nMap <= n /\ nMap <= mmapSizeMax
    BY DEF Lower, FilesInv, MapTypes
  <1>2. CASE nFetchOut = 0 /\ nMap # mmapSize
    <2>1. fetched = {}
      BY <1>2, NoneOut DEF FilesInv
    <2>2. unixRemapfile(nMap, mmapSizeMax, pMapRegion = 1)
      BY <1>2 DEF unixMapfile
    <2>3. nMap <= Size' \/ unallocated' = 1
      BY <1>1 DEF Size
    <2> HIDE DEF nMap
    <2> QED
      BY <1>1, <2>1, <2>2, <2>3, UnixRemapped DEF FilesInv, MapTypes
  <1>3. CASE ~(nFetchOut = 0 /\ nMap # mmapSize)
    <2>1. UNCHANGED mapVars
      BY <1>3 DEF unixMapfile
    <2> QED
      BY <2>1 DEF FilesInv, FileTypes, MapTypes, MapOK, RefsOK, mapVars
  <1> QED
    BY <1>2, <1>3

LEMMA UnixFetchInv ==
  ASSUME FilesInv, NEW o \in Offsets, unixFetch(o)
  PROVE  FilesInv'
  <1>1. UNCHANGED fileVars /\ UNCHANGED build /\ CallTypes' /\ HintOK'
    BY CallKept DEF unixFetch
  <1>2. Size' = Size /\ file' \in Seq(Int) /\ unallocated' \in {0, 1} /\ Size \in Nat
    BY <1>1, SizeNat DEF fileVars, Size, FilesInv, FileTypes
  <1>3. /\ FileTypes' /\ MapTypes' /\ MapOK' /\ moved' = 0
        /\ \A p \in fetched : p + FetchSize <= mmapSizeActual'
    <2>1. CASE mmapSizeMax > 0 /\ pMapRegion = 0
      <3>1. unixMapfile(Size)
        BY <2>1 DEF unixFetch
      <3>2. mmapSize <= Size
        BY <1>2, <2>1 DEF FilesInv, MapTypes, MapOK
      <3> QED
        BY <1>1, <1>2, <3>1, <3>2, UnixMapped
    <2>2. CASE ~(mmapSizeMax > 0 /\ pMapRegion = 0)
      BY <1>1, <1>2, <2>2 DEF unixFetch, FilesInv, FileTypes, MapTypes, MapOK, RefsOK, mapVars, fileVars
    <2> QED
      BY <2>1, <2>2
  <1>4. RefTypes' /\ RefsOK'
    BY <1>3, HandedOut DEF unixFetch, MapTypes, MapOK
  <1> QED
    BY <1>1, <1>3, <1>4 DEF FilesInv

LEMMA OthersWriteInv ==
  ASSUME FilesInv, OthersWrite
  PROVE  FilesInv'
  <1>1. UNCHANGED refVars /\ UNCHANGED build /\ CallTypes' /\ HintOK'
    BY CallKept DEF OthersWrite
  <1>2. file' \in Seq(Int) /\ unallocated' \in {0, 1}
    BY OldSeq DEF OthersWrite
  <1>3. fetched = {}
    BY NoneOut DEF OthersWrite, FilesInv
  <1>4. FileTypes' /\ MapTypes' /\ MapOK' /\ moved' = 0
    BY <1>1, <1>2, <1>3, UnixUnmapped DEF OthersWrite
  <1>5. RefTypes' /\ RefsOK'
    BY <1>1, <1>3, <1>4, RefsKept
  <1> QED
    BY <1>1, <1>4, <1>5 DEF FilesInv

LEMMA SetMmapSizeInv ==
  ASSUME FilesInv, NEW newLimit \in Limits, SetMmapSize(newLimit)
  PROVE  FilesInv'
  <1> DEFINE nMap == Lower(Size, newLimit)
  <1>1. UNCHANGED <<fileVars, refVars>> /\ UNCHANGED build /\ CallTypes' /\ HintOK'
    BY CallKept DEF SetMmapSize
  <1>2. /\ Size' = Size /\ file' \in Seq(Int) /\ unallocated' \in {0, 1} /\ Size \in Nat
        /\ fetched = {} /\ newLimit \in Nat /\ nMap \in Nat /\ nMap <= Size /\ nMap <= newLimit
    BY <1>1, SizeNat, NoneOut, FileIoAssumption
       DEF SetMmapSize, fileVars, Size, FilesInv, FileTypes, Lower
  <1>3. FileTypes' /\ MapTypes' /\ MapOK' /\ moved' = 0
    <2>1. CASE mmapSize = 0
      BY <1>1, <1>2, <2>1 DEF SetMmapSize, FilesInv, FileTypes, MapTypes, MapOK, RefsOK
    <2>2. CASE mmapSize # 0 /\ SetMapping(0, 0, newLimit)
      BY <1>1, <1>2, <2>2, MapSet
    <2>3. CASE mmapSize # 0 /\ unixRemapfile(nMap, newLimit, FALSE)
      <3> HIDE DEF nMap
      <3> QED
        BY <1>1, <1>2, <2>3, UnixRemapped
    <2> QED
      BY <2>1, <2>2, <2>3 DEF SetMmapSize
  <1>4. RefTypes' /\ RefsOK'
    BY <1>1, <1>2, <1>3, RefsKept
  <1> QED
    BY <1>1, <1>3, <1>4 DEF FilesInv

LEMMA UnixTruncateInv ==
  ASSUME FilesInv, NEW n \in Nat, unixTruncate(n)
  PROVE  FilesInv'
  <1>1. UNCHANGED <<unallocated, pMapRegion, mmapSizeActual, mmapSizeMax, moved, refVars>>
        /\ UNCHANGED build /\ CallTypes' /\ HintOK'
    BY CallKept DEF unixTruncate
  <1>2. Chunked(n) \in Nat
    BY ChunkedReaches DEF FilesInv, CallTypes
  <1>3. file' \in Seq(Int) /\ Size' = Chunked(n)
    BY <1>2, OldSeq DEF unixTruncate, Size
  <1>4. mmapSize' \in Nat /\ mmapSize' <= mmapSize /\ mmapSize' <= Size'
    BY <1>2, <1>3 DEF unixTruncate, Lower, FilesInv, MapTypes
  <1>5. build.system = "unix"
    BY DEF unixTruncate, Unix
  <1>6. FileTypes' /\ MapTypes' /\ MapOK'
    BY <1>1, <1>3, <1>4, <1>5 DEF FilesInv, FileTypes, MapTypes, MapOK
  <1>7. RefTypes' /\ RefsOK'
    BY <1>1, RefsKept DEF FilesInv, RefsOK
  <1> QED
    BY <1>1, <1>6, <1>7 DEF FilesInv

(***************************************************************************)
(* Size hints on Unix.                                                     *)
(***************************************************************************)
LEMMA BlockEndNear ==
  ASSUME NEW p \in Nat
  PROVE  BlockEnd(p) \in Nat /\ BlockEnd(p) <= p + BlockSize - 1
  BY DivMod, UnixIoAssumption DEF BlockEnd

LEMMA SizeHintInv ==
  ASSUME FilesInv, NEW n \in Nat, SizeHint(n)
  PROVE  FilesInv'
  <1>1. UNCHANGED <<build, fileVars, mapVars, refVars, szChunk>>
    BY DEF SizeHint
  <1>2. Size' = Size /\ Size \in Nat /\ Chunked(n) \in Nat
    BY <1>1, SizeNat, ChunkedReaches DEF fileVars, Size, FilesInv, CallTypes
  <1>3. FileTypes' /\ MapTypes' /\ RefTypes' /\ MapOK' /\ RefsOK'
    BY <1>1, <1>2, MapKept DEF fileVars, FilesInv, FileTypes, MapOK
  <1>4. CASE szChunk > 0 /\ Begin("hint.done", 0, n, 0, "FSTAT")
    <2>1. CallTypes'
      BY <1>1, <1>2, <1>4 DEF Begin, FilesInv, CallTypes
    <2>2. HintOK'
      BY <1>4 DEF Begin, HintOK, HintMakesRoom
    <2> QED
      BY <1>3, <2>1, <2>2 DEF FilesInv
  <1>5. CASE Begin(IF szChunk > 0 /\ Chunked(n) > Size
                   THEN IF build.fallocate THEN "hint.allocate" ELSE "hint.fill"
                   ELSE "hint.map", BlockEnd(Size), n, 0, "OK")
    <2>1. off' = BlockEnd(Size) /\ amt' = n /\ got' = 0 /\ before' = Size
      BY <1>5 DEF Begin
    <2>2. CallTypes'
      BY <1>1, <1>2, <2>1, BlockEndNear DEF FilesInv, CallTypes
    <2>3. Chunked(amt)' = Chunked(n)
      BY <1>1, <2>1 DEF Chunked
    <2>4. build'.system = "unix"
      BY <1>1 DEF SizeHint, Unix
    <2>5. 0 <= off' /\ off' <= Size' + BlockSize - 1
      BY <1>2, <2>1, BlockEndNear
    <2>6. CASE szChunk > 0 /\ Chunked(n) > Size
      <3>1. pc' \in {"hint.allocate", "hint.fill"}
        BY <1>5, <2>6 DEF Begin
      <3>2. HintOK'
        BY <1>1, <1>2, <2>3, <2>4, <2>5, <2>6, <3>1 DEF HintOK, HintMakesRoom
      <3> QED
        BY <1>3, <2>2, <3>2 DEF FilesInv
    <2>7. CASE ~(szChunk > 0 /\ Chunked(n) > Size)
      <3>1. pc' = "hint.map"
        BY <1>5, <2>7 DEF Begin
      <3>2. szChunk' = 0 \/ Size' >= Chunked(amt)'
        BY <1>1, <1>2, <2>3, <2>7 DEF FilesInv, CallTypes
      <3>3. HintOK'
        BY <2>4, <3>1, <3>2 DEF HintOK, HintMakesRoom
      <3> QED
        BY <1>3, <2>2, <3>3 DEF FilesInv
    <2> QED
      BY <2>6, <2>7
  <1> QED
    BY <1>4, <1>5 DEF SizeHint

LEMMA AllocateInv ==
  ASSUME FilesInv, Allocate
  PROVE  FilesInv'
  <1>1. UNCHANGED <<build, mapVars, refVars, szChunk, off, amt, got, before>>
    BY DEF Allocate
  <1>2. /\ CallTypes' /\ Chunked(amt)' = Chunked(amt) /\ Chunked(amt) \in Nat /\ Size \in Nat
        /\ Chunked(amt) > Size /\ build'.system = "unix"
    BY <1>1, ChunkedReaches, SizeNat DEF FilesInv, CallTypes, Chunked, HintOK, Allocate
  <1>3. CASE file' = Resized(file, Chunked(amt)) /\ pc' = "hint.map" /\ UNCHANGED <<unallocated, rc>>
    <2>1. file' \in Seq(Int) /\ Size' = Chunked(amt)
      BY <1>2, <1>3, ResizedSeq DEF FilesInv, FileTypes, Size
    <2>2. mmapSize <= Size' \/ unallocated' = 1
      BY <1>2, <1>3, <2>1 DEF FilesInv, MapTypes, MapOK
    <2>3. FileTypes' /\ MapTypes' /\ RefTypes' /\ MapOK' /\ RefsOK'
      BY <1>1, <1>3, <2>1, <2>2, MapKept DEF FilesInv, FileTypes
    <2>4. HintOK'
      BY <1>2, <1>3, <2>1 DEF HintOK, HintMakesRoom
    <2> QED
      BY <1>2, <2>3, <2>4 DEF FilesInv
  <1>4. CASE unallocated' = 1 /\ pc' = "hint.map" /\ UNCHANGED <<file, rc>>
    <2>1. FileTypes' /\ MapTypes' /\ RefTypes' /\ MapOK' /\ RefsOK'
      BY <1>1, <1>4, MapKept DEF FilesInv, FileTypes
    <2>2. HintOK'
      BY <1>2, <1>4 DEF HintOK, HintMakesRoom
    <2> QED
      BY <1>2, <2>1, <2>2 DEF FilesInv
  <1>5. CASE HintEnds("WRITE") /\ UNCHANGED fileVars
    <2>1. FileTypes' /\ MapTypes' /\ RefTypes' /\ MapOK' /\ RefsOK'
      BY <1>1, <1>5, MapKept DEF FilesInv, FileTypes, MapOK, fileVars, Size
    <2>2. HintOK'
      BY <1>5 DEF HintEnds, Return, HintOK, HintMakesRoom
    <2> QED
      BY <1>2, <2>1, <2>2 DEF FilesInv
  <1> QED
    BY <1>3, <1>4, <1>5 DEF Allocate

LEMMA FillInv ==
  ASSUME FilesInv, Fill
  PROVE  FilesInv'
  <1> DEFINE iWrite == Lower(off, Chunked(amt) - 1)
             longer == IF iWrite + 1 > Size THEN Resized(file, iWrite + 1) ELSE file
  <1>1. UNCHANGED <<build, unallocated, mapVars, refVars, szChunk, amt, got, before>>
    BY DEF Fill
  <1>2. /\ Chunked(amt)' = Chunked(amt) /\ Chunked(amt) \in Nat /\ Size \in Nat /\ amt <= Chunked(amt)
        /\ build'.system = "unix" /\ szChunk > 0 /\ off <= Size + BlockSize - 1
        /\ Chunked(amt) > 0 /\ 0 <= off
    BY <1>1, ChunkedReaches, SizeNat DEF FilesInv, CallTypes, Chunked, HintOK, Fill
  <1>3. BlockSize \in Nat \ {0} /\ off \in Int /\ iWrite \in Nat /\ iWrite <= off
        /\ iWrite <= Chunked(amt) - 1 /\ mmapSize \in Nat
    BY <1>2, UnixIoAssumption DEF FilesInv, CallTypes, Lower, MapTypes
  <1>4. mmapSize <= Size \/ unallocated = 1
    BY DEF FilesInv, MapOK
  <1>5. CASE Filled(off)
    <2>1. pc' = "hint.map" /\ UNCHANGED <<file, off, rc>>
      BY <1>5 DEF Fill
    <2>2. Size' >= Chunked(amt)'
      BY <1>2, <1>3, <1>5, <2>1 DEF Filled, Size
    <2>3. CallTypes' /\ HintOK'
      BY <1>1, <1>2, <2>1, <2>2 DEF HintOK, HintMakesRoom, FilesInv, CallTypes
    <2>4. FileTypes' /\ MapTypes' /\ RefTypes' /\ MapOK' /\ RefsOK'
      BY <1>1, <1>4, <2>1, MapKept DEF FilesInv, FileTypes, Size
    <2> QED
      BY <2>3, <2>4 DEF FilesInv
  <1>6. CASE ~Filled(off) /\ HintEnds("WRITE") /\ UNCHANGED <<file, off>>
    <2>1. CallTypes' /\ HintOK'
      BY <1>1, <1>6 DEF HintEnds, Return, HintOK, HintMakesRoom, FilesInv, CallTypes
    <2>2. FileTypes' /\ MapTypes' /\ RefTypes' /\ MapOK' /\ RefsOK'
      BY <1>1, <1>4, <1>6, MapKept DEF FilesInv, FileTypes, Size
    <2> QED
      BY <2>1, <2>2 DEF FilesInv
  <1>7. CASE /\ ~Filled(off)
             /\ file' = [longer EXCEPT ![iWrite + 1] = ZERO]
             /\ off' = iWrite + BlockSize
             /\ UNCHANGED <<pc, rc>>
    <2>1. pc = "hint.fill"
      BY DEF Fill
    <2>2. file' \in Seq(Int) /\ Size' >= Size /\ Size' >= iWrite + 1
      <3> HIDE DEF iWrite
      <3>0. iWrite + 1 \in Nat /\ file \in Seq(Int) /\ Len(file) = Size
        BY <1>3 DEF FilesInv, FileTypes, Size
      <3>1. longer \in Seq(Int) /\ Len(longer) >= Size /\ Len(longer) >= iWrite + 1
        <4>1. CASE iWrite + 1 > Size
          <5>1. Resized(file, iWrite + 1) \in Seq(Int) /\ Len(Resized(file, iWrite + 1)) = iWrite + 1
            BY <3>0, ResizedSeq
          <5>2. longer = Resized(file, iWrite + 1)
            BY <4>1
          <5> HIDE DEF longer
          <5> QED
            BY <1>2, <3>0, <4>1, <5>1, <5>2
        <4>2. CASE ~(iWrite + 1 > Size)
          BY <1>2, <3>0, <4>2
        <4> QED
          BY <4>1, <4>2
      <3>2. iWrite + 1 \in 1 .. Len(longer)
        BY <1>3, <3>1
      <3> HIDE DEF longer
      <3> QED
        BY <1>7, <3>1, <3>2, FirstBytesSet DEF Size
    <2>3. CallTypes'
      BY <1>1, <1>3, <1>7 DEF FilesInv, CallTypes
    <2>4. HintOK'
      <3> HIDE DEF iWrite, longer
      <3>1. 0 <= off' /\ off' <= Size' + BlockSize - 1
        BY <1>3, <1>7, <2>2 DEF Size
      <3> QED
        BY <1>1, <1>2, <1>7, <2>1, <3>1 DEF HintOK, HintMakesRoom
    <2>5. FileTypes' /\ MapTypes' /\ RefTypes' /\ MapOK' /\ RefsOK'
      BY <1>1, <1>2, <1>3, <1>4, <2>2, MapKept DEF FilesInv, FileTypes, Size
    <2> QED
      BY <2>3, <2>4, <2>5 DEF FilesInv
  <1> QED
    BY <1>5, <1>6, <1>7 DEF Fill

LEMMA HintMapInv ==
  ASSUME FilesInv, HintMap
  PROVE  FilesInv'
  <1>1. UNCHANGED <<build, unallocated, refVars, szChunk, off, amt, got, buf, before, nRetry>>
    BY DEF HintMap
  <1>2. /\ CallTypes' /\ Chunked(amt)' = Chunked(amt) /\ Chunked(amt) \in Nat /\ amt <= Chunked(amt)
        /\ amt \in Nat /\ Size \in Nat /\ file \in Seq(Int) /\ unallocated' \in {0, 1}
        /\ szChunk = 0 \/ Size >= Chunked(amt) \/ unallocated = 1
    BY <1>1, ChunkedReaches, SizeNat DEF FilesInv, FileTypes, CallTypes, Chunked, HintOK, HintMap
  <1>3. CASE HintEnds("TRUNCATE") /\ UNCHANGED <<file, mapVars>>
    <2>1. FileTypes' /\ MapTypes' /\ RefTypes' /\ MapOK' /\ RefsOK'
      BY <1>1, <1>2, <1>3, MapKept DEF FilesInv, FileTypes, MapOK, Size
    <2>2. HintOK'
      BY <1>3 DEF HintEnds, Return, HintOK, HintMakesRoom
    <2> QED
      BY <1>2, <2>1, <2>2 DEF FilesInv
  <1>4. CASE /\ IF mmapSizeMax > 0 /\ amt > mmapSize
                THEN /\ file' = IF szChunk = 0 THEN Resized(file, amt) ELSE file
                     /\ unixMapfile(amt)
                ELSE UNCHANGED <<file, mapVars>>
             /\ HintEnds("OK")
    <2>1. CASE mmapSizeMax > 0 /\ amt > mmapSize
      <3>1. file' = (IF szChunk = 0 THEN Resized(file, amt) ELSE file) /\ unixMapfile(amt)
        BY <1>4, <2>1
      <3>2. file' \in Seq(Int) /\ (szChunk = 0 => Size' = amt) /\ (szChunk # 0 => Size' = Size)
        BY <1>2, <3>1, ResizedSeq DEF Size
      <3>3. amt <= Size' \/ unallocated' = 1
        BY <1>1, <1>2, <3>2
      <3>4. mmapSize <= Size' \/ unallocated' = 1
        BY <1>2, <2>1, <3>2, <3>3 DEF FilesInv, MapTypes, Size
      <3>5. /\ FileTypes' /\ MapTypes' /\ MapOK' /\ moved' = 0
            /\ \A p \in fetched : p + FetchSize <= mmapSizeActual'
        BY <1>1, <1>2, <3>1, <3>2, <3>3, <3>4, UnixMapped
      <3>6. RefTypes' /\ RefsOK'
        BY <1>1, <3>5, RefsKept
      <3>7. HintOK'
        BY <1>1, <1>2, <1>4, <3>2 DEF HintEnds, Return, HintOK, HintMakesRoom, FilesInv, CallTypes
      <3> QED
        BY <1>2, <3>5, <3>6, <3>7 DEF FilesInv
    <2>2. CASE ~(mmapSizeMax > 0 /\ amt > mmapSize)
      <3>1. FileTypes' /\ MapTypes' /\ RefTypes' /\ MapOK' /\ RefsOK'
        BY <1>1, <1>2, <1>4, <2>2, MapKept DEF FilesInv, FileTypes, MapOK, Size
      <3>2. HintOK'
        BY <1>1, <1>2, <1>4, <2>2 DEF HintEnds, Return, HintOK, HintMakesRoom, FilesInv, CallTypes, Size
      <3> QED
        BY <1>2, <3>1, <3>2 DEF FilesInv
    <2> QED
      BY <2>1, <2>2
  <1> QED
    BY <1>3, <1>4 DEF HintMap

(***************************************************************************)
(* The mapping on Windows.                                                 *)
(***************************************************************************)
GoodMap(m) ==
  /\ m \in [region : {0, 1}, size : Nat, moved : {0}]
  /\ m.region = 0 => m.size = 0

LEMMA MappingGood ==
  ASSUME FilesInv, build.system = "windows"
  PROVE  /\ GoodMap(Mapping) /\ Mapping.size = mmapSize
         /\ mmapSizeActual = mmapSize /\ Mapping.region = pMapRegion
  BY DEF FilesInv, MapTypes, MapOK, RefsOK, GoodMap, Mapping

LEMMA WinUnmapped ==
  ASSUME NEW m, GoodMap(m), fetched = {}, NEW u \in winUnmapfile(m)
  PROVE  GoodMap(u) /\ u.size <= m.size
  <1>1. u = m \/ u = [region |-> 0, size |-> 0, moved |-> m.moved]
    BY DEF winUnmapfile
  <1> QED
    BY <1>1 DEF GoodMap

(* A new mapping reaches no further than asked for.                        *)
LEMMA WinMapped ==
  ASSUME FilesInv, NEW m, GoodMap(m), NEW n \in Nat, NEW max \in Nat, NEW x \in winMapfile(m, n, max)
  PROVE  GoodMap(x) /\ (x.size <= n \/ x.size <= m.size) /\ (fetched # {} => x = m)
  <1>1. nFetchOut \in Nat /\ (nFetchOut = 0 <=> fetched = {})
    BY NoneOut DEF FilesInv
  <1>2. CASE nFetchOut > 0
    BY <1>1, <1>2 DEF winMapfile, GoodMap
  <1>3. CASE ~(nFetchOut > 0)
    <2> DEFINE nMap == (Lower(n, max) \div PageSize) * PageSize
               old == IF nMap = 0 /\ m.size > 0 THEN winUnmapfile(m) ELSE {m}
    <2>1. nMap \in Nat /\ nMap <= n
      BY DivMod, WinIoAssumption DEF Lower
    <2>2. fetched = {}
      BY <1>1, <1>3
    <2>3. \A u \in old : GoodMap(u) /\ u.size <= m.size
      BY <2>2, WinUnmapped DEF GoodMap
    <2>4. \/ x \in old
          \/ \E u \in old : \E v \in winUnmapfile(u) :
               x = v \/ x = [region |-> 1, size |-> nMap, moved |-> v.moved]
      BY <1>3 DEF winMapfile
    <2> HIDE DEF nMap, old
    <2>5. CASE x \in old
      BY <2>2, <2>3, <2>5
    <2>6. CASE \E u \in old : \E v \in winUnmapfile(u) :
                 x = v \/ x = [region |-> 1, size |-> nMap, moved |-> v.moved]
      <3>0. PICK u \in old :
              \E v \in winUnmapfile(u) : x = v \/ x = [region |-> 1, size |-> nMap, moved |-> v.moved]
        BY <2>6
      <3>1. PICK v \in winUnmapfile(u) : x = v \/ x = [region |-> 1, size |-> nMap, moved |-> v.moved]
        BY <3>0
      <3>2. GoodMap(u) /\ u.size <= m.size
        BY <2>3
      <3>3. GoodMap(v) /\ v.size <= u.size
        BY <2>2, <3>2, WinUnmapped
      <3> QED
        BY <2>1, <2>2, <3>1, <3>2, <3>3 DEF GoodMap
    <2> QED
      BY <2>4, <2>5, <2>6
  <1> QED
    BY <1>2, <1>3

LEMMA BecomeInv ==
  ASSUME FilesInv, build.system = "windows", UNCHANGED build,
         NEW m, GoodMap(m), NEW max \in Nat, Become(m, max),
         file' \in Seq(Int), unallocated' \in {0, 1}, m.size <= Size' \/ unallocated' = 1
  PROVE  /\ FileTypes' /\ MapTypes' /\ MapOK' /\ moved' = 0
         /\ mmapSizeActual' = m.size /\ mmapSize' = m.size
  BY DEF FilesInv, FileTypes, MapTypes, MapOK, Become, GoodMap

LEMMA WinFetchInv ==
  ASSUME FilesInv, NEW o \in Offsets, winFetch(o)
  PROVE  FilesInv'
  <1>1. UNCHANGED fileVars /\ UNCHANGED build /\ CallTypes' /\ HintOK' /\ build.system = "windows"
    BY CallKept DEF winFetch, Windows
  <1>2. /\ Size' = Size /\ file' \in Seq(Int) /\ unallocated' \in {0, 1} /\ Size \in Nat
        /\ unallocated' = unallocated /\ mmapSizeMax \in Nat /\ mmapSize \in Nat
    BY <1>1, SizeNat DEF fileVars, Size, FilesInv, FileTypes, MapTypes
  <1>3. PICK m \in IF mmapSizeMax > 0 /\ pMapRegion = 0 THEN winMapfile(Mapping, Size, mmapSizeMax)
                   ELSE {Mapping} :
          Become(m, mmapSizeMax)
    BY DEF winFetch
  <1>4. GoodMap(m) /\ (m.size <= Size \/ m.size <= mmapSize) /\ (fetched # {} => m.size = mmapSizeActual)
    BY <1>1, <1>2, <1>3, MappingGood, WinMapped
  <1>5. m.size <= Size' \/ unallocated' = 1
    BY <1>2, <1>4 DEF FilesInv, MapOK, GoodMap
  <1>6. /\ FileTypes' /\ MapTypes' /\ MapOK' /\ moved' = 0
        /\ mmapSizeActual' = m.size /\ mmapSize' = m.size
    BY <1>1, <1>2, <1>3, <1>4, <1>5, BecomeInv
  <1>7. \A p \in fetched : p + FetchSize <= mmapSizeActual'
    BY <1>4, <1>6 DEF FilesInv, RefsOK
  <1>8. RefTypes' /\ RefsOK'
    BY <1>6, <1>7, HandedOut DEF winFetch, MapTypes, MapOK
  <1> QED
    BY <1>1, <1>6, <1>8 DEF FilesInv

LEMMA WinOthersWriteInv ==
  ASSUME FilesInv, WinOthersWrite
  PROVE  FilesInv'
  <1>1. UNCHANGED <<unallocated, refVars>> /\ UNCHANGED build /\ CallTypes' /\ HintOK'
        /\ build.system = "windows"
    BY CallKept DEF WinOthersWrite, Windows
  <1>2. PICK n \in 0 .. MaxSize : (pMapRegion = 1 => n >= Size) /\ file' = [i \in 1 .. n |-> OLD]
    BY DEF WinOthersWrite
  <1>3. file' \in Seq(Int) /\ Size' = n /\ n \in Nat
    BY <1>2, OldSeq, FileIoAssumption DEF Size
  <1>4. fetched = {}
    BY NoneOut DEF WinOthersWrite, FilesInv
  <1>5. PICK m \in winUnmapfile(Mapping) : Become(m, mmapSizeMax)
    BY DEF WinOthersWrite
  <1>6. GoodMap(m) /\ m.size <= mmapSize
    BY <1>1, <1>4, MappingGood, WinUnmapped
  <1>7. mmapSize \in Nat /\ mmapSizeMax \in Nat /\ unallocated' \in {0, 1} /\ Size \in Nat
    BY <1>1, SizeNat DEF FilesInv, MapTypes, FileTypes
  <1>8. m.size <= Size' \/ unallocated' = 1
    BY <1>1, <1>2, <1>3, <1>6, <1>7 DEF FilesInv, MapTypes, MapOK, GoodMap
  <1>9. FileTypes' /\ MapTypes' /\ MapOK' /\ moved' = 0
    BY <1>1, <1>3, <1>5, <1>6, <1>7, <1>8, BecomeInv
  <1>10. RefTypes' /\ RefsOK'
    BY <1>1, <1>4, <1>9, RefsKept
  <1> QED
    BY <1>1, <1>9, <1>10 DEF FilesInv

LEMMA WinSetMmapSizeInv ==
  ASSUME FilesInv, NEW newLimit \in Limits, WinSetMmapSize(newLimit)
  PROVE  FilesInv'
  <1>1. UNCHANGED <<fileVars, refVars>> /\ UNCHANGED build /\ CallTypes' /\ HintOK'
        /\ build.system = "windows"
    BY CallKept DEF WinSetMmapSize, Windows
  <1>2. /\ Size' = Size /\ file' \in Seq(Int) /\ unallocated' \in {0, 1} /\ Size \in Nat
        /\ fetched = {} /\ newLimit \in Nat /\ mmapSize \in Nat /\ unallocated' = unallocated
    BY <1>1, SizeNat, NoneOut, FileIoAssumption
       DEF WinSetMmapSize, fileVars, Size, FilesInv, FileTypes, MapTypes
  <1>u. PICK u \in IF mmapSize > 0 THEN winUnmapfile(Mapping) ELSE {Mapping} :
          \E m \in IF mmapSize > 0 THEN {u} \cup winMapfile(u, Size, newLimit) ELSE {u} :
            Become(m, newLimit)
    BY DEF WinSetMmapSize
  <1>3. PICK m \in IF mmapSize > 0 THEN {u} \cup winMapfile(u, Size, newLimit) ELSE {u} :
          Become(m, newLimit)
    BY <1>u
  <1>4. GoodMap(u) /\ u.size <= mmapSize
    BY <1>1, <1>2, MappingGood, WinUnmapped
  <1>5. m = u \/ m \in winMapfile(u, Size, newLimit)
    BY <1>3
  <1>6. GoodMap(m) /\ (m.size <= Size \/ m.size <= u.size)
    BY <1>2, <1>4, <1>5, WinMapped DEF GoodMap
  <1>7. m.size <= Size' \/ unallocated' = 1
    BY <1>2, <1>4, <1>6 DEF FilesInv, MapOK, GoodMap
  <1>8. FileTypes' /\ MapTypes' /\ MapOK' /\ moved' = 0
    BY <1>1, <1>2, <1>3, <1>6, <1>7, BecomeInv
  <1>9. RefTypes' /\ RefsOK'
    BY <1>1, <1>2, <1>8, RefsKept
  <1> QED
    BY <1>1, <1>8, <1>9 DEF FilesInv

(* What a truncation leaves: a mapping inside the file, which has the size *)
(* asked for if it was to become longer and nothing failed.                *)
GoodOutcome(o, n) ==
  /\ o.size \in Nat /\ GoodMap(o.map)
  /\ o.map.size <= o.size \/ unallocated = 1
  /\ o.rc = "OK" => o.size >= n \/ n < Size

LEMMA EndGood ==
  ASSUME FilesInv, build.system = "windows", fetched = {}, NEW n \in Nat,
         NEW u \in winUnmapfile(Mapping), NEW o \in EndsOfFile(n, u)
  PROVE  /\ GoodOutcome(o, n) /\ o.map = u /\ u.size <= mmapSize
         /\ o.rc = "OK" => o.size >= n \/ o.size = Size
  <1>1. GoodMap(u) /\ u.size <= mmapSize
    BY MappingGood, WinUnmapped
  <1>2. Size \in Nat /\ mmapSize \in Nat /\ (mmapSize <= Size \/ unallocated = 1)
    BY SizeNat DEF FilesInv, MapTypes, MapOK
  <1>3. \/ o = [size |-> Size, map |-> u, rc |-> "TRUNCATE"]
        \/ n < Size /\ o = [size |-> Size, map |-> u, rc |-> "OK"]
        \/ ~(n < Size /\ u.region = 1) /\ o = [size |-> n, map |-> u, rc |-> "OK"]
    BY DEF EndsOfFile, Outcome
  <1>4. u.size \in Nat /\ u.region \in {0, 1} /\ (u.region = 0 => u.size = 0)
    BY <1>1 DEF GoodMap
  <1>5. CASE o = [size |-> Size, map |-> u, rc |-> "TRUNCATE"]
    BY <1>1, <1>2, <1>4, <1>5 DEF GoodOutcome
  <1>6. CASE n < Size /\ o = [size |-> Size, map |-> u, rc |-> "OK"]
    BY <1>1, <1>2, <1>4, <1>6 DEF GoodOutcome
  <1>7. CASE ~(n < Size /\ u.region = 1) /\ o = [size |-> n, map |-> u, rc |-> "OK"]
    BY <1>1, <1>2, <1>4, <1>7 DEF GoodOutcome
  <1> QED
    BY <1>3, <1>5, <1>6, <1>7

LEMMA RemappedGood ==
  ASSUME FilesInv, build.system = "windows", fetched = {}, NEW n \in Nat,
         NEW u \in winUnmapfile(Mapping), NEW e \in EndsOfFile(n, u), NEW o \in Remapped(e, n)
  PROVE  GoodOutcome(o, n)
  <1> DEFINE oldMmapSize == IF pMapRegion = 1 THEN mmapSize ELSE 0
             maps == IF e.rc # "OK" \/ oldMmapSize = 0 THEN {e.map}
                     ELSE IF oldMmapSize > n THEN {e.map} \cup winMapfile(e.map, e.size, mmapSizeMax)
                     ELSE winMapfile(e.map, oldMmapSize, mmapSizeMax)
  <1>1. /\ GoodOutcome(e, n) /\ e.map = u /\ u.size <= mmapSize
        /\ e.rc = "OK" => e.size >= n \/ e.size = Size
    BY EndGood
  <1>2. PICK m \in maps : o = [e EXCEPT !.map = m]
    BY DEF Remapped
  <1>3. Size \in Nat /\ mmapSize \in Nat /\ mmapSizeMax \in Nat
        /\ (mmapSize <= Size \/ unallocated = 1)
    BY SizeNat DEF FilesInv, MapTypes, MapOK
  <1>4. GoodMap(e.map) /\ e.map.size \in Nat /\ e.size \in Nat
    BY <1>1 DEF GoodOutcome, GoodMap
  <1>5. GoodMap(m) /\ (m.size <= e.size \/ unallocated = 1)
    <2>1. CASE m = e.map
      BY <1>1, <2>1 DEF GoodOutcome
    <2>2. CASE m \in winMapfile(e.map, e.size, mmapSizeMax)
      <3>1. GoodMap(m) /\ (m.size <= e.size \/ m.size <= e.map.size)
        BY <1>3, <1>4, <2>2, WinMapped
      <3> QED
        BY <1>1, <1>4, <3>1 DEF GoodOutcome, GoodMap
    <2>3. CASE e.rc = "OK" /\ oldMmapSize <= n /\ m \in winMapfile(e.map, oldMmapSize, mmapSizeMax)
      <3>1. oldMmapSize \in Nat /\ oldMmapSize <= mmapSize
        BY <1>3
      <3>2. GoodMap(m) /\ (m.size <= oldMmapSize \/ m.size <= e.map.size)
        BY <1>3, <1>4, <2>3, <3>1, WinMapped
      <3>3. m.size \in Nat
        BY <3>2 DEF GoodMap
      <3>4. oldMmapSize <= e.size \/ unallocated = 1
        BY <1>1, <1>3, <1>4, <2>3, <3>1
      <3> HIDE DEF oldMmapSize
      <3> QED
        BY <1>1, <1>4, <3>1, <3>2, <3>3, <3>4 DEF GoodOutcome
    <2>4. \/ m = e.map \/ m \in winMapfile(e.map, e.size, mmapSizeMax)
          \/ e.rc = "OK" /\ oldMmapSize <= n /\ m \in winMapfile(e.map, oldMmapSize, mmapSizeMax)
      BY <1>3
    <2> QED
      BY <2>1, <2>2, <2>3, <2>4
  <1>6. o.map = m /\ o.size = e.size /\ o.rc = e.rc
    <2>1. \E s, w, c : e = [size |-> s, map |-> w, rc |-> c]
      BY DEF EndsOfFile, Outcome
    <2> HIDE DEF maps
    <2> QED
      BY <1>2, <2>1
  <1> QED
    BY <1>1, <1>5, <1>6 DEF GoodOutcome

LEMMA WinTruncated ==
  ASSUME FilesInv, build.system = "windows", NEW n \in Nat, NEW o \in winTruncate(n)
  PROVE  /\ o.size \in Nat /\ GoodMap(o.map)
         /\ o.map.size <= o.size \/ unallocated = 1
         /\ o.rc = "OK" => o.size >= Chunked(n) \/ Chunked(n) < Size \/ fetched # {}
         /\ fetched # {} => o.map = Mapping
  <1>1. nFetchOut \in Nat /\ (nFetchOut = 0 <=> fetched = {})
    BY NoneOut DEF FilesInv
  <1>2. CASE nFetchOut > 0
    <2>1. o = [size |-> Size, map |-> Mapping, rc |-> "OK"]
      BY <1>2 DEF winTruncate, Outcome
    <2>2. GoodMap(Mapping) /\ Mapping.size = mmapSize /\ Size \in Nat
      BY MappingGood, SizeNat DEF FilesInv
    <2> QED
      BY <1>1, <1>2, <2>1, <2>2 DEF FilesInv, MapOK
  <1>3. CASE ~(nFetchOut > 0)
    <2>1. PICK u \in winUnmapfile(Mapping) :
            \E e \in EndsOfFile(Chunked(n), u) : o \in Remapped(e, Chunked(n))
      BY <1>3 DEF winTruncate
    <2>2. PICK e \in EndsOfFile(Chunked(n), u) : o \in Remapped(e, Chunked(n))
      BY <2>1
    <2>3. Chunked(n) \in Nat
      BY ChunkedReaches DEF FilesInv, CallTypes
    <2>4. GoodOutcome(o, Chunked(n))
      BY <1>1, <1>3, <2>2, <2>3, RemappedGood
    <2> QED
      BY <1>1, <1>3, <2>4 DEF GoodOutcome
  <1> QED
    BY <1>2, <1>3

LEMMA WinTruncateInv ==
  ASSUME FilesInv, NEW n \in Nat, WinTruncate(n)
  PROVE  FilesInv'
  <1>1. UNCHANGED <<unallocated, refVars>> /\ UNCHANGED build /\ CallTypes' /\ HintOK'
        /\ build.system = "windows"
    BY CallKept DEF WinTruncate, Windows
  <1>2. PICK o \in winTruncate(n) : file' = [i \in 1 .. o.size |-> OLD] /\ Become(o.map, mmapSizeMax)
    BY DEF WinTruncate
  <1>3. /\ o.size \in Nat /\ GoodMap(o.map) /\ (o.map.size <= o.size \/ unallocated = 1)
        /\ fetched # {} => o.map = Mapping
    BY <1>1, WinTruncated
  <1>4. /\ file' \in Seq(Int) /\ Size' = o.size /\ unallocated' \in {0, 1} /\ mmapSizeMax \in Nat
        /\ o.map.size <= Size' \/ unallocated' = 1
    BY <1>1, <1>2, <1>3, OldSeq DEF Size, FilesInv, FileTypes, MapTypes
  <1>5. FileTypes' /\ MapTypes' /\ MapOK' /\ moved' = 0 /\ mmapSizeActual' = o.map.size
    BY <1>1, <1>2, <1>3, <1>4, BecomeInv
  <1>6. \A p \in fetched : p + FetchSize <= mmapSizeActual'
    BY <1>1, <1>3, <1>5, MappingGood DEF FilesInv, RefsOK
  <1>7. RefTypes' /\ RefsOK'
    BY <1>1, <1>5, <1>6, RefsKept
  <1> QED
    BY <1>1, <1>5, <1>7 DEF FilesInv

LEMMA WinSizeHintInv ==
  ASSUME FilesInv, NEW n \in Nat, WinSizeHint(n)
  PROVE  FilesInv'
  <1>1. UNCHANGED <<build, unallocated, refVars, szChunk>> /\ build.system = "windows"
    BY DEF WinSizeHint, Windows
  <1> DEFINE Outcomes ==
               IF szChunk > 0
               THEN {Outcome(Size, Mapping, "FSTAT")}
                      \cup (IF n > Size THEN winTruncate(n) ELSE {Outcome(Size, Mapping, "OK")})
               ELSE {Outcome(Size, Mapping, "OK")}
  <1>2. PICK o \in Outcomes :
          /\ Begin("hint.done", 0, n, 0, o.rc)
          /\ file' = Resized(file, o.size)
          /\ Become(o.map, mmapSizeMax)
    BY DEF WinSizeHint
  <1>3. /\ GoodMap(Mapping) /\ Mapping.size = mmapSize /\ Size \in Nat /\ mmapSizeMax \in Nat
        /\ szChunk \in Nat /\ Chunked(n) \in Nat /\ n <= Chunked(n)
        /\ mmapSize <= Size \/ unallocated = 1
    BY <1>1, MappingGood, SizeNat, ChunkedReaches DEF FilesInv, MapTypes, MapOK, CallTypes
  <1>4. /\ o.size \in Nat /\ GoodMap(o.map) /\ (o.map.size <= o.size \/ unallocated = 1)
        /\ fetched # {} => o.map = Mapping
        /\ o.rc = "OK" /\ szChunk > 0 => o.size >= Chunked(n) \/ fetched # {} \/ n <= Size
    <2>1. CASE o = [size |-> Size, map |-> Mapping, rc |-> "FSTAT"]
      BY <1>3, <2>1
    <2>2. CASE ~(szChunk > 0 /\ n > Size) /\ o = [size |-> Size, map |-> Mapping, rc |-> "OK"]
      BY <1>3, <2>2
    <2>3. CASE n > Size /\ o \in winTruncate(n)
      BY <1>1, <1>3, <2>3, WinTruncated
    <2>4. \/ o = [size |-> Size, map |-> Mapping, rc |-> "FSTAT"]
          \/ ~(szChunk > 0 /\ n > Size) /\ o = [size |-> Size, map |-> Mapping, rc |-> "OK"]
          \/ n > Size /\ o \in winTruncate(n)
      BY DEF Outcome
    <2> QED
      BY <2>1, <2>2, <2>3, <2>4
  <1>5. /\ file' \in Seq(Int) /\ Size' = o.size /\ unallocated' \in {0, 1}
        /\ o.map.size <= Size' \/ unallocated' = 1
    BY <1>1, <1>2, <1>4, ResizedSeq DEF Size, FilesInv, FileTypes
  <1>6. FileTypes' /\ MapTypes' /\ MapOK' /\ moved' = 0 /\ mmapSizeActual' = o.map.size
    BY <1>1, <1>2, <1>3, <1>4, <1>5, BecomeInv
  <1>7. \A p \in fetched : p + FetchSize <= mmapSizeActual'
    BY <1>1, <1>4, <1>6, MappingGood DEF FilesInv, RefsOK
  <1>8. RefTypes' /\ RefsOK'
    BY <1>1, <1>6, <1>7, RefsKept
  <1>9. pc' = "hint.done" /\ off' = 0 /\ amt' = n /\ got' = 0 /\ before' = Size /\ rc' = o.rc
    BY <1>2 DEF Begin
  <1>10. CallTypes'
    BY <1>1, <1>3, <1>9 DEF CallTypes
  <1>11. Chunked(amt)' = Chunked(n) /\ fetched' = fetched
    BY <1>1, <1>9 DEF Chunked, refVars
  <1>12. HintOK'
    BY <1>1, <1>3, <1>4, <1>5, <1>9, <1>11 DEF HintOK, HintMakesRoom
  <1> QED
    BY <1>6, <1>8, <1>10, <1>12 DEF FilesInv

(***************************************************************************)
(* All calls together.                                                     *)
(***************************************************************************)
LEMMA InitInv ==
  ASSUME FileInit
  PROVE  FilesInv
  <1>1. FileTypes /\ MapTypes /\ CallTypes /\ MapOK
    BY FileIoAssumption DEF FileInit, FileTypes, MapTypes, CallTypes, MapOK, Size
  <1>2. RefTypes /\ RefsOK
    BY FS_EmptySet DEF FileInit, RefTypes, RefsOK
  <1>3. HintOK
    BY DEF FileInit, HintOK, HintMakesRoom
  <1> QED
    BY <1>1, <1>2, <1>3 DEF FilesInv

LEMMA UnixNextInv ==
  ASSUME FilesInv, UnixNext
  PROVE  FilesInv'
  <1>0. 1 .. MaxAmount \subseteq Nat /\ 0 .. MaxSize \subseteq Nat /\ 1 .. MaxSize \subseteq Nat
    BY FileIoAssumption
  <1>1. CASE \E o \in Offsets, n \in 1 .. MaxAmount :
               Unix /\ o + n <= MaxSize /\ (ReadMapping(o, n) \/ WriteMapping(o, n))
    BY <1>0, <1>1, ReadMappingInv, WriteMappingInv
  <1>2. CASE seekAndRead \/ seekAndWrite
    BY <1>2, ReadInv, WriteInv
  <1>3. CASE \E o \in Offsets : unixFetch(o)
    BY <1>3, UnixFetchInv
  <1>4. CASE OthersWrite
    BY <1>4, OthersWriteInv
  <1>5. CASE \E n \in Limits : SetMmapSize(n)
    BY <1>5, SetMmapSizeInv
  <1>6. CASE \E n \in 0 .. MaxSize : unixTruncate(n)
    BY <1>0, <1>6, UnixTruncateInv
  <1>7. CASE \E n \in 1 .. MaxSize : SizeHint(n)
    BY <1>0, <1>7, SizeHintInv
  <1>8. CASE Allocate \/ Fill \/ HintMap
    BY <1>8, AllocateInv, FillInv, HintMapInv
  <1> QED
    BY <1>1, <1>2, <1>3, <1>4, <1>5, <1>6, <1>7, <1>8 DEF UnixNext

LEMMA WinNextInv ==
  ASSUME FilesInv, WinNext
  PROVE  FilesInv'
  <1>0. 1 .. MaxAmount \subseteq Nat /\ 0 .. MaxSize \subseteq Nat /\ 1 .. MaxSize \subseteq Nat
    BY FileIoAssumption
  <1>1. CASE \E o \in Offsets, n \in 1 .. MaxAmount :
               Windows /\ o + n <= MaxSize /\ (ReadMapping(o, n) \/ WriteMapping(o, n))
    BY <1>0, <1>1, ReadMappingInv, WriteMappingInv
  <1>2. CASE winRead \/ winWrite
    BY <1>2, ReadInv, WriteInv
  <1>3. CASE \E o \in Offsets : winFetch(o)
    BY <1>3, WinFetchInv
  <1>4. CASE WinOthersWrite
    BY <1>4, WinOthersWriteInv
  <1>5. CASE \E n \in Limits : WinSetMmapSize(n)
    BY <1>5, WinSetMmapSizeInv
  <1>6. CASE \E n \in 0 .. MaxSize : WinTruncate(n)
    BY <1>0, <1>6, WinTruncateInv
  <1>7. CASE \E n \in 1 .. MaxSize : WinSizeHint(n)
    BY <1>0, <1>7, WinSizeHintInv
  <1> QED
    BY <1>1, <1>2, <1>3, <1>4, <1>5, <1>6, <1>7 DEF WinNext

LEMMA StepInv ==
  ASSUME FilesInv, [FilesNext]_ioVars
  PROVE  FilesInv'
  <1>1. CASE UnixNext
    BY <1>1, UnixNextInv
  <1>2. CASE WinNext
    BY <1>2, WinNextInv
  <1>3. CASE FileNext
    BY <1>3, UnfetchInv, SetChunkSizeInv, CloseInv, FinishInv DEF FileNext
  <1>4. CASE UNCHANGED ioVars
    <2>1. UNCHANGED <<build, fileVars, mapVars, refVars, szChunk, pc, callVars>>
      BY <1>4 DEF ioVars
    <2>2. FileTypes' /\ MapTypes' /\ RefTypes' /\ MapOK' /\ RefsOK'
      BY <2>1, MapKept DEF FilesInv, FileTypes, MapOK, fileVars, Size
    <2>3. CallTypes'
      BY <2>1 DEF FilesInv, CallTypes, callVars
    <2>4. HintOK'
      BY <2>1 DEF FilesInv, HintOK, HintMakesRoom, Chunked, Size, RoundUp, fileVars, refVars, callVars
    <2> QED
      BY <2>2, <2>3, <2>4 DEF FilesInv
  <1> QED
    BY <1>1, <1>2, <1>3, <1>4 DEF FilesNext

LEMMA AlwaysFilesInv == FilesSpec => []FilesInv
  <1>1. FilesInv /\ [FilesNext]_ioVars => FilesInv'
    BY StepInv
  <1> QED
    BY InitInv, <1>1, PTL DEF FilesSpec

(* The mapping is inside the file and within the limit, and what is handed *)
(* out of it stays mapped at its place, whatever was asked of the file     *)
(* and whichever of its system calls failed (unixMapfile, unixFetch,       *)
(* unixTruncate, SQLITE_FCNTL_MMAP_SIZE, and the same on Windows).         *)
THEOREM MappingAlwaysValid == FilesSpec => []MappingValid
  <1>1. FilesInv => MappingValid
    BY DEF FilesInv, MapOK, RefsOK, MappingValid
  <1> QED
    BY AlwaysFilesInv, <1>1, PTL

(***************************************************************************)
(* The bytes.  What is in the file while a call is under way follows from  *)
(* its size at the start and how far the call has got.                     *)
(***************************************************************************)
Olds(n) == [i \in 1 .. n |-> OLD]
Grown(size, n) == [i \in 1 .. n |-> IF i <= size THEN OLD ELSE ZERO]
TheCall(op, o, n, size) == [op |-> op, off |-> o, amt |-> n, size |-> size]
FirstByte(op) == IF op = "hint" THEN 0 ELSE off

Steps == {"idle"} \cup Ops.read \cup Ops.write \cup Ops.hint

ApiInv ==
  /\ Size <= MaxSize /\ pc \in Steps
  /\ pc = "idle" => file = Olds(Size)
  /\ pc # "idle" => amt \in 1 .. MaxSize /\ before \in 0 .. MaxSize
  /\ pc \in Ops.read \cup Ops.write => off \in 0 .. MaxSize /\ off + amt <= MaxSize
  /\ pc \in Ops.read => file = Olds(Size) /\ before = Size
  /\ pc = "read" =>
       got < amt /\ (got = 0 \/ off + got <= Size) /\ buf = [i \in 1 .. got |-> off + i]
  /\ pc \in Ops.write => got <= amt /\ file = Api!Written(TheCall("write", off, amt, before), got)
  /\ pc = "write" => got < amt
  /\ pc \in Ops.hint => file = Grown(before, Size)
  /\ pc \in {"hint.allocate", "hint.fill", "hint.map"} => before <= Size /\ Chunked(amt) <= MaxSize
  /\ pc \in {"hint.allocate", "hint.fill"} => before < Chunked(amt)
  /\ pc = "hint.fill" => before <= off

LEMMA OpIs == \A op \in DOMAIN Ops : pc \in Ops[op] => Op = op
BY DEF Ops, Op

LEMMA CallIs ==
  \A op \in DOMAIN Ops :
    pc \in Ops[op] => ApiCall = TheCall(op, FirstByte(op), amt, before) /\ ApiCall # <<>>
<1> SUFFICES ASSUME NEW op \in DOMAIN Ops, pc \in Ops[op]
             PROVE  ApiCall = TheCall(op, FirstByte(op), amt, before) /\ ApiCall # <<>>
  OBVIOUS
<1>1. Op = op
  BY OpIs
<1>2. pc # "idle"
  BY DEF Ops
<1>3. ApiCall = TheCall(op, FirstByte(op), amt, before)
  BY <1>1, <1>2 DEF ApiCall, TheCall, FirstByte
<1>4. TheCall(op, FirstByte(op), amt, before) # <<>>
  BY DEF TheCall
<1>5. QED
  BY <1>3, <1>4

LEMMA CallIsNext ==
  \A op \in DOMAIN Ops :
    pc' \in Ops[op] => ApiCall' = TheCall(op, FirstByte(op)', amt', before') /\ ApiCall' # <<>>
<1>1. (\A op \in DOMAIN Ops :
         pc \in Ops[op] => ApiCall = TheCall(op, FirstByte(op), amt, before) /\ ApiCall # <<>>)'
  BY CallIs, PTL
<1>2. QED
  BY <1>1 DEF Ops, TheCall, FirstByte

Stored(f, o, first, k) ==
  [i \in 1 .. (IF k > 0 /\ o + k > Len(f) THEN o + k ELSE Len(f)) |->
     IF i > o /\ i <= o + k THEN first + (i - o) - 1
     ELSE IF i <= Len(f) THEN f[i] ELSE ZERO]

LEMMA OverwrittenIs ==
  ASSUME NEW f \in Seq(Int), NEW o \in Nat, NEW first \in Nat, NEW k \in Nat
  PROVE  Overwritten(f, o, first, first + k - 1) = Stored(f, o, first, k)
<1> DEFINE size == IF k > 0 /\ o + k > Len(f) THEN o + k ELSE Len(f)
           longer == IF k > 0 /\ o + k > Len(f) THEN Resized(f, o + k) ELSE f
<1>1. first + k - 1 - first + 1 = k /\ Len(f) \in Nat /\ size \in Nat
  OBVIOUS
<1>2. Len(longer) = size /\ \A i \in 1 .. size : longer[i] = IF i <= Len(f) THEN f[i] ELSE ZERO
  <2>1. CASE k > 0 /\ o + k > Len(f)
    <3>1. longer = [i \in 1 .. o + k |-> IF i <= Len(f) THEN f[i] ELSE ZERO]
      BY <2>1 DEF Resized
    <3>2. o + k \in Nat /\ size = o + k
      BY <2>1
    <3>3. QED
      BY <3>1, <3>2
  <2>2. CASE ~(k > 0 /\ o + k > Len(f))
    BY <1>1, <2>2
  <2>3. QED
    BY <2>1, <2>2
<1> HIDE DEF longer, size
<1>3. Overwritten(f, o, first, first + k - 1)
        = [i \in 1 .. Len(longer) |-> IF i > o /\ i <= o + k THEN first + (i - o) - 1 ELSE longer[i]]
  BY <1>1 DEF Overwritten, longer
<1>4. Overwritten(f, o, first, first + k - 1)
        = [i \in 1 .. size |-> IF i > o /\ i <= o + k THEN first + (i - o) - 1
                               ELSE IF i <= Len(f) THEN f[i] ELSE ZERO]
  BY <1>2, <1>3
<1>5. QED
  BY <1>4 DEF size, Stored

(* A piece of the buffer goes behind what is written already.              *)
GoesBehind(o, n, size, k, more) ==
  Overwritten(Api!Written(TheCall("write", o, n, size), k), o + k, k + 1, k + more)
    = Api!Written(TheCall("write", o, n, size), k + more)

LEMMA WriteMore ==
  ASSUME NEW o \in Nat, NEW n \in Nat, NEW size \in Nat, NEW k \in Nat, NEW more \in Nat
  PROVE  GoesBehind(o, n, size, k, more)
<1> DEFINE c == TheCall("write", o, n, size)
           w == IF k > 0 /\ o + k > size THEN o + k ELSE size
           f == Api!Written(c, k)
           w2 == IF more > 0 /\ (o + k) + more > w THEN (o + k) + more ELSE w
<1>1. c.off = o /\ c.size = size
  BY DEF TheCall
<1>2. f = [i \in 1 .. w |-> IF o < i /\ i <= o + k THEN i - o ELSE IF i <= size THEN OLD ELSE ZERO]
  BY <1>1 DEF Api!Written
<1>3. w \in Nat
  OBVIOUS
<1>4. f \in Seq(Int) /\ Len(f) = w
  BY <1>2, <1>3 DEF OLD, ZERO
<1> HIDE DEF f, c
<1>5. Overwritten(f, o + k, k + 1, (k + 1) + more - 1)
        = [i \in 1 .. w2 |-> IF i > o + k /\ i <= (o + k) + more THEN (k + 1) + (i - (o + k)) - 1
                             ELSE IF i <= w THEN f[i] ELSE ZERO]
  <2>1. o + k \in Nat /\ k + 1 \in Nat
    OBVIOUS
  <2>2. Overwritten(f, o + k, k + 1, (k + 1) + more - 1) = Stored(f, o + k, k + 1, more)
    BY <1>4, <2>1, OverwrittenIs
  <2>3. QED
    BY <1>4, <2>2 DEF Stored
<1>6. w2 = IF k + more > 0 /\ o + (k + more) > size THEN o + (k + more) ELSE size
  OBVIOUS
<1>7. Api!Written(c, k + more)
        = [i \in 1 .. w2 |-> IF o < i /\ i <= o + (k + more) THEN i - o
                             ELSE IF i <= size THEN OLD ELSE ZERO]
  BY <1>1, <1>6 DEF Api!Written
<1>8. w2 \in Nat
  OBVIOUS
<1>9. \A i \in 1 .. w2 :
        (IF i > o + k /\ i <= (o + k) + more THEN (k + 1) + (i - (o + k)) - 1
         ELSE IF i <= w THEN f[i] ELSE ZERO)
        = IF o < i /\ i <= o + (k + more) THEN i - o ELSE IF i <= size THEN OLD ELSE ZERO
  <2> TAKE i \in 1 .. w2
  <2>1. i \in Nat /\ i >= 1
    BY <1>8
  <2>2. CASE i > o + k /\ i <= (o + k) + more
    <3>1. o < i /\ i <= o + (k + more) /\ (k + 1) + (i - (o + k)) - 1 = i - o
      BY <2>1, <2>2
    <3>2. QED
      BY <2>2, <3>1
  <2>3. CASE ~(i > o + k /\ i <= (o + k) + more) /\ i <= w
    <3>1. f[i] = IF o < i /\ i <= o + k THEN i - o ELSE IF i <= size THEN OLD ELSE ZERO
      BY <1>2, <1>3, <2>1, <2>3
    <3>2. (o < i /\ i <= o + k) <=> (o < i /\ i <= o + (k + more))
      BY <2>1, <2>3
    <3>3. QED
      BY <2>3, <3>1, <3>2
  <2>4. CASE ~(i > o + k /\ i <= (o + k) + more) /\ ~(i <= w)
    <3>1. w2 = (o + k) + more /\ more > 0
      BY <1>3, <2>1, <2>4
    <3>2. o + k <= w \/ (k = 0 /\ size <= w)
      OBVIOUS
    <3>3. i <= (o + k) + more
      BY <3>1
    <3>4. QED
      BY <1>3, <2>1, <2>4, <3>1, <3>2, <3>3
  <2>5. QED
    BY <2>2, <2>3, <2>4
<1>10. (k + 1) + more - 1 = k + more
  OBVIOUS
<1> HIDE DEF w, w2
<1>11. Overwritten(f, o + k, k + 1, k + more) = Api!Written(c, k + more)
  BY <1>5, <1>7, <1>9, <1>10
<1>12. QED
  BY <1>11 DEF f, c, GoesBehind

LEMMA WrittenNothing ==
  ASSUME NEW o \in Nat, NEW n \in Nat, NEW size \in Nat
  PROVE  Api!Written(TheCall("write", o, n, size), 0) = Olds(size)
<1> DEFINE c == TheCall("write", o, n, size)
<1>1. c.off = o /\ c.size = size
  BY DEF TheCall
<1> HIDE DEF c
<1>2. Api!Written(c, 0)
        = [i \in 1 .. size |-> IF o < i /\ i <= o + 0 THEN i - o ELSE IF i <= size THEN OLD ELSE ZERO]
  BY <1>1 DEF Api!Written
<1>3. \A i \in 1 .. size : (IF o < i /\ i <= o + 0 THEN i - o ELSE IF i <= size THEN OLD ELSE ZERO) = OLD
  OBVIOUS
<1>4. Api!Written(c, 0) = Olds(size)
  BY <1>2, <1>3 DEF Olds
<1>5. QED
  BY <1>4 DEF c

LEMMA WrittenSize ==
  ASSUME NEW o \in Nat, NEW n \in Nat, NEW size \in Nat, NEW k \in Nat, k <= n,
         o + n <= MaxSize, size <= MaxSize
  PROVE  /\ Api!Written(TheCall("write", o, n, size), k) \in Seq(Int)
         /\ Len(Api!Written(TheCall("write", o, n, size), k)) <= MaxSize
<1> DEFINE c == TheCall("write", o, n, size)
           w == IF k > 0 /\ o + k > size THEN o + k ELSE size
<1>1. c.off = o /\ c.size = size
  BY DEF TheCall
<1> HIDE DEF c
<1>2. Api!Written(c, k)
        = [i \in 1 .. w |-> IF o < i /\ i <= o + k THEN i - o ELSE IF i <= size THEN OLD ELSE ZERO]
  BY <1>1 DEF Api!Written
<1>3. w \in Nat /\ w <= MaxSize
  BY FileIoAssumption
<1> HIDE DEF w
<1>4. \A i \in 1 .. w : (IF o < i /\ i <= o + k THEN i - o ELSE IF i <= size THEN OLD ELSE ZERO) \in Int
  BY <1>3 DEF OLD, ZERO
<1>5. Api!Written(c, k) \in Seq(Int) /\ Len(Api!Written(c, k)) = w
  BY <1>2, <1>3, <1>4
<1>6. QED
  BY <1>3, <1>5 DEF c

(***************************************************************************)
(* A step of a read, a write or a hint, which may be its first, is one of  *)
(* FileApi.                                                                *)
(***************************************************************************)
NewCall(op) ==
  /\ pc = "idle" /\ before' = Size /\ Size \in Nat
  /\ FirstByte(op)' \in 0 .. MaxSize /\ amt' \in 1 .. MaxSize

Done == {"read.done", "write.done", "hint.done"}

SameCall(op) ==
  /\ pc \in Ops[op] \ Done
  /\ UNCHANGED <<amt, before>> /\ (op = "hint" \/ UNCHANGED off)

LEMMA ApiBegins ==
  ASSUME NEW op \in DOMAIN Ops, NewCall(op), pc' \in Ops[op],
         Api!Work(TheCall(op, FirstByte(op)', amt', before'), 0)
  PROVE  Api!Next
<1> DEFINE c == TheCall(op, FirstByte(op)', amt', before')
<1>1. ApiCall' = c
  BY CallIsNext
<1>2. ApiCall = <<>>
  BY DEF NewCall, ApiCall
<1>3. FirstByte(op)' \in 0 .. MaxSize
  BY FileIoAssumption DEF NewCall, FirstByte
<1>4. op \in {"read", "write", "hint"}
  BY DEF Ops
<1>5. c \in Api!Calls
  BY <1>3, <1>4 DEF NewCall, TheCall, Api!Calls, Size
<1> HIDE DEF c
<1>6. Api!Work(c, 0)
  BY DEF c
<1>7. Api!Begin
  BY <1>1, <1>2, <1>5, <1>6 DEF Api!Begin, Api!None
<1>8. QED
  BY <1>7 DEF Api!Next

LEMMA ApiContinues ==
  ASSUME NEW op \in DOMAIN Ops, SameCall(op), pc' \in Ops[op],
         Api!Work(TheCall(op, FirstByte(op)', amt', before'), ApiDone)
  PROVE  Api!Next
<1> DEFINE c == TheCall(op, FirstByte(op)', amt', before')
<1>1. ApiCall' = c
  BY CallIsNext
<1>2. ApiCall = TheCall(op, FirstByte(op), amt, before) /\ ApiCall # <<>>
  BY CallIs DEF SameCall
<1>3. ApiCall = c
  BY <1>2 DEF SameCall, FirstByte
<1>4. ApiAnswer = <<>>
  BY DEF ApiAnswer, SameCall, Done
<1> HIDE DEF c
<1>5. Api!Work(c, ApiDone)
  BY DEF c
<1>6. Api!Continue
  BY <1>1, <1>2, <1>3, <1>4, <1>5 DEF Api!Continue, Api!None
<1>7. QED
  BY <1>6 DEF Api!Next

ReadAnswers(o, n) ==
  {<<>>, <<"READ", <<>> >>,
   <<IF o + n <= Size THEN "OK" ELSE "SHORT_READ",
     [i \in 1 .. n |-> IF o + i <= Size THEN o + i ELSE ZERO]>>}

LEMMA ReadApi ==
  ASSUME pc' \in Ops.read, file' = file, NewCall("read") \/ SameCall("read"),
         ApiAnswer' \in ReadAnswers(off', amt')
  PROVE  Api!Next
<1> DEFINE c == TheCall("read", FirstByte("read")', amt', before')
<1>0. "read" \in DOMAIN Ops /\ Ops["read"] = Ops.read
  BY DEF Ops
<1>1. ApiDone' = 0 /\ ApiDone = 0
  BY DEF ApiDone, Ops, NewCall, SameCall, Done
<1>2. c.op = "read" /\ c.off = off' /\ c.amt = amt'
  BY DEF TheCall, FirstByte
<1> HIDE DEF c
<1>3. Api!Read(c)
  BY <1>1, <1>2 DEF Api!Read, Api!None, Api!Answer, Api!Contents, ReadAnswers, Size
<1>4. \A k : Api!Work(c, k)
  BY <1>2, <1>3 DEF Api!Work
<1>5. Api!Work(TheCall("read", FirstByte("read")', amt', before'), 0)
      /\ Api!Work(TheCall("read", FirstByte("read")', amt', before'), ApiDone)
  BY <1>4 DEF c
<1>6. CASE NewCall("read")
  BY <1>0, <1>5, <1>6, ApiBegins
<1>7. CASE SameCall("read")
  BY <1>0, <1>5, <1>7, ApiContinues DEF SameCall
<1>8. QED
  BY <1>6, <1>7

WriteAnswers == {<<>>, <<"WRITE", <<>> >>, <<"FULL", <<>> >>}

LEMMA WriteApi ==
  ASSUME pc' \in Ops.write, got' \in 0 .. amt', NewCall("write") \/ (SameCall("write") /\ got <= got'),
         file' = Api!Written(TheCall("write", off', amt', before'), got'),
         ApiAnswer' \in WriteAnswers \/ (got' = amt' /\ ApiAnswer' = <<"OK", <<>> >>),
         got \in Nat, amt' \in Nat
  PROVE  Api!Next
<1> DEFINE c == TheCall("write", FirstByte("write")', amt', before')
<1>0. "write" \in DOMAIN Ops /\ Ops["write"] = Ops.write
  BY DEF Ops
<1>1. ApiDone' = got'
  BY DEF ApiDone
<1>2. c.op = "write" /\ c.amt = amt' /\ c = TheCall("write", off', amt', before')
  BY DEF TheCall, FirstByte
<1> HIDE DEF c
<1>3. ASSUME NEW k \in Nat, k <= got' PROVE Api!Work(c, k)
  <2>1. got' \in k .. c.amt
    BY <1>2, <1>3
  <2>2. Api!Write(c, k)
    BY <1>1, <1>2, <2>1 DEF Api!Write, Api!None, Api!Answer, WriteAnswers
  <2>3. QED
    BY <1>2, <2>2 DEF Api!Work
<1>4. CASE NewCall("write")
  <2>1. Api!Work(TheCall("write", FirstByte("write")', amt', before'), 0)
    BY <1>3 DEF c
  <2>2. QED
    BY <1>0, <1>4, <2>1, ApiBegins
<1>5. CASE SameCall("write") /\ got <= got'
  <2>1. ApiDone = got
    BY <1>0, <1>5 DEF ApiDone, SameCall
  <2>2. Api!Work(TheCall("write", FirstByte("write")', amt', before'), ApiDone)
    BY <1>3, <1>5, <2>1 DEF c
  <2>3. QED
    BY <1>0, <1>5, <2>2, ApiContinues DEF SameCall
<1>6. QED
  BY <1>4, <1>5

HintCodes == {"OK", "FSTAT", "WRITE", "TRUNCATE"}

LEMMA HintApi ==
  ASSUME pc' \in Ops.hint, NewCall("hint") \/ SameCall("hint"),
         NEW n \in 0 .. MaxSize, n >= before' \/ n >= amt', file' = Grown(before', n),
         ApiAnswer' = <<>> \/ \E code \in HintCodes : ApiAnswer' = <<code, <<>> >>
  PROVE  Api!Next
<1> DEFINE c == TheCall("hint", FirstByte("hint")', amt', before')
<1>0. "hint" \in DOMAIN Ops /\ Ops["hint"] = Ops.hint
  BY DEF Ops
<1>1. ApiDone' = 0 /\ ApiDone = 0
  BY DEF ApiDone, Ops, NewCall, SameCall, Done
<1>2. c.op = "hint" /\ c.amt = amt' /\ c.size = before'
  BY DEF TheCall
<1> HIDE DEF c
<1>3. Api!Hint(c)
  BY <1>1, <1>2 DEF Api!Hint, Api!None, Api!Answer, HintCodes, Grown
<1>4. \A k : Api!Work(c, k)
  BY <1>2, <1>3 DEF Api!Work
<1>5. Api!Work(TheCall("hint", FirstByte("hint")', amt', before'), 0)
      /\ Api!Work(TheCall("hint", FirstByte("hint")', amt', before'), ApiDone)
  BY <1>4 DEF c
<1>6. CASE NewCall("hint")
  BY <1>0, <1>5, <1>6, ApiBegins
<1>7. CASE SameCall("hint")
  BY <1>0, <1>5, <1>7, ApiContinues DEF SameCall
<1>8. QED
  BY <1>6, <1>7

ApiVars == <<file, ApiCall, ApiDone, ApiAnswer>>
ApiStep == Api!Next \/ UNCHANGED ApiVars

LEMMA OldsIs == ASSUME NEW n \in Nat PROVE Olds(n) \in Seq(Int) /\ Len(Olds(n)) = n
BY OldSeq DEF Olds

LEMMA IdleApi ==
  ASSUME ApiInv, pc = "idle", pc' = "idle", NEW n \in 0 .. MaxSize, file' = Olds(n)
  PROVE  ApiInv' /\ ApiStep
<1>1. MaxSize \in Nat
  BY FileIoAssumption
<1>2. n \in Nat /\ Size' = n
  BY <1>1, OldsIs DEF Size
<1>3. ApiInv'
  BY <1>1, <1>2 DEF ApiInv, Steps, Ops
<1>4. ApiCall = <<>> /\ ApiCall' = <<>>
  BY DEF ApiCall
<1>5. ApiDone' = ApiDone /\ ApiAnswer' = ApiAnswer
  BY DEF ApiDone, ApiAnswer, Ops
<1>6. Api!Change
  BY <1>4, <1>5 DEF Api!Change, Api!None, Olds
<1>7. QED
  BY <1>3, <1>6 DEF ApiStep, Api!Next

(* A step between calls that does not write to the file.                   *)
LEMMA IdleKeeps ==
  ASSUME FilesInv, ApiInv, pc = "idle", pc' = "idle", file' = file
  PROVE  ApiInv' /\ ApiStep
<1>1. file = Olds(Size) /\ Size \in Nat /\ Size <= MaxSize
  BY SizeNat DEF ApiInv, FilesInv
<1>2. Size \in 0 .. MaxSize
  BY <1>1, FileIoAssumption
<1>3. QED
  BY <1>1, <1>2, IdleApi

LEMMA FinishApi ==
  ASSUME FilesInv, ApiInv, Finish
  PROVE  ApiInv' /\ ApiStep
<1>1. /\ pc \in Done /\ pc' = "idle" /\ file' = Olds(Size)
  BY DEF Finish, Olds, Done
<1>2. Size \in Nat /\ Size <= MaxSize
  BY SizeNat DEF ApiInv, FilesInv
<1>3. Size' = Size
  BY <1>1, <1>2, OldsIs DEF Size
<1>4. ApiInv'
  BY <1>1, <1>2, <1>3 DEF ApiInv, Steps, Ops
<1>5. ApiAnswer # <<>>
  BY <1>1 DEF ApiAnswer, Done
<1>6. ApiCall' = <<>> /\ ApiDone' = 0 /\ ApiAnswer' = <<>>
  BY <1>1 DEF ApiCall, ApiDone, ApiAnswer, Ops
<1>7. Api!End
  BY <1>1, <1>5, <1>6 DEF Api!End, Api!None, Olds, Size
<1>8. QED
  BY <1>4, <1>7 DEF ApiStep, Api!Next

LEMMA AnswerIs ==
  /\ pc' \notin Done => ApiAnswer' = <<>>
  /\ pc' = "read.done" => ApiAnswer' = <<rc', IF rc' # "READ" THEN buf' ELSE <<>> >>
  /\ pc' \in {"write.done", "hint.done"} => ApiAnswer' = <<rc', <<>> >>
BY DEF ApiAnswer, Done

LEMMA InMappingIs ==
  ASSUME FilesInv, NEW o \in Nat, NEW n \in Nat
  PROVE  InMapping(o, n) \in 0 .. n
BY DEF InMapping, Lower, FilesInv, MapTypes

(***************************************************************************)
(* Reads.                                                                  *)
(***************************************************************************)
LEMMA ReadMappingApi ==
  ASSUME FilesInv, ApiInv, NEW o \in Offsets, NEW n \in 1 .. MaxAmount, o + n <= MaxSize,
         ReadMapping(o, n)
  PROVE  ApiInv' /\ ApiStep
<1> DEFINE nCopy == InMapping(o, n)
<1>1. /\ MaxSize \in Nat \ {0} /\ MaxAmount \in Nat /\ o \in Nat /\ n \in Nat \ {0} /\ o <= MaxSize
      /\ n \in 1 .. MaxSize
  BY FileIoAssumption DEF Offsets
<1>2. nCopy \in 0 .. n
  BY <1>1, InMappingIs
<1>3. /\ nCopy > 0 => o + nCopy <= Size
      /\ pc = "idle" /\ pc' = (IF nCopy = n THEN "read.done" ELSE "read")
      /\ off' = o /\ amt' = n /\ got' = nCopy /\ before' = Size /\ rc' = "OK"
      /\ buf' = [i \in 1 .. nCopy |-> o + i] /\ file' = file
  BY DEF ReadMapping, Begin, fileVars
<1> HIDE DEF nCopy
<1>4. Size \in Nat /\ Size' = Size /\ Size <= MaxSize /\ file = Olds(Size)
  BY <1>3, SizeNat DEF ApiInv, FilesInv, Size
<1>5. ApiInv'
  <2>1. off' \in 0 .. MaxSize /\ off' + amt' <= MaxSize /\ amt' \in 1 .. MaxSize /\ before' \in 0 .. MaxSize
    BY <1>1, <1>3, <1>4
  <2>2. pc' = "read" => got' < amt' /\ (got' = 0 \/ off' + got' <= Size')
    BY <1>1, <1>2, <1>3, <1>4
  <2>3. buf' = [i \in 1 .. got' |-> off' + i]
    BY <1>3
  <2>4. pc' \in {"read", "read.done"} /\ pc' # "idle"
    BY <1>3
  <2>5. before' = Size' /\ file' = Olds(Size)'
    BY <1>3, <1>4 DEF Olds
  <2>6. QED
    BY <1>4, <2>1, <2>2, <2>3, <2>4, <2>5 DEF ApiInv, Steps, Ops, Olds
<1>6. NewCall("read")
  BY <1>1, <1>3, <1>4 DEF NewCall, FirstByte
<1>7. ApiAnswer' \in ReadAnswers(off', amt')
  <2>1. CASE nCopy = n
    <3>1. o + n <= Size /\ \A i \in 1 .. n : o + i <= Size
      BY <1>1, <1>3, <1>4, <2>1
    <3>2. buf' = [i \in 1 .. n |-> IF o + i <= Size THEN o + i ELSE ZERO]
      BY <1>3, <2>1, <3>1
    <3>3. ApiAnswer' = <<"OK", buf'>>
      BY <1>3, <2>1, AnswerIs
    <3>4. QED
      BY <1>3, <3>1, <3>2, <3>3 DEF ReadAnswers
  <2>2. CASE nCopy # n
    BY <1>3, <2>2, AnswerIs DEF ReadAnswers, Done
  <2>3. QED
    BY <2>1, <2>2
<1>8. pc' \in Ops.read
  BY <1>3 DEF Ops
<1>9. Api!Next
  BY <1>3, <1>6, <1>7, <1>8, ReadApi
<1>10. QED
  BY <1>5, <1>9 DEF ApiStep

(* What a read that is under way has, and what it gets.                    *)
FirstRead(k) == [i \in 1 .. k |-> off + i]
Piece(k, rest) == [i \in 1 .. k + rest |-> IF i <= k THEN off + got + i ELSE ZERO]
Whole == [i \in 1 .. amt |-> IF off + i <= Size THEN off + i ELSE ZERO]

Reading ==
  /\ pc = "read" /\ file' = file /\ UNCHANGED <<off, amt, before>>
  /\ MaxSize \in Nat /\ off \in Nat /\ amt \in Nat /\ got \in Nat /\ got < amt
  /\ Size \in Nat /\ (got = 0 \/ off + got <= Size)
  /\ buf = [i \in 1 .. got |-> off + i]

LEMMA ReadingIs ==
  ASSUME FilesInv, ApiInv, seekAndRead \/ winRead
  PROVE  Reading
<1>1. pc = "read" /\ file' = file /\ UNCHANGED <<off, amt, before>>
  BY DEF seekAndRead, winRead, fileVars
<1>2. Size \in Nat /\ got \in Nat /\ amt \in Nat /\ MaxSize \in Nat
  BY SizeNat, FileIoAssumption DEF FilesInv, CallTypes
<1>3. off \in 0 .. MaxSize
  BY <1>1 DEF ApiInv, Ops
<1>4. QED
  BY <1>1, <1>2, <1>3 DEF ApiInv, Reading

LEMMA ReadsOn ==
  ASSUME ApiInv, Reading, pc' = "read", got' \in Nat, got' < amt, got' = 0 \/ off + got' <= Size,
         buf' = FirstRead(got')
  PROVE  ApiInv' /\ ApiStep
<1>1. pc \in Ops.read /\ pc' \in Ops.read
  BY DEF Reading, Ops
<1>2. "read" \in DOMAIN Ops /\ Ops["read"] = Ops.read
  BY DEF Ops
<1>3. ApiCall' = TheCall("read", off', amt', before') /\ ApiCall = TheCall("read", off, amt, before)
  BY <1>1, <1>2, CallIs, CallIsNext DEF FirstByte
<1>4. ApiDone' = ApiDone /\ ApiAnswer' = ApiAnswer
  BY DEF ApiDone, ApiAnswer, Ops, Reading
<1>5. UNCHANGED ApiVars
  BY <1>3, <1>4 DEF ApiVars, Reading
<1>6. Size' = Size /\ Olds(Size)' = Olds(Size)
  BY DEF Reading, Size, Olds
<1>7. ApiInv'
  BY <1>6 DEF ApiInv, Reading, Steps, Ops, FirstRead
<1>8. QED
  BY <1>5, <1>7 DEF ApiStep

LEMMA ReadReturns ==
  ASSUME ApiInv, Reading, pc' = "read.done",
         \/ rc' = "READ"
         \/ rc' = (IF off + amt <= Size THEN "OK" ELSE "SHORT_READ") /\ buf' = Whole
  PROVE  ApiInv' /\ ApiStep
<1>1. pc \in Ops.read \ Done /\ pc' \in Ops.read
  BY DEF Reading, Ops, Done
<1>2. Size' = Size /\ Olds(Size)' = Olds(Size)
  BY DEF Reading, Size, Olds
<1>3. ApiInv'
  BY <1>2 DEF ApiInv, Reading, Steps, Ops
<1>4. ApiAnswer' \in ReadAnswers(off', amt')
  <2>1. CASE rc' = "READ"
    BY <2>1, AnswerIs DEF ReadAnswers
  <2>2. CASE rc' # "READ"
    <3>1. ApiAnswer' = <<rc', buf'>>
      BY <2>2, AnswerIs
    <3>2. off' = off /\ amt' = amt
      BY DEF Reading
    <3>3. QED
      BY <2>2, <3>1, <3>2 DEF ReadAnswers, Whole
  <2>3. QED
    BY <2>1, <2>2
<1>5. SameCall("read") /\ file' = file
  BY <1>1 DEF SameCall, Reading, Ops
<1>6. Api!Next
  BY <1>1, <1>4, <1>5, ReadApi
<1>7. QED
  BY <1>3, <1>6 DEF ApiStep

Join(s, t) == [i \in 1 .. Len(s) + Len(t) |-> IF i <= Len(s) THEN s[i] ELSE t[i - Len(s)]]

LEMMA Joined ==
  ASSUME NEW s \in Seq(Nat), NEW t \in Seq(Nat)
  PROVE  s \o t = Join(s, t)
<1>1. s \o t \in Seq(Nat) /\ Len(s \o t) = Len(s) + Len(t)
  OBVIOUS
<1>2. \A i \in 1 .. Len(s) + Len(t) : (s \o t)[i] = IF i <= Len(s) THEN s[i] ELSE t[i - Len(s)]
  OBVIOUS
<1>3. PICK f \in Seq(Nat) : f = s \o t
  BY <1>1
<1>4. f = [i \in 1 .. Len(f) |-> f[i]]
  OBVIOUS
<1>5. QED
  BY <1>1, <1>2, <1>3, <1>4 DEF Join

(* What there is of a range, and zeros behind it.                          *)
LEMMA ZeroFilled ==
  ASSUME Reading, NEW k \in Nat, got + k <= amt, NEW rest \in Nat, got + k + rest = amt,
         k > 0 => off + got + k <= Size, rest > 0 => off + got + k >= Size
  PROVE  buf \o Piece(k, rest) = Whole
<1> DEFINE data == Piece(k, rest)
<1>1. /\ off \in Nat /\ amt \in Nat /\ got \in Nat /\ Size \in Nat /\ (got = 0 \/ off + got <= Size)
      /\ buf = [i \in 1 .. got |-> off + i]
  BY DEF Reading
<1>2. buf \in Seq(Nat) /\ Len(buf) = got
  BY <1>1
<1>3. data \in Seq(Nat) /\ Len(data) = k + rest /\ k + rest \in Nat
  BY <1>1 DEF ZERO, Piece
<1>4. data = [i \in 1 .. k + rest |-> IF i <= k THEN off + got + i ELSE ZERO]
  BY DEF Piece
<1> HIDE DEF data
<1>5. buf \o data = [i \in 1 .. amt |-> IF i <= got THEN buf[i] ELSE data[i - got]]
  <2>1. buf \o data = Join(buf, data)
    BY <1>2, <1>3, Joined, Zenon
  <2>2. Len(buf) + Len(data) = amt
    BY <1>1, <1>2, <1>3
  <2>3. QED
    BY <1>2, <2>1, <2>2 DEF Join
<1>6. ASSUME NEW i \in 1 .. amt
      PROVE  (IF i <= got THEN buf[i] ELSE data[i - got]) = IF off + i <= Size THEN off + i ELSE ZERO
  <2>1. CASE i <= got
    <3>1. buf[i] = off + i /\ off + i <= Size
      BY <1>1, <2>1
    <3>2. QED
      BY <2>1, <3>1
  <2>2. CASE ~(i <= got)
    <3>1. i - got \in 1 .. k + rest /\ off + got + (i - got) = off + i
      BY <1>1, <2>2
    <3>2. data[i - got] = IF i - got <= k THEN off + i ELSE ZERO
      BY <1>3, <1>4, <3>1
    <3>3. i - got <= k => off + i <= Size
      BY <1>1, <3>1
    <3>4. ~(i - got <= k) => ~(off + i <= Size)
      BY <1>1, <3>1
    <3>5. QED
      BY <2>2, <3>2, <3>3, <3>4
  <2>3. QED
    BY <2>1, <2>2
<1>7. buf \o data = Whole
  BY <1>5, <1>6 DEF Whole
<1>8. QED
  BY <1>7 DEF data

LEMMA SeekAndReadApi ==
  ASSUME FilesInv, ApiInv, seekAndRead
  PROVE  ApiInv' /\ ApiStep
<1>0. Reading
  BY ReadingIs
<1>1. /\ off \in Nat /\ amt \in Nat /\ got \in Nat /\ Size \in Nat /\ got < amt
      /\ (got = 0 \/ off + got <= Size) /\ buf = [i \in 1 .. got |-> off + i]
  BY <1>0 DEF Reading
<1>2. ASSUME NEW k \in 1 .. amt - got, off + got + k <= Size, got' = got + k,
             buf' = buf \o [i \in 1 .. k |-> off + got + i],
             IF got' = amt THEN Return("read.done", "OK") ELSE UNCHANGED <<pc, rc>>
      PROVE  ApiInv' /\ ApiStep
  <2>1. k \in Nat /\ k > 0 /\ got + k <= amt
    BY <1>1, <1>2
  <2>2. CASE got + k = amt
    <3>1. Piece(k, 0) = [i \in 1 .. k |-> off + got + i]
      <4>1. k + 0 = k /\ \A i \in 1 .. k : i <= k
        BY <2>1
      <4>2. QED
        BY <4>1 DEF Piece
    <3>2. /\ got + k + 0 = amt /\ 0 \in Nat
          /\ k > 0 => off + got + k <= Size
          /\ 0 > 0 => off + got + k >= Size
      BY <1>1, <1>2, <2>1, <2>2
    <3>3. buf \o Piece(k, 0) = Whole
      BY <1>0, <2>1, <3>2, ZeroFilled
    <3>4. off + amt <= Size
      BY <1>1, <1>2, <2>1, <2>2
    <3>5. pc' = "read.done" /\ rc' = "OK"
      BY <1>2, <2>2 DEF Return
    <3>6. QED
      BY <1>0, <1>2, <3>1, <3>3, <3>4, <3>5, ReadReturns
  <2>3. CASE got + k # amt
    <3>1. got' \in Nat /\ got' < amt /\ off + got' <= Size /\ pc' = "read"
      BY <1>0, <1>1, <1>2, <2>1, <2>3 DEF Reading
    <3>2. buf' = FirstRead(got')
      <4> DEFINE more == [i \in 1 .. k |-> off + got + i]
      <4>1. buf \in Seq(Nat) /\ Len(buf) = got /\ more \in Seq(Nat) /\ Len(more) = k
        BY <1>1, <2>1
      <4>2. \A i \in 1 .. k : more[i] = off + got + i
        OBVIOUS
      <4> HIDE DEF more
      <4>3. buf \o more = [i \in 1 .. got + k |-> IF i <= got THEN buf[i] ELSE more[i - got]]
        <5>1. buf \o more = Join(buf, more)
          BY <4>1, Joined, Zenon
        <5>2. QED
          BY <4>1, <5>1 DEF Join
      <4>4. \A i \in 1 .. got + k : (IF i <= got THEN buf[i] ELSE more[i - got]) = off + i
        BY <1>1, <2>1, <4>2
      <4>5. buf' = buf \o more
        BY <1>2 DEF more
      <4>6. QED
        BY <1>2, <4>3, <4>4, <4>5 DEF FirstRead
    <3>3. QED
      BY <1>0, <3>1, <3>2, ReadsOn
  <2>4. QED
    BY <2>2, <2>3
<1>3. CASE /\ off + got >= Size /\ buf' = buf \o [i \in 1 .. amt - got |-> ZERO]
           /\ Return("read.done", "SHORT_READ")
  <2>1. PICK k \in Nat, rest \in Nat : k = 0 /\ rest = amt - got /\ got + k + rest = amt /\ got + k <= amt
    BY <1>1
  <2>2. Piece(k, rest) = [i \in 1 .. amt - got |-> ZERO]
    <3>1. k + rest = amt - got /\ \A i \in 1 .. amt - got : ~(i <= k)
      BY <1>1, <2>1
    <3>2. QED
      BY <3>1 DEF Piece
  <2>3. (k > 0 => off + got + k <= Size) /\ (rest > 0 => off + got + k >= Size)
    BY <1>1, <1>3, <2>1
  <2>4. buf \o Piece(k, rest) = Whole
    BY <1>0, <2>1, <2>3, ZeroFilled
  <2>5. buf' = Whole
    BY <1>3, <2>2, <2>4
  <2>6. ~(off + amt <= Size)
    BY <1>1, <1>3
  <2>7. QED
    BY <1>0, <1>3, <2>5, <2>6, ReadReturns DEF Return
<1>4. CASE Return("read.done", "READ")
  <2>1. pc' = "read.done" /\ rc' = "READ"
    BY <1>4 DEF Return
  <2>2. QED
    BY <1>0, <2>1, ReadReturns
<1>5. QED
  BY <1>2, <1>3, <1>4 DEF seekAndRead

LEMMA WinReadApi ==
  ASSUME FilesInv, ApiInv, winRead
  PROVE  ApiInv' /\ ApiStep
<1>0. Reading
  BY ReadingIs
<1>1. /\ off \in Nat /\ amt \in Nat /\ got \in Nat /\ Size \in Nat /\ got < amt
      /\ (got = 0 \/ off + got <= Size) /\ buf = [i \in 1 .. got |-> off + i]
  BY <1>0 DEF Reading
<1> DEFINE nRead == Lower(amt - got, IF off + got < Size THEN Size - off - got ELSE 0)
<1>2. /\ nRead \in Nat /\ nRead <= amt - got
      /\ nRead > 0 => off + got + nRead <= Size
      /\ nRead < amt - got => off + got + nRead >= Size
  BY <1>1 DEF Lower
<1> HIDE DEF nRead
<1>3. CASE /\ buf' = buf \o [i \in 1 .. amt - got |-> IF i <= nRead THEN off + got + i ELSE ZERO]
           /\ Return("read.done", IF nRead < amt - got THEN "SHORT_READ" ELSE "OK")
  <2>1. PICK k \in Nat, rest \in Nat :
          k = nRead /\ rest = (amt - got) - nRead /\ got + k + rest = amt /\ got + k <= amt /\ k + rest = amt - got
    BY <1>1, <1>2
  <2>2. [i \in 1 .. amt - got |-> IF i <= nRead THEN off + got + i ELSE ZERO] = Piece(k, rest)
    BY <2>1 DEF Piece
  <2>3. buf' = buf \o Piece(k, rest)
    BY <1>3, <2>2
  <2>4. (k > 0 => off + got + k <= Size) /\ (rest > 0 => off + got + k >= Size)
    BY <1>1, <1>2, <2>1
  <2>5. buf \o Piece(k, rest) = Whole
    BY <1>0, <2>1, <2>4, ZeroFilled
  <2>6. off + amt <= Size <=> ~(nRead < amt - got)
    BY <1>1, <1>2
  <2>7. QED
    BY <1>0, <1>3, <2>3, <2>5, <2>6, ReadReturns DEF Return
<1>4. CASE winRetryIoerr /\ UNCHANGED <<got, buf>>
  <2>1. pc' = "read" /\ got' = got /\ buf' = FirstRead(got')
    BY <1>0, <1>4 DEF winRetryIoerr, Reading, FirstRead
  <2>2. QED
    BY <1>0, <1>1, <2>1, ReadsOn
<1>5. CASE Return("read.done", "READ")
  <2>1. pc' = "read.done" /\ rc' = "READ"
    BY <1>5 DEF Return
  <2>2. QED
    BY <1>0, <2>1, ReadReturns
<1>6. QED
  BY <1>3, <1>4, <1>5 DEF winRead, nRead

(***************************************************************************)
(* Writes.                                                                 *)
(***************************************************************************)
(* A piece of k bytes, possibly none, and perhaps the end of the call.     *)
LEMMA PieceApi ==
  ASSUME FilesInv, pc' \in Ops.write, off' \in 0 .. MaxSize, amt' \in 1 .. MaxSize, off' + amt' <= MaxSize,
         before' \in 0 .. MaxSize,
         NEW k \in Nat, NEW had \in Nat, got' = had + k, got' <= amt',
         file = Api!Written(TheCall("write", off', amt', before'), had),
         file' = Overwritten(file, off' + had, had + 1, had + k),
         (NewCall("write") /\ had = 0) \/ (SameCall("write") /\ had = got),
         IF pc' = "write" THEN got' < amt'
         ELSE rc' \in {"WRITE", "FULL"} \/ (rc' = "OK" /\ got' = amt')
  PROVE  ApiInv' /\ ApiStep
<1>0. PICK o \in Nat, n \in Nat, size \in Nat : o = off' /\ n = amt' /\ size = before'
  BY FileIoAssumption
<1>1. file' = Api!Written(TheCall("write", o, n, size), had + k)
  <2>1. GoesBehind(o, n, size, had, k)
    BY WriteMore
  <2>2. QED
    BY <1>0, <2>1 DEF GoesBehind
<1>2. had + k \in Nat /\ got' \in Nat /\ MaxSize \in Nat /\ got \in Nat
  BY FileIoAssumption DEF FilesInv, CallTypes
<1>3. file' = Api!Written(TheCall("write", off', amt', before'), got')
  BY <1>0, <1>1
<1>4. file' \in Seq(Int) /\ Len(file') <= MaxSize
  <2>0. PICK m \in Nat : m = had + k
    BY <1>2
  <2>1. m <= n
    BY <1>0, <2>0
  <2>2. o + n <= MaxSize
    BY <1>0
  <2>3. size <= MaxSize
    BY <1>0, <1>2
  <2>4. QED
    BY <1>1, <2>0, <2>1, <2>2, <2>3, WrittenSize
<1>5. ApiInv'
  <2>1. pc' \in {"write", "write.done"}
    BY DEF Ops
  <2>2. Size' <= MaxSize
    BY <1>4 DEF Size
  <2>3. (Api!Written(TheCall("write", off, amt, before), got))' = file'
    BY <1>3 DEF TheCall, Api!Written
  <2>4. QED
    BY <2>1, <2>2, <2>3 DEF ApiInv, Steps, Ops
<1>6. NewCall("write") \/ (SameCall("write") /\ got <= got')
  BY <1>2
<1>7. ApiAnswer' \in WriteAnswers \/ (got' = amt' /\ ApiAnswer' = <<"OK", <<>> >>)
  <2>1. pc' \in {"write", "write.done"}
    BY DEF Ops
  <2>2. CASE pc' = "write"
    BY <2>2, AnswerIs DEF WriteAnswers, Done
  <2>3. CASE pc' = "write.done"
    <3>1. ApiAnswer' = <<rc', <<>> >>
      BY <2>3, AnswerIs
    <3>2. QED
      BY <2>3, <3>1 DEF WriteAnswers
  <2>4. QED
    BY <2>1, <2>2, <2>3
<1>8. got' \in 0 .. amt' /\ amt' \in Nat
  BY <1>0, <1>2
<1>9. Api!Next
  BY <1>2, <1>3, <1>6, <1>7, <1>8, WriteApi
<1>10. QED
  BY <1>5, <1>9 DEF ApiStep

LEMMA WriteMappingApi ==
  ASSUME FilesInv, ApiInv, NEW o \in Offsets, NEW n \in 1 .. MaxAmount, o + n <= MaxSize,
         WriteMapping(o, n)
  PROVE  ApiInv' /\ ApiStep
<1> DEFINE nCopy == IF build.mmapReadWrite THEN InMapping(o, n) ELSE 0
<1>1. /\ MaxSize \in Nat \ {0} /\ MaxAmount \in Nat /\ o \in Nat /\ n \in Nat \ {0} /\ o <= MaxSize
      /\ n \in 1 .. MaxSize
  BY FileIoAssumption DEF Offsets
<1>2. nCopy \in 0 .. n
  BY <1>1, InMappingIs
<1>3. /\ pc = "idle" /\ pc' = (IF nCopy = n THEN "write.done" ELSE "write")
      /\ off' = o /\ amt' = n /\ got' = nCopy /\ before' = Size /\ rc' = "OK"
      /\ file' = Overwritten(file, o, 1, nCopy)
  BY DEF WriteMapping, Begin
<1> HIDE DEF nCopy
<1>4. Size \in Nat /\ Size <= MaxSize /\ file = Olds(Size)
  BY <1>3, SizeNat DEF ApiInv, FilesInv
<1>5. file = Api!Written(TheCall("write", o, n, Size), 0)
  BY <1>1, <1>4, WrittenNothing
<1>6. NewCall("write") /\ pc' \in Ops.write
  BY <1>1, <1>3, <1>4 DEF NewCall, FirstByte, Ops
<1>7. PICK k \in Nat, had \in Nat : k = nCopy /\ had = 0 /\ had + k = nCopy /\ o + had = o /\ had + 1 = 1
  BY <1>1, <1>2
<1>8. off' \in 0 .. MaxSize /\ amt' \in 1 .. MaxSize /\ before' \in 0 .. MaxSize /\ got' <= amt'
  BY <1>1, <1>2, <1>3, <1>4
<1>9. got' = had + k /\ off' + amt' <= MaxSize /\ file' = Overwritten(file, off' + had, had + 1, had + k)
  BY <1>3, <1>7
<1>10. IF pc' = "write" THEN got' < amt'
       ELSE rc' \in {"WRITE", "FULL"} \/ (rc' = "OK" /\ got' = amt')
  BY <1>1, <1>2, <1>3
<1>11. file = Api!Written(TheCall("write", off', amt', before'), had)
  BY <1>3, <1>5, <1>7
<1>12. QED
  BY <1>6, <1>7, <1>8, <1>9, <1>10, <1>11, PieceApi

LEMMA WritingApi ==
  ASSUME FilesInv, ApiInv, seekAndWrite \/ winWrite
  PROVE  ApiInv' /\ ApiStep
<1>1. /\ pc = "write" /\ UNCHANGED <<off, amt, before>>
  BY DEF seekAndWrite, winWrite
<1>2. /\ off \in 0 .. MaxSize /\ amt \in 1 .. MaxSize /\ off + amt <= MaxSize /\ before \in 0 .. MaxSize
      /\ got < amt /\ got \in Nat /\ MaxSize \in Nat
      /\ file = Api!Written(TheCall("write", off, amt, before), got)
  BY <1>1, FileIoAssumption DEF ApiInv, Ops, FilesInv, CallTypes
<1>3. SameCall("write")
  BY <1>1 DEF SameCall, Ops, Done
<1>4. /\ off' \in 0 .. MaxSize /\ amt' \in 1 .. MaxSize /\ off' + amt' <= MaxSize /\ before' \in 0 .. MaxSize
      /\ file = Api!Written(TheCall("write", off', amt', before'), got)
  BY <1>1, <1>2
<1>5. ASSUME NEW k \in 1 .. amt - got, file' = Overwritten(file, off + got, got + 1, got + k),
             got' = got + k,
             IF got' = amt THEN Return("write.done", "OK") ELSE UNCHANGED <<pc, rc>>
      PROVE  ApiInv' /\ ApiStep
  <2>1. k \in Nat /\ got + k <= amt /\ (got + k # amt => got + k < amt)
    BY <1>2, <1>5
  <2>2. pc' \in Ops.write /\ (IF pc' = "write" THEN got' < amt'
                              ELSE rc' \in {"WRITE", "FULL"} \/ (rc' = "OK" /\ got' = amt'))
    <3>1. CASE got' = amt
      BY <1>1, <1>5, <3>1 DEF Return, Ops
    <3>2. CASE got' # amt
      BY <1>1, <1>5, <2>1, <3>2 DEF Ops
    <3>3. QED
      BY <3>1, <3>2
  <2>3. PICK had \in Nat : had = got
    BY <1>2
  <2>4. file = Api!Written(TheCall("write", off', amt', before'), had)
    BY <1>4, <2>3
  <2>5. /\ got' = had + k /\ got' <= amt'
        /\ file' = Overwritten(file, off' + had, had + 1, had + k)
    BY <1>1, <1>5, <2>1, <2>3
  <2>6. QED
    BY <1>3, <1>4, <2>1, <2>2, <2>3, <2>4, <2>5, PieceApi
<1>6. ASSUME got' = got, file' = file, pc' = "write" \/ (pc' = "write.done" /\ rc' \in {"WRITE", "FULL"})
      PROVE  ApiInv' /\ ApiStep
  <2>1. pc' \in Ops.write /\ "write" \in DOMAIN Ops /\ Ops["write"] = Ops.write
    BY <1>6 DEF Ops
  <2>2. ApiInv'
    <3>1. Size' = Size /\ Size <= MaxSize
      BY <1>6 DEF Size, ApiInv
    <3>2. (Api!Written(TheCall("write", off, amt, before), got))' = file
      BY <1>1, <1>2, <1>6 DEF TheCall, Api!Written
    <3>3. QED
      BY <1>2, <1>4, <1>1, <1>6, <3>1, <3>2 DEF ApiInv, Steps, Ops
  <2>3. ApiAnswer' \in WriteAnswers
    <3>1. CASE pc' = "write"
      BY <3>1, AnswerIs DEF WriteAnswers, Done
    <3>2. CASE pc' = "write.done"
      <4>1. ApiAnswer' = <<rc', <<>> >> /\ rc' \in {"WRITE", "FULL"}
        BY <1>6, <3>2, AnswerIs
      <4>2. QED
        BY <4>1 DEF WriteAnswers
    <3>3. QED
      BY <1>6, <3>1, <3>2
  <2>4. got' \in 0 .. amt' /\ amt' \in Nat /\ got <= got'
    BY <1>1, <1>2, <1>6
  <2>5. file' = Api!Written(TheCall("write", off', amt', before'), got')
    BY <1>4, <1>6
  <2>6. Api!Next
    BY <1>2, <1>3, <2>1, <2>3, <2>4, <2>5, WriteApi
  <2>7. QED
    BY <2>2, <2>6 DEF ApiStep
<1>7. CASE seekAndWrite
  BY <1>1, <1>5, <1>6, <1>7 DEF seekAndWrite, Return
<1>8. CASE winWrite
  BY <1>1, <1>5, <1>6, <1>8 DEF winWrite, Return, winRetryIoerr
<1>9. QED
  BY <1>7, <1>8

(***************************************************************************)
(* Hints.  The file is what it was, then zeros.                            *)
(***************************************************************************)
LEMMA GrownIs ==
  ASSUME NEW size \in Nat, NEW n \in Nat
  PROVE  Grown(size, n) \in Seq(Int) /\ Len(Grown(size, n)) = n
<1>1. \A i \in 1 .. n : (IF i <= size THEN OLD ELSE ZERO) \in Int
  BY DEF OLD, ZERO
<1>2. QED
  BY <1>1 DEF Grown

LEMMA NotGrown ==
  ASSUME NEW n \in Nat
  PROVE  Grown(n, n) = Olds(n)
<1>1. \A i \in 1 .. n : (IF i <= n THEN OLD ELSE ZERO) = OLD
  OBVIOUS
<1>2. QED
  BY <1>1 DEF Grown, Olds

ResizedIsGrown(size, n, m) == Resized(Grown(size, n), m) = Grown(size, m)

LEMMA GrownMore ==
  ASSUME NEW size \in Nat, NEW n \in Nat, NEW m \in Nat, size <= n
  PROVE  ResizedIsGrown(size, n, m)
<1>1. Len(Grown(size, n)) = n
  BY GrownIs
<1>2. Resized(Grown(size, n), m) = [i \in 1 .. m |-> IF i <= n THEN Grown(size, n)[i] ELSE ZERO]
  BY <1>1 DEF Resized
<1>3. ASSUME NEW i \in 1 .. m
      PROVE  (IF i <= n THEN Grown(size, n)[i] ELSE ZERO) = IF i <= size THEN OLD ELSE ZERO
  <2>1. CASE i <= n
    BY <2>1 DEF Grown
  <2>2. CASE ~(i <= n)
    BY <2>2
  <2>3. QED
    BY <2>1, <2>2
<1>4. Resized(Grown(size, n), m) = Grown(size, m)
  BY <1>2, <1>3 DEF Grown
<1>5. QED
  BY <1>4 DEF ResizedIsGrown

(* A zero behind what there was changes nothing.                           *)
LEMMA GrownZero ==
  ASSUME NEW size \in Nat, NEW n \in Nat, NEW k \in 1 .. n, size < k
  PROVE  [Grown(size, n) EXCEPT ![k] = ZERO] = Grown(size, n)
<1>1. ~(k <= size)
  OBVIOUS
<1>2. Grown(size, n)[k] = ZERO
  BY <1>1 DEF Grown
<1>3. QED
  BY <1>2 DEF Grown

LEMMA HintStepApi ==
  ASSUME FilesInv, pc' \in Ops.hint, NewCall("hint") \/ SameCall("hint"),
         amt' \in 1 .. MaxSize, before' \in 0 .. MaxSize,
         NEW n \in 0 .. MaxSize, n >= before' \/ n >= amt', file' = Grown(before', n),
         pc' = "hint.done" => rc' \in HintCodes,
         pc' # "hint.done" => before' <= n /\ Chunked(amt)' <= MaxSize,
         pc' \in {"hint.allocate", "hint.fill"} => before' < Chunked(amt)',
         pc' = "hint.fill" => before' <= off'
  PROVE  ApiInv' /\ ApiStep
<1>1. ApiAnswer' = <<>> \/ \E code \in HintCodes : ApiAnswer' = <<code, <<>> >>
  <2>1. CASE pc' = "hint.done"
    BY <2>1, AnswerIs
  <2>2. CASE pc' # "hint.done"
    BY <2>2, AnswerIs DEF Done, Ops
  <2>3. QED
    BY <2>1, <2>2
<1>2. Api!Next
  BY <1>1, HintApi
<1>3. Size' = n /\ n <= MaxSize
  BY FileIoAssumption, GrownIs DEF Size
<1>4. Grown(before, Size)' = file'
  BY <1>3 DEF Grown
<1>5. pc' \in {"hint.allocate", "hint.fill", "hint.map", "hint.done"}
  BY DEF Ops
<1>6. ApiInv'
  BY <1>3, <1>4, <1>5 DEF ApiInv, Steps, Ops
<1>7. QED
  BY <1>2, <1>6 DEF ApiStep

LEMMA SizeHintApi ==
  ASSUME FilesInv, ApiInv, NEW n \in 1 .. MaxSize, SizeHint(n)
  PROVE  ApiInv' /\ ApiStep
<1>1. n \in Nat /\ MaxSize \in Nat /\ n <= MaxSize /\ Chunked(n) <= MaxSize
  BY FileIoAssumption DEF SizeHint
<1>2. /\ pc = "idle" /\ amt' = n /\ before' = Size /\ UNCHANGED <<file, szChunk>>
      /\ off' \in {0, BlockEnd(Size)}
      /\ \/ /\ pc' = IF szChunk > 0 /\ Chunked(n) > Size
                     THEN IF build.fallocate THEN "hint.allocate" ELSE "hint.fill" ELSE "hint.map"
            /\ off' = BlockEnd(Size)
         \/ pc' = "hint.done" /\ rc' = "FSTAT"
  BY DEF SizeHint, Begin, fileVars
<1>3. Size \in Nat /\ Size <= MaxSize /\ file = Olds(Size)
  BY <1>2, SizeNat DEF ApiInv, FilesInv
<1>4. Size <= BlockEnd(Size) /\ MaxSize \in Nat \ {0}
  BY <1>3, DivMod, UnixIoAssumption, FileIoAssumption DEF BlockEnd
<1>5. pc' \in {"hint.allocate", "hint.fill", "hint.map", "hint.done"}
  BY <1>2
<1>6. NewCall("hint") /\ pc' \in Ops.hint
  BY <1>2, <1>3, <1>4, <1>5 DEF NewCall, FirstByte, Ops
<1>7. PICK m \in 0 .. MaxSize : m = Size
  BY <1>1, <1>3
<1>8. file' = Grown(before', m)
  BY <1>2, <1>3, <1>7, NotGrown
<1>9. Chunked(amt)' = Chunked(n)
  BY <1>2 DEF Chunked
<1>10. pc' = "hint.done" => rc' \in HintCodes
  BY <1>2 DEF HintCodes
<1>11. pc' \in {"hint.allocate", "hint.fill"} => before' < Chunked(amt)'
  BY <1>1, <1>2, <1>3, <1>9 DEF FilesInv, CallTypes
<1>12. pc' = "hint.fill" => before' <= off'
  BY <1>2, <1>4
<1>13. /\ amt' \in 1 .. MaxSize /\ before' \in 0 .. MaxSize /\ before' <= m
       /\ Chunked(amt)' <= MaxSize
  BY <1>1, <1>2, <1>3, <1>7, <1>9
<1>14. m >= before'
  BY <1>2, <1>3, <1>7
<1>15. QED
  BY <1>6, <1>8, <1>10, <1>11, <1>12, <1>13, <1>14, HintStepApi

(* A hint that is under way.                                               *)
Hinting ==
  /\ pc \in {"hint.allocate", "hint.fill", "hint.map"} /\ UNCHANGED <<amt, before, szChunk>>
  /\ MaxSize \in Nat /\ Size \in Nat /\ Size <= MaxSize
  /\ amt \in 1 .. MaxSize /\ before \in 0 .. MaxSize /\ before <= Size
  /\ file = Grown(before, Size) /\ file \in Seq(Int)
  /\ Chunked(amt) \in Nat /\ Chunked(amt) <= MaxSize

LEMMA HintingIs ==
  ASSUME FilesInv, ApiInv, Allocate \/ Fill \/ HintMap
  PROVE  Hinting
<1>1. pc \in {"hint.allocate", "hint.fill", "hint.map"} /\ UNCHANGED <<amt, before, szChunk>>
  BY DEF Allocate, Fill, HintMap
<1>2. Size \in Nat /\ amt \in Nat /\ szChunk \in Nat /\ MaxSize \in Nat /\ file \in Seq(Int)
  BY SizeNat, FileIoAssumption DEF FilesInv, CallTypes, FileTypes
<1>3. Chunked(amt) \in Nat
  BY <1>2, ChunkedReaches
<1>4. QED
  BY <1>1, <1>2, <1>3 DEF ApiInv, Ops, Hinting

(* It goes on with a file that is not shorter than before or than asked    *)
(* for.                                                                    *)
LEMMA HintsOn ==
  ASSUME FilesInv, Hinting, NEW n \in 0 .. MaxSize, n >= before \/ n >= amt, file' = Grown(before, n),
         \/ pc' = "hint.done" /\ rc' \in HintCodes
         \/ pc' = "hint.map" /\ before <= n
         \/ pc' = "hint.fill" /\ before <= n /\ before < Chunked(amt) /\ before <= off'
  PROVE  ApiInv' /\ ApiStep
<1>1. pc \in Ops["hint"] \ Done /\ pc' \in Ops.hint
  BY DEF Hinting, Ops, Done
<1>2. SameCall("hint")
  BY <1>1 DEF SameCall, Hinting
<1>3. amt' = amt /\ before' = before /\ Chunked(amt)' = Chunked(amt)
  BY DEF Hinting, Chunked
<1>4. amt' \in 1 .. MaxSize /\ before' \in 0 .. MaxSize /\ (n >= before' \/ n >= amt')
  BY <1>3 DEF Hinting
<1>5. file' = Grown(before', n)
  BY <1>3
<1>6. pc' = "hint.done" => rc' \in HintCodes
  OBVIOUS
<1>7. pc' # "hint.done" => before' <= n /\ Chunked(amt)' <= MaxSize
  BY <1>3 DEF Hinting
<1>8. pc' \in {"hint.allocate", "hint.fill"} => before' < Chunked(amt)'
  BY <1>3
<1>9. pc' = "hint.fill" => before' <= off'
  BY <1>3
<1>10. QED
  BY <1>1, <1>2, <1>4, <1>5, <1>6, <1>7, <1>8, <1>9, HintStepApi

(* So it does with the file as it is.                                      *)
LEMMA HintKeeps ==
  ASSUME FilesInv, Hinting, file' = file,
         \/ pc' = "hint.done" /\ rc' \in HintCodes
         \/ pc' = "hint.map"
  PROVE  ApiInv' /\ ApiStep
<1>1. PICK n \in 0 .. MaxSize : n = Size
  BY DEF Hinting
<1>2. before <= n /\ n >= before
  BY <1>1 DEF Hinting
<1>3. file' = Grown(before, n)
  BY <1>1 DEF Hinting
<1>4. QED
  BY <1>2, <1>3, HintsOn

LEMMA AllocateApi ==
  ASSUME FilesInv, ApiInv, Allocate
  PROVE  ApiInv' /\ ApiStep
<1>1. Hinting
  BY HintingIs
<1>2. CASE file' = Resized(file, Chunked(amt)) /\ pc' = "hint.map"
  <2>1. before < Chunked(amt)
    BY DEF Allocate, ApiInv
  <2>2. PICK n \in 0 .. MaxSize, m \in Nat, size \in Nat : n = Chunked(amt) /\ m = Size /\ size = before
    BY <1>1, FileIoAssumption DEF Hinting
  <2>3. size <= m /\ n \in Nat
    BY <1>1, <2>2 DEF Hinting
  <2>4. ResizedIsGrown(size, m, n)
    BY <2>3, GrownMore
  <2>5. file' = Grown(before, n)
    BY <1>1, <1>2, <2>2, <2>4 DEF ResizedIsGrown, Hinting
  <2>6. before <= n /\ n >= before
    BY <2>1, <2>2, <2>3
  <2>7. QED
    BY <1>1, <1>2, <2>5, <2>6, HintsOn
<1>3. CASE pc' = "hint.map" /\ UNCHANGED file
  BY <1>1, <1>3, HintKeeps
<1>4. CASE HintEnds("WRITE") /\ UNCHANGED file
  <2>1. pc' = "hint.done" /\ rc' \in HintCodes
    BY <1>4 DEF HintEnds, Return, HintCodes
  <2>2. QED
    BY <1>1, <1>4, <2>1, HintKeeps
<1>5. QED
  BY <1>2, <1>3, <1>4 DEF Allocate, fileVars

LEMMA FillApi ==
  ASSUME FilesInv, ApiInv, Fill
  PROVE  ApiInv' /\ ApiStep
<1> DEFINE iWrite == Lower(off, Chunked(amt) - 1)
           longer == IF iWrite + 1 > Size THEN Resized(file, iWrite + 1) ELSE file
<1>1. Hinting
  BY HintingIs
<1>2. pc = "hint.fill" /\ before < Chunked(amt) /\ before <= off
  BY DEF Fill, ApiInv
<1>3. CASE Filled(off)
  BY <1>1, <1>3, HintKeeps DEF Fill
<1>4. CASE HintEnds("WRITE") /\ UNCHANGED file
  <2>1. pc' = "hint.done" /\ rc' \in HintCodes
    BY <1>4 DEF HintEnds, Return, HintCodes
  <2>2. QED
    BY <1>1, <1>4, <2>1, HintKeeps
<1>5. CASE file' = [longer EXCEPT ![iWrite + 1] = ZERO] /\ off' = iWrite + BlockSize /\ UNCHANGED pc
  <2>1. /\ BlockSize \in Nat \ {0} /\ before \in Nat /\ before <= iWrite /\ iWrite \in Nat
        /\ iWrite + 1 <= MaxSize /\ Size \in Nat /\ Size <= MaxSize /\ before <= Size
    BY <1>1, <1>2, UnixIoAssumption DEF Hinting, Lower, FilesInv, CallTypes
  <2> HIDE DEF iWrite
  <2>2. PICK k \in Nat, size \in Nat, m \in Nat, n \in Nat :
          /\ k = iWrite + 1 /\ size = before /\ m = Size
          /\ n = IF k > m THEN k ELSE m
    BY <2>1
  <2>3. size <= m /\ size <= n /\ size < k /\ k \in 1 .. n /\ n \in 0 .. MaxSize
    BY <1>1, <2>1, <2>2 DEF Hinting
  <2>4. ResizedIsGrown(size, m, k)
    BY <2>3, GrownMore
  <2>5. longer = Grown(size, n)
    BY <1>1, <2>2, <2>4 DEF ResizedIsGrown, Hinting
  <2>6. [Grown(size, n) EXCEPT ![k] = ZERO] = Grown(size, n)
    BY <2>3, GrownZero
  <2> HIDE DEF longer
  <2>7. file' = Grown(before, n)
    BY <1>5, <2>2, <2>5, <2>6
  <2>8. before <= off'
    BY <1>5, <2>1
  <2>9. pc' = "hint.fill" /\ before <= n /\ n >= before
    BY <1>2, <1>5, <2>2, <2>3
  <2>10. QED
    BY <1>1, <1>2, <2>3, <2>7, <2>8, <2>9, HintsOn
<1>6. QED
  BY <1>3, <1>4, <1>5 DEF Fill

LEMMA HintMapApi ==
  ASSUME FilesInv, ApiInv, HintMap
  PROVE  ApiInv' /\ ApiStep
<1>1. Hinting
  BY HintingIs
<1>2. pc' = "hint.done" /\ rc' \in HintCodes
  BY DEF HintMap, HintEnds, Return, HintCodes
<1>3. CASE file' = file
  BY <1>1, <1>2, <1>3, HintKeeps
<1>4. CASE file' = Resized(file, amt)
  <2>1. PICK n \in 0 .. MaxSize, m \in Nat, size \in Nat : n = amt /\ m = Size /\ size = before
    BY <1>1, FileIoAssumption DEF Hinting
  <2>2. size <= m /\ n \in Nat
    BY <1>1, <2>1 DEF Hinting
  <2>3. ResizedIsGrown(size, m, n)
    BY <2>2, GrownMore
  <2>4. file' = Grown(before, n)
    BY <1>1, <1>4, <2>1, <2>3 DEF ResizedIsGrown, Hinting
  <2>5. n >= amt
    BY <2>1, <2>2
  <2>6. QED
    BY <1>1, <1>2, <2>4, <2>5, HintsOn
<1>5. QED
  BY <1>3, <1>4 DEF HintMap

(* On Windows a truncation leaves the size, or makes it the one asked for. *)
LEMMA WinTruncatedSize ==
  ASSUME NEW n, NEW o \in winTruncate(n)
  PROVE  o.size \in {Size, Chunked(n)} /\ o.rc \in {"OK", "TRUNCATE"}
<1>1. CASE nFetchOut > 0
  BY <1>1 DEF winTruncate, Outcome
<1>2. CASE ~(nFetchOut > 0)
  <2>1. PICK u \in winUnmapfile(Mapping) :
          \E e \in EndsOfFile(Chunked(n), u) : o \in Remapped(e, Chunked(n))
    BY <1>2 DEF winTruncate
  <2>2. PICK e \in EndsOfFile(Chunked(n), u) : o \in Remapped(e, Chunked(n))
    BY <2>1
  <2>3. PICK s \in {Size, Chunked(n)}, c \in {"OK", "TRUNCATE"} : e = [size |-> s, map |-> u, rc |-> c]
    BY <2>2 DEF EndsOfFile, Outcome
  <2>4. PICK m : o = [e EXCEPT !.map = m]
    BY <2>2 DEF Remapped
  <2>5. QED
    BY <2>3, <2>4
<1>3. QED
  BY <1>1, <1>2

LEMMA WinSizeHintApi ==
  ASSUME FilesInv, ApiInv, NEW n \in 1 .. MaxSize, WinSizeHint(n)
  PROVE  ApiInv' /\ ApiStep
<1>1. n \in Nat /\ MaxSize \in Nat \ {0} /\ n <= MaxSize /\ Chunked(n) <= MaxSize
  BY FileIoAssumption DEF WinSizeHint
<1> DEFINE Outcomes ==
             IF szChunk > 0
             THEN {Outcome(Size, Mapping, "FSTAT")}
                    \cup (IF n > Size THEN winTruncate(n) ELSE {Outcome(Size, Mapping, "OK")})
             ELSE {Outcome(Size, Mapping, "OK")}
<1>2. PICK o \in Outcomes : Begin("hint.done", 0, n, 0, o.rc) /\ file' = Resized(file, o.size)
  BY DEF WinSizeHint
<1>3. /\ pc = "idle" /\ pc' = "hint.done" /\ off' = 0 /\ amt' = n /\ before' = Size /\ rc' = o.rc
  BY <1>2 DEF Begin
<1>4. Size \in Nat /\ Size <= MaxSize /\ file = Olds(Size)
  BY <1>3, SizeNat DEF ApiInv, FilesInv
<1>5. Chunked(n) \in Nat /\ n <= Chunked(n)
  BY <1>1, ChunkedReaches DEF FilesInv, CallTypes
<1>6. o.size \in {Size, Chunked(n)} /\ o.rc \in HintCodes
  <2>1. \/ o = Outcome(Size, Mapping, "FSTAT") \/ o = Outcome(Size, Mapping, "OK")
        \/ o \in winTruncate(n)
    OBVIOUS
  <2>2. QED
    BY <2>1, WinTruncatedSize DEF Outcome, HintCodes
<1> HIDE DEF Outcomes
<1>7. PICK m \in 0 .. MaxSize, size \in Nat : m = o.size /\ size = Size
  BY <1>1, <1>4, <1>5, <1>6
<1>8. m >= size \/ m >= n
  BY <1>1, <1>4, <1>5, <1>6, <1>7
<1>9. ResizedIsGrown(size, size, m)
  <2>1. size <= size /\ m \in Nat
    BY <1>1
  <2>2. QED
    BY <2>1, GrownMore
<1>10. file' = Grown(before', m)
  BY <1>2, <1>3, <1>4, <1>7, <1>9, NotGrown DEF ResizedIsGrown
<1>11. NewCall("hint") /\ pc' \in Ops.hint
  BY <1>1, <1>3, <1>4 DEF NewCall, FirstByte, Ops
<1>12. pc' = "hint.done" /\ rc' \in HintCodes
  BY <1>3, <1>6
<1>13. amt' \in 1 .. MaxSize /\ before' \in 0 .. MaxSize /\ (m >= before' \/ m >= amt')
  BY <1>1, <1>3, <1>4, <1>7, <1>8
<1>14. QED
  BY <1>10, <1>11, <1>12, <1>13, HintStepApi

(***************************************************************************)
(* What happens between calls: the file gets another size, or stays as it  *)
(* is.                                                                     *)
(***************************************************************************)
LEMMA UnixTruncateApi ==
  ASSUME FilesInv, ApiInv, NEW n \in Nat, unixTruncate(n)
  PROVE  ApiInv' /\ ApiStep
<1>1. Chunked(n) \in Nat /\ MaxSize \in Nat
  BY ChunkedReaches, FileIoAssumption DEF FilesInv, CallTypes
<1>2. PICK m \in 0 .. MaxSize : m = Chunked(n)
  BY <1>1 DEF unixTruncate
<1>3. pc = "idle" /\ pc' = "idle" /\ file' = Olds(m)
  BY <1>2 DEF unixTruncate, callUnchanged, Olds
<1>4. QED
  BY <1>3, IdleApi

LEMMA WinTruncateApi ==
  ASSUME FilesInv, ApiInv, NEW n \in Nat, WinTruncate(n)
  PROVE  ApiInv' /\ ApiStep
<1>1. pc = "idle" /\ pc' = "idle" /\ Chunked(n) <= MaxSize
  BY DEF WinTruncate, callUnchanged
<1>2. PICK o \in winTruncate(n) : file' = Olds(o.size)
  BY DEF WinTruncate, Olds
<1>3. Chunked(n) \in Nat /\ MaxSize \in Nat /\ Size \in Nat /\ Size <= MaxSize
  BY SizeNat, ChunkedReaches, FileIoAssumption DEF FilesInv, CallTypes, ApiInv
<1>4. o.size \in {Size, Chunked(n)}
  BY WinTruncatedSize
<1>5. PICK m \in 0 .. MaxSize : m = o.size
  BY <1>1, <1>3, <1>4
<1>6. QED
  BY <1>1, <1>2, <1>5, IdleApi

LEMMA OthersApi ==
  ASSUME FilesInv, ApiInv, OthersWrite \/ WinOthersWrite
  PROVE  ApiInv' /\ ApiStep
<1>1. PICK n \in 0 .. MaxSize : file' = Olds(n)
  BY DEF OthersWrite, WinOthersWrite, Olds
<1>2. pc = "idle" /\ pc' = "idle"
  BY DEF OthersWrite, WinOthersWrite, callUnchanged
<1>3. QED
  BY <1>1, <1>2, IdleApi

LEMMA UnixNextApi ==
  ASSUME FilesInv, ApiInv, UnixNext
  PROVE  ApiInv' /\ ApiStep
<1>0. 0 .. MaxSize \subseteq Nat
  BY FileIoAssumption
<1>1. CASE \E o \in Offsets, n \in 1 .. MaxAmount :
             Unix /\ o + n <= MaxSize /\ (ReadMapping(o, n) \/ WriteMapping(o, n))
  BY <1>1, ReadMappingApi, WriteMappingApi
<1>2. CASE seekAndRead \/ seekAndWrite
  BY <1>2, SeekAndReadApi, WritingApi
<1>3. CASE (\E o \in Offsets : unixFetch(o)) \/ (\E n \in Limits : SetMmapSize(n))
  <2>1. pc = "idle" /\ pc' = "idle" /\ file' = file
    BY <1>3 DEF unixFetch, SetMmapSize, callUnchanged, fileVars
  <2>2. QED
    BY <2>1, IdleKeeps
<1>4. CASE OthersWrite
  BY <1>4, OthersApi
<1>5. CASE \E n \in 0 .. MaxSize : unixTruncate(n)
  BY <1>0, <1>5, UnixTruncateApi
<1>6. CASE \E n \in 1 .. MaxSize : SizeHint(n)
  BY <1>6, SizeHintApi
<1>7. CASE Allocate \/ Fill \/ HintMap
  BY <1>7, AllocateApi, FillApi, HintMapApi
<1>8. QED
  BY <1>1, <1>2, <1>3, <1>4, <1>5, <1>6, <1>7 DEF UnixNext

LEMMA WinNextApi ==
  ASSUME FilesInv, ApiInv, WinNext
  PROVE  ApiInv' /\ ApiStep
<1>0. 0 .. MaxSize \subseteq Nat
  BY FileIoAssumption
<1>1. CASE \E o \in Offsets, n \in 1 .. MaxAmount :
             Windows /\ o + n <= MaxSize /\ (ReadMapping(o, n) \/ WriteMapping(o, n))
  BY <1>1, ReadMappingApi, WriteMappingApi
<1>2. CASE winRead \/ winWrite
  BY <1>2, WinReadApi, WritingApi
<1>3. CASE (\E o \in Offsets : winFetch(o)) \/ (\E n \in Limits : WinSetMmapSize(n))
  <2>1. pc = "idle" /\ pc' = "idle" /\ file' = file
    BY <1>3 DEF winFetch, WinSetMmapSize, callUnchanged, fileVars
  <2>2. QED
    BY <2>1, IdleKeeps
<1>4. CASE WinOthersWrite
  BY <1>4, OthersApi
<1>5. CASE \E n \in 0 .. MaxSize : WinTruncate(n)
  BY <1>0, <1>5, WinTruncateApi
<1>6. CASE \E n \in 1 .. MaxSize : WinSizeHint(n)
  BY <1>6, WinSizeHintApi
<1>7. QED
  BY <1>1, <1>2, <1>3, <1>4, <1>5, <1>6 DEF WinNext

LEMMA FileNextApi ==
  ASSUME FilesInv, ApiInv, FileNext
  PROVE  ApiInv' /\ ApiStep
<1>1. CASE (\E o \in Offsets : Unfetch(o)) \/ (\E n \in ChunkSizes : SetChunkSize(n)) \/ Close
  <2>1. pc = "idle" /\ pc' = "idle" /\ file' = file
    BY <1>1 DEF Unfetch, SetChunkSize, Close, callUnchanged, fileVars
  <2>2. QED
    BY <2>1, IdleKeeps
<1>2. CASE Finish
  BY <1>2, FinishApi
<1>3. QED
  BY <1>1, <1>2 DEF FileNext

LEMMA ApiStutters ==
  ASSUME ApiInv, UNCHANGED ioVars
  PROVE  ApiInv' /\ ApiStep
<1>1. UNCHANGED <<file, szChunk, pc, off, amt, got, buf, before, rc>>
  BY DEF ioVars, fileVars, callVars
<1>2. Op' = Op
  BY <1>1 DEF Op
<1>3. UNCHANGED ApiVars
  BY <1>1, <1>2 DEF ApiVars, ApiCall, ApiDone, ApiAnswer
<1>4. ApiInv'
  BY <1>1 DEF ApiInv, Size, Olds, Grown, TheCall, Chunked, Api!Written
<1>5. QED
  BY <1>3, <1>4 DEF ApiStep

LEMMA ApiStepInv ==
  ASSUME FilesInv, ApiInv, [FilesNext]_ioVars
  PROVE  ApiInv' /\ ApiStep
BY UnixNextApi, WinNextApi, FileNextApi, ApiStutters DEF FilesNext

LEMMA ApiInitInv ==
  ASSUME FileInit
  PROVE  ApiInv /\ Api!Init
<1>1. file = <<>> /\ Size = 0 /\ pc = "idle"
  BY DEF FileInit, Size
<1>2. MaxSize \in Nat
  BY FileIoAssumption
<1>3. ApiCall = <<>> /\ ApiDone = 0 /\ ApiAnswer = <<>>
  BY <1>1 DEF ApiCall, ApiDone, ApiAnswer, Ops
<1>4. file = Olds(Size)
  BY <1>1 DEF Olds
<1>5. ApiInv
  BY <1>1, <1>2, <1>4 DEF ApiInv, Steps, Ops
<1>6. QED
  BY <1>1, <1>3, <1>5 DEF Api!Init, Api!None

(* Reads, writes and size hints return what they promise, and leave in the *)
(* file what they promise, whatever is mapped of it, however little each   *)
(* system call transfers and wherever one fails (unixRead, unixWrite,      *)
(* fcntlSizeHint, winRead, winWrite, winTruncate).                         *)
THEOREM FileApiRefined == FilesSpec => ImplementsFileApi
<1>1. FileInit => ApiInv /\ Api!Init
  BY ApiInitInv
<1>2. FilesInv /\ ApiInv /\ [FilesNext]_ioVars => ApiInv' /\ [Api!Next]_(Api!vars)
  BY ApiStepInv DEF ApiStep, ApiVars, Api!vars
<1>3. QED
  BY AlwaysFilesInv, <1>1, <1>2, PTL DEF FilesSpec, ImplementsFileApi, Api!Spec

(* No step of a hint cuts off what was in the file, as far as there are    *)
(* chunks.                                                                 *)
LEMMA HintNotShorter ==
  ASSUME FilesInv, ApiInv, szChunk > 0, build.system = "unix",
         Allocate \/ Fill \/ HintMap
  PROVE  Size' >= before'
<1>1. before <= Size /\ before' = before /\ before \in Nat /\ Size \in Nat
  <2>1. pc \in {"hint.allocate", "hint.fill", "hint.map"} /\ before' = before
    BY DEF Allocate, Fill, HintMap
  <2>2. before <= Size
    BY <2>1 DEF ApiInv
  <2>3. QED
    BY <2>1, <2>2, SizeNat DEF FilesInv, CallTypes
<1>2. CASE Allocate
  <2>1. Chunked(amt) \in Nat /\ Chunked(amt) > Size
    BY <1>2, ChunkedReaches DEF Allocate, FilesInv, HintOK, CallTypes
  <2>2. Size' = Size \/ Size' = Chunked(amt)
    BY <1>2, <2>1, ResizedSeq DEF Allocate, FilesInv, FileTypes, fileVars, Size
  <2>3. QED
    BY <1>1, <2>1, <2>2
<1>3. CASE Fill
  <2> DEFINE i == Lower(off, Chunked(amt) - 1)
             longer == IF i + 1 > Size THEN Resized(file, i + 1) ELSE file
  <2>1. file' = file \/ file' = [longer EXCEPT ![i + 1] = ZERO]
    BY <1>3 DEF Fill
  <2>2. i + 1 \in Nat \ {0}
    BY <1>3, ChunkedReaches DEF Fill, FilesInv, HintOK, CallTypes, Lower
  <2> HIDE DEF i
  <2>3. file \in Seq(Int) /\ Len(file) = Size
    BY DEF FilesInv, FileTypes, Size
  <2>4. longer \in Seq(Int) /\ Len(longer) >= Size /\ i + 1 \in 1 .. Len(longer)
    <3>1. CASE i + 1 > Size
      <4>1. longer \in Seq(Int) /\ Len(longer) = i + 1
        BY <2>2, <2>3, <3>1, ResizedSeq
      <4>2. QED
        BY <1>1, <2>2, <3>1, <4>1
    <3>2. CASE ~(i + 1 > Size)
      BY <1>1, <2>2, <2>3, <3>2
    <3>3. QED
      BY <3>1, <3>2
  <2> HIDE DEF longer
  <2>5. Len([longer EXCEPT ![i + 1] = ZERO]) = Len(longer)
    BY <2>4, FirstBytesSet
  <2>6. QED
    BY <1>1, <2>1, <2>3, <2>4, <2>5 DEF Size
<1>4. CASE HintMap
  <2>1. file' = file
    BY <1>4 DEF HintMap
  <2>2. QED
    BY <1>1, <2>1 DEF Size
<1>5. QED
  BY <1>2, <1>3, <1>4

LEMMA HintSizeStep ==
  ASSUME FilesInv, ApiInv, HintKeepsSize, [FilesNext]_ioVars
  PROVE  HintKeepsSize'
<1>1. CASE \E n \in 1 .. MaxSize : SizeHint(n)
  <2>1. before' = Size /\ Size' = Size /\ Size \in Nat
    BY <1>1, SizeNat DEF SizeHint, Begin, fileVars, Size, FilesInv
  <2>2. QED
    BY <2>1 DEF HintKeepsSize
<1>2. CASE Allocate \/ Fill \/ HintMap
  <2>1. build.system = "unix" /\ UNCHANGED <<build, szChunk>>
    BY <1>2 DEF FilesInv, HintOK, Allocate, Fill, HintMap
  <2>2. szChunk > 0 => Size' >= before'
    BY <1>2, <2>1, HintNotShorter
  <2>3. QED
    BY <2>1, <2>2 DEF HintKeepsSize
<1>3. CASE \E n \in 1 .. MaxSize : WinSizeHint(n)
  <2>1. PICK n \in 1 .. MaxSize : WinSizeHint(n)
    BY <1>3
  <2>2. n \in Nat /\ Size \in Nat /\ Chunked(n) \in Nat /\ n <= Chunked(n)
    BY ChunkedReaches, SizeNat DEF FilesInv, CallTypes
  <2>3. PICK o : /\ o = Outcome(Size, Mapping, "FSTAT") \/ o = Outcome(Size, Mapping, "OK")
                    \/ (n > Size /\ o \in winTruncate(n))
                 /\ Begin("hint.done", 0, n, 0, o.rc) /\ file' = Resized(file, o.size)
    BY <2>1 DEF WinSizeHint
  <2>4. o.size = Size \/ (n > Size /\ o.size = Chunked(n))
    BY <2>3, WinTruncatedSize DEF Outcome
  <2>5. o.size \in Nat /\ o.size >= Size
    BY <2>2, <2>4
  <2>6. Size' = o.size /\ before' = Size
    BY <2>3, <2>5, ResizedSeq DEF Begin, Size, FilesInv, FileTypes
  <2>7. QED
    BY <2>5, <2>6 DEF HintKeepsSize
<1>4. CASE UNCHANGED ioVars
  BY <1>4 DEF ioVars, fileVars, callVars, HintKeepsSize, Size
<1>5. CASE \E o \in Offsets, n \in 1 .. MaxAmount : ReadMapping(o, n) \/ WriteMapping(o, n)
  BY <1>5 DEF ReadMapping, WriteMapping, Begin, HintKeepsSize, Ops
<1>6. CASE seekAndRead \/ seekAndWrite \/ winRead \/ winWrite
  BY <1>6 DEF seekAndRead, seekAndWrite, winRead, winWrite, winRetryIoerr, Return, HintKeepsSize, Ops
<1>7. CASE pc = "idle" /\ callUnchanged
  BY <1>7 DEF callUnchanged, HintKeepsSize, Ops
<1>8. CASE FileNext
  BY <1>8 DEF FileNext, Unfetch, SetChunkSize, Close, Finish, callUnchanged, HintKeepsSize, Ops
<1>9. CASE UnixNext
  <2>1. \/ \E o \in Offsets, n \in 1 .. MaxAmount : ReadMapping(o, n) \/ WriteMapping(o, n)
        \/ seekAndRead \/ seekAndWrite
        \/ pc = "idle" /\ callUnchanged
        \/ \E n \in 1 .. MaxSize : SizeHint(n)
        \/ Allocate \/ Fill \/ HintMap
    BY <1>9 DEF UnixNext, unixFetch, OthersWrite, SetMmapSize, unixTruncate
  <2>2. QED
    BY <1>1, <1>2, <1>5, <1>6, <1>7, <2>1
<1>10. CASE WinNext
  <2>1. \/ \E o \in Offsets, n \in 1 .. MaxAmount : ReadMapping(o, n) \/ WriteMapping(o, n)
        \/ winRead \/ winWrite
        \/ pc = "idle" /\ callUnchanged
        \/ \E n \in 1 .. MaxSize : WinSizeHint(n)
    BY <1>10 DEF WinNext, winFetch, WinOthersWrite, WinSetMmapSize, WinTruncate
  <2>2. QED
    BY <1>3, <1>5, <1>6, <1>7, <2>1
<1>11. QED
  BY <1>4, <1>8, <1>9, <1>10 DEF FilesNext

(* A size hint that succeeds has made the file as long as it was asked to, *)
(* in whole chunks, unless the file system refused the allocation, and no  *)
(* hint with chunks, nor any on Windows, has ever cut off what was there   *)
(* (fcntlSizeHint, SQLITE_FCNTL_SIZE_HINT, winTruncate).                   *)
THEOREM HintsReach == FilesSpec => []HintReaches
<1>1. FileInit => ApiInv /\ HintKeepsSize
  BY ApiInitInv DEF FileInit, HintKeepsSize, Ops
<1>2. FilesInv /\ ApiInv /\ HintKeepsSize /\ [FilesNext]_ioVars => ApiInv' /\ HintKeepsSize'
  BY ApiStepInv, HintSizeStep
<1>3. FilesInv /\ HintKeepsSize => HintReaches
  BY DEF FilesInv, HintOK, HintReaches
<1>4. QED
  BY AlwaysFilesInv, <1>1, <1>2, <1>3, PTL DEF FilesSpec

(***************************************************************************)
(* The directory entry of a journal.  A handle whose journal counts as     *)
(* synced already must have synced the entry that is there now: it keeps   *)
(* its inode in use, so no other file gets it.                             *)
(***************************************************************************)
DirTypes ==
  /\ entry \in Inode \cup {None} /\ diskEntry \in Inode \cup {None}
  /\ inode \in [DirHandle -> Inode \cup {None}]
  /\ isNewJrnl \subseteq DirHandle /\ unsyncable \in {0, 1}
  /\ step \in [DirHandle -> {"closed", "readonly", "idle", "openDir"}]

EntrySynced(h) ==
  h \in isNewJrnl =>
    /\ inode[h] # None /\ step[h] \in {"idle", "openDir"}
    /\ h \notin DIRSYNC /\ inode[h] = entry /\ unsyncable = 0 => diskEntry = entry

DirInv == DirTypes /\ JournalKept /\ \A h \in DirHandle : EntrySynced(h)

LEMMA DirInitInv == DirInit => DirInv
  BY UnixDirAssumption DEF DirInit, DirInv, DirTypes, JournalKept, EntrySynced, None

LEMMA DirOpenInv ==
  ASSUME DirInv, NEW h \in DirHandle, OpenJournal(h) \/ OpenReadonly(h)
  PROVE  DirInv'
<1> USE DEF DirInv, DirTypes, EntrySynced, JournalKept, promiseUnchanged
<1>1. ASSUME NEW create \in BOOLEAN, entry # None, Opened(h, entry, create),
             DIRSYNC' = IF create THEN DIRSYNC \cup {h} ELSE DIRSYNC,
             UNCHANGED <<entry, diskEntry, promised, unsyncable>>, h \notin isNewJrnl
      PROVE  DirInv'
  BY <1>1 DEF Opened, Step
<1>2. ASSUME entry = None, NEW i \in Unused, entry' = i, Opened(h, i, TRUE),
             DIRSYNC' = DIRSYNC \cup {h}, Unpromised, UNCHANGED diskEntry
      PROVE  DirInv'
  BY <1>2, UnixDirAssumption DEF Opened, Step, Unused, Unpromised, None
<1>3. ASSUME UNCHANGED <<entry, diskEntry, inode, isNewJrnl, DIRSYNC, promised, unsyncable>>,
             h \notin isNewJrnl, Step(h, "readonly") \/ Step(h, "closed")
      PROVE  DirInv'
  BY <1>3 DEF Step
<1>4. step[h] \in {"closed", "readonly"} => h \notin isNewJrnl
  OBVIOUS
<1>5. ASSUME OpenJournal(h) PROVE DirInv'
  <2>1. PICK create \in BOOLEAN :
          \/ entry # None /\ Opened(h, entry, create) /\ UNCHANGED <<entry, promised, unsyncable>>
             /\ DIRSYNC' = IF create THEN DIRSYNC \cup {h} ELSE DIRSYNC
          \/ /\ entry = None /\ create /\ Unpromised /\ DIRSYNC' = DIRSYNC \cup {h}
             /\ \E i \in Unused : entry' = i /\ Opened(h, i, TRUE)
          \/ /\ Step(h, "readonly")
             /\ UNCHANGED <<entry, inode, isNewJrnl, DIRSYNC, promised, unsyncable>>
    BY <1>5 DEF OpenJournal, DirSync
  <2>2. UNCHANGED diskEntry /\ step[h] = "closed"
    BY <1>5 DEF OpenJournal
  <2> QED
    BY <1>1, <1>2, <1>3, <1>4, <2>1, <2>2
<1>6. ASSUME OpenReadonly(h) PROVE DirInv'
  BY <1>1, <1>3, <1>4, <1>6 DEF OpenReadonly
<1> QED
  BY <1>5, <1>6

LEMMA DirCloseInv ==
  ASSUME DirInv, (\E h \in DirHandle : CloseJournal(h) \/ ProcessDies(h)) \/ DirPowerFailure
  PROVE  DirInv'
  BY DEF DirInv, DirTypes, EntrySynced, JournalKept, promiseUnchanged, CloseJournal, ProcessDies,
         DirPowerFailure, Dies, Step

LEMMA DirSyncInv ==
  ASSUME DirInv, NEW h \in DirHandle, Sync(h) \/ SyncDir(h)
  PROVE  DirInv'
<1> USE DEF DirInv, DirTypes, EntrySynced, JournalKept
<1>1. ASSUME Sync(h) PROVE DirInv'
  BY <1>1, UnixDirAssumption DEF Sync, SyncReturns, Step, None
<1>2. ASSUME SyncDir(h) PROVE DirInv'
  BY <1>2, UnixDirAssumption DEF SyncDir, SyncReturns, Step, None
<1> QED
  BY <1>1, <1>2

LEMMA DirDeleteInv ==
  ASSUME DirInv, (\E dirSync \in BOOLEAN : Unlink(dirSync)) \/ DeleteSyncDir \/ WriteBack
  PROVE  DirInv'
<1> USE DEF DirInv, DirTypes, EntrySynced, JournalKept
<1>1. ASSUME NEW dirSync \in BOOLEAN, Unlink(dirSync) PROVE DirInv'
  BY <1>1, UnixDirAssumption DEF Unlink, Unpromised, None
<1>2. ASSUME DeleteSyncDir PROVE DirInv'
  BY <1>2, UnixDirAssumption DEF DeleteSyncDir, None
<1>3. ASSUME WriteBack PROVE DirInv'
  BY <1>3 DEF WriteBack
<1> QED
  BY <1>1, <1>2, <1>3

(* unixOpen, unixSync, unixDelete: a journal that was synced is found      *)
(* again, and one that was deleted with dirSync stays away, after any      *)
(* number of crashes and power failures, unless an error of syncing the    *)
(* directory was ignored.                                                  *)
THEOREM JournalsKept == DirSpec => []JournalKept
<1>1. DirInv /\ [DirNext]_dirVars => DirInv'
  <2> SUFFICES ASSUME DirInv, [DirNext]_dirVars PROVE DirInv'
    OBVIOUS
  <2>1. CASE UNCHANGED dirVars
    BY <2>1 DEF dirVars, DirInv, DirTypes, EntrySynced, JournalKept
  <2>2. ASSUME NEW h \in DirHandle, OpenJournal(h) \/ OpenReadonly(h) PROVE DirInv'
    BY <2>2, DirOpenInv
  <2>3. ASSUME NEW h \in DirHandle, Sync(h) \/ SyncDir(h) PROVE DirInv'
    BY <2>3, DirSyncInv
  <2> QED
    BY <2>1, <2>2, <2>3, DirCloseInv, DirDeleteInv DEF DirNext
<1>2. DirInv => JournalKept
  BY DEF DirInv
<1> QED
  BY <1>1, <1>2, DirInitInv, PTL DEF DirSpec

(***************************************************************************)
(* Descriptors, access modes and names.                                    *)
(***************************************************************************)
HaveFd == {"fstat", "fchmod", "unlink", "fill", "open"}
OpenSteps == HaveFd \cup {"closed", "create", "readonly"}
Kernel == [host : Host, node : Node, write : BOOLEAN]
Waiting == [fd : Descriptor, node : Node, host : Host, write : BOOLEAN]

OpenTypes ==
  /\ os \in {"unix", "windows", "wince"} /\ kind \in {"db", "journal", "temp"}
  /\ names \in [Names -> Node \cup {Absent}]
  /\ mode \in [Node -> {"db", "masked"}] /\ content \subseteq Node
  /\ DOMAIN fds \subseteq Descriptor /\ fds \in [DOMAIN fds -> Kernel]
  /\ hstep \in [FileHandle -> OpenSteps]
  /\ flags \in [FileHandle -> [write : BOOLEAN, create : BOOLEAN, excl : BOOLEAN]]
  /\ zName \in [FileHandle -> Names] /\ fd \in [FileHandle -> Descriptor \cup {NoFd}]
  /\ locked \subseteq FileHandle /\ pUnused \subseteq Waiting

(* A handle has a descriptor from the open() that succeeds to the close,   *)
(* and one that still tries goes on with the flags of its caller.          *)
FdOK(h) ==
  /\ fd[h] # NoFd <=> hstep[h] \in HaveFd
  /\ fd[h] # NoFd =>
       fd[h] \in DOMAIN fds /\ fds[fd[h]].host = HostOf[h] /\ fds[fd[h]].write = flags[h].write
CallOK(h) ==
  /\ hstep[h] \in {"create", "readonly"} =>
       IF kind = "temp" THEN flags[h].excl ELSE zName[h] = kind
  /\ hstep[h] = "readonly" => ~flags[h].write /\ (kind = "temp" => os = "unix")
  /\ hstep[h] = "unlink" => kind = "temp"
  /\ h \in locked => hstep[h] = "open" /\ kind = "db"

WaitingOK(u) ==
  /\ kind = "db" /\ os = "unix"
  /\ u.fd \in DOMAIN fds /\ fds[u.fd] = [host |-> u.host, node |-> u.node, write |-> u.write]
  /\ \E h \in locked : HostOf[h] = u.host /\ NodeOf(h) = u.node

OneOwner ==
  /\ \A g, h \in FileHandle : g # h /\ fd[g] = fd[h] => fd[h] = NoFd
  /\ \A u \in pUnused, h \in FileHandle : u.fd # fd[h]
  /\ \A u, v \in pUnused : u.fd = v.fd => u = v
  /\ \A d \in DOMAIN fds : (\E h \in FileHandle : fd[h] = d) \/ (\E u \in pUnused : u.fd = d)

DescInv ==
  /\ OpenTypes /\ OneOwner
  /\ \A h \in FileHandle : FdOK(h) /\ CallOK(h)
  /\ \A u \in pUnused : WaitingOK(u)

(* Of a temporary file there is one writer, and on Windows one user.       *)
TempOK ==
  kind = "temp" =>
    \A d, e \in DOMAIN fds : d # e /\ fds[d].node = fds[e].node =>
      os = "unix" /\ ~(fds[d].write /\ fds[e].write)

(* A handle that may write has seen to the permissions of its journal.     *)
ModeOK ==
  /\ os # "unix" => \A i \in Node : mode[i] = "db"
  /\ kind = "journal" => \A h \in FileHandle :
       hstep[h] \in {"fill", "open"} => mode[NodeOf(h)] = "db"

OpenInv == DescInv /\ TempOK /\ ModeOK /\ JournalMode

LEMMA FreeNode ==
  ASSUME OpenTypes
  PROVE  NewNode \in Node /\ NewNode \notin OpenNodes /\ \A n \in Names : names[n] # NewNode
<1> DEFINE given == {names[n] : n \in Names}
<1>1. IsFiniteSet(Names)
  <2>1. IsFiniteSet({"db"}) /\ {"db", "journal"} = {"db"} \cup {"journal"}
    BY FS_Singleton
  <2>2. IsFiniteSet({"db", "journal"})
    BY <2>1, FS_AddElement
  <2> QED
    BY <2>2, FS_Union, OpenFileAssumption DEF Names
<1>2. IsFiniteSet(given) /\ Cardinality(given) <= Cardinality(Names)
  <2>1. [n \in Names |-> names[n]] \in Surjection(Names, given)
    BY DEF Surjection
  <2> QED
    BY <1>1, <2>1, FS_Surjection
<1>3. IsFiniteSet(DOMAIN fds) /\ Cardinality(DOMAIN fds) <= Cardinality(Descriptor)
  BY FS_Subset, OpenFileAssumption DEF OpenTypes
<1>4. IsFiniteSet(OpenNodes) /\ Cardinality(OpenNodes) <= Cardinality(DOMAIN fds)
  <2>1. [d \in DOMAIN fds |-> fds[d].node] \in Surjection(DOMAIN fds, OpenNodes)
    BY DEF Surjection, OpenNodes
  <2> QED
    BY <1>3, <2>1, FS_Surjection
<1>5. IsFiniteSet(OpenNodes \cup given)
      /\ Cardinality(OpenNodes \cup given) <= Cardinality(Descriptor) + Cardinality(Names)
  <2>1. /\ Cardinality(OpenNodes) \in Nat /\ Cardinality(given) \in Nat
        /\ Cardinality(Descriptor) \in Nat /\ Cardinality(Names) \in Nat
        /\ Cardinality(DOMAIN fds) \in Nat /\ Cardinality(OpenNodes \cap given) \in Nat
    BY <1>1, <1>2, <1>3, <1>4, FS_CardinalityType, FS_Intersection, OpenFileAssumption
  <2>2. /\ IsFiniteSet(OpenNodes \cup given)
        /\ Cardinality(OpenNodes \cup given)
           = Cardinality(OpenNodes) + Cardinality(given) - Cardinality(OpenNodes \cap given)
    BY <1>2, <1>4, FS_Union
  <2> QED
    BY <1>2, <1>3, <1>4, <2>1, <2>2
<1>6. \E i \in Node : i \notin OpenNodes \cup given
  <2> SUFFICES ASSUME Node \subseteq OpenNodes \cup given PROVE FALSE
    OBVIOUS
  <2>1. IsFiniteSet(Node) /\ Cardinality(Node) <= Cardinality(OpenNodes \cup given)
    BY <1>5, FS_Subset
  <2>2. /\ Cardinality(Node) \in Nat /\ Cardinality(OpenNodes \cup given) \in Nat
        /\ Cardinality(Descriptor) \in Nat /\ Cardinality(Names) \in Nat
    BY <1>1, <1>5, <2>1, FS_CardinalityType, OpenFileAssumption
  <2> QED
    BY <1>5, <2>1, <2>2, OpenFileAssumption
<1> QED
  BY <1>6 DEF NewNode

(***************************************************************************)
(* Steps that leave the descriptors as they are.                           *)
(***************************************************************************)
LEMMA SameFds ==
  ASSUME OpenInv, OpenTypes', UNCHANGED <<os, kind, fds, fd, pUnused>>, locked \subseteq locked',
         \A h \in FileHandle : FdOK(h)' /\ CallOK(h)', ModeOK', JournalMode'
  PROVE  OpenInv'
<1>1. OneOwner'
  BY DEF OpenInv, DescInv, OneOwner
<1>2. \A h \in FileHandle : NodeOf(h)' = NodeOf(h)
  BY DEF NodeOf
<1>3. ASSUME NEW u \in pUnused PROVE WaitingOK(u)'
  <2>1. WaitingOK(u)
    BY DEF OpenInv, DescInv
  <2>2. PICK h \in locked : HostOf[h] = u.host /\ NodeOf(h) = u.node
    BY <2>1 DEF WaitingOK
  <2>3. h \in FileHandle /\ h \in locked'
    BY DEF OpenInv, DescInv, OpenTypes
  <2> QED
    BY <1>2, <2>1, <2>2, <2>3 DEF WaitingOK
<1>4. DescInv'
  BY <1>1, <1>3 DEF DescInv
<1>5. TempOK'
  BY DEF OpenInv, TempOK
<1> QED
  BY <1>4, <1>5 DEF OpenInv

(* Nothing that is written about descriptors and journals changes.         *)
LEMMA SameFiles ==
  ASSUME OpenInv, OpenTypes', UNCHANGED <<os, kind, fds, fd, pUnused, mode, content>>,
         names'["journal"] \in {names["journal"], Absent},
         locked \subseteq locked',
         \A h \in FileHandle : FdOK(h)' /\ CallOK(h)',
         \A h \in FileHandle :
           kind = "journal" /\ hstep'[h] \in {"fill", "open"} /\ hstep[h] \notin {"fill", "open"}
             => mode[NodeOf(h)] = "db"
  PROVE  OpenInv'
<1>1. ModeOK'
  BY DEF OpenInv, ModeOK, NodeOf
<1>2. JournalMode'
  BY OpenFileAssumption DEF OpenInv, DescInv, OpenTypes, JournalMode, OpenNodes
<1> QED
  BY <1>1, <1>2, SameFds

LEMMA OpenFacts ==
  ASSUME OpenInv, NEW h \in FileHandle
  PROVE  /\ OpenTypes /\ FdOK(h) /\ CallOK(h)
         /\ hstep[h] \in HaveFd =>
              fd[h] \in DOMAIN fds /\ fds[fd[h]] \in Kernel /\ NodeOf(h) \in Node /\ NodeOf(h) \in OpenNodes
  BY DEF OpenInv, DescInv, OpenTypes, FdOK, NodeOf, OpenNodes, Kernel

LEMMA FstatInv == ASSUME OpenInv, NEW h \in FileHandle, Fstat(h) PROVE OpenInv'
<1> USE DEF Fstat, At, Set
<1>1. OpenTypes /\ FdOK(h) /\ CallOK(h) /\ NodeOf(h) \in Node /\ NodeOf(h) \in OpenNodes
  BY OpenFacts DEF HaveFd
<1>2. OpenTypes'
  BY <1>1 DEF OpenTypes, OpenSteps, HaveFd, diskVars
<1>3. ASSUME NEW g \in FileHandle PROVE FdOK(g)' /\ CallOK(g)'
  BY <1>1, OpenFacts DEF FdOK, CallOK, HaveFd, OpenTypes
<1>4. ASSUME NEW g \in FileHandle, kind = "journal", hstep'[g] \in {"fill", "open"}, hstep[g] \notin {"fill", "open"}
      PROVE  mode[NodeOf(g)] = "db"
  <2>1. g = h /\ ~NeedsMode(NodeOf(h))
    BY <1>1, <1>4 DEF OpenTypes
  <2> QED
    BY <1>1, <1>4, <2>1 DEF NeedsMode, OpenInv, JournalMode
<1> QED
  BY <1>2, <1>3, <1>4, SameFiles DEF diskVars

LEMMA FchmodInv == ASSUME OpenInv, NEW h \in FileHandle, Fchmod(h) PROVE OpenInv'
<1> USE DEF Fchmod, At, Set
<1>1. OpenTypes /\ FdOK(h) /\ CallOK(h) /\ NodeOf(h) \in Node
  BY OpenFacts DEF HaveFd
<1>2. OpenTypes'
  BY <1>1 DEF OpenTypes, OpenSteps, HaveFd
<1>3. ASSUME NEW g \in FileHandle PROVE FdOK(g)' /\ CallOK(g)'
  BY <1>1, OpenFacts DEF FdOK, CallOK, HaveFd, OpenTypes
<1>4. \A i \in Node : mode'[i] = IF i = NodeOf(h) THEN "db" ELSE mode[i]
  BY <1>1 DEF OpenTypes
<1>5. ModeOK'
  <2>1. ASSUME kind = "journal", NEW g \in FileHandle, hstep'[g] \in {"fill", "open"}
        PROVE mode'[NodeOf(g)] = "db"
    <3>1. hstep[g] \in HaveFd /\ (g # h => hstep[g] \in {"fill", "open"})
      BY <1>1, <2>1 DEF OpenTypes, HaveFd
    <3>2. NodeOf(g) \in Node
      BY <3>1, OpenFacts
    <3> QED
      BY <1>4, <2>1, <3>1, <3>2 DEF OpenInv, ModeOK
  <2> QED
    BY <1>4, <2>1 DEF OpenInv, ModeOK, NodeOf
<1>6. JournalMode'
  BY <1>1, <1>4 DEF OpenInv, JournalMode, OpenTypes, OpenNodes
<1> QED
  BY <1>2, <1>3, <1>5, <1>6, SameFds

LEMMA UnlinkTempInv == ASSUME OpenInv, NEW h \in FileHandle, UnlinkTemp(h) PROVE OpenInv'
<1> USE DEF UnlinkTemp, At, Set
<1>1. OpenTypes /\ FdOK(h) /\ CallOK(h)
  BY OpenFacts
<1>2. OpenTypes'
  BY <1>1 DEF OpenTypes, OpenSteps, HaveFd
<1>3. ASSUME NEW g \in FileHandle PROVE FdOK(g)' /\ CallOK(g)'
  BY <1>1, OpenFacts DEF FdOK, CallOK, HaveFd, OpenTypes
<1>4. names'["journal"] \in {names["journal"], Absent}
  BY <1>1 DEF OpenTypes, Names
<1>5. kind # "journal"
  BY <1>1 DEF CallOK
<1> QED
  BY <1>2, <1>3, <1>4, <1>5, SameFiles

LEMMA LockFileInv == ASSUME OpenInv, NEW h \in FileHandle, LockFile(h) PROVE OpenInv'
<1> USE DEF LockFile
<1>1. OpenTypes'
  BY OpenFacts DEF OpenTypes, diskVars
<1>2. ASSUME NEW g \in FileHandle PROVE FdOK(g)' /\ CallOK(g)'
  BY OpenFacts DEF FdOK, CallOK, diskVars
<1> QED
  BY <1>1, <1>2, SameFiles DEF diskVars

LEMMA WriteJournalInv == ASSUME OpenInv, NEW h \in FileHandle, WriteJournal(h) PROVE OpenInv'
<1> USE DEF WriteJournal
<1>1. OpenTypes /\ NodeOf(h) \in Node
  BY OpenFacts DEF HaveFd
<1>2. OpenTypes'
  BY <1>1 DEF OpenTypes
<1>3. ASSUME NEW g \in FileHandle PROVE FdOK(g)' /\ CallOK(g)'
  BY OpenFacts DEF FdOK, CallOK
<1>4. ModeOK'
  BY DEF OpenInv, ModeOK, NodeOf
<1>5. mode[NodeOf(h)] = "db"
  BY DEF OpenInv, ModeOK
<1>6. JournalMode'
  BY <1>5 DEF OpenInv, JournalMode, OpenNodes
<1> QED
  BY <1>2, <1>3, <1>4, <1>6, SameFds

LEMMA OthersInv == ASSUME OpenInv, DeleteJournal \/ ReplaceDatabase PROVE OpenInv'
<1> USE DEF DeleteJournal, ReplaceDatabase, Set
<1>1. OpenTypes /\ NewNode \in Node
  BY FreeNode DEF OpenInv, DescInv
<1>2. OpenTypes'
  BY <1>1 DEF OpenTypes, Names
<1>3. ASSUME NEW g \in FileHandle PROVE FdOK(g)' /\ CallOK(g)'
  BY OpenFacts DEF FdOK, CallOK
<1>4. names'["journal"] \in {names["journal"], Absent}
  BY <1>1 DEF OpenTypes, Names
<1> QED
  BY <1>2, <1>3, <1>4, SameFiles

(***************************************************************************)
(* A new descriptor, and one that is used again.                           *)
(***************************************************************************)
LEMMA GivenInv ==
  ASSUME OpenInv, OpenTypes', NEW h \in FileHandle, hstep[h] \in {"create", "readonly"},
         NEW node \in Node, Given(h, node, flags[h].write),
         UNCHANGED <<os, kind, flags, zName, locked, pUnused>>,
         kind = "temp" => \A d \in DOMAIN fds : fds[d].node = node => os = "unix" /\ ~flags[h].write,
         os # "unix" => \A i \in Node : mode'[i] = "db",
         kind = "journal" =>
           /\ \A i \in OpenNodes : mode'[i] = mode[i]
           /\ content' \subseteq content
           /\ names'["journal"] # names["journal"] => names'["journal"] \notin content'
           /\ node \in content' => mode'[node] = "db"
           /\ names'["journal"] \in content' => mode'[names["journal"]] = mode[names["journal"]]
  PROVE  OpenInv'
<1> DEFINE new == CHOOSE d \in Descriptor : d \notin DOMAIN fds
<1>1. OpenTypes /\ FdOK(h) /\ CallOK(h) /\ fd[h] = NoFd /\ h \notin locked
  BY OpenFacts DEF FdOK, CallOK, HaveFd
<1>2. new \in Descriptor /\ new \notin DOMAIN fds
  BY <1>1 DEF Given, OpenTypes
<1> HIDE DEF new
<1>3. /\ fds' = [e \in DOMAIN fds \cup {new} |->
                   IF e = new THEN [host |-> HostOf[h], node |-> node, write |-> flags[h].write] ELSE fds[e]]
      /\ fd' = [fd EXCEPT ![h] = new] /\ hstep' = [hstep EXCEPT ![h] = AfterOpen]
  BY DEF Given, Set, At, new
<1>4. /\ DOMAIN fds' = DOMAIN fds \cup {new}
      /\ \A d \in DOMAIN fds : fds'[d] = fds[d]
      /\ fds'[new] = [host |-> HostOf[h], node |-> node, write |-> flags[h].write]
      /\ fd'[h] = new /\ \A g \in FileHandle : g # h => fd'[g] = fd[g] /\ hstep'[g] = hstep[g]
      /\ hstep'[h] = AfterOpen
  BY <1>1, <1>2, <1>3 DEF OpenTypes
<1>5. AfterOpen \in {"fstat", "unlink", "fill"} /\ (AfterOpen = "unlink" => kind = "temp")
      /\ (AfterOpen = "fill" => os # "unix" \/ kind # "journal") /\ new # NoFd
  BY <1>2, OpenFileAssumption DEF AfterOpen
<1>6. ASSUME NEW g \in FileHandle PROVE FdOK(g)' /\ CallOK(g)'
  <2>1. FdOK(g) /\ CallOK(g)
    BY OpenFacts
  <2>2. CASE g = h
    BY <1>1, <1>4, <1>5, <2>2 DEF FdOK, CallOK, HaveFd
  <2>3. CASE g # h
    BY <1>1, <1>4, <2>1, <2>3 DEF FdOK, CallOK, HaveFd
  <2> QED
    BY <2>2, <2>3
<1>7. OneOwner'
  <2>1. \A g \in FileHandle : fd[g] # new
    BY <1>2, <1>5, OpenFacts DEF FdOK
  <2>2. \A u \in pUnused : u.fd # new
    BY <1>2 DEF OpenInv, DescInv, WaitingOK
  <2>3. OneOwner /\ pUnused' = pUnused
    BY DEF OpenInv, DescInv
  <2>4. ASSUME NEW f \in FileHandle, NEW g \in FileHandle, f # g, fd'[f] = fd'[g] PROVE fd'[g] = NoFd
    BY <1>4, <2>1, <2>3, <2>4 DEF OneOwner
  <2>5. \A u \in pUnused', g \in FileHandle : u.fd # fd'[g]
    BY <1>4, <2>2, <2>3 DEF OneOwner
  <2>6. ASSUME NEW d \in DOMAIN fds'
        PROVE  (\E g \in FileHandle : fd'[g] = d) \/ (\E u \in pUnused' : u.fd = d)
    <3>1. CASE d = new
      BY <1>4, <3>1
    <3>2. CASE d # new
      BY <1>1, <1>4, <1>5, <2>3, <2>6, <3>2, OpenFileAssumption DEF OneOwner, OpenTypes
    <3> QED
      BY <3>1, <3>2
  <2> QED
    BY <2>3, <2>4, <2>5, <2>6 DEF OneOwner
<1>8. \A g \in FileHandle : g # h /\ fd[g] # NoFd => NodeOf(g)' = NodeOf(g)
  BY <1>4, OpenFacts DEF NodeOf, FdOK
<1>9. ASSUME NEW u \in pUnused PROVE WaitingOK(u)'
  <2>1. WaitingOK(u)
    BY DEF OpenInv, DescInv
  <2>2. PICK g \in locked : HostOf[g] = u.host /\ NodeOf(g) = u.node
    BY <2>1 DEF WaitingOK
  <2>3. g \in FileHandle /\ g # h /\ fd[g] # NoFd
    BY <1>1, <2>2, OpenFacts DEF OpenTypes, CallOK, FdOK, HaveFd
  <2> QED
    BY <1>4, <1>8, <2>1, <2>2, <2>3 DEF WaitingOK
<1>10. DescInv'
  BY <1>6, <1>7, <1>9 DEF DescInv
<1>11. TempOK'
  BY <1>2, <1>4 DEF OpenInv, TempOK
<1>12. OpenNodes' = OpenNodes \cup {node}
  BY <1>2, <1>4 DEF OpenNodes
<1>13. ModeOK'
  <2>1. ASSUME kind = "journal", os = "unix", NEW g \in FileHandle, hstep'[g] \in {"fill", "open"}
        PROVE mode'[NodeOf(g)'] = "db"
    <3>1. g # h /\ hstep[g] \in {"fill", "open"}
      BY <1>4, <1>5, <2>1
    <3>2. NodeOf(g) \in OpenNodes /\ fd[g] # NoFd
      BY <3>1, OpenFacts DEF HaveFd, FdOK
    <3> QED
      BY <1>8, <2>1, <3>1, <3>2 DEF OpenInv, ModeOK
  <2>2. \A g \in FileHandle : hstep'[g] \in {"fill", "open"} => NodeOf(g)' \in Node
    BY <1>4, <1>6 DEF NodeOf, FdOK, HaveFd, OpenTypes, Kernel
  <2> QED
    BY <2>1, <2>2 DEF ModeOK
<1>14. JournalMode'
  BY <1>12 DEF OpenInv, JournalMode
<1> QED
  BY <1>10, <1>11, <1>13, <1>14 DEF OpenInv

LEMMA NewFileFacts ==
  ASSUME OpenInv, NEW h \in FileHandle, NewFile(h)
  PROVE  /\ NewNode \in Node /\ NewNode \notin OpenNodes
         /\ names' \in [Names -> Node \cup {Absent}] /\ mode' \in [Node -> {"db", "masked"}]
         /\ content' = content \ {NewNode} /\ names[zName[h]] = Absent
         /\ names' = [names EXCEPT ![zName[h]] = NewNode]
         /\ \A i \in Node \ {NewNode} : mode'[i] = mode[i]
         /\ os # "unix" => \A i \in Node : mode'[i] = "db"
<1>1. OpenTypes /\ NewNode \in Node /\ NewNode \notin OpenNodes
  BY FreeNode DEF OpenInv, DescInv
<1>2. PICK m \in findCreateFileMode : mode' = [mode EXCEPT ![NewNode] = m]
  BY DEF NewFile, Set
<1>3. m \in {"db", "masked"} /\ (os # "unix" => m = "db")
  BY <1>2 DEF findCreateFileMode, AfterOpen
<1> QED
  BY <1>1, <1>2, <1>3 DEF OpenTypes, NewFile, Set, OpenInv, ModeOK

LEMMA GivenTypes ==
  ASSUME OpenTypes, NEW h \in FileHandle, NEW node \in Node, NEW write \in BOOLEAN, Given(h, node, write)
  PROVE  /\ DOMAIN fds' \subseteq Descriptor /\ fds' \in [DOMAIN fds' -> Kernel]
         /\ hstep' \in [FileHandle -> OpenSteps] /\ fd' \in [FileHandle -> Descriptor \cup {NoFd}]
<1> DEFINE new == CHOOSE d \in Descriptor : d \notin DOMAIN fds
<1>1. new \in Descriptor /\ new \notin DOMAIN fds
  BY DEF Given, OpenTypes
<1>2. /\ fds' = [e \in DOMAIN fds \cup {new} |->
                   IF e = new THEN [host |-> HostOf[h], node |-> node, write |-> write] ELSE fds[e]]
      /\ fd' = [fd EXCEPT ![h] = new] /\ hstep' = [hstep EXCEPT ![h] = AfterOpen]
  BY DEF Given, Set, At
<1> HIDE DEF new
<1>3. [host |-> HostOf[h], node |-> node, write |-> write] \in Kernel /\ AfterOpen \in OpenSteps
  BY OpenFileAssumption DEF Kernel, AfterOpen, OpenSteps, HaveFd
<1> QED
  BY <1>1, <1>2, <1>3 DEF OpenTypes

LEMMA FlagsType ==
  ASSUME NEW write \in BOOLEAN, NEW create \in BOOLEAN, NEW excl \in BOOLEAN
  PROVE  /\ Flags(write, create, excl) \in [write : BOOLEAN, create : BOOLEAN, excl : BOOLEAN]
         /\ Flags(write, create, excl).write = write /\ Flags(write, create, excl).excl = excl
  BY DEF Flags

LEMMA ForgetFacts ==
  ASSUME OpenTypes, NEW h \in FileHandle, Forget(h)
  PROVE  /\ hstep' \in [FileHandle -> OpenSteps] /\ fd' \in [FileHandle -> Descriptor \cup {NoFd}]
         /\ flags' \in [FileHandle -> [write : BOOLEAN, create : BOOLEAN, excl : BOOLEAN]]
         /\ zName' \in [FileHandle -> Names]
         /\ hstep'[h] = "closed" /\ fd'[h] = NoFd
         /\ \A g \in FileHandle : g # h =>
              hstep'[g] = hstep[g] /\ fd'[g] = fd[g] /\ flags'[g] = flags[g] /\ zName'[g] = zName[g]
<1>1. Flags(FALSE, FALSE, FALSE) \in [write : BOOLEAN, create : BOOLEAN, excl : BOOLEAN]
  BY DEF Flags
<1>2. "db" \in Names /\ "closed" \in OpenSteps
  BY DEF Names, OpenSteps
<1> QED
  BY <1>1, <1>2 DEF Forget, At, Set, OpenTypes

LEMMA GiveUpInv ==
  ASSUME OpenInv, NEW h \in FileHandle, fd[h] = NoFd, h \notin locked, Forget(h),
         UNCHANGED <<os, kind, diskVars, fds, locked, pUnused>>
  PROVE  OpenInv'
<1>1. OpenTypes /\ OpenTypes'
  BY OpenFacts, ForgetFacts DEF OpenTypes, diskVars
<1>2. fd' = fd
  BY <1>1, ForgetFacts DEF OpenTypes
<1>3. ASSUME NEW g \in FileHandle PROVE FdOK(g)' /\ CallOK(g)'
  <2>1. CASE g = h
    BY <1>1, <2>1, ForgetFacts DEF FdOK, CallOK, HaveFd
  <2>2. CASE g # h
    BY <1>1, <2>2, ForgetFacts, OpenFacts DEF FdOK, CallOK, diskVars
  <2> QED
    BY <2>1, <2>2
<1>4. \A g \in FileHandle : hstep'[g] \in {"fill", "open"} => hstep[g] \in {"fill", "open"}
  BY <1>1, ForgetFacts
<1> QED
  BY <1>1, <1>2, <1>3, <1>4, SameFiles DEF diskVars

LEMMA CreateInv == ASSUME OpenInv, NEW h \in FileHandle, Create(h) PROVE OpenInv'
<1>1. /\ OpenTypes /\ FdOK(h) /\ CallOK(h) /\ fd[h] = NoFd /\ h \notin locked
      /\ flags[h].write \in BOOLEAN /\ zName[h] \in Names
      /\ hstep[h] = "create" /\ UNCHANGED <<os, kind, locked, pUnused>>
  BY OpenFacts DEF FdOK, CallOK, HaveFd, Create, OpenTypes
<1>2. CASE NewFile(h) /\ Given(h, NewNode, flags[h].write) /\ UNCHANGED <<flags, zName>>
  <2>1. /\ NewNode \in Node /\ NewNode \notin OpenNodes
        /\ names' \in [Names -> Node \cup {Absent}] /\ mode' \in [Node -> {"db", "masked"}]
        /\ content' = content \ {NewNode} /\ names[zName[h]] = Absent
        /\ names' = [names EXCEPT ![zName[h]] = NewNode]
        /\ \A i \in Node \ {NewNode} : mode'[i] = mode[i]
        /\ os # "unix" => \A i \in Node : mode'[i] = "db"
    BY <1>2, NewFileFacts
  <2> HIDE DEF NewNode
  <2>2. OpenTypes'
    BY <1>1, <1>2, <2>1, GivenTypes DEF OpenTypes
  <2>3. \A d \in DOMAIN fds : fds[d].node # NewNode
    BY <2>1 DEF OpenNodes
  <2>4. OpenNodes \subseteq Node
    BY <1>1 DEF OpenTypes, OpenNodes, Kernel
  <2>5. kind = "journal" => zName[h] = "journal"
    BY <1>1 DEF CallOK
  <2> QED
    BY <1>1, <1>2, <2>1, <2>2, <2>3, <2>4, <2>5, GivenInv DEF OpenTypes, Names
<1>3. CASE NewFile(h) /\ UNCHANGED <<fds, hstep, flags, zName, fd>>
  <2>1. /\ NewNode \in Node /\ NewNode \notin OpenNodes
        /\ names' \in [Names -> Node \cup {Absent}] /\ mode' \in [Node -> {"db", "masked"}]
        /\ content' = content \ {NewNode}
        /\ names' = [names EXCEPT ![zName[h]] = NewNode]
        /\ \A i \in Node \ {NewNode} : mode'[i] = mode[i]
        /\ os # "unix" => \A i \in Node : mode'[i] = "db"
    BY <1>3, NewFileFacts
  <2> HIDE DEF NewNode
  <2>2. OpenTypes'
    BY <1>1, <1>3, <2>1 DEF OpenTypes
  <2>3. ASSUME NEW g \in FileHandle PROVE FdOK(g)' /\ CallOK(g)'
    BY <1>1, <1>3, OpenFacts DEF FdOK, CallOK
  <2>4. ModeOK'
    <3>1. ASSUME kind = "journal", NEW g \in FileHandle, hstep'[g] \in {"fill", "open"}
          PROVE mode'[NodeOf(g)'] = "db"
      <4>1. hstep[g] \in HaveFd /\ NodeOf(g)' = NodeOf(g)
        BY <1>3, <3>1 DEF HaveFd, NodeOf
      <4>2. NodeOf(g) \in OpenNodes /\ NodeOf(g) \in Node
        BY <4>1, OpenFacts
      <4> QED
        BY <1>3, <2>1, <3>1, <4>1, <4>2 DEF OpenInv, ModeOK
    <3> QED
      BY <1>1, <2>1, <3>1 DEF ModeOK
  <2>5. JournalMode'
    <3>1. OpenNodes' = OpenNodes /\ OpenNodes \subseteq Node /\ "journal" \in Names /\ content \subseteq Node
      BY <1>1, <1>3 DEF OpenTypes, OpenNodes, Kernel, Names
    <3> QED
      BY <1>1, <2>1, <3>1 DEF OpenInv, JournalMode, OpenTypes
  <2> QED
    BY <1>1, <1>3, <2>2, <2>3, <2>4, <2>5, SameFds
<1>4. CASE OpensExisting(h) /\ Given(h, names[zName[h]], flags[h].write) /\ UNCHANGED <<diskVars, flags, zName>>
  <2>1. names[zName[h]] \in Node /\ ~flags[h].excl
    BY <1>1, <1>4 DEF OpensExisting, Openable, OpenTypes
  <2>2. OpenTypes'
    BY <1>1, <1>4, <2>1, GivenTypes DEF OpenTypes, diskVars
  <2>3. kind # "temp" /\ (kind = "journal" => zName[h] = "journal")
    BY <1>1, <2>1 DEF CallOK
  <2>4. /\ mode' = mode /\ content' = content /\ names' = names
        /\ os # "unix" => \A i \in Node : mode[i] = "db"
        /\ kind = "journal" /\ names["journal"] \in content => mode[names["journal"]] = "db"
    BY <1>4 DEF diskVars, OpenInv, ModeOK, JournalMode
  <2> QED
    BY <1>1, <1>4, <2>1, <2>2, <2>3, <2>4, GivenInv
<1>5. CASE TriesReadonly(h) /\ At(h, "readonly") /\ flags' = [flags EXCEPT ![h].write = FALSE]
           /\ UNCHANGED <<diskVars, fds, zName, fd>>
  <2>1. OpenTypes' /\ flags' \in [FileHandle -> [write : BOOLEAN, create : BOOLEAN, excl : BOOLEAN]]
        /\ hstep' = [hstep EXCEPT ![h] = "readonly"]
        /\ flags'[h].write = FALSE /\ flags'[h].excl = flags[h].excl
        /\ \A g \in FileHandle : g # h => flags'[g] = flags[g] /\ hstep'[g] = hstep[g]
    BY <1>1, <1>5 DEF OpenTypes, diskVars, At, Set, OpenSteps
  <2>2. kind = "temp" => os = "unix"
    BY <1>1, <1>5 DEF TriesReadonly, WinTriesReadonly, CallOK
  <2>3. ASSUME NEW g \in FileHandle PROVE FdOK(g)' /\ CallOK(g)'
    <3>1. CASE g = h
      BY <1>1, <1>5, <2>1, <2>2, <3>1 DEF FdOK, CallOK, HaveFd, diskVars, OpenTypes
    <3>2. CASE g # h
      BY <1>1, <1>5, <2>1, <3>2, OpenFacts DEF FdOK, CallOK, diskVars
    <3> QED
      BY <3>1, <3>2
  <2> QED
    BY <1>1, <1>5, <2>1, <2>3, SameFiles DEF diskVars, OpenTypes
<1>6. CASE Forget(h) /\ UNCHANGED <<diskVars, fds>>
  BY <1>1, <1>6, GiveUpInv
<1> QED
  BY <1>2, <1>3, <1>4, <1>5, <1>6 DEF Create

LEMMA OpenReadonlyInv == ASSUME OpenInv, NEW h \in FileHandle, OpenReadonlyFile(h) PROVE OpenInv'
<1>1. /\ OpenTypes /\ FdOK(h) /\ CallOK(h) /\ fd[h] = NoFd /\ h \notin locked
      /\ zName[h] \in Names /\ flags[h].write = FALSE
      /\ hstep[h] = "readonly" /\ UNCHANGED <<os, kind, diskVars, locked, pUnused>>
  BY OpenFacts DEF FdOK, CallOK, HaveFd, OpenReadonlyFile, OpenTypes
<1>2. CASE Openable(zName[h]) /\ Given(h, names[zName[h]], FALSE) /\ UNCHANGED <<flags, zName>>
  <2>1. names[zName[h]] \in Node
    BY <1>1, <1>2 DEF Openable, OpenTypes
  <2>2. OpenTypes'
    BY <1>1, <1>2, <2>1, GivenTypes DEF OpenTypes, diskVars
  <2>3. (kind = "temp" => os = "unix") /\ (kind = "journal" => zName[h] = "journal")
    BY <1>1 DEF CallOK
  <2>4. /\ mode' = mode /\ content' = content /\ names' = names
        /\ os # "unix" => \A i \in Node : mode[i] = "db"
        /\ kind = "journal" /\ names["journal"] \in content => mode[names["journal"]] = "db"
    BY <1>1 DEF diskVars, OpenInv, ModeOK, JournalMode
  <2> QED
    BY <1>1, <1>2, <2>1, <2>2, <2>3, <2>4, GivenInv
<1>3. CASE Forget(h) /\ UNCHANGED fds
  BY <1>1, <1>3, GiveUpInv
<1> QED
  BY <1>2, <1>3 DEF OpenReadonlyFile

LEMMA OpenCallInv == ASSUME OpenInv, NEW h \in FileHandle, Open(h) PROVE OpenInv'
<1>1. /\ OpenTypes /\ FdOK(h) /\ CallOK(h) /\ fd[h] = NoFd /\ h \notin locked
      /\ hstep[h] = "closed" /\ UNCHANGED <<os, kind, names, mode, content, fds, locked>>
  BY OpenFacts DEF FdOK, CallOK, HaveFd, Open, diskVars
<1>2. PICK request \in Requests, n \in NewNames :
        /\ flags' = [flags EXCEPT ![h] = request] /\ zName' = [zName EXCEPT ![h] = n]
        /\ \/ /\ kind = "db"
              /\ \E u \in findReusableFd(h, request) :
                    fd' = [fd EXCEPT ![h] = u.fd] /\ pUnused' = pUnused \ {u}
              /\ hstep' = [hstep EXCEPT ![h] = "fill"]
           \/ hstep' = [hstep EXCEPT ![h] = "create"] /\ UNCHANGED <<fd, pUnused>>
  BY DEF Open, At, Set
<1>3. request \in [write : BOOLEAN, create : BOOLEAN, excl : BOOLEAN] /\ (kind = "temp" => request.excl)
  <2>1. CASE kind = "temp"
    <3>1. request = Flags(TRUE, TRUE, TRUE)
      BY <2>1 DEF Requests
    <3> QED
      BY <3>1, FlagsType
  <2>2. CASE kind # "temp"
    <3>1. \/ request = Flags(FALSE, FALSE, FALSE) \/ request = Flags(TRUE, FALSE, FALSE)
          \/ request = Flags(TRUE, TRUE, FALSE)
      BY <2>2 DEF Requests
    <3>2. /\ Flags(FALSE, FALSE, FALSE) \in [write : BOOLEAN, create : BOOLEAN, excl : BOOLEAN]
          /\ Flags(TRUE, FALSE, FALSE) \in [write : BOOLEAN, create : BOOLEAN, excl : BOOLEAN]
          /\ Flags(TRUE, TRUE, FALSE) \in [write : BOOLEAN, create : BOOLEAN, excl : BOOLEAN]
      BY DEF Flags
    <3> QED
      BY <2>2, <3>1, <3>2, Zenon
  <2> QED
    BY <2>1, <2>2
<1>4. n \in Names /\ (kind # "temp" => n = kind)
  BY <1>1 DEF NewNames, unixGetTempname, winGetTempname, Names, OpenTypes
<1>5. /\ flags'[h] = request /\ zName'[h] = n
      /\ \A g \in FileHandle : g # h => flags'[g] = flags[g] /\ zName'[g] = zName[g]
      /\ flags' \in [FileHandle -> [write : BOOLEAN, create : BOOLEAN, excl : BOOLEAN]]
      /\ zName' \in [FileHandle -> Names]
  BY <1>1, <1>2, <1>3, <1>4 DEF OpenTypes
<1>6. CASE hstep' = [hstep EXCEPT ![h] = "create"] /\ UNCHANGED <<fd, pUnused>>
  <2>1. OpenTypes' /\ hstep'[h] = "create" /\ \A g \in FileHandle : g # h => hstep'[g] = hstep[g]
    BY <1>1, <1>5, <1>6 DEF OpenTypes, OpenSteps
  <2>2. ASSUME NEW g \in FileHandle PROVE FdOK(g)' /\ CallOK(g)'
    <3>1. CASE g = h
      BY <1>1, <1>3, <1>4, <1>5, <1>6, <2>1, <3>1 DEF FdOK, CallOK, HaveFd
    <3>2. CASE g # h
      BY <1>1, <1>5, <1>6, <2>1, <3>2, OpenFacts DEF FdOK, CallOK
    <3> QED
      BY <3>1, <3>2
  <2>3. \A g \in FileHandle : hstep'[g] \in {"fill", "open"} => hstep[g] \in {"fill", "open"}
    BY <2>1
  <2> QED
    BY <1>1, <1>6, <2>1, <2>2, <2>3, SameFiles
<1>7. ASSUME kind = "db", NEW u \in findReusableFd(h, request), fd' = [fd EXCEPT ![h] = u.fd],
             pUnused' = pUnused \ {u}, hstep' = [hstep EXCEPT ![h] = "fill"]
      PROVE OpenInv'
  <2>1. u \in pUnused /\ u.host = HostOf[h] /\ u.write = request.write
    BY <1>7 DEF findReusableFd
  <2>2. WaitingOK(u) /\ u.fd \in Descriptor /\ u.fd # NoFd
    BY <1>1, <2>1, OpenFileAssumption DEF OpenInv, DescInv, OpenTypes, Waiting
  <2>3. /\ OpenTypes' /\ hstep'[h] = "fill" /\ fd'[h] = u.fd
        /\ \A g \in FileHandle : g # h => hstep'[g] = hstep[g] /\ fd'[g] = fd[g]
    BY <1>1, <1>5, <1>7, <2>2 DEF OpenTypes, OpenSteps, HaveFd
  <2>4. ASSUME NEW g \in FileHandle PROVE FdOK(g)' /\ CallOK(g)'
    <3>1. CASE g = h
      <4>1. fds[u.fd].host = HostOf[h] /\ fds[u.fd].write = request.write /\ u.fd \in DOMAIN fds
        BY <2>1, <2>2 DEF WaitingOK
      <4> QED
        BY <1>1, <1>5, <1>7, <2>2, <2>3, <3>1, <4>1 DEF FdOK, CallOK, HaveFd
    <3>2. CASE g # h
      BY <1>1, <1>5, <2>3, <3>2, OpenFacts DEF FdOK, CallOK
    <3> QED
      BY <3>1, <3>2
  <2>5. OneOwner'
    <3>1. OneOwner
      BY DEF OpenInv, DescInv
    <3>2. ASSUME NEW f \in FileHandle, NEW g \in FileHandle, f # g, fd'[f] = fd'[g] PROVE fd'[g] = NoFd
      BY <2>1, <2>3, <3>1, <3>2 DEF OneOwner
    <3>3. \A v \in pUnused', g \in FileHandle : v.fd # fd'[g]
      BY <1>7, <2>1, <2>3, <3>1 DEF OneOwner
    <3>4. \A v, w \in pUnused' : v.fd = w.fd => v = w
      BY <1>7, <3>1 DEF OneOwner
    <3>5. ASSUME NEW d \in DOMAIN fds'
          PROVE  (\E g \in FileHandle : fd'[g] = d) \/ (\E v \in pUnused' : v.fd = d)
      <4>1. (\E g \in FileHandle : fd[g] = d) \/ (\E v \in pUnused : v.fd = d)
        BY <1>1, <3>1, <3>5 DEF OneOwner
      <4>2. ASSUME NEW g \in FileHandle, fd[g] = d PROVE fd'[g] = d
        BY <1>1, <2>3, <3>5, <4>2, OpenFileAssumption DEF OpenTypes
      <4>3. ASSUME NEW v \in pUnused, v.fd = d PROVE v \in pUnused' \/ fd'[h] = d
        BY <1>7, <2>3, <4>3
      <4> QED
        BY <4>1, <4>2, <4>3
    <3> QED
      BY <3>2, <3>3, <3>4, <3>5 DEF OneOwner
  <2>6. ASSUME NEW v \in pUnused' PROVE WaitingOK(v)'
    <3>1. WaitingOK(v)
      BY <1>7, <2>6 DEF OpenInv, DescInv
    <3>2. PICK g \in locked : HostOf[g] = v.host /\ NodeOf(g) = v.node
      BY <3>1 DEF WaitingOK
    <3>3. g # h /\ g \in FileHandle
      BY <1>1, <3>2 DEF OpenTypes
    <3>4. NodeOf(g)' = NodeOf(g)
      BY <1>1, <2>3, <3>3 DEF NodeOf
    <3> QED
      BY <1>1, <3>1, <3>2, <3>4 DEF WaitingOK
  <2>7. TempOK' /\ ModeOK' /\ JournalMode'
    BY <1>1, <1>7 DEF OpenInv, TempOK, ModeOK, JournalMode
  <2> QED
    BY <2>3, <2>4, <2>5, <2>6, <2>7 DEF OpenInv, DescInv
<1> QED
  BY <1>2, <1>6, <1>7

(***************************************************************************)
(* Handles that let go of their descriptors, and descriptors closed.       *)
(***************************************************************************)
LettingGo(gone, closed) ==
  /\ CloseFds(closed) /\ locked' \subseteq locked
  /\ \A g \in gone : hstep'[g] = "closed" /\ fd'[g] = NoFd /\ g \notin locked'
  /\ \A g \in FileHandle \ gone :
       /\ hstep'[g] = hstep[g] /\ fd'[g] = fd[g] /\ flags'[g] = flags[g] /\ zName'[g] = zName[g]
       /\ fd[g] \notin closed
  /\ \A u \in pUnused' :
       /\ kind = "db" /\ os = "unix" /\ u.fd \in DOMAIN fds \ closed
       /\ fds[u.fd] = [host |-> u.host, node |-> u.node, write |-> u.write]
       /\ \E g \in locked' : HostOf[g] = u.host /\ NodeOf(g) = u.node
       /\ \A g \in FileHandle \ gone : u.fd # fd[g]
  /\ \A u, v \in pUnused' : u.fd = v.fd => u = v
  /\ \A g \in gone : fd[g] \in closed \/ fd[g] = NoFd \/ \E u \in pUnused' : u.fd = fd[g]
  /\ \A u \in pUnused \ pUnused' : u.fd \in closed

LEMMA LetGo ==
  ASSUME OpenInv, OpenTypes', UNCHANGED <<os, kind, mode, content>>,
         names'["journal"] \in {names["journal"], Absent},
         NEW gone \in SUBSET FileHandle, NEW closed, LettingGo(gone, closed)
  PROVE  OpenInv'
<1> USE DEF LettingGo
<1>1. /\ DOMAIN fds' = DOMAIN fds \ closed /\ \A d \in DOMAIN fds' : fds'[d] = fds[d]
      /\ OpenTypes /\ NoFd \notin DOMAIN fds
  BY OpenFileAssumption DEF CloseFds, OpenInv, DescInv, OpenTypes
<1>2. ASSUME NEW g \in FileHandle \ gone, fd[g] # NoFd
      PROVE  NodeOf(g)' = NodeOf(g) /\ fd[g] \in DOMAIN fds' /\ fds'[fd[g]] = fds[fd[g]]
  <2>1. fd[g] \in DOMAIN fds
    BY <1>2, OpenFacts DEF FdOK
  <2> QED
    BY <1>1, <2>1 DEF NodeOf
<1>3. ASSUME NEW g \in FileHandle PROVE FdOK(g)' /\ CallOK(g)'
  <2>1. FdOK(g) /\ CallOK(g)
    BY OpenFacts
  <2>2. CASE g \in gone
    BY <2>2 DEF FdOK, CallOK, HaveFd
  <2>3. CASE g \notin gone
    <3>1. FdOK(g)'
      BY <1>2, <2>1, <2>3 DEF FdOK
    <3>2. CallOK(g)'
      BY <2>1, <2>3 DEF CallOK
    <3> QED
      BY <3>1, <3>2
  <2> QED
    BY <2>2, <2>3
<1>4. OneOwner'
  <2>1. OneOwner
    BY DEF OpenInv, DescInv
  <2>2. ASSUME NEW f \in FileHandle, NEW g \in FileHandle, f # g, fd'[f] = fd'[g] PROVE fd'[g] = NoFd
    BY <2>1, <2>2 DEF OneOwner
  <2>3. ASSUME NEW u \in pUnused', NEW g \in FileHandle PROVE u.fd # fd'[g]
    <3>1. u.fd \in DOMAIN fds /\ \A f \in FileHandle \ gone : u.fd # fd[f]
      BY <2>3
    <3>2. CASE g \in gone
      BY <1>1, <3>1, <3>2
    <3>3. CASE g \notin gone
      BY <3>1, <3>3
    <3> QED
      BY <3>2, <3>3
  <2>4. ASSUME NEW d \in DOMAIN fds'
        PROVE  (\E g \in FileHandle : fd'[g] = d) \/ (\E u \in pUnused' : u.fd = d)
    <3>1. d \in DOMAIN fds /\ d \notin closed
      BY <1>1, <2>4
    <3>2. CASE \E g \in FileHandle : fd[g] = d
      BY <1>1, <3>1, <3>2
    <3>3. CASE \E u \in pUnused : u.fd = d
      BY <3>1, <3>3
    <3> QED
      BY <2>1, <3>1, <3>2, <3>3 DEF OneOwner
  <2> QED
    BY <2>2, <2>3, <2>4 DEF OneOwner
<1>5. ASSUME NEW u \in pUnused' PROVE WaitingOK(u)'
  <2>1. PICK g \in locked' : HostOf[g] = u.host /\ NodeOf(g) = u.node
    BY <1>5
  <2>2. g \in FileHandle \ gone /\ fd[g] # NoFd
    BY <1>1, <2>1, OpenFacts DEF OpenTypes, CallOK, FdOK, HaveFd
  <2> QED
    BY <1>1, <1>2, <1>5, <2>1, <2>2 DEF WaitingOK
<1>6. DescInv'
  BY <1>3, <1>4, <1>5 DEF DescInv
<1>7. TempOK'
  BY <1>1 DEF OpenInv, TempOK
<1>8. OpenNodes' \subseteq OpenNodes
  BY <1>1 DEF OpenNodes
<1>9. ModeOK'
  <2>1. ASSUME kind = "journal", NEW g \in FileHandle, hstep'[g] \in {"fill", "open"}
        PROVE mode'[NodeOf(g)'] = "db"
    <3>1. g \in FileHandle \ gone /\ hstep[g] \in {"fill", "open"}
      BY <2>1
    <3>2. NodeOf(g)' = NodeOf(g)
      BY <1>2, <3>1, OpenFacts DEF FdOK, HaveFd
    <3> QED
      BY <2>1, <3>1, <3>2 DEF OpenInv, ModeOK
  <2> QED
    BY <2>1 DEF OpenInv, ModeOK
<1>10. JournalMode'
  BY <1>1, <1>8, OpenFileAssumption DEF OpenInv, JournalMode, OpenTypes
<1> QED
  BY <1>6, <1>7, <1>9, <1>10 DEF OpenInv

(* What a pUnused record says of itself, and of the handles.               *)
LEMMA WaitingFacts ==
  ASSUME OpenInv, NEW u \in pUnused
  PROVE  /\ WaitingOK(u) /\ u \in Waiting
         /\ \A g \in FileHandle : u.fd # fd[g]
         /\ \A v \in pUnused : u.fd = v.fd => u = v
         /\ \E g \in locked : HostOf[g] = u.host /\ NodeOf(g) = u.node
  BY DEF OpenInv, DescInv, OpenTypes, OneOwner, WaitingOK

(* Only the handle itself has its descriptor.                              *)
LEMMA OwnFd ==
  ASSUME OpenInv, NEW h \in FileHandle, hstep[h] \in HaveFd
  PROVE  /\ fd[h] # NoFd /\ fd[h] \in DOMAIN fds
         /\ \A g \in FileHandle : g # h => fd[g] # fd[h]
         /\ \A u \in pUnused : u.fd # fd[h]
  BY OpenFacts DEF OpenInv, DescInv, OneOwner, FdOK

LEMMA CloseFdsType ==
  ASSUME OpenTypes, NEW closed, CloseFds(closed)
  PROVE  DOMAIN fds' \subseteq Descriptor /\ fds' \in [DOMAIN fds' -> Kernel]
  BY DEF OpenTypes, CloseFds

(* A handle closes its own descriptor.                                     *)
LEMMA CloseOwn ==
  ASSUME OpenInv, NEW h \in FileHandle, hstep[h] \in HaveFd, h \notin locked, CloseFds({fd[h]}), Forget(h),
         UNCHANGED <<os, kind, mode, content, locked, pUnused>>, names' \in [Names -> Node \cup {Absent}],
         names'["journal"] \in {names["journal"], Absent}
  PROVE  OpenInv'
<1>1. OpenTypes
  BY DEF OpenInv, DescInv
<1>2. OpenTypes'
  BY <1>1, CloseFdsType, ForgetFacts DEF OpenTypes
<1>3. \A g \in FileHandle \ {h} : fd[g] \notin {fd[h]}
  BY OwnFd
<1>4. \A u \in pUnused :
        /\ kind = "db" /\ os = "unix" /\ u.fd \in DOMAIN fds \ {fd[h]}
        /\ fds[u.fd] = [host |-> u.host, node |-> u.node, write |-> u.write]
        /\ \E g \in locked : HostOf[g] = u.host /\ NodeOf(g) = u.node
        /\ \A g \in FileHandle \ {h} : u.fd # fd[g]
  BY WaitingFacts DEF WaitingOK
<1>5. \A u, v \in pUnused : u.fd = v.fd => u = v
  BY WaitingFacts
<1>6. LettingGo({h}, {fd[h]})
  BY <1>1, <1>3, <1>4, <1>5, ForgetFacts DEF LettingGo
<1> QED
  BY <1>2, <1>6, LetGo

LEMMA FillInInv == ASSUME OpenInv, NEW h \in FileHandle, FillIn(h) PROVE OpenInv'
<1>1. /\ OpenTypes /\ FdOK(h) /\ CallOK(h) /\ hstep[h] = "fill"
      /\ UNCHANGED <<os, kind, diskVars, locked, pUnused>>
      /\ "journal" \in Names
  BY OpenFacts DEF FillIn, Names
<1>2. CASE At(h, "open") /\ flags' = Set(flags, h, Flags(flags[h].write, FALSE, FALSE))
           /\ UNCHANGED <<fds, zName, fd>>
  <2>1. Flags(flags[h].write, FALSE, FALSE) \in [write : BOOLEAN, create : BOOLEAN, excl : BOOLEAN]
        /\ Flags(flags[h].write, FALSE, FALSE).write = flags[h].write
    BY <1>1 DEF Flags, OpenTypes
  <2>2. OpenTypes' /\ hstep'[h] = "open" /\ flags'[h].write = flags[h].write
        /\ \A g \in FileHandle : g # h => hstep'[g] = hstep[g] /\ flags'[g] = flags[g]
    BY <1>1, <1>2, <2>1 DEF OpenTypes, At, Set, diskVars, OpenSteps, HaveFd
  <2>3. ASSUME NEW g \in FileHandle PROVE FdOK(g)' /\ CallOK(g)'
    <3>1. CASE g = h
      BY <1>1, <1>2, <2>2, <3>1 DEF FdOK, CallOK, HaveFd
    <3>2. CASE g # h
      BY <1>1, <1>2, <2>2, <3>2, OpenFacts DEF FdOK, CallOK, HaveFd
    <3> QED
      BY <3>1, <3>2
  <2>4. \A g \in FileHandle : hstep'[g] \in {"fill", "open"} => hstep[g] \in {"fill", "open"}
    BY <1>1, <2>2
  <2> QED
    BY <1>1, <1>2, <2>2, <2>3, <2>4, SameFiles DEF diskVars
<1>3. CASE CloseFds({fd[h]}) /\ Forget(h)
  <2>1. hstep[h] \in HaveFd /\ h \notin locked
    BY <1>1 DEF CallOK, HaveFd
  <2> QED
    BY <1>1, <1>3, <2>1, CloseOwn DEF diskVars, OpenTypes
<1> QED
  BY <1>2, <1>3 DEF FillIn

(***************************************************************************)
(* What waits is closed with the last lock.                                *)
(***************************************************************************)
LEMMA PendingFacts ==
  ASSUME OpenInv, NEW h \in FileHandle
  PROVE  \A u \in pUnused \ Pending(h), v \in Pending(h) : u.fd # v.fd
  BY WaitingFacts DEF Pending

LEMMA UnlockFileInv == ASSUME OpenInv, NEW h \in FileHandle, UnlockFile(h) PROVE OpenInv'
<1> DEFINE others == Of(HostOf[h], NodeOf(h)) \cap locked
<1>1. /\ OpenTypes /\ CallOK(h) /\ h \in locked /\ locked' = locked \ {h} /\ hstep[h] = "open"
      /\ UNCHANGED <<os, kind, names, mode, content, hstep, flags, zName, fd>>
  BY OpenFacts DEF UnlockFile, diskVars, CallOK
<1>2. \A u \in pUnused \ Pending(h) : \E g \in locked' : HostOf[g] = u.host /\ NodeOf(g) = u.node
  <2> SUFFICES ASSUME NEW u \in pUnused \ Pending(h)
               PROVE  \E g \in locked' : HostOf[g] = u.host /\ NodeOf(g) = u.node
    OBVIOUS
  <2>1. PICK g \in locked : HostOf[g] = u.host /\ NodeOf(g) = u.node
    BY WaitingFacts
  <2>2. g # h
    BY <2>1 DEF Pending
  <2> QED
    BY <1>1, <2>1, <2>2
<1>3. CASE os = "unix" /\ Cardinality(others) = 1
  <2> DEFINE closed == {u.fd : u \in Pending(h)}
  <2>1. fds' = [d \in DOMAIN fds \ ({} \cup closed) |-> fds[d]] /\ pUnused' = pUnused \ Pending(h)
    BY <1>3 DEF UnlockFile, closePendingFds, CloseFds, nLock
  <2>2. CloseFds(closed)
    BY <2>1 DEF CloseFds
  <2>3. OpenTypes'
    BY <1>1, <2>1, <2>2, CloseFdsType DEF OpenTypes
  <2>4. \A g \in FileHandle : fd[g] \notin closed
    BY WaitingFacts DEF Pending
  <2>5. ASSUME NEW u \in pUnused'
        PROVE  /\ kind = "db" /\ os = "unix" /\ u.fd \in DOMAIN fds \ closed
               /\ fds[u.fd] = [host |-> u.host, node |-> u.node, write |-> u.write]
               /\ \A g \in FileHandle : u.fd # fd[g]
    <3>1. u \in pUnused \ Pending(h)
      BY <2>1, <2>5
    <3>2. WaitingOK(u) /\ \A g \in FileHandle : u.fd # fd[g]
      BY <3>1, WaitingFacts
    <3>3. u.fd \notin closed
      BY <3>1, PendingFacts
    <3> QED
      BY <3>2, <3>3 DEF WaitingOK
  <2>6. \A u, v \in pUnused' : u.fd = v.fd => u = v
    BY <2>1, WaitingFacts
  <2>7. \A u \in pUnused \ pUnused' : u.fd \in closed
    BY <2>1
  <2>8. LettingGo({}, closed)
    BY <1>1, <1>2, <2>1, <2>2, <2>4, <2>5, <2>6, <2>7 DEF LettingGo
  <2> QED
    BY <1>1, <2>3, <2>8, LetGo
<1>4. CASE ~(os = "unix" /\ Cardinality(others) = 1)
  <2>1. fds' = fds /\ pUnused' = pUnused
    BY <1>4 DEF UnlockFile, nLock
  <2>2. OpenTypes' /\ CloseFds({})
    BY <1>1, <2>1 DEF OpenTypes, CloseFds
  <2>3. \A u \in pUnused : \E g \in locked' : HostOf[g] = u.host /\ NodeOf(g) = u.node
    <3> SUFFICES ASSUME NEW u \in Pending(h), u \in pUnused
                 PROVE  \E g \in locked' : HostOf[g] = u.host /\ NodeOf(g) = u.node
      BY <1>2
    <3>1. os = "unix" /\ u.host = HostOf[h] /\ u.node = NodeOf(h)
      BY WaitingFacts DEF WaitingOK, Pending
    <3>2. others # {h}
      BY <1>4, <3>1, FS_Singleton
    <3>3. h \in others
      BY <1>1 DEF Of
    <3>4. PICK g \in others : g # h
      BY <3>2, <3>3
    <3> QED
      BY <1>1, <3>1, <3>4 DEF Of
  <2>4. \A u \in pUnused :
          /\ kind = "db" /\ os = "unix" /\ u.fd \in DOMAIN fds
          /\ fds[u.fd] = [host |-> u.host, node |-> u.node, write |-> u.write]
          /\ \A g \in FileHandle : u.fd # fd[g]
    BY WaitingFacts DEF WaitingOK
  <2>5. \A u, v \in pUnused : u.fd = v.fd => u = v
    BY WaitingFacts
  <2>6. LettingGo({}, {})
    BY <1>1, <2>1, <2>2, <2>3, <2>4, <2>5 DEF LettingGo
  <2> QED
    BY <1>1, <2>2, <2>6, LetGo
<1> QED
  BY <1>3, <1>4

LEMMA CloseFileInv == ASSUME OpenInv, NEW h \in FileHandle, CloseFile(h) PROVE OpenInv'
<1>1. /\ OpenTypes /\ hstep[h] = "open" /\ hstep[h] \in HaveFd /\ h \notin locked /\ Forget(h)
      /\ UNCHANGED <<os, kind, mode, content, locked>> /\ "journal" \in Names
  BY OpenFacts DEF CloseFile, HaveFd, Names
<1>2. CASE os # "unix"
  <2>1. CloseFds({fd[h]}) /\ pUnused' = pUnused
    BY <1>2 DEF CloseFile, CloseWindows
  <2>2. names' = names \/ names' = [names EXCEPT ![zName[h]] = Absent]
    BY <1>2 DEF CloseFile, CloseWindows, Set
  <2>3. names' \in [Names -> Node \cup {Absent}] /\ names'["journal"] \in {names["journal"], Absent}
    BY <1>1, <2>2 DEF OpenTypes
  <2> QED
    BY <1>1, <2>1, <2>3, CloseOwn
<1>3. CASE os = "unix" /\ CloseFds({fd[h]}) /\ pUnused' = pUnused
  BY <1>1, <1>3, CloseOwn DEF CloseFile, CloseUnix, OpenTypes
<1>4. ASSUME os = "unix", kind = "db", nLock(HostOf[h], NodeOf(h)) > 0, NEW u0, fds' = fds,
             u0 = [fd |-> fd[h], node |-> NodeOf(h), host |-> HostOf[h], write |-> flags[h].write],
             pUnused' = pUnused \cup {u0}
      PROVE  OpenInv'
  <2>1. /\ FdOK(h) /\ fd[h] \in DOMAIN fds /\ NodeOf(h) \in Node /\ fds[fd[h]] \in Kernel
        /\ fd[h] \in Descriptor /\ HostOf[h] \in Host /\ flags[h].write \in BOOLEAN
        /\ names' = names
    BY <1>1, <1>4, OpenFacts, OpenFileAssumption DEF OpenTypes, CloseFile, CloseUnix
  <2>2. u0 \in Waiting
    BY <1>4, <2>1 DEF Waiting
  <2>3. OpenTypes' /\ CloseFds({})
    BY <1>1, <1>4, <2>1, <2>2, ForgetFacts DEF OpenTypes, CloseFds
  <2>4. fds[u0.fd] = [host |-> u0.host, node |-> u0.node, write |-> u0.write]
    BY <1>1, <1>4, <2>1 DEF FdOK, HaveFd, Kernel, NodeOf
  <2>5. \E g \in locked' : HostOf[g] = u0.host /\ NodeOf(g) = u0.node
    <3>1. Of(HostOf[h], NodeOf(h)) \cap locked # {}
      BY <1>4, FS_EmptySet DEF nLock
    <3> QED
      BY <1>1, <1>4, <3>1 DEF Of
  <2> DEFINE Waits(u) ==
        /\ kind = "db" /\ os = "unix" /\ u.fd \in DOMAIN fds
        /\ fds[u.fd] = [host |-> u.host, node |-> u.node, write |-> u.write]
        /\ \E g \in locked' : HostOf[g] = u.host /\ NodeOf(g) = u.node
        /\ \A g \in FileHandle \ {h} : u.fd # fd[g]
  <2>6. \A u \in pUnused : Waits(u)
    BY <1>1, <1>4, WaitingFacts DEF WaitingOK
  <2>7. Waits(u0)
    <3>1. \A g \in FileHandle \ {h} : u0.fd # fd[g]
      BY <1>1, <1>4, OwnFd
    <3> QED
      BY <1>4, <2>1, <2>4, <2>5, <3>1
  <2>8. u0.fd = fd[h]
    BY <1>4
  <2> HIDE DEF Waits
  <2>9. \A u \in pUnused' : Waits(u)
    BY <1>4, <2>6, <2>7
  <2>10. \A u, v \in pUnused' : u.fd = v.fd => u = v
    BY <1>1, <1>4, <2>8, WaitingFacts, OwnFd
  <2>11. \E u \in pUnused' : u.fd = fd[h]
    BY <1>4, <2>11
  <2>12. LettingGo({h}, {})
    BY <1>1, <1>4, <2>3, <2>9, <2>10, <2>11, ForgetFacts DEF LettingGo, Waits
  <2> QED
    BY <1>1, <2>1, <2>3, <2>12, LetGo
<1>5. CASE os = "unix" /\ closePendingFds(h, {fd[h]})
  <2> DEFINE closed == {fd[h]} \cup {u.fd : u \in Pending(h)}
  <2>1. CloseFds(closed) /\ pUnused' = pUnused \ Pending(h) /\ names' = names
    BY <1>5 DEF closePendingFds, CloseFile, CloseUnix
  <2>2. OpenTypes'
    BY <1>1, <2>1, CloseFdsType, ForgetFacts DEF OpenTypes
  <2>3. \A g \in FileHandle \ {h} : fd[g] \notin closed
    BY <1>1, WaitingFacts, OwnFd DEF Pending
  <2>4. ASSUME NEW u \in pUnused'
        PROVE  /\ kind = "db" /\ os = "unix" /\ u.fd \in DOMAIN fds \ closed
               /\ fds[u.fd] = [host |-> u.host, node |-> u.node, write |-> u.write]
               /\ \E g \in locked' : HostOf[g] = u.host /\ NodeOf(g) = u.node
               /\ \A g \in FileHandle \ {h} : u.fd # fd[g]
    <3>1. u \in pUnused \ Pending(h)
      BY <2>1, <2>4
    <3>2. WaitingOK(u) /\ \A g \in FileHandle : u.fd # fd[g]
      BY <3>1, WaitingFacts
    <3>3. u.fd \notin closed
      BY <1>1, <3>1, PendingFacts, OwnFd
    <3> QED
      BY <1>1, <3>2, <3>3 DEF WaitingOK
  <2>5. \A u, v \in pUnused' : u.fd = v.fd => u = v
    BY <2>1, WaitingFacts
  <2>6. \A u \in pUnused \ pUnused' : u.fd \in closed
    BY <2>1
  <2>7. LettingGo({h}, closed)
    BY <1>1, <2>1, <2>3, <2>4, <2>5, <2>6, ForgetFacts DEF LettingGo
  <2> QED
    BY <1>1, <2>1, <2>2, <2>7, LetGo
<1>6. CASE os = "unix" /\ kind = "db" /\ nLock(HostOf[h], NodeOf(h)) > 0 /\ setPendingFd(h) /\ fds' = fds
  BY <1>4, <1>6 DEF setPendingFd
<1> QED
  BY <1>2, <1>3, <1>5, <1>6 DEF CloseFile, CloseUnix

LEMMA HostDiesInv == ASSUME OpenInv, NEW p \in Host, HostDies(p) PROVE OpenInv'
<1> DEFINE gone == {h \in FileHandle : HostOf[h] = p}
           closed == {d \in DOMAIN fds : fds[d].host = p}
<1>1. /\ OpenTypes /\ CloseFds(closed) /\ UNCHANGED <<os, kind, mode, content>>
      /\ locked' = locked \ gone /\ pUnused' = {u \in pUnused : u.host # p}
      /\ names' \in [Names -> Node \cup {Absent}]
      /\ "journal" \in Names /\ names'["journal"] \in {names["journal"], Absent}
  BY DEF HostDies, OpenInv, DescInv, OpenTypes, Names
<1>2. /\ hstep' = [h \in FileHandle |-> IF h \in gone THEN "closed" ELSE hstep[h]]
      /\ fd' = [h \in FileHandle |-> IF h \in gone THEN NoFd ELSE fd[h]]
      /\ zName' = [h \in FileHandle |-> IF h \in gone THEN "db" ELSE zName[h]]
      /\ flags' = [h \in FileHandle |-> IF h \in gone THEN Flags(FALSE, FALSE, FALSE) ELSE flags[h]]
  BY DEF HostDies
<1>3. OpenTypes'
  <2>1. Flags(FALSE, FALSE, FALSE) \in [write : BOOLEAN, create : BOOLEAN, excl : BOOLEAN]
        /\ "db" \in Names /\ "closed" \in OpenSteps
    BY DEF Flags, Names, OpenSteps
  <2> QED
    BY <1>1, <1>2, <2>1, CloseFdsType DEF OpenTypes
<1>4. \A g \in FileHandle \ gone : fd[g] \notin closed
  BY OpenFacts, <1>1, OpenFileAssumption DEF FdOK, OpenTypes
<1>5. \A g \in gone : fd[g] \in closed \/ fd[g] = NoFd
  BY OpenFacts DEF FdOK
<1>6. ASSUME NEW u \in pUnused'
      PROVE  /\ kind = "db" /\ os = "unix" /\ u.fd \in DOMAIN fds \ closed
             /\ fds[u.fd] = [host |-> u.host, node |-> u.node, write |-> u.write]
             /\ \E g \in locked' : HostOf[g] = u.host /\ NodeOf(g) = u.node
             /\ \A g \in FileHandle \ gone : u.fd # fd[g]
  <2>1. u \in pUnused /\ u.host # p
    BY <1>1, <1>6
  <2>2. WaitingOK(u) /\ \A g \in FileHandle : u.fd # fd[g]
    BY <2>1, WaitingFacts
  <2>3. PICK g \in locked : HostOf[g] = u.host /\ NodeOf(g) = u.node
    BY <2>2 DEF WaitingOK
  <2>4. u.fd \in DOMAIN fds \ closed
    BY <2>1, <2>2 DEF WaitingOK
  <2>5. g \in locked'
    BY <1>1, <2>1, <2>3
  <2> QED
    BY <2>2, <2>3, <2>4, <2>5 DEF WaitingOK
<1>7. \A u, v \in pUnused' : u.fd = v.fd => u = v
  BY <1>1, WaitingFacts
<1>8. ASSUME NEW u \in pUnused \ pUnused' PROVE u.fd \in closed
  <2>1. WaitingOK(u) /\ u.host = p
    BY <1>1, WaitingFacts
  <2> QED
    BY <2>1 DEF WaitingOK
<1>9. LettingGo(gone, closed)
  BY <1>1, <1>2, <1>4, <1>5, <1>6, <1>7, <1>8 DEF LettingGo
<1>10. gone \in SUBSET FileHandle
  OBVIOUS
<1> QED
  BY <1>1, <1>3, <1>9, <1>10, LetGo

LEMMA OpenInitInv == OpenInit => OpenInv
<1> SUFFICES ASSUME OpenInit PROVE OpenInv
  OBVIOUS
<1> USE DEF OpenInit
<1>1. DOMAIN fds = {} /\ content = {} /\ pUnused = {} /\ locked = {}
  OBVIOUS
<1>2. Flags(FALSE, FALSE, FALSE) \in [write : BOOLEAN, create : BOOLEAN, excl : BOOLEAN]
      /\ "db" \in Names /\ "closed" \in OpenSteps
  BY DEF Flags, Names, OpenSteps
<1>3. OpenTypes
  BY <1>1, <1>2, OpenFileAssumption DEF OpenTypes
<1>4. \A h \in FileHandle : FdOK(h) /\ CallOK(h)
  BY <1>1 DEF FdOK, CallOK, HaveFd
<1>5. OneOwner
  BY <1>1 DEF OneOwner
<1> QED
  BY <1>1, <1>3, <1>4, <1>5 DEF OpenInv, DescInv, TempOK, ModeOK, JournalMode

LEMMA OpenNextInv == OpenInv /\ [OpenNext]_openVars => OpenInv'
<1> SUFFICES ASSUME OpenInv, [OpenNext]_openVars PROVE OpenInv'
  OBVIOUS
<1>1. ASSUME NEW h \in FileHandle,
             \/ Open(h) \/ Create(h) \/ OpenReadonlyFile(h) \/ Fstat(h) \/ Fchmod(h) \/ UnlinkTemp(h)
             \/ FillIn(h) \/ LockFile(h) \/ UnlockFile(h) \/ CloseFile(h) \/ WriteJournal(h)
      PROVE  OpenInv'
  BY <1>1, OpenCallInv, CreateInv, OpenReadonlyInv, FstatInv, FchmodInv, UnlinkTempInv,
     FillInInv, LockFileInv, UnlockFileInv, CloseFileInv, WriteJournalInv
<1>2. ASSUME NEW p \in Host, HostDies(p) PROVE OpenInv'
  BY <1>2, HostDiesInv
<1>3. CASE UNCHANGED openVars
  <2>1. OpenTypes' /\ UNCHANGED <<os, kind, fds, fd, pUnused, mode, content, names, locked, hstep, flags, zName>>
    BY <1>3, OpenFacts DEF openVars, diskVars, OpenInv, DescInv, OpenTypes
  <2>2. \A g \in FileHandle : FdOK(g)' /\ CallOK(g)'
    BY <2>1, OpenFacts DEF FdOK, CallOK
  <2> QED
    BY <2>1, <2>2, SameFiles
<1> QED
  BY <1>1, <1>2, <1>3, OthersInv DEF OpenNext

LEMMA OpenAlways == OpenSpec => []OpenInv
  BY OpenInitInv, OpenNextInv, PTL DEF OpenSpec

(***************************************************************************)
(* What the invariant implies.                                             *)
(***************************************************************************)
LEMMA InvAccounts == OpenInv => DescriptorsAccounted
<1> SUFFICES ASSUME OpenInv PROVE DescriptorsAccounted
  OBVIOUS
<1>1. OneOwner /\ OpenTypes
  BY DEF OpenInv, DescInv
<1>2. ASSUME NEW d \in DOMAIN fds PROVE Cardinality(Owners(d)) = 1
  <2>1. d # NoFd
    BY <1>1, OpenFileAssumption DEF OpenTypes
  <2>2. \E o : Owners(d) = {o}
    <3>1. CASE \E h \in FileHandle : fd[h] = d
      <4>1. PICK h \in FileHandle : fd[h] = d
        BY <3>1
      <4>2. {g \in FileHandle : fd[g] = d} = {h} /\ {u \in pUnused : u.fd = d} = {}
        BY <1>1, <2>1, <4>1 DEF OneOwner
      <4> QED
        BY <4>2 DEF Owners
    <3>2. CASE ~\E h \in FileHandle : fd[h] = d
      <4>1. PICK u \in pUnused : u.fd = d
        BY <1>1, <3>2 DEF OneOwner
      <4>2. {g \in FileHandle : fd[g] = d} = {} /\ {v \in pUnused : v.fd = d} = {u}
        BY <1>1, <3>2, <4>1 DEF OneOwner
      <4> QED
        BY <4>2 DEF Owners
    <3> QED
      BY <3>1, <3>2
  <2> QED
    BY <2>2, FS_Singleton
<1>3. ASSUME NEW u \in pUnused PROVE nLock(u.host, u.node) > 0
  <2>1. PICK h \in locked : HostOf[h] = u.host /\ NodeOf(h) = u.node
    BY WaitingFacts
  <2>2. h \in Of(u.host, u.node) \cap locked
    BY <1>1, <2>1, OpenFacts DEF Of, OpenTypes, CallOK
  <2>3. IsFiniteSet(Of(u.host, u.node) \cap locked)
    BY FS_Subset, OpenFileAssumption DEF Of
  <2>4. Cardinality(Of(u.host, u.node) \cap locked) # 0
        /\ Cardinality(Of(u.host, u.node) \cap locked) \in Nat
    BY <2>2, <2>3, FS_EmptySet, FS_CardinalityType
  <2> QED
    BY <2>4 DEF nLock
<1>4. \A h \in FileHandle : FdOK(h)
  BY DEF OpenInv, DescInv
<1>5. \A u \in pUnused : WaitingOK(u)
  BY DEF OpenInv, DescInv
<1> QED
  BY <1>2, <1>3, <1>4, <1>5 DEF DescriptorsAccounted, FdOK, WaitingOK

LEMMA InvPrivate == OpenInv => TempFilesPrivate
<1> SUFFICES ASSUME OpenInv, kind = "temp",
                    NEW g \in FileHandle, NEW h \in FileHandle,
                    g # h, fd[g] # NoFd, fd[h] # NoFd, NodeOf(g) = NodeOf(h)
             PROVE  os = "unix" /\ ~(flags[g].write /\ flags[h].write)
  BY DEF TempFilesPrivate
<1>1. FdOK(g) /\ FdOK(h) /\ OneOwner /\ TempOK
  BY DEF OpenInv, DescInv
<1>2. fd[g] # fd[h]
  BY <1>1 DEF OneOwner
<1> QED
  BY <1>1, <1>2 DEF TempOK, FdOK, NodeOf

(* Each descriptor of a process is that of one handle or waits on one      *)
(* pUnused list to be closed, whatever failed on the way, and it may write *)
(* exactly when its handle was told so (unixOpen, findReusableFd,          *)
(* setPendingFd, closePendingFds; winOpen, winClose).                      *)
THEOREM FdsAccounted == OpenSpec => []DescriptorsAccounted
  BY OpenAlways, InvAccounts, PTL

(* Of two processes that hit upon one name for their temporary files at    *)
(* most one writes to the file, and on Windows the second does not get it  *)
(* (unixGetTempname, winGetTempname, O_EXCL and CREATE_NEW).               *)
THEOREM TempsPrivate == OpenSpec => []TempFilesPrivate
  BY OpenAlways, InvPrivate, PTL

(* A journal with content has the permissions of its database, whoever of  *)
(* its openers died before robust_open had set them.                       *)
THEOREM JournalModes == OpenSpec => []JournalMode
<1>1. OpenInv => JournalMode
  BY DEF OpenInv
<1> QED
  BY <1>1, OpenAlways, PTL

(***************************************************************************)
(* The full pathname: numbers and sequences.                               *)
(***************************************************************************)
(* What a path may be made of, the one name of Nowhere included.           *)
Component == STRING \cup {"nowhere"}
Components == Seq(Component)

(* A set of numbers has a least element.                                   *)
LEMMA LeastOf ==
  ASSUME NEW T, T \subseteq Nat, T # {}
  PROVE  \E n \in T : \A m \in T : n <= m
<1> DEFINE R == OpToRel(<, Nat)
<1>1. IsWellFoundedOn(R, Nat)
  BY NatLessThanWellFounded
<1>2. \A m, n \in Nat : m < n => <<m, n>> \in R
  BY DEF OpToRel
<1> HIDE DEF R
<1>3. PICK n \in T : \A m \in T : ~(<<m, n>> \in R)
  BY <1>1, WFMin
<1>4. ASSUME NEW m \in T PROVE n <= m
  <2>1. n \in Nat /\ m \in Nat /\ ~(m < n)
    BY <1>2, <1>3
  <2>2. QED
    BY <2>1
<1>5. QED
  BY <1>4

(* A set that has 0, and k with k - 1 for each k up to n, has every number *)
(* up to n.                                                                *)
LEMMA UpTo ==
  ASSUME NEW n \in Nat, NEW Good, 0 \in Good, \A k \in 1 .. n : k - 1 \in Good => k \in Good
  PROVE  \A k \in 0 .. n : k \in Good
<1> DEFINE Bad == {k \in 0 .. n : k \notin Good}
<1> SUFFICES ASSUME Bad # {} PROVE FALSE
  OBVIOUS
<1>0. Bad \subseteq Nat
  OBVIOUS
<1>1. PICK k \in Bad : \A m \in Bad : k <= m
  <2> HIDE DEF Bad
  <2>1. QED
    BY <1>0, LeastOf
<1>2. k # 0
  OBVIOUS
<1>3. k \in 1 .. n /\ k - 1 \in 0 .. n /\ ~(k <= k - 1)
  BY <1>2
<1>4. k - 1 \in Good
  BY <1>1, <1>3
<1>5. QED
  BY <1>3, <1>4

(* The index that FoldLeft takes first.                                    *)
LEMMA MaxOf ==
  ASSUME NEW n \in Nat, NEW t, t \subseteq 1 .. n, t # {}
  PROVE  Max(t) \in t /\ \A i \in t : Max(t) >= i
<1> DEFINE Above == {m \in Nat : \A i \in t : m >= i}
<1>1. n \in Above
  OBVIOUS
<1>2. PICK m \in Above : \A k \in Above : m <= k
  <2>1. Above \subseteq Nat /\ Above # {}
    BY <1>1
  <2> HIDE DEF Above
  <2>2. QED
    BY <2>1, LeastOf
<1>3. m \in t
  <2> SUFFICES ASSUME m \notin t PROVE FALSE
    OBVIOUS
  <2>1. \A i \in t : i \in Nat /\ i >= 1 /\ m >= i /\ m # i
    BY <1>2
  <2>2. m \in Nat /\ m >= 1
    <3>1. PICK i \in t : TRUE
      OBVIOUS
    <3>2. m \in Nat /\ i \in Nat /\ i >= 1 /\ m >= i
      BY <2>1
    <3>3. QED
      BY <3>2
  <2>3. m - 1 \in Nat /\ \A i \in t : m - 1 >= i
    BY <2>1, <2>2
  <2>4. m - 1 \in Above
    BY <2>3
  <2>5. QED
    BY <1>2, <2>2, <2>4
<1>4. \E i \in t : \A j \in t : i >= j
  BY <1>2, <1>3
<1>5. QED
  BY <1>4 DEF Max

(***************************************************************************)
(* The folds of Location and of mkFullPathname.  FoldLeft is a function on *)
(* sets of indices, which takes the largest index off and recurs on the    *)
(* rest.  There is such a function (UnfoldedExists), and its values for    *)
(* the sets 1 .. k follow one another as the steps of a walk along the     *)
(* sequence do (UnfoldedSteps).                                            *)
(***************************************************************************)
FoldStep(fold, at, c) == IF fold = "walk" THEN Enter(at, c) ELSE Simplified(at, c)

Unfolded(f, fold, base, s) ==
  f = [t \in SUBSET (DOMAIN s) |->
        (IF t = {} THEN base ELSE FoldStep(fold, f[t \ {Max(t)}], s[Max(t)]))]

FoldSteps(F, fold, base, s) ==
  /\ F \in [0 .. Len(s) -> Components] /\ F[0] = base
  /\ \A k \in 1 .. Len(s) : F[k] = FoldStep(fold, F[k - 1], s[k])

LEMMA PrefixOf ==
  ASSUME NEW S, NEW s \in Seq(S), NEW k \in 0 .. Len(s)
  PROVE  /\ SubSeq(s, 1, k) \in Seq(S) /\ Len(SubSeq(s, 1, k)) = k
         /\ \A i \in 1 .. k : SubSeq(s, 1, k)[i] = s[i]
<1>1. k \in 0 .. Len(s) /\ Len(s) \in Nat
  OBVIOUS
<1>2. QED
  BY <1>1

LEMMA FrontOf ==
  ASSUME NEW S, NEW s \in Seq(S), s # <<>>
  PROVE  /\ Front(s) \in Seq(S) /\ Len(Front(s)) = Len(s) - 1 /\ Last(s) \in S
         /\ s = Append(Front(s), Last(s))
         /\ \A i \in 1 .. Len(s) - 1 : Front(s)[i] = s[i]
<1>0. Len(s) \in Nat \ {0} /\ \A i \in 1 .. Len(s) : s[i] \in S
  OBVIOUS
<1>1. Last(s) \in S
  BY <1>0 DEF Last
<1>2. Len(s) - 1 \in 0 .. Len(s)
  BY <1>0
<1>3. /\ Front(s) \in Seq(S) /\ Len(Front(s)) = Len(s) - 1
      /\ \A i \in 1 .. Len(s) - 1 : Front(s)[i] = s[i]
  BY <1>2, PrefixOf DEF Front
<1> HIDE DEF Front
<1>4. /\ Append(Front(s), Last(s)) \in Seq(S) /\ Len(Append(Front(s), Last(s))) = Len(s)
      /\ \A i \in 1 .. Len(s) - 1 : Append(Front(s), Last(s))[i] = s[i]
      /\ Append(Front(s), Last(s))[Len(s)] = s[Len(s)]
  <2>1. Len(Front(s)) + 1 = Len(s)
    BY <1>0, <1>3
  <2>2. QED
    BY <1>0, <1>1, <1>3, <2>1, AppendProperties DEF Last
<1>5. \A i \in 1 .. Len(s) : Append(Front(s), Last(s))[i] = s[i]
  <2> TAKE i \in 1 .. Len(s)
  <2>1. i \in 1 .. Len(s) - 1 \/ i = Len(s)
    BY <1>0
  <2>2. QED
    BY <1>4, <2>1
<1>6. s = Append(Front(s), Last(s))
  BY <1>4, <1>5, SeqEqual
<1>7. QED
  BY <1>1, <1>3, <1>6

LEMMA StepType ==
  ASSUME NEW fold, NEW at \in Components, NEW c \in Component
  PROVE  FoldStep(fold, at, c) \in Components
<1>1. at # <<>> => Front(at) \in Components
  BY FrontOf DEF Components
<1>2. Append(at, c) \in Components /\ at \in Components /\ Nowhere \in Components
  <2>1. Append(at, c) \in Components
    BY DEF Components
  <2>2. Nowhere \in Components
    <3>1. \A x : x \in Component => <<x>> \in Seq(Component)
      OBVIOUS
    <3>2. "nowhere" \in Component
      BY DEF Component
    <3>3. QED
      BY <3>1, <3>2 DEF Components, Nowhere
  <2>3. QED
    BY <2>1, <2>2
<1>3. Simplified(at, c) \in Components
  BY <1>1, <1>2 DEF Simplified, unixBackupDir
<1>4. Enter(at, c) \in Components
  BY <1>1, <1>2 DEF Enter
<1>5. QED
  BY <1>3, <1>4 DEF FoldStep

LEMMA UnfoldedExists ==
  ASSUME NEW fold, NEW base \in Components, NEW s \in Components
  PROVE  \E f : Unfolded(f, fold, base, s)
<1> DEFINE Down(f, t) == IF t = {} THEN base ELSE FoldStep(fold, f[t \ {Max(t)}], s[Max(t)])
           Fits(f, k) == f = [t \in SUBSET (1 .. k) |-> Down(f, t)]
           n == Len(s)
           Good == {k \in 0 .. n : \E f : Fits(f, k)}
<1>0. n \in Nat /\ DOMAIN s = 1 .. n
  BY DEF Components
<1>1. 0 \in Good
  <2> DEFINE f == [t \in SUBSET (1 .. 0) |-> base]
  <2>1. \A t \in SUBSET (1 .. 0) : t = {}
    OBVIOUS
  <2>2. \A t \in SUBSET (1 .. 0) : f[t] = Down(f, t)
    BY <2>1
  <2>3. f = [t \in SUBSET (1 .. 0) |-> f[t]]
    OBVIOUS
  <2> HIDE DEF f, Down
  <2>4. Fits(f, 0)
    BY <2>2, <2>3
  <2>5. QED
    BY <1>0, <2>4
<1>2. ASSUME NEW k \in 1 .. n, k - 1 \in Good PROVE k \in Good
  <2>1. PICK g : Fits(g, k - 1)
    BY <1>2
  <2> DEFINE f == [t \in SUBSET (1 .. k) |-> IF k \in t THEN FoldStep(fold, g[t \ {k}], s[k]) ELSE g[t]]
  <2>2. \A t \in SUBSET (1 .. k) : k \notin t => t \in SUBSET (1 .. k - 1)
    BY <1>0
  <2>2a. \A t \in SUBSET (1 .. k) : t # {} => Max(t) \in t /\ \A i \in t : Max(t) >= i
    <3>1. k \in Nat
      BY <1>0
    <3>2. QED
      BY <3>1, MaxOf
  <2>3. ASSUME NEW t \in SUBSET (1 .. k) PROVE f[t] = Down(f, t)
    <3>1. CASE k \in t
      <4>1. Max(t) = k
        <5>1. k \in Nat /\ Max(t) \in 1 .. k /\ Max(t) >= k
          <6>1. k \in Nat /\ t # {} /\ t \subseteq 1 .. k
            BY <1>0, <3>1
          <6>2. Max(t) \in t /\ Max(t) >= k
            BY <2>2a, <3>1, <6>1
          <6>3. QED
            BY <6>1, <6>2
        <5>2. QED
          BY <5>1
      <4>2. k \notin t \ {k} /\ t \ {k} \in SUBSET (1 .. k)
        OBVIOUS
      <4>3. f[t \ {k}] = g[t \ {k}] /\ f[t] = FoldStep(fold, g[t \ {k}], s[k]) /\ t # {}
        BY <3>1, <4>2
      <4> HIDE DEF f
      <4>4. QED
        BY <4>1, <4>3
    <3>2. CASE k \notin t
      <4>1. t \in SUBSET (1 .. k - 1) /\ t \ {Max(t)} \in SUBSET (1 .. k) /\ k \notin t \ {Max(t)}
        BY <2>2, <3>2
      <4>2. f[t] = g[t] /\ f[t \ {Max(t)}] = g[t \ {Max(t)}]
        BY <3>2, <4>1
      <4> HIDE DEF f
      <4>3. g[t] = Down(g, t)
        <5> HIDE DEF Down
        <5>1. QED
          BY <2>1, <4>1
      <4>4. QED
        BY <4>2, <4>3
    <3>3. QED
      BY <3>1, <3>2
  <2>4. f = [t \in SUBSET (1 .. k) |-> f[t]]
    OBVIOUS
  <2> HIDE DEF f, Down
  <2>5. Fits(f, k)
    BY <2>3, <2>4
  <2>6. QED
    BY <2>5
<1> HIDE DEF Good
<1>3. n \in Good
  <2>1. \A k \in 0 .. n : k \in Good
    BY <1>0, <1>1, <1>2, UpTo
  <2>2. QED
    BY <1>0, <2>1
<1>4. \E f : Fits(f, n)
  BY <1>3 DEF Good
<1>5. QED
  BY <1>0, <1>4 DEF Unfolded

LEMMA UnfoldedSteps ==
  ASSUME NEW fold, NEW base \in Components, NEW s \in Components, NEW f, Unfolded(f, fold, base, s)
  PROVE  \E F : FoldSteps(F, fold, base, s) /\ f[DOMAIN s] = F[Len(s)]
<1> DEFINE n == Len(s)
           F == [k \in 0 .. n |-> f[1 .. k]]
           Good == {k \in 0 .. n : F[k] \in Components}
<1>0. n \in Nat /\ DOMAIN s = 1 .. n /\ \A k \in 1 .. n : s[k] \in Component
  BY DEF Components
<1>1. \A t \in SUBSET (1 .. n) : f[t] = IF t = {} THEN base ELSE FoldStep(fold, f[t \ {Max(t)}], s[Max(t)])
  <2> DEFINE Down(t) == IF t = {} THEN base ELSE FoldStep(fold, f[t \ {Max(t)}], s[Max(t)])
  <2>1. f = [t \in SUBSET (1 .. n) |-> Down(t)]
    BY <1>0 DEF Unfolded
  <2> HIDE DEF Down
  <2>2. \A t \in SUBSET (1 .. n) : f[t] = Down(t)
    BY <2>1
  <2>3. QED
    BY <2>2 DEF Down
<1>2. F[0] = base
  <2>1. 1 .. 0 = {} /\ 1 .. 0 \in SUBSET (1 .. n) /\ 0 \in 0 .. n
    BY <1>0
  <2>2. QED
    BY <1>1, <2>1
<1>3. ASSUME NEW k \in 1 .. n PROVE F[k] = FoldStep(fold, F[k - 1], s[k])
  <2>0. k \in 0 .. n /\ k - 1 \in 0 .. n
    BY <1>0
  <2>1. 1 .. k # {} /\ 1 .. k \in SUBSET (1 .. n) /\ (1 .. k) \ {k} = 1 .. (k - 1)
    <3>1. k \in Nat /\ k >= 1 /\ k <= n
      BY <1>0
    <3>2. 1 .. k # {} /\ 1 .. k \in SUBSET (1 .. n)
      <4>1. k \in 1 .. k /\ \A i \in 1 .. k : i \in 1 .. n
        BY <1>0, <3>1
      <4>2. QED
        BY <4>1
    <3>3. \A i : i \in (1 .. k) \ {k} <=> i \in 1 .. (k - 1)
      <4> TAKE i
      <4>1. CASE i \in Int
        BY <3>1, <4>1
      <4>2. CASE i \notin Int
        <5>1. i \notin 1 .. k /\ i \notin 1 .. (k - 1)
          BY <4>2
        <5>2. QED
          BY <5>1
      <4>3. QED
        BY <4>1, <4>2
    <3>4. QED
      BY <3>2, <3>3
  <2>2. Max(1 .. k) = k
    <3>1. k \in Nat /\ k \in 1 .. k
      BY <1>0
    <3>2. Max(1 .. k) \in 1 .. k /\ \A i \in 1 .. k : Max(1 .. k) >= i
      BY <2>1, <3>1, MaxOf
    <3>3. QED
      BY <3>1, <3>2
  <2>3. f[1 .. k] = FoldStep(fold, f[1 .. (k - 1)], s[k])
    BY <1>1, <2>1, <2>2
  <2>4. QED
    BY <2>0, <2>3
<1>4. f[DOMAIN s] = F[n]
  BY <1>0
<1>5. F = [k \in 0 .. n |-> F[k]]
  OBVIOUS
<1> HIDE DEF F
<1>6. \A k \in 0 .. n : F[k] \in Components
  <2>1. 0 \in Good
    BY <1>0, <1>2
  <2>2. ASSUME NEW k \in 1 .. n, k - 1 \in Good PROVE k \in Good
    <3>1. F[k - 1] \in Components /\ s[k] \in Component /\ k \in 0 .. n
      BY <1>0, <2>2
    <3>2. FoldStep(fold, F[k - 1], s[k]) \in Components
      BY <3>1, StepType
    <3>3. QED
      BY <1>3, <3>1, <3>2
  <2> HIDE DEF Good
  <2>3. \A k \in 0 .. n : k \in Good
    BY <1>0, <2>1, <2>2, UpTo
  <2>4. QED
    BY <2>3 DEF Good
<1>7. FoldSteps(F, fold, base, s)
  BY <1>2, <1>3, <1>5, <1>6 DEF FoldSteps
<1>8. QED
  BY <1>4, <1>7

Alike(s, t, n) == \A k \in 1 .. n : s[k] = t[k]

(* Two folds that begin alike are alike as far as the sequences are.       *)
LEMMA StepsAgree ==
  ASSUME NEW fold, NEW base, NEW s \in Components, NEW t \in Components, NEW F, NEW G,
         FoldSteps(F, fold, base, s), FoldSteps(G, fold, base, t),
         NEW n \in Nat, n <= Len(s), n <= Len(t), Alike(s, t, n)
  PROVE  F[n] = G[n]
<1> DEFINE Good == {k \in 0 .. n : F[k] = G[k]}
<1>0. Len(s) \in Nat /\ Len(t) \in Nat
  BY DEF Components
<1>1. 0 \in Good
  BY DEF FoldSteps
<1>2. ASSUME NEW k \in 1 .. n, k - 1 \in Good PROVE k \in Good
  <2>1. k \in 1 .. Len(s) /\ k \in 1 .. Len(t) /\ k \in 0 .. n
    BY <1>0
  <2>2. QED
    BY <1>2, <2>1 DEF FoldSteps, Alike
<1> HIDE DEF Good
<1>3. n \in Good
  <2>1. \A k \in 0 .. n : k \in Good
    BY <1>1, <1>2, UpTo
  <2>2. QED
    BY <2>1
<1>4. QED
  BY <1>3 DEF Good

(* Where a path begins, and its text without "." and "..".                 *)
Start(p) == IF p.absolute THEN <<>> ELSE cwd
Simple(s) == FoldLeft(Simplified, <<>>, s)
Paths == [absolute : BOOLEAN, comps : Components]

LEMMA DirectoryType == \A d \in Directories : d \in Components
<1>1. Seq(STRING) \subseteq Components
  BY SeqMonotonic DEF Component, Components
<1>2. QED
  BY <1>1, UnixPathAssumption

LEMMA StartType ==
  ASSUME NEW p PROVE Start(p) \in Components
<1>1. <<>> \in Components /\ cwd \in Components
  BY DirectoryType, UnixPathAssumption DEF Components
<1>2. QED
  BY <1>1 DEF Start

LEMMA LocationSteps ==
  ASSUME NEW p, p.comps \in Components
  PROVE  \E F : FoldSteps(F, "walk", Start(p), p.comps) /\ Location(p) = F[Len(p.comps)]
<1> DEFINE D == DOMAIN p.comps
           Walk(f) == f = [t \in SUBSET D |->
                            (IF t = {} THEN Start(p) ELSE Enter(f[t \ {Max(t)}], p.comps[Max(t)]))]
<1>1. \A f : Walk(f) <=> Unfolded(f, "walk", Start(p), p.comps)
  BY DEF Unfolded, FoldStep
<1>2. \E f : Walk(f)
  BY <1>1, StartType, UnfoldedExists
<1>3. \E f : Walk(f) /\ Location(p) = f[D]
  BY <1>2 DEF Location, FoldLeft, MapThenFoldSet, Start
<1>4. PICK f : Unfolded(f, "walk", Start(p), p.comps) /\ Location(p) = f[D]
  BY <1>1, <1>3
<1>5. QED
  BY <1>4, StartType, UnfoldedSteps

LEMMA SimpleSteps ==
  ASSUME NEW s \in Components
  PROVE  \E F : FoldSteps(F, "simplify", <<>>, s) /\ Simple(s) = F[Len(s)]
<1> DEFINE D == DOMAIN s
           Walk(f) == f = [t \in SUBSET D |->
                            (IF t = {} THEN <<>> ELSE Simplified(f[t \ {Max(t)}], s[Max(t)]))]
<1>0. <<>> \in Components
  BY DEF Components
<1>1. \A f : Walk(f) <=> Unfolded(f, "simplify", <<>>, s)
  BY DEF Unfolded, FoldStep
<1>2. \E f : Walk(f)
  BY <1>0, <1>1, UnfoldedExists
<1>3. \E f : Walk(f) /\ Simple(s) = f[D]
  BY <1>2 DEF Simple, FoldLeft, MapThenFoldSet
<1>4. PICK f : Unfolded(f, "simplify", <<>>, s) /\ Simple(s) = f[D]
  BY <1>1, <1>3
<1>5. QED
  BY <1>0, <1>4, UnfoldedSteps

(* A fold over one more element is one more step.                          *)
LEMMA OneMoreStep ==
  ASSUME NEW fold, NEW base, NEW s \in Components, NEW e \in Component, NEW F, NEW G,
         FoldSteps(F, fold, base, s), FoldSteps(G, fold, base, Append(s, e))
  PROVE  G[Len(s) + 1] = FoldStep(fold, F[Len(s)], e)
<1>0. /\ Append(s, e) \in Components /\ Len(s) \in Nat /\ Len(Append(s, e)) = Len(s) + 1
      /\ \A i \in 1 .. Len(s) : Append(s, e)[i] = s[i]
      /\ Append(s, e)[Len(s) + 1] = e
  BY AppendProperties DEF Components
<1>1. F[Len(s)] = G[Len(s)]
  <2> DEFINE t == Append(s, e)
             n == Len(s)
  <2>1. n \in Nat /\ n <= Len(s) /\ n <= Len(t) /\ t \in Components
    BY <1>0
  <2>2. Alike(s, t, n)
    BY <1>0 DEF Alike
  <2>3. FoldSteps(G, fold, base, t)
    OBVIOUS
  <2> HIDE DEF FoldSteps, t, n
  <2>4. F[n] = G[n]
    BY <2>1, <2>2, <2>3, StepsAgree
  <2>5. QED
    BY <2>4 DEF n
<1>2. G[Len(s) + 1] = FoldStep(fold, G[(Len(s) + 1) - 1], Append(s, e)[Len(s) + 1])
  <2>1. Len(s) + 1 \in 1 .. Len(Append(s, e))
    BY <1>0
  <2>2. QED
    BY <2>1 DEF FoldSteps
<1>3. (Len(s) + 1) - 1 = Len(s)
  BY <1>0
<1>4. QED
  BY <1>0, <1>1, <1>2, <1>3

(***************************************************************************)
(* The location of a path, component by component.                         *)
(***************************************************************************)
LEMMA LocationType ==
  ASSUME NEW p, p.comps \in Components PROVE Location(p) \in Components
<1>1. PICK F : FoldSteps(F, "walk", Start(p), p.comps) /\ Location(p) = F[Len(p.comps)]
  BY LocationSteps
<1>2. Len(p.comps) \in 0 .. Len(p.comps)
  BY DEF Components
<1>3. QED
  BY <1>1, <1>2 DEF FoldSteps

LEMMA LocationOfNone ==
  ASSUME NEW b PROVE Location(Path(b, <<>>)) = IF b THEN <<>> ELSE cwd
<1> DEFINE p == Path(b, <<>>)
<1>1. p.comps = <<>> /\ p.absolute = b /\ <<>> \in Components /\ Len(<<>>) = 0
  BY DEF Path, Components
<1> HIDE DEF p
<1>2. PICK F : FoldSteps(F, "walk", Start(p), p.comps) /\ Location(p) = F[Len(p.comps)]
  BY <1>1, LocationSteps
<1>3. Location(p) = Start(p)
  BY <1>1, <1>2 DEF FoldSteps
<1>4. QED
  BY <1>1, <1>3 DEF Start, p

LEMMA LocationOfMore ==
  ASSUME NEW b, NEW s \in Components, NEW e \in Component
  PROVE  Location(Path(b, Append(s, e))) = Enter(Location(Path(b, s)), e)
<1> DEFINE p == Path(b, s)
           q == Path(b, Append(s, e))
<1>1. /\ p.comps = s /\ q.comps = Append(s, e) /\ p.absolute = q.absolute
      /\ Append(s, e) \in Components /\ Len(Append(s, e)) = Len(s) + 1
  BY AppendProperties DEF Path, Components
<1> HIDE DEF p, q
<1>2. PICK F : FoldSteps(F, "walk", Start(p), s) /\ Location(p) = F[Len(s)]
  BY <1>1, LocationSteps
<1>3. PICK G : FoldSteps(G, "walk", Start(q), Append(s, e)) /\ Location(q) = G[Len(s) + 1]
  BY <1>1, LocationSteps
<1>4. Start(p) = Start(q)
  BY <1>1 DEF Start
<1>5. Location(q) = FoldStep("walk", Location(p), e)
  BY <1>2, <1>3, <1>4, OneMoreStep
<1>6. QED
  BY <1>5 DEF FoldStep, p, q

LEMMA SimpleOfMore ==
  /\ Simple(<<>>) = <<>>
  /\ \A s \in Components : Simple(s) \in Components
  /\ \A s \in Components, e \in Component : Simple(Append(s, e)) = Simplified(Simple(s), e)
<1>1. <<>> \in Components /\ Len(<<>>) = 0
  BY DEF Components
<1>2. Simple(<<>>) = <<>>
  BY <1>1, SimpleSteps DEF FoldSteps
<1>3. ASSUME NEW s \in Components PROVE Simple(s) \in Components
  <2>1. Len(s) \in 0 .. Len(s)
    BY DEF Components
  <2>2. QED
    BY <2>1, SimpleSteps DEF FoldSteps
<1>4. ASSUME NEW s \in Components, NEW e \in Component
      PROVE  Simple(Append(s, e)) = Simplified(Simple(s), e)
  <2>1. Append(s, e) \in Components /\ Len(Append(s, e)) = Len(s) + 1
    BY AppendProperties DEF Components
  <2>2. PICK F : FoldSteps(F, "simplify", <<>>, s) /\ Simple(s) = F[Len(s)]
    BY SimpleSteps
  <2>3. PICK G : FoldSteps(G, "simplify", <<>>, Append(s, e)) /\ Simple(Append(s, e)) = G[Len(s) + 1]
    BY <2>1, SimpleSteps
  <2>4. Simple(Append(s, e)) = FoldStep("simplify", Simple(s), e)
    BY <2>2, <2>3, OneMoreStep
  <2>5. QED
    BY <2>4 DEF FoldStep
<1>5. QED
  BY <1>2, <1>3, <1>4

LEMMA ConcatOfAppend ==
  ASSUME NEW S, NEW s \in Seq(S), NEW t \in Seq(S), NEW e \in S
  PROVE  s \o Append(t, e) = Append(s \o t, e)
<1>1. <<e>> \in Seq(S) /\ s \o t \in Seq(S)
  OBVIOUS
<1>2. Append(t, e) = t \o <<e>> /\ Append(s \o t, e) = (s \o t) \o <<e>>
  BY <1>1, AppendIsConcat
<1>3. (s \o t) \o <<e>> = s \o (t \o <<e>>)
  BY <1>1, ConcatAssociative
<1>4. QED
  BY <1>2, <1>3

LEMMA PrefixMore ==
  ASSUME NEW s \in Components, NEW k \in 1 .. Len(s)
  PROVE  /\ SubSeq(s, 1, k) = Append(SubSeq(s, 1, k - 1), s[k])
         /\ SubSeq(s, 1, k) \in Components /\ SubSeq(s, 1, k - 1) \in Components /\ s[k] \in Component
<1>0. Len(s) \in Nat /\ s \in Seq(Component) /\ s[k] \in Component /\ k - 1 \in 0 .. Len(s) /\ k \in 0 .. Len(s)
  BY DEF Components
<1>1. /\ SubSeq(s, 1, k) \in Seq(Component) /\ Len(SubSeq(s, 1, k)) = k
      /\ \A i \in 1 .. k : SubSeq(s, 1, k)[i] = s[i]
  BY <1>0, PrefixOf
<1>2. /\ SubSeq(s, 1, k - 1) \in Seq(Component) /\ Len(SubSeq(s, 1, k - 1)) = k - 1
      /\ \A i \in 1 .. k - 1 : SubSeq(s, 1, k - 1)[i] = s[i]
  BY <1>0, PrefixOf
<1> DEFINE t == SubSeq(s, 1, k)
           u == Append(SubSeq(s, 1, k - 1), s[k])
<1>3. /\ u \in Seq(Component) /\ Len(u) = (k - 1) + 1
      /\ \A i \in 1 .. k - 1 : u[i] = SubSeq(s, 1, k - 1)[i]
      /\ u[(k - 1) + 1] = s[k]
  BY <1>0, <1>2, AppendProperties
<1>4. Len(u) = k /\ \A i \in 1 .. k : u[i] = s[i]
  <2>1. (k - 1) + 1 = k /\ \A i \in 1 .. k : i \in 1 .. k - 1 \/ i = k
    BY <1>0
  <2>2. QED
    BY <1>2, <1>3, <2>1
<1> HIDE DEF u
<1>5. \A i \in 1 .. Len(t) : t[i] = u[i]
  BY <1>1, <1>4
<1>6. t = u
  BY <1>1, <1>3, <1>4, <1>5, SeqEqual
<1>7. QED
  BY <1>0, <1>1, <1>2, <1>6 DEF Components, u

Meet(a, x, b, y) == Location(Path(a, x)) = Location(Path(b, y))

(* Past a place where two paths meet they go the same way.                 *)
LEMMA LocationOfBoth ==
  ASSUME NEW a, NEW b, NEW x \in Components, NEW y \in Components, NEW s \in Components,
         Meet(a, x, b, y)
  PROVE  Meet(a, x \o s, b, y \o s)
<1> DEFINE n == Len(s)
           P(k) == SubSeq(s, 1, k)
           Good == {k \in 0 .. n : Location(Path(a, x \o P(k))) = Location(Path(b, y \o P(k)))}
<1>0. n \in Nat /\ s \in Seq(Component) /\ x \in Seq(Component) /\ y \in Seq(Component)
  BY DEF Components
<1>1. 0 \in Good
  <2>1. P(0) = <<>>
    BY <1>0
  <2>2. x \o <<>> = x /\ y \o <<>> = y
    BY <1>0, ConcatEmptySeq
  <2> HIDE DEF P
  <2>3. x \o P(0) = x /\ y \o P(0) = y
    BY <2>1, <2>2
  <2>4. Location(Path(a, x \o P(0))) = Location(Path(b, y \o P(0)))
    BY <2>3 DEF Meet
  <2>5. 0 \in 0 .. n
    BY <1>0
  <2>6. QED
    BY <2>4, <2>5
<1>2. ASSUME NEW k \in 1 .. n, k - 1 \in Good PROVE k \in Good
  <2>1. P(k) = Append(P(k - 1), s[k]) /\ P(k - 1) \in Seq(Component) /\ s[k] \in Component
    BY PrefixMore DEF Components
  <2> HIDE DEF P
  <2>2. ASSUME NEW z \in Seq(Component)
        PROVE  z \o P(k) = Append(z \o P(k - 1), s[k]) /\ z \o P(k - 1) \in Components
    <3>1. z \o Append(P(k - 1), s[k]) = Append(z \o P(k - 1), s[k])
      BY <2>1, ConcatOfAppend
    <3>2. QED
      BY <2>1, <3>1, ConcatProperties DEF Components
  <2>3. /\ Location(Path(a, x \o P(k))) = Enter(Location(Path(a, x \o P(k - 1))), s[k])
        /\ Location(Path(b, y \o P(k))) = Enter(Location(Path(b, y \o P(k - 1))), s[k])
    <3>1. x \o P(k) = Append(x \o P(k - 1), s[k]) /\ x \o P(k - 1) \in Components
      BY <1>0, <2>2
    <3>2. y \o P(k) = Append(y \o P(k - 1), s[k]) /\ y \o P(k - 1) \in Components
      BY <1>0, <2>2
    <3>3. ASSUME NEW c, NEW z \in Components
          PROVE  Location(Path(c, Append(z, s[k]))) = Enter(Location(Path(c, z)), s[k])
      BY <2>1, LocationOfMore
    <3>4. Location(Path(a, Append(x \o P(k - 1), s[k]))) = Enter(Location(Path(a, x \o P(k - 1))), s[k])
      BY <3>1, <3>3
    <3>5. Location(Path(b, Append(y \o P(k - 1), s[k]))) = Enter(Location(Path(b, y \o P(k - 1))), s[k])
      BY <3>2, <3>3
    <3>6. QED
      BY <3>1, <3>2, <3>4, <3>5
  <2>4. Location(Path(a, x \o P(k - 1))) = Location(Path(b, y \o P(k - 1)))
    BY <1>2
  <2>5. k \in 0 .. n
    BY <1>0
  <2>6. QED
    BY <2>3, <2>4, <2>5
<1>3. n \in Good
  <2> HIDE DEF Good
  <2>1. \A k \in 0 .. n : k \in Good
    BY <1>0, <1>1, <1>2, UpTo
  <2>2. QED
    BY <1>0, <2>1
<1>4. P(n) = s
  BY <1>0, SubSeqFull
<1>5. QED
  <2> HIDE DEF P
  <2>1. QED
    BY <1>3, <1>4 DEF Meet

LEMMA DirectoryIsThere ==
  ASSUME NEW d \in Directories PROVE Location(Path(TRUE, d)) = d
<1> DEFINE n == Len(d)
           P(k) == SubSeq(d, 1, k)
           Good == {k \in 0 .. n : Location(Path(TRUE, P(k))) = P(k)}
<1>0. n \in Nat /\ d \in Seq(Component) /\ d \in Components
  BY DirectoryType DEF Components
<1>1. 0 \in Good
  <2>1. P(0) = <<>>
    BY <1>0
  <2> HIDE DEF P
  <2>2. Location(Path(TRUE, P(0))) = P(0)
    BY <2>1, LocationOfNone
  <2>3. 0 \in 0 .. n
    BY <1>0
  <2>4. QED
    BY <2>2, <2>3
<1>2. ASSUME NEW k \in 1 .. n, k - 1 \in Good PROVE k \in Good
  <2>1. P(k) = Append(P(k - 1), d[k]) /\ P(k - 1) \in Components /\ d[k] \in Component
    BY <1>0, PrefixMore
  <2>2. k \in 0 .. n /\ k - 1 \in 0 .. n /\ k \in DOMAIN d
    BY <1>0
  <2>3. P(k - 1) \in Directories /\ d[k] \notin {".", ".."}
    BY <2>2, UnixPathAssumption
  <2> HIDE DEF P
  <2>4. Location(Path(TRUE, P(k))) = Enter(P(k - 1), d[k])
    BY <1>2, <2>1, LocationOfMore
  <2>5. QED
    BY <2>1, <2>2, <2>3, <2>4 DEF Enter
<1>3. n \in Good
  <2> HIDE DEF Good
  <2>1. \A k \in 0 .. n : k \in Good
    BY <1>0, <1>1, <1>2, UpTo
  <2>2. QED
    BY <1>0, <2>1
<1>4. P(n) = d
  BY <1>0, SubSeqFull
<1>5. QED
  <2> HIDE DEF P
  <2>1. QED
    BY <1>3, <1>4

(* What leads somewhere leads through directories.                         *)
LEMMA InDirectory ==
  ASSUME NEW b, NEW s \in Components, NEW e \in Component,
         Location(Path(b, Append(s, e))) # Nowhere
  PROVE  Location(Path(b, s)) \in Directories
BY LocationOfMore DEF Enter

(***************************************************************************)
(* mkFullPathname: taking out "." and ".." by the text leads nowhere else, *)
(* as long as the way goes through directories.                            *)
(***************************************************************************)
SamePlace(s, out) ==
  Location(Path(TRUE, s)) \in Directories =>
    /\ Location(Path(TRUE, out)) = Location(Path(TRUE, s))
    /\ \A i \in 1 .. Len(out) : out[i] # "."

LEMMA FrontOfDirectory ==
  ASSUME NEW at \in Directories, NEW c \in Component
  PROVE  Front(Append(at, c)) = at
<1>1. at \in Seq(Component)
  BY DirectoryType DEF Components
<1>2. Append(at, c) \in Seq(Component) /\ Append(at, c) # <<>>
  BY <1>1, AppendProperties
<1>3. Append(at, c) = Append(Front(Append(at, c)), Last(Append(at, c)))
  BY <1>2, FrontOf
<1>4. Front(Append(at, c)) \in Seq(Component) /\ Last(Append(at, c)) \in Component
  BY <1>2, FrontOf
<1>5. QED
  BY <1>1, <1>3, <1>4, AppendInjective

LEMMA SimplifiedStays ==
  ASSUME NEW s \in Components, NEW e \in Component, NEW out \in Components,
         Location(Path(TRUE, Append(s, e))) \in Directories, SamePlace(s, out)
  PROVE  SamePlace(Append(s, e), Simplified(out, e))
<1> DEFINE at == Location(Path(TRUE, s))
           to == Location(Path(TRUE, Append(s, e)))
           new == Simplified(out, e)
<1>1. to # Nowhere /\ to = Enter(at, e)
  BY UnixPathAssumption, LocationOfMore
<1>2. at \in Directories
  BY <1>1, InDirectory
<1>3. Location(Path(TRUE, out)) = at /\ \A i \in 1 .. Len(out) : out[i] # "."
  BY <1>2 DEF SamePlace
<1>4. SUFFICES Location(Path(TRUE, new)) = to /\ \A i \in 1 .. Len(new) : new[i] # "."
  BY DEF SamePlace
<1>5. out \in Seq(Component) /\ Len(out) \in Nat
  BY DEF Components
<1>6. CASE e = "."
  <2>1. to = at /\ new = out
    BY <1>1, <1>2, <1>6 DEF Enter, Simplified
  <2>2. QED
    BY <1>3, <2>1
<1>7. CASE e = ".." /\ unixBackupDir(out)
  <2>1. out # <<>> /\ Last(out) # ".." /\ new = Front(out)
    BY <1>7 DEF unixBackupDir, Simplified
  <2>2. /\ Front(out) \in Components /\ Last(out) \in Component /\ Len(Front(out)) = Len(out) - 1
        /\ out = Append(Front(out), Last(out)) /\ \A i \in 1 .. Len(out) - 1 : Front(out)[i] = out[i]
    BY <1>5, <2>1, FrontOf DEF Components
  <2>3. Last(out) # "."
    <3>1. Len(out) \in 1 .. Len(out)
      BY <1>5, <2>1
    <3>2. QED
      BY <1>3, <3>1 DEF Last
  <2> DEFINE up == Location(Path(TRUE, Front(out)))
  <2>4. at = Enter(up, Last(out))
    BY <1>3, <2>2, LocationOfMore
  <2>5. up \in Directories /\ at = Append(up, Last(out))
    BY <1>2, <2>1, <2>3, <2>4, UnixPathAssumption DEF Enter
  <2>6. at # <<>> /\ Front(at) = up
    <3>1. up \in Seq(Component)
      BY <2>5, DirectoryType DEF Components
    <3>2. Append(up, Last(out)) # <<>>
      BY <2>2, <3>1, AppendProperties
    <3>3. Front(Append(up, Last(out))) = up
      BY <2>2, <2>5, FrontOfDirectory
    <3>4. QED
      BY <2>5, <3>2, <3>3
  <2>7. to = up
    BY <1>1, <1>2, <1>7, <2>6 DEF Enter
  <2>8. \A i \in 1 .. Len(Front(out)) : Front(out)[i] # "."
    BY <1>3, <1>5, <2>2
  <2>9. QED
    BY <2>1, <2>7, <2>8
<1>8. CASE e # "." /\ ~(e = ".." /\ unixBackupDir(out))
  <2>1. new = Append(out, e)
    BY <1>8 DEF Simplified
  <2>2. Location(Path(TRUE, new)) = to
    BY <1>1, <1>3, <2>1, LocationOfMore
  <2>3. /\ Len(Append(out, e)) = Len(out) + 1 /\ Append(out, e)[Len(out) + 1] = e
        /\ \A i \in 1 .. Len(out) : Append(out, e)[i] = out[i]
    BY <1>5, AppendProperties
  <2>4. ASSUME NEW i \in 1 .. Len(Append(out, e)) PROVE Append(out, e)[i] # "."
    <3>1. i \in 1 .. Len(out) \/ i = Len(out) + 1
      BY <1>5, <2>3
    <3>2. QED
      BY <1>3, <1>8, <2>3, <3>1
  <2>5. QED
    BY <2>1, <2>2, <2>4
<1>9. QED
  BY <1>6, <1>7, <1>8
LEMMA SimpleStays ==
  ASSUME NEW s \in Components PROVE SamePlace(s, Simple(s))
<1> DEFINE n == Len(s)
           P(k) == SubSeq(s, 1, k)
           Good == {k \in 0 .. n : SamePlace(P(k), Simple(P(k)))}
<1>0. n \in Nat /\ s \in Seq(Component)
  BY DEF Components
<1>1. 0 \in Good
  <2>1. P(0) = <<>> /\ 0 \in 0 .. n
    BY <1>0
  <2> HIDE DEF P
  <2>2. SamePlace(<<>>, <<>>)
    BY DEF SamePlace
  <2>3. SamePlace(P(0), Simple(P(0)))
    BY <2>1, <2>2, SimpleOfMore
  <2>4. QED
    BY <2>1, <2>3
<1>2. ASSUME NEW k \in 1 .. n, k - 1 \in Good PROVE k \in Good
  <2>1. P(k) = Append(P(k - 1), s[k]) /\ P(k - 1) \in Components /\ s[k] \in Component
    BY PrefixMore
  <2>2. SamePlace(P(k - 1), Simple(P(k - 1))) /\ k \in 0 .. n
    BY <1>0, <1>2
  <2> HIDE DEF P
  <2>3. Simple(P(k)) = Simplified(Simple(P(k - 1)), s[k]) /\ Simple(P(k - 1)) \in Components
    BY <2>1, SimpleOfMore
  <2>4. SamePlace(P(k), Simple(P(k)))
    <3>1. CASE Location(Path(TRUE, P(k))) \in Directories
      <4>1. Location(Path(TRUE, Append(P(k - 1), s[k]))) \in Directories
        BY <2>1, <3>1
      <4>2. SamePlace(Append(P(k - 1), s[k]), Simplified(Simple(P(k - 1)), s[k]))
        BY <2>1, <2>2, <2>3, <4>1, SimplifiedStays
      <4>3. QED
        BY <2>1, <2>3, <4>2
    <3>2. CASE Location(Path(TRUE, P(k))) \notin Directories
      BY <3>2 DEF SamePlace
    <3>3. QED
      BY <3>1, <3>2
  <2>5. QED
    BY <2>2, <2>4
<1>3. n \in Good
  <2> HIDE DEF Good
  <2>1. \A k \in 0 .. n : k \in Good
    BY <1>0, <1>1, <1>2, UpTo
  <2>2. QED
    BY <1>0, <2>1
<1>4. P(n) = s
  BY <1>0, SubSeqFull
<1>5. QED
  <2> HIDE DEF P
  <2>1. QED
    BY <1>3, <1>4

(* A path that is not empty.                                               *)
PathsIn == {p \in Paths : p.comps # <<>>}

LEMMA PathIsPath ==
  ASSUME NEW p \in Paths
  PROVE  /\ p = Path(p.absolute, p.comps) /\ p.absolute \in BOOLEAN /\ p.comps \in Components
         /\ \A b \in BOOLEAN, s \in Components :
              Path(b, s) \in Paths /\ Path(b, s).absolute = b /\ Path(b, s).comps = s
BY DEF Path, Paths

(* A path after another is a path.                                         *)
LEMMA PathOfMore ==
  ASSUME NEW b \in BOOLEAN, NEW s \in Components, NEW t \in Components, t # <<>>
  PROVE  s \o t \in Components /\ s \o t # <<>> /\ Path(b, s \o t) \in PathsIn
<1>1. /\ s \o t \in Seq(Component) /\ Len(s \o t) = Len(s) + Len(t)
      /\ Len(s) \in Nat /\ Len(t) \in Nat /\ Len(t) # 0
  BY ConcatProperties, EmptySeq DEF Components
<1>2. s \o t # <<>> /\ s \o t \in Components
  BY <1>1 DEF Components
<1>3. QED
  BY <1>2 DEF Path, Paths, PathsIn

(* Where a path begins may be written before it.                           *)
LEMMA LocationFromRoot ==
  ASSUME NEW d \in Directories, NEW b, (IF b THEN <<>> ELSE cwd) = d, NEW s \in Components
  PROVE  Location(Path(TRUE, d \o s)) = Location(Path(b, s))
<1>1. d \in Components /\ <<>> \in Components /\ s \in Seq(Component)
  BY DirectoryType DEF Components
<1> DEFINE none == <<>>
<1>2. none \in Components /\ none \o s = s
  BY <1>1, ConcatEmptySeq
<1>3. Location(Path(TRUE, d)) = Location(Path(b, none))
  BY DirectoryIsThere, LocationOfNone
<1> HIDE DEF none
<1>4. Meet(TRUE, d \o s, b, none \o s)
  <2>1. Meet(TRUE, d, b, none)
    BY <1>3 DEF Meet
  <2>2. QED
    BY <1>1, <1>2, <2>1, LocationOfBoth
<1>5. Location(Path(TRUE, d \o s)) = Location(Path(b, none \o s))
  BY <1>4 DEF Meet
<1>6. QED
  BY <1>2, <1>5

(* The full pathname of a path leads where the path leads.                 *)
LEMMA MkKeeps ==
  ASSUME NEW p \in PathsIn
  PROVE  /\ mkFullPathname(p) \in PathsIn /\ mkFullPathname(p).absolute
         /\ Location(p) # Nowhere => Location(mkFullPathname(p)) = Location(p)
<1> DEFINE comps == IF p.absolute THEN p.comps ELSE cwd \o p.comps
           q == mkFullPathname(p)
<1>0. /\ p = Path(p.absolute, p.comps) /\ p.absolute \in BOOLEAN
      /\ p.comps \in Components /\ p.comps # <<>> /\ cwd \in Directories /\ cwd \in Components
  BY PathIsPath, DirectoryType, UnixPathAssumption DEF PathsIn
<1>1. comps \in Components /\ comps # <<>>
  BY <1>0, PathOfMore
<1>2. Location(Path(TRUE, comps)) = Location(p)
  <2>1. CASE p.absolute
    BY <1>0, <2>1
  <2>2. CASE ~p.absolute
    <3>1. Location(Path(TRUE, cwd \o p.comps)) = Location(Path(FALSE, p.comps))
      BY <1>0, LocationFromRoot
    <3>2. QED
      BY <1>0, <2>2, <3>1
  <2>3. QED
    BY <2>1, <2>2
<1>3. q = Path(TRUE, Append(Simple(Front(comps)), Last(comps)))
  BY DEF mkFullPathname, Simple
<1> HIDE DEF comps
<1>4. /\ Front(comps) \in Components /\ Last(comps) \in Component
      /\ comps = Append(Front(comps), Last(comps))
  BY <1>1, FrontOf DEF Components
<1>5. Simple(Front(comps)) \in Components
  BY <1>4, SimpleOfMore
<1>6. Append(Simple(Front(comps)), Last(comps)) \in Components /\ Append(Simple(Front(comps)), Last(comps)) # <<>>
  BY <1>4, <1>5, AppendProperties DEF Components
<1>7. q \in PathsIn /\ q.absolute
  BY <1>3, <1>6 DEF Path, Paths, PathsIn
<1>8. ASSUME Location(p) # Nowhere PROVE Location(q) = Location(p)
  <2>1. Location(Path(TRUE, Append(Front(comps), Last(comps)))) = Location(p)
    BY <1>2, <1>4
  <2>2. Location(Path(TRUE, Front(comps))) \in Directories
    BY <1>4, <1>8, <2>1, InDirectory
  <2>3. Location(Path(TRUE, Simple(Front(comps)))) = Location(Path(TRUE, Front(comps)))
    BY <1>4, <2>2, SimpleStays DEF SamePlace
  <2>4. Location(q) = Enter(Location(Path(TRUE, Simple(Front(comps)))), Last(comps))
    BY <1>3, <1>4, <1>5, LocationOfMore
  <2>5. Location(p) = Enter(Location(Path(TRUE, Front(comps))), Last(comps))
    BY <1>4, <2>1, LocationOfMore
  <2>6. QED
    BY <2>3, <2>4, <2>5
<1>9. QED
  BY <1>7, <1>8
(***************************************************************************)
(* The links.  The system follows one from where it is, unixFullPathname   *)
(* by the text of the path that leads there.                               *)
(***************************************************************************)
LinksType == DOMAIN links \subseteq Locations /\ links \in [DOMAIN links -> Targets]

LEMMA NamesType == Targets \subseteq PathsIn /\ PathNames \subseteq PathsIn
<1>1. Seq(STRING) \subseteq Components
  BY SeqMonotonic DEF Component, Components
<1>2. QED
  BY <1>1, UnixPathAssumption DEF Paths, PathsIn

(* A link is in the directory that the path before its last component      *)
(* leads to, whatever that path is.                                        *)
LEMMA LinkInDirectory ==
  ASSUME NEW p \in PathsIn, Location(p) \in Locations
  PROVE  \E at \in Directories :
           /\ Location(Path(p.absolute, Front(p.comps))) = at
           /\ Front(Location(p)) = at
<1> DEFINE at == Location(Path(p.absolute, Front(p.comps)))
           c == Last(p.comps)
<1>1. /\ p = Path(p.absolute, p.comps) /\ p.comps = Append(Front(p.comps), c)
      /\ Front(p.comps) \in Components /\ c \in Component
  BY PathIsPath, FrontOf DEF PathsIn, Components
<1>2. Location(p) = Enter(at, c)
  <2>1. Location(Path(p.absolute, Append(Front(p.comps), c))) = Enter(at, c)
    BY <1>1, LocationOfMore
  <2>2. QED
    BY <1>1, <2>1
<1>3. Location(p) # Nowhere /\ Location(p) \notin Directories
  BY UnixPathAssumption
<1> HIDE DEF at
<1>4. at \in Directories
  BY <1>2, <1>3 DEF Enter
<1>5. at # <<>> => Front(at) \in Directories
  <2>1. at \in Seq(Component) /\ Len(at) \in Nat
    BY <1>4, DirectoryType DEF Components
  <2>2. at # <<>> => Len(at) - 1 \in 0 .. Len(at)
    BY <2>1
  <2>3. QED
    BY <1>4, <2>2, UnixPathAssumption DEF Front
<1>6. Location(p) = Append(at, c)
  BY <1>2, <1>3, <1>4, <1>5 DEF Enter
<1>7. Front(Location(p)) = at
  BY <1>1, <1>4, <1>6, FrontOfDirectory
<1>8. QED
  BY <1>4, <1>7 DEF at

(* Two paths that lead to one link have targets that lead to one place.    *)
LEMMA ReadlinkKeeps ==
  ASSUME LinksType, NEW p \in PathsIn, NEW q \in PathsIn,
         Location(p) = Location(q), Location(p) \in DOMAIN links
  PROVE  /\ Readlink(p) \in PathsIn /\ Followed(q) \in PathsIn
         /\ Location(Readlink(p)) = Location(Followed(q))
<1> DEFINE target == links[Location(p)]
<1>1. target \in PathsIn /\ Location(p) \in Locations
  BY NamesType DEF LinksType
<1>2. target \in Paths /\ target.comps # <<>> /\ target.comps \in Components
  BY <1>1, PathIsPath DEF PathsIn
<1>3. CASE target.absolute
  <2>1. Readlink(p) = target /\ Followed(q) = target
    BY <1>3 DEF Readlink, Followed
  <2>2. QED
    BY <1>1, <2>1
<1>4. CASE ~target.absolute
  <2>1. PICK at \in Directories : /\ Location(Path(p.absolute, Front(p.comps))) = at
                                  /\ Front(Location(p)) = at
    BY <1>1, LinkInDirectory
  <2>2. /\ Readlink(p) = Path(p.absolute, Front(p.comps) \o target.comps)
        /\ Followed(q) = Path(TRUE, at \o target.comps)
    BY <1>4, <2>1 DEF Readlink, Followed
  <2>3. at \in Components /\ Front(p.comps) \in Components /\ p.absolute \in BOOLEAN
    BY DirectoryType, PathIsPath, FrontOf DEF PathsIn, Components
  <2> HIDE DEF target
  <2>4. Meet(p.absolute, Front(p.comps), TRUE, at)
    BY <2>1, DirectoryIsThere DEF Meet
  <2>5. Meet(p.absolute, Front(p.comps) \o target.comps, TRUE, at \o target.comps)
    BY <1>2, <2>3, <2>4, LocationOfBoth
  <2>6. Readlink(p) \in PathsIn /\ Followed(q) \in PathsIn
    BY <1>2, <2>2, <2>3, PathOfMore
  <2>7. QED
    BY <2>2, <2>5, <2>6 DEF Meet
<1>5. QED
  BY <1>3, <1>4

LEMMA FollowedType ==
  ASSUME LinksType, NEW q \in PathsIn PROVE Followed(q) \in PathsIn
<1>1. CASE Location(q) \in DOMAIN links
  BY <1>1, ReadlinkKeeps
<1>2. CASE Location(q) \notin DOMAIN links
  BY <1>2 DEF Followed
<1>3. QED
  BY <1>1, <1>2

(* The paths that the kernel follows from p.                               *)
BeyondSteps(R, p, n) ==
  /\ R \in [0 .. n -> PathsIn] /\ R[0] = p
  /\ \A k \in 1 .. n : R[k] = Followed(R[k - 1])

LEMMA BeyondOf ==
  ASSUME LinksType, NEW p \in PathsIn, NEW n \in Nat
  PROVE  \E R : BeyondSteps(R, p, n) /\ Beyond(p, n) = Location(R[n])
<1> DEFINE Down(f, i) == IF i = 0 THEN p ELSE Followed(f[i - 1])
           Fits(f, m) == f = [i \in 0 .. m |-> Down(f, i)]
           Good == {m \in 0 .. n : \E f : Fits(f, m)}
<1>1. 0 \in Good
  <2> DEFINE f == [i \in 0 .. 0 |-> p]
  <2>1. \A i \in 0 .. 0 : f[i] = Down(f, i)
    OBVIOUS
  <2>2. f = [i \in 0 .. 0 |-> f[i]]
    OBVIOUS
  <2> HIDE DEF f, Down
  <2>3. Fits(f, 0)
    BY <2>1, <2>2
  <2>4. 0 \in 0 .. n
    OBVIOUS
  <2>5. QED
    BY <2>3, <2>4
<1>2. ASSUME NEW m \in 1 .. n, m - 1 \in Good PROVE m \in Good
  <2>1. PICK g : Fits(g, m - 1)
    BY <1>2
  <2> DEFINE f == [i \in 0 .. m |-> IF i = m THEN Followed(g[m - 1]) ELSE g[i]]
  <2>2. \A i \in 0 .. m : i = m \/ (i \in 0 .. m - 1 /\ i # m)
    OBVIOUS
  <2>3. ASSUME NEW i \in 0 .. m PROVE f[i] = Down(f, i)
    <3>1. CASE i = m
      <4>1. m # 0 /\ m - 1 \in 0 .. m /\ m - 1 # m
        OBVIOUS
      <4>2. QED
        BY <3>1, <4>1
    <3>2. CASE i \in 0 .. m - 1 /\ i # m
      <4>1. f[i] = g[i]
        BY <3>2
      <4>2. g[i] = Down(g, i)
        <5> HIDE DEF Down
        <5>1. QED
          BY <2>1, <3>2
      <4>3. i # 0 => i - 1 \in 0 .. m /\ i - 1 # m
        BY <3>2
      <4>4. i # 0 => f[i - 1] = g[i - 1]
        BY <4>3
      <4> HIDE DEF f
      <4>5. QED
        BY <4>1, <4>2, <4>4
    <3>3. QED
      BY <2>2, <3>1, <3>2
  <2>4. f = [i \in 0 .. m |-> f[i]]
    OBVIOUS
  <2> HIDE DEF f, Down
  <2>5. Fits(f, m)
    BY <2>3, <2>4
  <2>6. m \in 0 .. n
    OBVIOUS
  <2>7. QED
    BY <2>5, <2>6
<1> HIDE DEF Good
<1>3. \E f : Fits(f, n)
  <2>1. \A k \in 0 .. n : k \in Good
    BY <1>1, <1>2, UpTo
  <2>2. n \in Good
    BY <2>1
  <2>3. QED
    BY <2>2 DEF Good
<1>4. \E R : Fits(R, n) /\ Beyond(p, n) = Location(R[n])
  BY <1>3 DEF Beyond
<1>5. PICK R : Fits(R, n) /\ Beyond(p, n) = Location(R[n])
  BY <1>4
<1>6. R[0] = p /\ \A k \in 1 .. n : R[k] = Followed(R[k - 1])
  <2>1. ASSUME NEW i \in 0 .. n PROVE R[i] = Down(R, i)
    <3> HIDE DEF Down
    <3>1. QED
      BY <1>5
  <2>2. QED
    BY <2>1
<1>7. R = [i \in 0 .. n |-> R[i]]
  <2> HIDE DEF Down
  <2>1. QED
    BY <1>5
<1>8. \A i \in 0 .. n : R[i] \in PathsIn
  <2> DEFINE Typed == {i \in 0 .. n : R[i] \in PathsIn}
  <2>1. 0 \in Typed
    BY <1>6
  <2>2. ASSUME NEW k \in 1 .. n, k - 1 \in Typed PROVE k \in Typed
    BY <1>6, <2>2, FollowedType
  <2> HIDE DEF Typed
  <2>3. \A k \in 0 .. n : k \in Typed
    BY <2>1, <2>2, UpTo
  <2>4. QED
    BY <2>3 DEF Typed
<1>9. BeyondSteps(R, p, n)
  BY <1>6, <1>7, <1>8 DEF BeyondSteps
<1>10. QED
  BY <1>5, <1>9
LEMMA BeyondAlong ==
  ASSUME LinksType, NEW p \in PathsIn, NEW n \in Nat
  PROVE  \E R : /\ BeyondSteps(R, p, n)
                /\ \A k \in 0 .. n : Beyond(p, k) = Location(R[k])
<1>1. PICK R : BeyondSteps(R, p, n)
  BY BeyondOf
<1>2. ASSUME NEW k \in 0 .. n PROVE Beyond(p, k) = Location(R[k])
  <2>1. k \in Nat /\ k <= n
    OBVIOUS
  <2>2. PICK Q : BeyondSteps(Q, p, k) /\ Beyond(p, k) = Location(Q[k])
    BY <2>1, BeyondOf
  <2> DEFINE Same == {i \in 0 .. k : Q[i] = R[i]}
  <2>3. 0 \in Same
    BY <1>1, <2>1, <2>2 DEF BeyondSteps
  <2>4. ASSUME NEW i \in 1 .. k, i - 1 \in Same PROVE i \in Same
    <3>1. i \in 1 .. n /\ i \in 0 .. k
      BY <2>1
    <3>2. QED
      BY <1>1, <2>2, <2>4, <3>1 DEF BeyondSteps
  <2> HIDE DEF Same
  <2>5. \A i \in 0 .. k : i \in Same
    BY <2>1, <2>3, <2>4, UpTo
  <2>6. k \in Same
    BY <2>1, <2>5
  <2>7. QED
    BY <2>2, <2>6 DEF Same
<1>3. QED
  BY <1>1, <1>2

(* Where no link is, there is nothing to follow.                           *)
LEMMA BeyondStays ==
  ASSUME LinksType, NEW p \in PathsIn, NEW n \in Nat, NEW k \in 0 .. n, Beyond(p, k) \notin DOMAIN links
  PROVE  Beyond(p, n) = Beyond(p, k)
<1>1. PICK R : BeyondSteps(R, p, n) /\ \A i \in 0 .. n : Beyond(p, i) = Location(R[i])
  BY BeyondAlong
<1> DEFINE m == n - k
           Same == {d \in 0 .. m : R[k + d] = R[k]}
<1>2. m \in Nat /\ k \in Nat /\ k + m = n /\ n \in 0 .. n
  OBVIOUS
<1>3. 0 \in Same
  BY <1>2
<1>4. ASSUME NEW d \in 1 .. m, d - 1 \in Same PROVE d \in Same
  <2>1. k + d \in 1 .. n /\ (k + d) - 1 = k + (d - 1) /\ d \in 0 .. m
    BY <1>2
  <2>2. R[k + d] = Followed(R[k + (d - 1)])
    BY <1>1, <2>1 DEF BeyondSteps
  <2>3. R[k + d] = Followed(R[k])
    BY <1>4, <2>2
  <2>4. Location(R[k]) \notin DOMAIN links
    BY <1>1
  <2>5. QED
    BY <2>1, <2>3, <2>4 DEF Followed
<1> HIDE DEF m
<1>5. R[k + m] = R[k]
  <2> HIDE DEF Same
  <2>1. \A d \in 0 .. m : d \in Same
    BY <1>2, <1>3, <1>4, UpTo
  <2>2. m \in Same
    BY <1>2, <2>1
  <2>3. QED
    BY <2>2 DEF Same
<1>6. QED
  BY <1>1, <1>2, <1>5

LEMMA BeyondMore ==
  ASSUME LinksType, NEW p \in PathsIn, NEW n \in Nat
  PROVE  /\ Beyond(p, 0) = Location(p)
         /\ \E q \in PathsIn : Beyond(p, n) = Location(q) /\ Beyond(p, n + 1) = Location(Followed(q))
<1>1. PICK R : BeyondSteps(R, p, n + 1) /\ \A i \in 0 .. n + 1 : Beyond(p, i) = Location(R[i])
  <2>1. n + 1 \in Nat
    OBVIOUS
  <2>2. QED
    BY <2>1, BeyondAlong
<1>2. n + 1 \in 1 .. n + 1 /\ n \in 0 .. n + 1 /\ 0 \in 0 .. n + 1 /\ n + 1 \in 0 .. n + 1 /\ (n + 1) - 1 = n
  OBVIOUS
<1>3. R[n] \in PathsIn /\ R[n + 1] = Followed(R[n]) /\ R[0] = p
  BY <1>1, <1>2 DEF BeyondSteps
<1>4. QED
  BY <1>1, <1>2, <1>3

(***************************************************************************)
(* The loop of unixFullPathname.                                           *)
(***************************************************************************)
Most == SQLITE_MAX_SYMLINKS - 1

PathTypes ==
  /\ LinksType
  /\ zPath \in PathNames /\ zIn \in PathsIn /\ nLink \in Nat

(* While unixFullPathname is at work, its path leads to where the kernel   *)
(* is after as many links, if the kernel gets to the end; and once it has  *)
(* followed a link, that path is the full pathname made last.              *)
AtWork ==
  zResult = "none" =>
    /\ nLink < SQLITE_MAX_SYMLINKS
    /\ IF nLink = 0 THEN zIn = zPath
       ELSE zOut = zIn /\ zOut.absolute /\ Location(zPath) \in DOMAIN links
    /\ Beyond(zPath, Most) # Nowhere => Location(zIn) = Beyond(zPath, nLink)

PathInv == PathTypes /\ AtWork /\ PathResolved

LEMMA MostType == Most \in Nat /\ Most # 0 /\ SQLITE_MAX_SYMLINKS = Most + 1 /\ SQLITE_MAX_SYMLINKS \in Nat
BY UnixPathAssumption DEF Most

(* A kernel that gets to the end of the links does not get lost before,    *)
(* and is at the end when it is at no link.                                *)
LEMMA BeyondKnown ==
  ASSUME PathTypes, nLink < SQLITE_MAX_SYMLINKS, Beyond(zPath, Most) # Nowhere
  PROVE  /\ Beyond(zPath, nLink) # Nowhere
         /\ Beyond(zPath, nLink) \notin DOMAIN links => Beyond(zPath, Most) = Beyond(zPath, nLink)
<1>1. LinksType /\ zPath \in PathsIn /\ Most \in Nat /\ nLink \in 0 .. Most
  BY NamesType, MostType DEF PathTypes
<1>2. Beyond(zPath, nLink) \notin DOMAIN links => Beyond(zPath, Most) = Beyond(zPath, nLink)
  BY <1>1, BeyondStays
<1>3. Nowhere \notin DOMAIN links
  BY <1>1, UnixPathAssumption DEF LinksType
<1>4. QED
  BY <1>2, <1>3

LEMMA PathInitInv == PathInit => PathInv
<1> SUFFICES ASSUME PathInit PROVE PathInv
  OBVIOUS
<1>1. PathTypes
  <2>1. PICK L \in SUBSET Locations : links \in [L -> Targets]
    BY DEF PathInit
  <2>2. LinksType
    BY <2>1 DEF LinksType
  <2>3. QED
    BY <2>2, NamesType DEF PathInit, PathTypes
<1>2. AtWork
  <2>1. Beyond(zPath, 0) = Location(zPath)
    BY <1>1, NamesType, BeyondMore DEF PathTypes
  <2>2. QED
    BY <2>1, MostType DEF PathInit, AtWork
<1>3. PathResolved
  BY MostType DEF PathInit, PathResolved
<1>4. QED
  BY <1>1, <1>2, <1>3 DEF PathInv

(* The links do not change during an expansion.                            *)
LEMMA LinksStay ==
  ASSUME links' = links
  PROVE  /\ \A p, n : Beyond(p, n)' = Beyond(p, n)
         /\ \A p : Location(p)' = Location(p)
<1>1. \A p : Followed(p)' = Followed(p)
  BY DEF Followed, Location
<1>2. \A p : Location(p)' = Location(p)
  BY DEF Location
<1>3. \A p, n : Beyond(p, n)' = Beyond(p, n)
  BY <1>1 DEF Beyond, Location
<1>4. QED
  BY <1>2, <1>3

LEMMA NotALinkInv ==
  ASSUME PathInv, NotALink PROVE PathInv'
<1>1. /\ PathTypes /\ zResult = "none" /\ nLink < SQLITE_MAX_SYMLINKS
      /\ IF nLink = 0 THEN zIn = zPath ELSE zOut = zIn /\ zOut.absolute /\ Location(zPath) \in DOMAIN links
      /\ Beyond(zPath, Most) # Nowhere => Location(zIn) = Beyond(zPath, nLink)
      /\ Location(zIn) \notin DOMAIN links
      /\ UNCHANGED <<links, zPath, zIn, nLink, refused>>
  BY DEF PathInv, AtWork, NotALink, IsLink
<1>2. zOut' = (IF nLink = 0 THEN mkFullPathname(zIn) ELSE zOut) /\ zResult' = IF nLink = 0 THEN "OK" ELSE "OK_SYMLINK"
  BY DEF NotALink
<1>3. PathTypes'
  BY <1>1 DEF PathTypes, LinksType
<1>4. AtWork'
  BY <1>2 DEF AtWork
<1>5. /\ Beyond(zPath, Most)' = Beyond(zPath, Most)
      /\ Location(zPath)' = Location(zPath) /\ Location(zOut)' = Location(zOut')
  BY <1>1, LinksStay
<1>6. ASSUME Beyond(zPath, Most) # Nowhere
      PROVE  /\ Beyond(zPath, Most) = Location(zIn) /\ Location(zIn) # Nowhere
             /\ zOut'.absolute /\ Location(zOut') = Location(zIn)
             /\ zResult' = "OK" <=> Location(zPath) \notin DOMAIN links
  <2>1. Location(zIn) = Beyond(zPath, nLink) /\ Location(zIn) # Nowhere /\ Beyond(zPath, Most) = Location(zIn)
    BY <1>1, <1>6, BeyondKnown
  <2>2. CASE nLink = 0
    <3>1. zIn \in PathsIn /\ zIn = zPath /\ zOut' = mkFullPathname(zIn) /\ zResult' = "OK"
      BY <1>1, <1>2, <2>2 DEF PathTypes
    <3>2. zOut'.absolute /\ Location(zOut') = Location(zIn)
      BY <2>1, <3>1, MkKeeps
    <3>3. QED
      BY <1>1, <2>1, <3>1, <3>2
  <2>3. CASE nLink # 0
    BY <1>1, <1>2, <2>1, <2>3
  <2>4. QED
    BY <2>2, <2>3
<1>7. PathResolved'
  <2>1. nLink' <= SQLITE_MAX_SYMLINKS /\ zResult' \in {"OK", "OK_SYMLINK"}
    BY <1>1, <1>2, MostType DEF PathTypes
  <2>2. QED
    BY <1>1, <1>5, <1>6, <2>1 DEF PathResolved, Most
<1>8. QED
  BY <1>3, <1>4, <1>7 DEF PathInv

LEMMA FollowLinkInv ==
  ASSUME PathInv, FollowLink PROVE PathInv'
<1>1. /\ PathTypes /\ zResult = "none" /\ nLink < SQLITE_MAX_SYMLINKS
      /\ IF nLink = 0 THEN zIn = zPath ELSE zOut = zIn /\ zOut.absolute /\ Location(zPath) \in DOMAIN links
      /\ Beyond(zPath, Most) # Nowhere => Location(zIn) = Beyond(zPath, nLink)
      /\ Location(zIn) \in DOMAIN links
      /\ UNCHANGED <<links, zPath, refused>> /\ nLink' = nLink + 1
  BY DEF PathInv, AtWork, FollowLink, IsLink
<1>2. LinksType /\ zPath \in PathsIn /\ zIn \in PathsIn /\ nLink \in Nat /\ nLink' \in Nat
  BY <1>1, NamesType DEF PathTypes
<1>3. /\ Beyond(zPath, Most)' = Beyond(zPath, Most) /\ Beyond(zPath, nLink)' = Beyond(zPath, nLink')
      /\ Location(zPath)' = Location(zPath) /\ Location(zIn)' = Location(zIn')
  BY <1>1, LinksStay
<1>4. CASE TooMany(nLink + 1)
  <2>1. zResult' = "CANTOPEN" /\ UNCHANGED <<zIn, zOut>>
    BY <1>1, <1>4 DEF FollowLink
  <2>2. nLink = Most /\ nLink' <= SQLITE_MAX_SYMLINKS
    BY <1>1, <1>2, <1>4, MostType DEF TooMany
  <2>3. PathTypes'
    BY <1>1, <1>2, <2>1 DEF PathTypes, LinksType
  <2>4. PathResolved'
    BY <1>1, <1>3, <2>1, <2>2 DEF PathResolved, Most
  <2>5. AtWork'
    BY <2>1 DEF AtWork
  <2>6. QED
    BY <2>3, <2>4, <2>5 DEF PathInv
<1>5. CASE ~TooMany(nLink + 1)
  <2>1. zOut' = mkFullPathname(Readlink(zIn)) /\ zIn' = zOut' /\ zResult' = "none"
    BY <1>1, <1>5 DEF FollowLink
  <2>2. nLink' < SQLITE_MAX_SYMLINKS /\ nLink' # 0
    BY <1>1, <1>2, <1>5, MostType DEF TooMany
  <2>3. Readlink(zIn) \in PathsIn
    BY <1>1, <1>2, ReadlinkKeeps
  <2>4. /\ zIn' \in PathsIn /\ zOut'.absolute
        /\ Location(Readlink(zIn)) # Nowhere => Location(zIn') = Location(Readlink(zIn))
    BY <2>1, <2>3, MkKeeps
  <2>5. PathTypes'
    BY <1>1, <1>2, <2>4 DEF PathTypes, LinksType
  <2>6. Location(zPath) \in DOMAIN links
    BY <1>1
  <2>7. ASSUME Beyond(zPath, Most) # Nowhere PROVE Location(zIn') = Beyond(zPath, nLink')
    <3>1. PICK q \in PathsIn : Beyond(zPath, nLink) = Location(q) /\ Beyond(zPath, nLink + 1) = Location(Followed(q))
      BY <1>2, BeyondMore
    <3>2. Location(Readlink(zIn)) = Beyond(zPath, nLink')
      <4>1. Location(zIn) = Location(q)
        BY <1>1, <2>7, <3>1
      <4>2. Location(Readlink(zIn)) = Location(Followed(q))
        BY <1>1, <1>2, <4>1, ReadlinkKeeps
      <4>3. QED
        BY <1>1, <3>1, <4>2
    <3>3. Beyond(zPath, nLink') # Nowhere
      <4>1. nLink' \in 0 .. Most /\ Most \in Nat
        BY <1>2, <2>2, MostType
      <4>2. Nowhere \notin DOMAIN links
        BY <1>2, UnixPathAssumption DEF LinksType
      <4>3. QED
        BY <1>2, <2>7, <4>1, <4>2, BeyondStays
    <3>4. QED
      BY <2>4, <3>2, <3>3
  <2>8. AtWork'
    BY <1>1, <1>3, <2>1, <2>2, <2>4, <2>6, <2>7 DEF AtWork, Most
  <2>9. PathResolved'
    BY <1>2, <2>1, <2>2, MostType DEF PathResolved
  <2>10. QED
    BY <2>5, <2>8, <2>9 DEF PathInv
<1>6. QED
  BY <1>4, <1>5

LEMMA RestInv ==
  ASSUME PathInv, SystemRefuses \/ ExpandAgain PROVE PathInv'
<1>1. PathTypes /\ links' = links /\ zPath' = zPath
  BY DEF PathInv, SystemRefuses, ExpandAgain
<1>2. CASE SystemRefuses
  <2>1. /\ zResult' \in {"CANTOPEN", "NOMEM"} /\ refused' = 1 /\ zResult = "none"
        /\ UNCHANGED <<zIn, zOut, nLink>>
    BY <1>2 DEF SystemRefuses
  <2>2. PathTypes'
    BY <1>1, <2>1 DEF PathTypes, LinksType
  <2>3. AtWork'
    BY <2>1 DEF AtWork
  <2>4. PathResolved'
    BY <2>1 DEF PathInv, PathResolved
  <2>5. QED
    BY <2>2, <2>3, <2>4 DEF PathInv
<1>3. CASE ExpandAgain
  <2>1. zIn' = zPath /\ nLink' = 0 /\ zResult' = "none"
    BY <1>3 DEF ExpandAgain
  <2>2. PathTypes'
    BY <1>1, <2>1, NamesType DEF PathTypes, LinksType
  <2>3. Beyond(zPath, nLink)' = Location(zPath) /\ Location(zIn)' = Location(zPath)
    <3>1. Beyond(zPath, 0) = Location(zPath)
      BY <1>1, NamesType, BeyondMore DEF PathTypes
    <3>2. Beyond(zPath, nLink)' = Beyond(zPath, nLink') /\ Location(zIn)' = Location(zIn')
      BY <1>1, LinksStay
    <3>3. QED
      BY <2>1, <3>1, <3>2
  <2>4. AtWork'
    BY <1>1, <2>1, <2>3, MostType DEF AtWork
  <2>5. PathResolved'
    BY <2>1, MostType DEF PathResolved
  <2>6. QED
    BY <2>2, <2>4, <2>5 DEF PathInv
<1>4. QED
  BY <1>2, <1>3

LEMMA PathStutters ==
  ASSUME PathInv, UNCHANGED pathVars PROVE PathInv'
<1>1. /\ links' = links /\ zPath' = zPath /\ zIn' = zIn /\ zOut' = zOut /\ nLink' = nLink
      /\ zResult' = zResult /\ refused' = refused
  BY DEF pathVars
<1>2. /\ Location(zPath)' = Location(zPath') /\ Location(zIn)' = Location(zIn')
      /\ Location(zOut)' = Location(zOut')
  BY <1>1, LinksStay
<1>3. Beyond(zPath, Most)' = Beyond(zPath, Most) /\ Beyond(zPath, nLink)' = Beyond(zPath, nLink)
  BY <1>1, LinksStay
<1>4. PathTypes'
  BY <1>1 DEF PathInv, PathTypes, LinksType
<1>5. AtWork'
  BY <1>1, <1>2, <1>3 DEF PathInv, AtWork, Most
<1>6. PathResolved'
  BY <1>1, <1>2, <1>3 DEF PathInv, PathResolved, Most
<1>7. QED
  BY <1>4, <1>5, <1>6 DEF PathInv

(* A given name that leads somewhere through fewer than                    *)
(* SQLITE_MAX_SYMLINKS links gets a full pathname that leads there without *)
(* a link, and one that takes more links gets an error and no full         *)
(* pathname, in any tree of directories, with any links that do not stand  *)
(* for directories, as long as no system call fails (unixFullPathname,     *)
(* mkFullPathname).                                                        *)
THEOREM PathsResolved == PathSpec => []PathResolved
<1>1. PathInv /\ [PathNext]_pathVars => PathInv'
  BY NotALinkInv, FollowLinkInv, RestInv, PathStutters DEF PathNext
<1>2. PathInv => PathResolved
  BY DEF PathInv
<1>3. QED
  BY PathInitInv, <1>1, <1>2, PTL DEF PathSpec
=============================================================================
