------------------------------ MODULE MCFiles ------------------------------
(***************************************************************************)
(* Instances of Files, UnixDir, UnixPath, OpenFile and LockStyles.  They   *)
(* share no state: a behaviour is one of any of them, with the other       *)
(* variables idle.                                                         *)
(***************************************************************************)
EXTENDS Files, UnixDir, UnixPath, OpenFile, LockStyles, TLC

CONSTANTS p1, p2, h1, h2, h3, h4

VARIABLE part

MCBuilds ==
  {b \in BuildRecord :
     \/ b.system = "unix" /\ (b.mremap <=> b.fallocate) /\ (b.mmapReadWrite <=> ~b.mremap)
     \/ b.system = "windows" /\ ~b.mremap /\ ~b.fallocate /\ b.mmapReadWrite}

MCDirectories == {<<>>, <<"d">>}
MCcwd == <<"d">>
MCLocations == {<<"a">>, <<"d", "a">>, <<"d", "b">>}
MCTargets ==
  {Path(TRUE, <<"a">>), Path(TRUE, <<"d", "..", "d", "b">>),
   Path(FALSE, <<"b">>), Path(FALSE, <<"..", "a">>), Path(FALSE, <<"d", ".", "a">>),
   Path(FALSE, <<"x", "..", "a">>)}
MCPathNames ==
  {Path(abs, comps) :
     abs \in BOOLEAN,
     comps \in UNION {[1 .. n -> {"a", "d", ".."}] : n \in 1 .. 3}
                 \cup {<<".">>, <<".", "a">>, <<"d", ".", "a">>, <<"d", ".", "..">>}}
    \cup {Path(FALSE, <<"b">>), Path(FALSE, <<"x", "..", "b">>), Path(FALSE, <<"..", "..", "d", "b">>)}

MCHostOf == h1 :> p1 @@ h2 :> p1 @@ h3 :> p2

(* What a handle of another process does matters for journals and          *)
(* temporary files, what one of the same process does for databases.       *)
IdleHandle == IF kind = "db" THEN h3 ELSE h2

(* Two connections in each process, for the locking styles.                *)
TwoProcs == h1 :> p1 @@ h2 :> p1 @@ h3 :> p2 @@ h4 :> p2

(* Callers that ask for a RESERVED lock only while they hold nothing or    *)
(* are writers.                                                            *)
NotAtShared == {NO_LOCK, RESERVED_LOCK, EXCLUSIVE_LOCK}

allVars == <<part, ioVars, dirVars, pathVars, openVars, styleVars>>

Init ==
  /\ part \in {"io", "dir", "path", "open", "style"}
  /\ IF part = "io" THEN TRUE ELSE build = CHOOSE b \in MCBuilds : TRUE
  /\ IF part = "dir" THEN TRUE ELSE entry = None
  /\ IF part = "path" THEN TRUE ELSE links = <<>> /\ zPath = CHOOSE p \in MCPathNames : TRUE
  /\ IF part = "open" THEN TRUE ELSE os = "unix" /\ kind = "db"
  /\ IF part = "style" THEN TRUE ELSE style = "none"
  /\ FileInit /\ DirInit /\ PathInit /\ OpenInit /\ StyleInit

Next ==
  /\ UNCHANGED part
  /\ \/ part = "io" /\ FilesNext /\ UNCHANGED <<dirVars, pathVars, openVars, styleVars>>
     \/ part = "dir" /\ DirNext /\ UNCHANGED <<ioVars, pathVars, openVars, styleVars>>
     \/ part = "path" /\ PathNext /\ UNCHANGED <<ioVars, dirVars, openVars, styleVars>>
     \/ /\ part = "open" /\ OpenNext /\ hstep'[IdleHandle] = "closed"
        /\ UNCHANGED <<ioVars, dirVars, pathVars, styleVars>>
     \/ part = "style" /\ StyleNext /\ UNCHANGED <<ioVars, dirVars, pathVars, openVars>>

Spec == Init /\ [][Next]_allVars
=============================================================================
