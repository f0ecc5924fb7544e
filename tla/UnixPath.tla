------------------------------ MODULE UnixPath ------------------------------
(***************************************************************************)
(* How Unix makes a full pathname of the name of a database                *)
(* (src/os/os_unix.c: unixFullPathname, mkFullPathname, unixBackupDir).    *)
(* While the last component is a symbolic link it is replaced by what it   *)
(* stands for; the path is made absolute and "." and ".." are taken out by *)
(* looking at the text alone.  Links to directories, where that text does  *)
(* not say where ".." leads, and the lengths of the buffers are left out.  *)
(***************************************************************************)
EXTENDS Naturals, Sequences, SequencesExt

CONSTANTS
  Directories,          \* the directories, each the sequence of names from the root
  cwd,                  \* the one the process is in
  Locations,            \* where links may be
  Targets,              \* what they may stand for
  PathNames,            \* bound: the names to expand
  SQLITE_MAX_SYMLINKS

(* A path, as given by a caller, in a link or made by the code.            *)
Path(abs, comps) == [absolute |-> abs, comps |-> comps]

(* What a path leads to that the kernel refuses.                           *)
Nowhere == <<"nowhere">>

(* Each directory is in another one, where it has a name of its own, and   *)
(* no path is empty.                                                       *)
ASSUME UnixPathAssumption ==
  /\ <<>> \in Directories /\ cwd \in Directories /\ Locations \cap Directories = {}
  /\ Nowhere \notin Directories \cup Locations
  /\ \A d \in Directories :
       /\ d \in Seq(STRING) /\ \A i \in DOMAIN d : d[i] \notin {".", ".."}
       /\ \A k \in 0 .. Len(d) : SubSeq(d, 1, k) \in Directories
  /\ \A p \in Targets \cup PathNames :
       p \in [absolute : BOOLEAN, comps : Seq(STRING)] /\ p.comps # <<>>
  /\ SQLITE_MAX_SYMLINKS \in Nat \ {0, 1}

VARIABLES
  links,       \* what the links in the file system stand for
  zPath, zIn, zOut,
  nLink,
  zResult,     \* what unixFullPathname returns, or "none" while it is at work
  refused      \* 1 if a system call failed

pathVars == <<links, zPath, zIn, zOut, nLink, zResult, refused>>

PathInit ==
  /\ links \in UNION {[L -> Targets] : L \in SUBSET Locations}
  /\ zPath \in PathNames /\ zIn = zPath /\ zOut = Path(TRUE, <<>>)
  /\ nLink = 0 /\ zResult = "none" /\ refused = 0

(***************************************************************************)
(* The kernel: the location a path leads to, or Nowhere.                   *)
(***************************************************************************)
Enter(at, c) ==
  IF at \notin Directories THEN Nowhere
  ELSE IF c = "." THEN at
  ELSE IF c = ".." THEN (IF at = <<>> THEN at ELSE Front(at))
  ELSE Append(at, c)

Location(p) == FoldLeft(Enter, IF p.absolute THEN <<>> ELSE cwd, p.comps)

(***************************************************************************)
(* mkFullPathname.                                                         *)
(***************************************************************************)
unixBackupDir(out) == out # <<>> /\ Last(out) # ".."

Simplified(out, c) ==
  IF c = "." THEN out
  ELSE IF c = ".." /\ unixBackupDir(out) THEN Front(out)
  ELSE Append(out, c)

(* The last component stays what it is.                                    *)
mkFullPathname(p) ==
  LET comps == IF p.absolute THEN p.comps ELSE cwd \o p.comps
  IN Path(TRUE, Append(FoldLeft(Simplified, <<>>, Front(comps)), Last(comps)))

(***************************************************************************)
(* unixFullPathname: the iterations of its loop.                           *)
(***************************************************************************)
IsLink(p) == Location(p) \in DOMAIN links

NotALink ==
  /\ zResult = "none" /\ ~IsLink(zIn)
  /\ zOut' = IF nLink = 0 THEN mkFullPathname(zIn) ELSE zOut
  /\ zResult' = IF nLink = 0 THEN "OK" ELSE "OK_SYMLINK"
  /\ UNCHANGED <<links, zPath, zIn, nLink, refused>>

ReadlinkFromCwd(p) == links[Location(p)]             \* mutated: from the working directory

(* A target that is relative begins where the link is.                     *)
Readlink(p) ==
  LET target == links[Location(p)] IN
  IF target.absolute THEN target ELSE Path(p.absolute, Front(p.comps) \o target.comps)

TooMany(n) == n > 1 /\ n >= SQLITE_MAX_SYMLINKS      \* the first is not counted against the bound

FollowLink ==
  /\ zResult = "none" /\ IsLink(zIn)
  /\ nLink' = nLink + 1
  /\ IF TooMany(nLink') THEN zResult' = "CANTOPEN" /\ UNCHANGED <<zIn, zOut>>
     ELSE zOut' = mkFullPathname(Readlink(zIn)) /\ zIn' = zOut' /\ UNCHANGED zResult
  /\ UNCHANGED <<links, zPath, refused>>

(* lstat(), readlink(), getcwd() or the allocation of the buffer fails.    *)
SystemRefuses ==
  /\ zResult = "none"
  /\ zResult' \in {"CANTOPEN", "NOMEM"} /\ refused' = 1
  /\ UNCHANGED <<links, zPath, zIn, zOut, nLink>>

(* The name is expanded again: the calls for a name do not depend on those *)
(* for another, so each behaviour has one name.                            *)
ExpandAgain ==
  /\ zResult # "none"
  /\ zIn' = zPath /\ zOut' = Path(TRUE, <<>>)
  /\ nLink' = 0 /\ zResult' = "none" /\ refused' = 0
  /\ UNCHANGED <<links, zPath>>

PathNext == NotALink \/ FollowLink \/ SystemRefuses \/ ExpandAgain

PathSpec == PathInit /\ [][PathNext]_pathVars

-----------------------------------------------------------------------------
(* What the kernel reaches when it follows a link, and when it follows n   *)
(* of them one after another.                                              *)
Followed(p) ==
  IF Location(p) \notin DOMAIN links THEN p
  ELSE LET target == links[Location(p)] IN
       IF target.absolute THEN target ELSE Path(TRUE, Front(Location(p)) \o target.comps)

Beyond(p, n) ==
  LET Reached[i \in 0 .. n] == IF i = 0 THEN p ELSE Followed(Reached[i - 1])
  IN Location(Reached[n])

(* The full pathname leads, without any link, to where the given name      *)
(* leads through fewer than SQLITE_MAX_SYMLINKS links, a file or the place *)
(* for one; and a name that takes more, such as one in a cycle of links,   *)
(* is an error.  unixFullPathname has the kernel's answer but for the      *)
(* bound, whenever the kernel has one: a name that leads nowhere (through  *)
(* a directory that is not there) is simplified like any other.            *)
PathResolved ==
  LET followed == Beyond(zPath, SQLITE_MAX_SYMLINKS - 1) IN
  /\ nLink <= SQLITE_MAX_SYMLINKS
  /\ followed # Nowhere =>
       /\ zResult \in {"OK", "OK_SYMLINK"} =>
            /\ followed \notin DOMAIN links
            /\ zOut.absolute /\ Location(zOut) = followed
            /\ zResult = "OK" <=> Location(zPath) \notin DOMAIN links
       /\ zResult = "CANTOPEN" /\ refused = 0 => followed \in DOMAIN links
=============================================================================
