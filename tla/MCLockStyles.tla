--------------------------- MODULE MCLockStyles ---------------------------
(* LockStyles alone, with callers that ask for a RESERVED lock while they  *)
(* are readers.                                                            *)
EXTENDS LockStyles, TLC

CONSTANTS p1, p2, h1, h2, h3, h4

(* Two connections in each process.                                        *)
TwoProcs == h1 :> p1 @@ h2 :> p1 @@ h3 :> p2 @@ h4 :> p2

AtShared == {SHARED_LOCK}
=============================================================================
