----------------------------- MODULE MCWinShm -----------------------------
(* An instance of WinShm for TLC.                                          *)
EXTENDS WinShm, TLC

CONSTANTS p1, p2, c1, c2, c3

(* Two connections in one process, one in the other.                       *)
TwoProcs == c1 :> p1 @@ c2 :> p1 @@ c3 :> p2

ConnSymmetry == Permutations({c1, c2})
=============================================================================
