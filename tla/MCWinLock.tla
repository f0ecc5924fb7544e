----------------------------- MODULE MCWinLock -----------------------------
(* Instances of WinLock for TLC.                                           *)
EXTENDS WinLock, TLC

CONSTANTS p1, p2, h1, h2, h3

(* Two connections in p1, one in p2.                                       *)
TwoProcs == h1 :> p1 @@ h2 :> p1 @@ h3 :> p2

(* The connections of one process are interchangeable.                     *)
ConnSymmetry == Permutations({h1, h2})
=============================================================================
