----------------------------- MODULE MCVfsList -----------------------------
(* An instance of VfsList for TLC: a built-in VFS and an alternative, and  *)
(* a VFS of the application with the same name as the alternative.         *)
EXTENDS VfsList, TLC

CONSTANTS unix, excl, app, n1, n2

TheNames == unix :> n1 @@ excl :> n2 @@ app :> n2
TheBuiltIn == <<unix, excl>>
ThreadSymmetry == Permutations(Thread)
=============================================================================
