----------------------------- MODULE MCUnixShm -----------------------------
(***************************************************************************)
(* Instances of UnixShmNode and UnixShmLock.  They share no state: a       *)
(* behaviour is one of either of them, with the other variables idle.      *)
(***************************************************************************)
EXTENDS UnixShmNode, UnixShmLock, TLC

CONSTANTS p1, p2, c1, c2, c3

VARIABLE part

(* Two connections in p1, one in p2.                                       *)
TwoProcs == c1 :> p1 @@ c2 :> p1 @@ c3 :> p2

MCInit == part \in {"node", "slots"} /\ Init /\ SlotInit

MCNext ==
  /\ UNCHANGED part
  /\ \/ part = "node" /\ Next /\ UNCHANGED slotVars
     \/ part = "slots" /\ SlotNext /\ UNCHANGED vars

MCSpec == MCInit /\ [][MCNext]_<<part, vars, slotVars>>
=============================================================================
