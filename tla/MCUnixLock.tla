---------------------------- MODULE MCUnixLock ----------------------------
(* Instances of UnixLock for TLC: which process owns which thread and      *)
(* handle.                                                                 *)
EXTENDS UnixLock, TLC

CONSTANTS p1, p2, p3, t1, t2, t3, h1, h2, h3, h4, h5

(* Three processes with one thread each; p1 and p3 have two connections.   *)
ThreeProcs ==
  t1 :> p1 @@ t2 :> p2 @@ t3 :> p3
    @@ h1 :> p1 @@ h2 :> p1 @@ h3 :> p2 @@ h4 :> p3 @@ h5 :> p3

(* The connections of one process are interchangeable.                     *)
ConnSymmetry == {f @@ g : f \in Permutations({h1, h2}), g \in Permutations({h4, h5})}

(* Two processes; p1 has two threads and two connections.                  *)
TwoThreads == t1 :> p1 @@ t2 :> p2 @@ t3 :> p1 @@ h1 :> p1 @@ h2 :> p1 @@ h3 :> p2

(* Its connections are interchangeable, and its threads as well.           *)
ThreadSymmetry == {f @@ g : f \in Permutations({h1, h2}), g \in Permutations({t1, t3})}

(* Two processes with one thread each; p1 has two connections.             *)
TwoInOne == t1 :> p1 @@ t2 :> p2 @@ h1 :> p1 @@ h2 :> p1 @@ h3 :> p2
=============================================================================
