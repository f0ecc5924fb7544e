-------------------------- MODULE MCUnixLockLive --------------------------
(***************************************************************************)
(* UnixLock with the connections that a behaviour uses chosen at its       *)
(* start: one in each of three processes, so that readers of different     *)
(* processes can take turns, or two of p1 and one of p2, so that p1 shares *)
(* its lock among them.                                                    *)
(***************************************************************************)
EXTENDS MCUnixLock

VARIABLE used

FourHandles ==
  t1 :> p1 @@ t2 :> p2 @@ t3 :> p3 @@ h1 :> p1 @@ h2 :> p1 @@ h3 :> p2 @@ h4 :> p3

(* Connections that only read: all but one of three processes, one of two  *)
(* connections that share a process.                                       *)
Readers == IF h4 \in used THEN {h1, h4} ELSE {h2}

KeepToRoles ==
  /\ \A h \in Handle \ used : status[h] = "closed"
  /\ \A t \in Thread : on[t] \in Readers => req[t] <= SHARED_LOCK

LiveSpec ==
  /\ Init /\ used \in {{h1, h3, h4}, {h1, h2, h3}}
  /\ [][Next /\ UNCHANGED used /\ KeepToRoles']_<<vars, used>>
  /\ Fairness
=============================================================================
