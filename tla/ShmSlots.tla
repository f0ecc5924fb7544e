----------------------------- MODULE ShmSlots -----------------------------
(***************************************************************************)
(* What xShmLock promises the WAL code, whatever implements it: on each    *)
(* lock slot of the shared memory any number of connections are sharers,   *)
(* or one is the owner.  A range of slots is locked as a whole or not at   *)
(* all, and a connection never goes from sharer to owner or back.          *)
(***************************************************************************)
CONSTANTS Conn, Slot
VARIABLES sharers, owners   \* connections holding each slot shared, exclusively

vars == <<sharers, owners>>

Init ==
  /\ sharers = [s \in Slot |-> {}]
  /\ owners = [s \in Slot |-> {}]

Share(c, s) ==
  /\ owners[s] = {}
  /\ sharers' = [sharers EXCEPT ![s] = @ \cup {c}]
  /\ UNCHANGED owners

Own(c, slots) ==
  /\ \A s \in slots : sharers[s] = {} /\ owners[s] = {}
  /\ owners' = [s \in Slot |-> IF s \in slots THEN {c} ELSE owners[s]]
  /\ UNCHANGED sharers

(* Connections give locks up; a crash takes those of a whole process.      *)
Lose ==
  /\ sharers' = [s \in Slot |-> sharers'[s]] /\ owners' = [s \in Slot |-> owners'[s]]
  /\ \A s \in Slot : sharers'[s] \subseteq sharers[s] /\ owners'[s] \subseteq owners[s]

Next ==
  \/ Lose
  \/ \E c \in Conn, s \in Slot : Share(c, s)
  \/ \E c \in Conn, slots \in SUBSET Slot : Own(c, slots)

Spec == Init /\ [][Next]_vars
=============================================================================
