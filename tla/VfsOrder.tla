----------------------------- MODULE VfsOrder -----------------------------
(***************************************************************************)
(* The registry of VFSes as its users see it: a sequence without repeats,  *)
(* whose first element is the default.                                     *)
(***************************************************************************)
EXTENDS Sequences, Integers

CONSTANT Vfs
VARIABLE order

IsIn(v) == \E i \in DOMAIN order : order[i] = v

Init == order = <<>>

Remove(v) ==
  \E i \in DOMAIN order :
    /\ order[i] = v
    /\ order' = SubSeq(order, 1, i - 1) \o SubSeq(order, i + 1, Len(order))

AddFirst(v) == ~IsIn(v) /\ order' = <<v>> \o order

(* A VFS that is not to be the default comes second.                       *)
AddSecond(v) ==
  /\ ~IsIn(v) /\ order # <<>>
  /\ order' = <<Head(order), v>> \o Tail(order)

Next == \E v \in Vfs : Remove(v) \/ AddFirst(v) \/ AddSecond(v)

Spec == Init /\ [][Next]_order
=============================================================================
