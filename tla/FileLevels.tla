---------------------------- MODULE FileLevels ----------------------------
(***************************************************************************)
(* What the locking methods of a database file promise the pager,          *)
(* whatever implements them: the lock level each handle holds, and which   *)
(* levels exclude which.  The five levels are the ones of src/os/os.h.     *)
(***************************************************************************)
EXTENDS Naturals

CONSTANT Handle
VARIABLE held

Free == 0
Shared == 1
Reserved == 2
Pending == 3
Exclusive == 4

Others(h, levels) == \E g \in Handle \ {h} : held[g] \in levels

Init == held = [h \in Handle |-> Free]

Raise(h, level) == held' = [held EXCEPT ![h] = level]

AcquireShared(h) ==
  /\ held[h] = Free
  /\ ~Others(h, {Exclusive})
  /\ Raise(h, Shared)

AcquireReserved(h) ==
  /\ held[h] = Shared
  /\ ~Others(h, {Reserved, Exclusive})
  /\ Raise(h, Reserved)

(* A hot journal is rolled back without a RESERVED lock, so PENDING may be *)
(* reached beside a RESERVED lock of another handle.                       *)
AcquirePending(h) ==
  /\ held[h] \in {Shared, Reserved}
  /\ ~Others(h, {Pending, Exclusive})
  /\ Raise(h, Pending)

AcquireExclusive(h) ==
  /\ held[h] \in {Shared, Reserved, Pending}
  /\ ~Others(h, {Shared, Reserved, Pending, Exclusive})
  /\ Raise(h, Exclusive)

Lower(h, level) == level < held[h] /\ Raise(h, level)

(* A close, or a crash that takes all the handles of a process with it.    *)
Lose ==
  /\ held' = [h \in Handle |-> held'[h]]
  /\ \A h \in Handle : held'[h] \in {held[h], Free}

Next ==
  \/ Lose
  \/ \E h \in Handle :
       \/ AcquireShared(h) \/ AcquireReserved(h) \/ AcquirePending(h) \/ AcquireExclusive(h)
       \/ \E level \in {Free, Shared, Pending} : Lower(h, level)

Spec == Init /\ [][Next]_held

(* What the levels are for (src/os/os.h:68-94): beside an EXCLUSIVE lock   *)
(* there is no other, and of RESERVED and PENDING there is one each.       *)
Exclusion ==
  \A g, h \in Handle : g # h =>
    /\ ~(held[g] = Exclusive /\ held[h] # Free)
    /\ ~(held[g] = Reserved /\ held[h] = Reserved)
    /\ ~(held[g] = Pending /\ held[h] = Pending)
=============================================================================
