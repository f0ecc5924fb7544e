---------------------------- MODULE FcntlLocks ----------------------------
(***************************************************************************)
(* The POSIX advisory locks of one file, as the kernel keeps them and as   *)
(* os_unix.c uses them (external: the code calls fcntl and close).         *)
(* A lock table maps every process and every byte, or range of bytes that  *)
(* the code always locks as one, to the strength the process holds there.  *)
(* Locks belong to the process: a request replaces whatever the process    *)
(* held on those bytes, and closing any descriptor of the file drops all.  *)
(***************************************************************************)
EXTENDS Naturals

F_UNLCK == 0
F_RDLCK == 1
F_WRLCK == 2

LockType == {F_UNLCK, F_RDLCK, F_WRLCK}

NoLocks(Byte) == [b \in Byte |-> F_UNLCK]

(* fcntl(F_SETLK) never blocks: it fails when another process holds a      *)
(* conflicting lock on any of the bytes.                                   *)
Compatible(held, type) == type = F_UNLCK \/ held = F_UNLCK \/ (held = F_RDLCK /\ type = F_RDLCK)

Grantable(table, p, bytes, type) ==
  \A q \in DOMAIN table \ {p} : \A b \in bytes : Compatible(table[q][b], type)

SetLock(table, p, bytes, type) ==
  [table EXCEPT ![p] = [b \in DOMAIN @ |-> IF b \in bytes THEN type ELSE @[b]]]

(* close() of a descriptor of the file, and the death of the process.      *)
DropLocks(table, p) == [table EXCEPT ![p] = [b \in DOMAIN @ |-> F_UNLCK]]

(* No two processes hold conflicting locks on one byte.                    *)
TableOK(table) ==
  \A p, q \in DOMAIN table : p # q =>
    \A b \in DOMAIN table[p] : Compatible(table[p][b], table[q][b])
=============================================================================
