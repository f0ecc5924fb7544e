------------------------------ MODULE FileApi ------------------------------
(***************************************************************************)
(* What xRead, xWrite, xTruncate and a size hint promise about the bytes   *)
(* of a file, whatever system calls they are made of.  The file is the     *)
(* sequence of where its bytes are from: OLD, there when the call began;   *)
(* ZERO, a hole; or i, the i-th byte of the buffer being written.          *)
(***************************************************************************)
EXTENDS Integers, Sequences

CONSTANTS OLD, ZERO, MaxSize, MaxAmount

VARIABLES
  file,
  call,     \* the call under way with the size of the file before it, or None
  done,     \* how many bytes of the buffer are in the file
  answer    \* what the call returns, or None

vars == <<file, call, done, answer>>

None == <<>>
Calls == [op : {"read", "write", "hint"}, off : 0 .. MaxSize, amt : 1 .. MaxSize, size : {Len(file)}]
Answer(rc, data) == <<rc, data>>

Init == file = <<>> /\ call = None /\ done = 0 /\ answer = None

(* The bytes of the range, and zeros from the end of the file on.          *)
Contents(c) == [i \in 1 .. c.amt |-> IF c.off + i <= Len(file) THEN c.off + i ELSE ZERO]

Read(c) ==
  /\ answer' \in {None, Answer("READ", None),
                  Answer(IF c.off + c.amt <= Len(file) THEN "OK" ELSE "SHORT_READ", Contents(c))}
  /\ UNCHANGED <<file, done>>

(* The file with the first k bytes of the buffer in their place.           *)
Written(c, k) ==
  LET size == IF k > 0 /\ c.off + k > c.size THEN c.off + k ELSE c.size IN
  [i \in 1 .. size |-> IF c.off < i /\ i <= c.off + k THEN i - c.off
                       ELSE IF i <= c.size THEN OLD ELSE ZERO]

Write(c, k) ==
  \E n \in k .. c.amt :
    /\ done' = n /\ file' = Written(c, n)
    /\ answer' \in {None, Answer("WRITE", None), Answer("FULL", None)}
                     \cup (IF n = c.amt THEN {Answer("OK", None)} ELSE {})

(* A hint changes nothing below the size it asks for.                      *)
Hint(c) ==
  /\ \E n \in 0 .. MaxSize :
       /\ n >= c.size \/ n >= c.amt
       /\ file' = [i \in 1 .. n |-> IF i <= c.size THEN OLD ELSE ZERO]
  /\ answer' \in {None} \cup {Answer(rc, None) : rc \in {"OK", "FSTAT", "WRITE", "TRUNCATE"}}
  /\ UNCHANGED done

Work(c, k) ==
  \/ c.op = "read" /\ Read(c)
  \/ c.op = "write" /\ Write(c, k)
  \/ c.op = "hint" /\ Hint(c)

Begin == call = None /\ \E c \in Calls : call' = c /\ Work(c, 0)
Continue == call # None /\ answer = None /\ call' = call /\ Work(call, done)

End ==
  /\ answer # None
  /\ call' = None /\ done' = 0 /\ answer' = None
  /\ file' = [i \in 1 .. Len(file) |-> OLD]

(* xTruncate, and other connections.                                       *)
Change ==
  /\ call = None /\ UNCHANGED <<call, done, answer>>
  /\ \E n \in 0 .. MaxSize : file' = [i \in 1 .. n |-> OLD]

Next == Begin \/ Continue \/ End \/ Change

Spec == Init /\ [][Next]_vars
=============================================================================
