---------------------------- MODULE OutputStream ----------------------------
(***************************************************************************)
(* What a program may expect of puts and flush: the text it writes reaches *)
(* the standard output in the order it was written, every byte once, some  *)
(* of it later.  A byte stands for its place in the text.                  *)
(***************************************************************************)
EXTENDS Naturals, Sequences

CONSTANT MaxLen  \* the longest write

VARIABLES
  written,  \* number of bytes written so far
  out       \* the bytes that have reached the standard output

Text(n) == [i \in 1 .. n |-> i]

Init == written = 0 /\ out = <<>>

Write == \E n \in 0 .. MaxLen : written' = written + n /\ UNCHANGED out

Deliver == \E n \in Len(out) .. written : out' = Text(n) /\ UNCHANGED written

Spec == Init /\ [][Write \/ Deliver]_<<written, out>>
=============================================================================
