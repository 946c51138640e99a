------------------------------- MODULE Stdout -------------------------------
(***************************************************************************)
(* The output buffer of both virtual machines.  writeStdout and flushStdout*)
(* of io.zig work on two globals, stdout_buf and stdout_pos, that all tasks*)
(* share and no lock protects; StdoutBuf of the Rust VM is the same buffer *)
(* with one user.  They differ at the end of the program: the Rust VM      *)
(* flushes when main has returned, the Zig VM never does.                  *)
(*                                                                         *)
(* Every access to the buffer is a step, so that tasks that print at the   *)
(* same time interleave.  A byte stands for its place in the text written. *)
(***************************************************************************)
EXTENDS Naturals, Sequences

CONSTANTS
  Tasks,     \* threads that print
  Main,      \* the one that runs main
  Runtimes,  \* virtual machines looked at: "zig", "rust"
  Size,      \* bytes of the buffer
  MaxLen,    \* bound: the longest write
  MaxBytes,  \* bound: bytes written in all
  Synced     \* whether the program syncs a task before another one prints

ASSUME StdoutAssumption ==
  /\ Main \in Tasks
  /\ Runtimes \subseteq {"zig", "rust"}
  /\ Size \in Nat \ {0} /\ MaxLen \in Nat /\ MaxBytes \in Nat
  /\ Synced \in BOOLEAN

VARIABLES
  runtime,  \* which virtual machine this is
  buf,      \* stdout_buf
  pos,      \* stdout_pos
  out,      \* the bytes that have reached the standard output
  written,  \* bytes the program has written so far
  at,       \* where in writeStdout or flushStdout each task is
  op,       \* "write" or "flush"
  first,    \* first byte of the text each task writes
  len,      \* its length
  room,     \* `remaining`, read on entry
  ended     \* "no", or how the program ended

vars == <<runtime, buf, pos, out, written, at, op, first, len, room, ended>>
locals == <<op, first, len, room>>

Init ==
  /\ runtime \in Runtimes
  /\ buf = [i \in 1 .. Size |-> 0]
  /\ pos = 0
  /\ out = <<>>
  /\ written = 0
  /\ at = [t \in Tasks |-> "idle"]
  /\ op = [t \in Tasks |-> "write"]
  /\ first = [t \in Tasks |-> 1]
  /\ len = [t \in Tasks |-> 0]
  /\ room = [t \in Tasks |-> 0]
  /\ ended = "no"

-----------------------------------------------------------------------------
Goto(t, from, to) == at[t] = from /\ at' = [at EXCEPT ![t] = to]

\* A task that may call puts or flush.  The Rust VM has no spawn.
MayPrint(t) ==
  /\ ended = "no"
  /\ runtime = "rust" => t = Main
  /\ Synced => \A u \in Tasks : at[u] = "idle"

\* writeStdout(s) reads how much room is left.
BeginWrite(t, n) ==
  /\ MayPrint(t) /\ written + n <= MaxBytes
  /\ Goto(t, "idle", "check")
  /\ op' = [op EXCEPT ![t] = "write"]
  /\ first' = [first EXCEPT ![t] = written + 1]
  /\ len' = [len EXCEPT ![t] = n]
  /\ room' = [room EXCEPT ![t] = Size - pos]
  /\ written' = written + n
  /\ UNCHANGED <<runtime, buf, pos, out, ended>>

BeginFlush(t) ==
  /\ MayPrint(t)
  /\ Goto(t, "idle", "flush")
  /\ op' = [op EXCEPT ![t] = "flush"]
  /\ UNCHANGED <<runtime, buf, pos, out, written, first, len, room, ended>>

\* Mutant: what is in the buffer already is forgotten; a text fits if it is shorter than the whole buffer.
CheckSize(t) ==
  /\ ended = "no"
  /\ \/ len[t] > Size /\ Goto(t, "check", "flush")
     \/ len[t] <= Size /\ Goto(t, "check", "copy")
  /\ UNCHANGED <<runtime, buf, pos, out, written, locals, ended>>

Check(t) ==
  /\ ended = "no"
  /\ \/ len[t] > room[t] /\ Goto(t, "check", "flush")
     \/ len[t] <= room[t] /\ Goto(t, "check", "copy")
  /\ UNCHANGED <<runtime, buf, pos, out, written, locals, ended>>

\* flushStdout hands the buffer over and then empties it.
Flush(t) ==
  /\ ended = "no"
  /\ \/ pos = 0 /\ out' = out /\ Goto(t, "flush", "flushed")
     \/ pos > 0 /\ out' = out \o SubSeq(buf, 1, pos) /\ Goto(t, "flush", "reset")
  /\ UNCHANGED <<runtime, buf, pos, written, locals, ended>>

\* Mutant: the buffer is not emptied.
ResetKeeps(t) ==
  /\ ended = "no"
  /\ Goto(t, "reset", "flushed")
  /\ UNCHANGED <<runtime, buf, pos, out, written, locals, ended>>

Reset(t) ==
  /\ ended = "no"
  /\ Goto(t, "reset", "flushed")
  /\ pos' = 0
  /\ UNCHANGED <<runtime, buf, out, written, locals, ended>>

\* The text of task t, byte by byte.
TextOf(t) == [i \in 1 .. len[t] |-> first[t] + i - 1]

\* Mutant: a text too long to keep is dropped.
FlushedDrops(t) ==
  /\ ended = "no"
  /\ \/ (op[t] = "flush" \/ len[t] > Size) /\ Goto(t, "flushed", "idle")
     \/ op[t] = "write" /\ len[t] <= Size /\ Goto(t, "flushed", "copy")
  /\ UNCHANGED <<runtime, buf, pos, out, written, locals, ended>>

\* After the flush: done, or a text too long to keep, or a copy.
Flushed(t) ==
  /\ ended = "no"
  /\ \/ op[t] = "flush" /\ out' = out /\ Goto(t, "flushed", "idle")
     \/ op[t] = "write" /\ len[t] > Size /\ out' = out \o TextOf(t) /\ Goto(t, "flushed", "idle")
     \/ op[t] = "write" /\ len[t] <= Size /\ out' = out /\ Goto(t, "flushed", "copy")
  /\ UNCHANGED <<runtime, buf, pos, written, locals, ended>>

\* What two tasks at once may do here, past the end of the buffer, has no
\* meaning: CopyFits says it does not happen.
Copy(t) ==
  /\ ended = "no"
  /\ Goto(t, "copy", "advance")
  /\ buf' = [i \in 1 .. Size |->
               IF i > pos /\ i <= pos + len[t] THEN first[t] + (i - pos) - 1 ELSE buf[i]]
  /\ UNCHANGED <<runtime, pos, out, written, locals, ended>>

Advance(t) ==
  /\ ended = "no"
  /\ Goto(t, "advance", "idle")
  /\ pos' = pos + len[t]
  /\ UNCHANGED <<runtime, buf, out, written, locals, ended>>

\* Mutant: the Rust VM leaves without a flush too.
ReturnUnflushed ==
  /\ ended = "no" /\ at[Main] = "idle"
  /\ ended' = "ok"
  /\ UNCHANGED <<runtime, buf, pos, out, written, at, locals>>

\* main returns and the process is over, whatever other tasks do.
Return ==
  /\ ended = "no" /\ at[Main] = "idle"
  /\ ended' = "ok"
  /\ IF runtime = "rust" THEN out' = out \o SubSeq(buf, 1, pos) /\ pos' = 0
                         ELSE UNCHANGED <<out, pos>>
  /\ UNCHANGED <<runtime, buf, written, at, locals>>

\* main fails: neither VM flushes.
Fail ==
  /\ ended = "no" /\ at[Main] = "idle"
  /\ ended' = "error"
  /\ UNCHANGED <<runtime, buf, pos, out, written, at, locals>>

Step(t) ==
  \/ \E n \in 0 .. MaxLen : BeginWrite(t, n)
  \/ BeginFlush(t)
  \/ Check(t) \/ Flush(t) \/ Reset(t) \/ Flushed(t) \/ Copy(t) \/ Advance(t)

Next == (\E t \in Tasks : Step(t)) \/ Return \/ Fail

Spec == Init /\ [][Next]_vars

-----------------------------------------------------------------------------
Idle(t) == at[t] = "idle"

\* Bytes of the buffer that are not out yet.
Held == IF \E t \in Tasks : at[t] = "reset" THEN 0 ELSE pos

\* One task prints at a time, and under the Rust VM it is main.
OnePrints ==
  /\ \A t, u \in Tasks : Idle(t) \/ Idle(u) \/ t = u
  /\ runtime = "rust" => \A t \in Tasks : Idle(t) \/ t = Main

\* The bytes that are out, those in the buffer and the text being written
\* follow one another and are all there is.
InOrder ==
  /\ \A i \in 1 .. Len(out) : out[i] = i
  /\ \A i \in 1 .. Held : buf[i] = Len(out) + i
  /\ (\A t \in Tasks : Idle(t)) => written = Len(out) + Held
  /\ \A t \in Tasks : ~Idle(t) /\ op[t] = "flush" => written = Len(out) + Held
  /\ \A t \in Tasks : ~Idle(t) /\ op[t] = "write" =>
       first[t] = Len(out) + Held + 1 /\ written = Len(out) + Held + len[t]

\* What a task knows at each place.
Places ==
  \A t \in Tasks :
    /\ at[t] = "check" => op[t] = "write" /\ room[t] = Size - pos
    /\ at[t] = "flushed" => pos = 0
    /\ at[t] \in {"copy", "advance"} => op[t] = "write" /\ pos + len[t] <= Size
    /\ at[t] = "advance" => \A i \in 1 .. len[t] : buf[pos + i] = first[t] + i - 1

(* The buffer holds what is written and not out yet, wherever the task that *)
(* prints is: the inductive invariant of the proofs.                       *)
BufferInv == OnePrints /\ InOrder /\ Places

(* No text is copied past the end of the buffer: what writeStdout read     *)
(* about the room still holds when it copies.                              *)
CopyFits == \A t \in Tasks : at[t] = "copy" => pos + len[t] <= Size

(* When flush returns, everything written before is out.                   *)
FlushDelivers ==
  \A t \in Tasks : at[t] = "flushed" /\ op[t] = "flush" => Len(out) = written

(* The text comes out in order, every byte once: the buffer implements an  *)
(* output stream.                                                          *)
Stream == INSTANCE OutputStream
StreamSpec == Stream!Spec

(* A program that ends well under the Rust VM has shown all it printed.    *)
RustDelivers == runtime = "rust" /\ ended = "ok" => Len(out) = written
=============================================================================
