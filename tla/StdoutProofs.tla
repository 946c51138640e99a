---------------------------- MODULE StdoutProofs ----------------------------
(* Proof that the output buffer is an output stream when one task prints at *)
(* a time, whatever the sizes of the buffer and of the texts.              *)
EXTENDS Stdout, SequenceTheorems, TLAPS

\* The part of TypeOK that the steps need.
Types ==
  /\ buf \in [1 .. Size -> Nat]
  /\ pos \in 0 .. Size
  /\ out \in Seq(Nat)
  /\ written \in Nat
  /\ at \in [Tasks -> {"idle", "check", "flush", "reset", "flushed", "copy", "advance"}]
  /\ op \in [Tasks -> {"write", "flush"}]
  /\ first \in [Tasks -> Nat]
  /\ len \in [Tasks -> Nat]
  /\ room \in [Tasks -> Nat]

Inv == Types /\ BufferInv

\* Nobody prints while another does: the program sees to it, or the Rust VM,
\* which has no tasks.
Alone == Synced = TRUE \/ runtime = "rust"
AlwaysAlone == Synced = TRUE \/ Runtimes = {"rust"}

\* Bytes put after the stream so far carry it on.
LEMMA CarryOn ==
  ASSUME NEW o \in Seq(Nat), NEW s \in Seq(Nat),
         \A i \in 1 .. Len(o) : o[i] = i,
         \A i \in 1 .. Len(s) : s[i] = Len(o) + i
  PROVE  /\ o \o s \in Seq(Nat)
         /\ Len(o \o s) = Len(o) + Len(s)
         /\ \A i \in 1 .. Len(o \o s) : (o \o s)[i] = i
<1>1. o \o s \in Seq(Nat) /\ Len(o \o s) = Len(o) + Len(s)
  BY ConcatProperties
<1>2. \A i \in 1 .. Len(o) + Len(s) :
        (o \o s)[i] = IF i <= Len(o) THEN o[i] ELSE s[i - Len(o)]
  BY ConcatProperties
<1>3. ASSUME NEW i \in 1 .. Len(o \o s) PROVE (o \o s)[i] = i
  <2>1. Len(o) \in Nat /\ Len(s) \in Nat /\ i \in 1 .. Len(o) + Len(s)
    BY <1>1
  <2>2. CASE i <= Len(o)
    BY <1>2, <2>1, <2>2
  <2>3. CASE ~(i <= Len(o))
    <3>1. i - Len(o) \in 1 .. Len(s)
      BY <2>1, <2>3
    <3>2. s[i - Len(o)] = Len(o) + (i - Len(o))
      BY <3>1
    <3> QED BY <1>2, <2>1, <2>3, <3>2
  <2> QED BY <2>2, <2>3
<1> QED BY <1>1, <1>3

\* The part of the buffer that is in use.
LEMMA InUse ==
  ASSUME Size \in Nat, NEW b \in [1 .. Size -> Nat], NEW p \in 0 .. Size
  PROVE  /\ SubSeq(b, 1, p) \in Seq(Nat)
         /\ Len(SubSeq(b, 1, p)) = p
         /\ \A i \in 1 .. p : SubSeq(b, 1, p)[i] = b[i]
<1>1. b \in Seq(Nat) /\ Len(b) = Size
  <2>1. b \in Seq(Nat)
    BY SeqDef
  <2>2. DOMAIN b = 1 .. Size
    OBVIOUS
  <2> QED BY <2>1, <2>2, LenProperties
<1>2. 1 \in Int /\ p \in Int
  OBVIOUS
<1>3. \A i \in 1 .. p : b[i] \in Nat
  OBVIOUS
<1>4. SubSeq(b, 1, p) = [i \in 1 .. p |-> b[i]]
  BY <1>1 DEF SubSeq
<1>5. [i \in 1 .. p |-> b[i]] \in [1 .. p -> Nat]
  BY <1>3
<1>6. SubSeq(b, 1, p) \in Seq(Nat)
  BY <1>4, <1>5, SeqDef
<1>7. Len(SubSeq(b, 1, p)) = p
  BY <1>4, <1>6, LenProperties
<1> QED BY <1>4, <1>6, <1>7

-----------------------------------------------------------------------------
\* BufferInv, seen from the one task that may be printing.
Waiting(t) == IF at[t] = "reset" THEN 0 ELSE pos

Focus(t) ==
  /\ \A u \in Tasks : u # t => at[u] = "idle"
  /\ runtime = "rust" => at[t] = "idle" \/ t = Main
  /\ \A i \in 1 .. Len(out) : out[i] = i
  /\ \A i \in 1 .. Waiting(t) : buf[i] = Len(out) + i
  /\ at[t] = "idle" \/ op[t] = "flush" => written = Len(out) + Waiting(t)
  /\ at[t] # "idle" /\ op[t] = "write" =>
       first[t] = Len(out) + Waiting(t) + 1 /\ written = Len(out) + Waiting(t) + len[t]
  /\ at[t] = "check" => op[t] = "write" /\ room[t] = Size - pos
  /\ at[t] = "flushed" => pos = 0
  /\ at[t] \in {"copy", "advance"} => op[t] = "write" /\ pos + len[t] <= Size
  /\ at[t] = "advance" => \A i \in 1 .. len[t] : buf[pos + i] = first[t] + i - 1

\* A task that is printing is the only one.
LEMMA FocusOn ==
  ASSUME Types, BufferInv, NEW t \in Tasks,
         ~Idle(t) \/ \A u \in Tasks : Idle(u)
  PROVE  Focus(t)
<1>1. \A u \in Tasks : u # t => at[u] = "idle"
  BY DEF BufferInv, OnePrints, Idle
<1>2. Held = Waiting(t)
  BY <1>1 DEF Held, Waiting
<1>3. runtime = "rust" => at[t] = "idle" \/ t = Main
  BY DEF BufferInv, OnePrints, Idle
<1>4. /\ \A i \in 1 .. Len(out) : out[i] = i
      /\ \A i \in 1 .. Waiting(t) : buf[i] = Len(out) + i
  BY <1>2 DEF BufferInv, InOrder
<1>5. /\ at[t] = "idle" \/ op[t] = "flush" => written = Len(out) + Waiting(t)
      /\ at[t] # "idle" /\ op[t] = "write" =>
           first[t] = Len(out) + Waiting(t) + 1 /\ written = Len(out) + Waiting(t) + len[t]
  BY <1>1, <1>2 DEF BufferInv, InOrder, Idle
<1>6. /\ at[t] = "check" => op[t] = "write" /\ room[t] = Size - pos
      /\ at[t] = "flushed" => pos = 0
      /\ at[t] \in {"copy", "advance"} => op[t] = "write" /\ pos + len[t] <= Size
      /\ at[t] = "advance" => \A i \in 1 .. len[t] : buf[pos + i] = first[t] + i - 1
  BY DEF BufferInv, Places
<1> QED BY <1>1, <1>3, <1>4, <1>5, <1>6 DEF Focus

\* And back, in the next state.
LEMMA FocusOff ==
  ASSUME Types', NEW t \in Tasks, Focus(t)'
  PROVE  BufferInv'
<1>1. \A u \in Tasks : u # t => at'[u] = "idle"
  BY DEF Focus
<1>2. Held' = Waiting(t)'
  BY <1>1 DEF Held, Waiting
<1>3. OnePrints'
  BY <1>1 DEF OnePrints, Idle, Focus
<1>4. /\ \A i \in 1 .. Len(out') : out'[i] = i
      /\ \A i \in 1 .. Held' : buf'[i] = Len(out') + i
  BY <1>2 DEF Focus
<1>5. (\A u \in Tasks : Idle(u)') => written' = Len(out') + Held'
  BY <1>2 DEF Focus, Idle
<1>6. \A u \in Tasks : ~Idle(u)' /\ op'[u] = "flush" => written' = Len(out') + Held'
  BY <1>1, <1>2 DEF Focus, Idle
<1>7. \A u \in Tasks : ~Idle(u)' /\ op'[u] = "write" =>
        first'[u] = Len(out') + Held' + 1 /\ written' = Len(out') + Held' + len'[u]
  BY <1>1, <1>2 DEF Focus, Idle
<1>8. InOrder'
  BY <1>4, <1>5, <1>6, <1>7 DEF InOrder, Idle
<1>9. Places'
  BY <1>1 DEF Places, Focus
<1> QED BY <1>3, <1>8, <1>9 DEF BufferInv

\* Nothing is written at the start.
LEMMA InitInv == Init => Inv
<1> SUFFICES ASSUME Init PROVE Inv
  OBVIOUS
<1>1. Types
  BY StdoutAssumption DEF Init, Types
<1>2. BufferInv
  BY DEF Init, BufferInv, OnePrints, InOrder, Places, Held, Idle
<1> QED BY <1>1, <1>2 DEF Inv

-----------------------------------------------------------------------------
\* A task that starts to write or to flush is alone.
LEMMA BeginKeeps ==
  ASSUME Inv, Alone, NEW t \in Tasks, NEW n \in 0 .. MaxLen,
         BeginWrite(t, n) \/ BeginFlush(t)
  PROVE  Inv'
<1>1. \A u \in Tasks : Idle(u)
  <2>1. CASE Synced = TRUE
    BY <2>1 DEF BeginWrite, BeginFlush, MayPrint, Idle
  <2>2. CASE runtime = "rust"
    <3>1. t = Main /\ at[t] = "idle"
      BY <2>2 DEF BeginWrite, BeginFlush, MayPrint, Goto
    <3> QED BY <2>2, <3>1 DEF Inv, BufferInv, OnePrints, Idle
  <2> QED BY <2>1, <2>2 DEF Alone
<1>2. Focus(t)
  BY <1>1, FocusOn DEF Inv
<1>3. at[t] = "idle" /\ pos \in Nat /\ n \in Nat /\ Len(out) \in Nat
  BY <1>1, StdoutAssumption, LenProperties DEF Inv, Types, Idle
<1>4. CASE BeginWrite(t, n)
  <2>1. Types'
    BY <1>4, <1>3, StdoutAssumption DEF Inv, Types, BeginWrite, Goto
  <2>2. /\ at' = [at EXCEPT ![t] = "check"]
        /\ op'[t] = "write" /\ first'[t] = written + 1 /\ len'[t] = n /\ room'[t] = Size - pos
        /\ written' = written + n
        /\ UNCHANGED <<runtime, buf, pos, out>>
        /\ runtime = "rust" => t = Main
    BY <1>4 DEF BeginWrite, Goto, MayPrint, Inv, Types
  <2>3. at'[t] = "check" /\ \A u \in Tasks : u # t => at'[u] = "idle"
    BY <2>2, <1>1 DEF Inv, Types, Idle
  <2>4. written = Len(out) + pos /\ Waiting(t)' = pos /\ Waiting(t) = pos
    BY <1>2, <1>3, <2>2, <2>3 DEF Focus, Waiting
  <2>5. Focus(t)'
    BY <1>2, <1>3, <2>2, <2>3, <2>4 DEF Focus
  <2> QED BY <2>1, <2>5, FocusOff DEF Inv
<1>5. CASE BeginFlush(t)
  <2>1. Types'
    BY <1>5 DEF Inv, Types, BeginFlush, Goto
  <2>2. /\ at' = [at EXCEPT ![t] = "flush"]
        /\ op'[t] = "flush"
        /\ UNCHANGED <<runtime, buf, pos, out, written>>
        /\ runtime = "rust" => t = Main
    BY <1>5 DEF BeginFlush, Goto, MayPrint, Inv, Types
  <2>3. at'[t] = "flush" /\ \A u \in Tasks : u # t => at'[u] = "idle"
    BY <2>2, <1>1 DEF Inv, Types, Idle
  <2>4. written = Len(out) + pos /\ Waiting(t)' = pos /\ Waiting(t) = pos
    BY <1>2, <1>3, <2>2, <2>3 DEF Focus, Waiting
  <2>5. Focus(t)'
    BY <1>2, <1>3, <2>2, <2>3, <2>4 DEF Focus
  <2> QED BY <2>1, <2>5, FocusOff DEF Inv
<1> QED BY <1>4, <1>5

\* What all the steps of a task that is printing have in common.
LEMMA Moving ==
  ASSUME Inv, NEW t \in Tasks, NEW from, NEW to,
         Goto(t, from, to), from # "idle",
         to \in {"idle", "check", "flush", "reset", "flushed", "copy", "advance"},
         UNCHANGED <<runtime, written, locals>>
  PROVE  /\ Focus(t) /\ at[t] = from
         /\ at' = [at EXCEPT ![t] = to] /\ at'[t] = to
         /\ \A u \in Tasks : u # t => at'[u] = "idle"
         /\ runtime = "rust" => t = Main
         /\ op'[t] = op[t] /\ first'[t] = first[t] /\ len'[t] = len[t] /\ room'[t] = room[t]
         /\ op[t] \in {"write", "flush"} /\ first[t] \in Nat /\ len[t] \in Nat
         /\ room[t] \in Nat /\ written \in Nat
         /\ pos \in 0 .. Size /\ Size \in Nat /\ Len(out) \in Nat
         /\ buf \in [1 .. Size -> Nat] /\ out \in Seq(Nat)
         /\ buf' \in [1 .. Size -> Nat] /\ pos' \in 0 .. Size /\ out' \in Seq(Nat) => Types'
<1>1. at[t] = from /\ at' = [at EXCEPT ![t] = to]
  BY DEF Goto
<1>2. Focus(t)
  BY <1>1, FocusOn DEF Inv, Idle
<1>3. at'[t] = to /\ \A u \in Tasks : u # t => at'[u] = "idle"
  BY <1>1, <1>2 DEF Inv, Types, Focus
<1>4. runtime = "rust" => t = Main
  BY <1>1, <1>2 DEF Focus
<1>5. op'[t] = op[t] /\ first'[t] = first[t] /\ len'[t] = len[t] /\ room'[t] = room[t]
  BY DEF locals
<1>6. /\ op[t] \in {"write", "flush"} /\ first[t] \in Nat /\ len[t] \in Nat
      /\ room[t] \in Nat /\ written \in Nat
      /\ pos \in 0 .. Size /\ Size \in Nat /\ Len(out) \in Nat
      /\ buf \in [1 .. Size -> Nat] /\ out \in Seq(Nat)
  BY StdoutAssumption, LenProperties DEF Inv, Types
<1>7. buf' \in [1 .. Size -> Nat] /\ pos' \in 0 .. Size /\ out' \in Seq(Nat) => Types'
  BY <1>1 DEF Inv, Types, locals
<1> QED BY <1>1, <1>2, <1>3, <1>4, <1>5, <1>6, <1>7

\* A flush carries the stream on by what the buffer held.
LEMMA FlushKeeps ==
  ASSUME Inv, NEW t \in Tasks, Flush(t)
  PROVE  Inv' /\ Len(out) <= Len(out')
<1>1. CASE pos = 0 /\ out' = out /\ Goto(t, "flush", "flushed")
  <2>1. UNCHANGED <<runtime, written, locals>> /\ buf' = buf /\ pos' = pos
    BY DEF Flush
  <2>2a. /\ Focus(t) /\ at[t] = "flush" /\ at'[t] = "flushed" /\ Waiting(t)' = 0 /\ Waiting(t) = 0
         /\ op'[t] = op[t] /\ first'[t] = first[t] /\ len'[t] = len[t] /\ room'[t] = room[t]
         /\ \A u \in Tasks : u # t => at'[u] = "idle"
         /\ runtime = "rust" => t = Main
    BY <1>1, <2>1, Moving DEF Waiting
  <2>2. Focus(t)'
    BY <1>1, <2>1, <2>2a DEF Focus
  <2>3. Types'
    BY <1>1, <2>1, Moving
  <2> QED BY <1>1, <2>1, <2>2, <2>3, FocusOff, Moving DEF Inv
<1>2. CASE pos > 0 /\ out' = out \o SubSeq(buf, 1, pos) /\ Goto(t, "flush", "reset")
  <2>1. UNCHANGED <<runtime, written, locals>> /\ buf' = buf /\ pos' = pos
    BY DEF Flush
  <2>2. /\ Focus(t) /\ at[t] = "flush" /\ pos \in 0 .. Size /\ Size \in Nat
        /\ buf \in [1 .. Size -> Nat] /\ out \in Seq(Nat) /\ Len(out) \in Nat
    BY <1>2, <2>1, Moving
  <2> DEFINE s == SubSeq(buf, 1, pos)
  <2>3. s \in Seq(Nat) /\ Len(s) = pos /\ \A i \in 1 .. pos : s[i] = buf[i]
    BY <2>2, InUse
  <2>4. \A i \in 1 .. Len(s) : s[i] = Len(out) + i
    BY <2>2, <2>3 DEF Focus, Waiting
  <2> HIDE DEF s
  <2>5. /\ out' \in Seq(Nat) /\ Len(out') = Len(out) + pos
        /\ \A i \in 1 .. Len(out') : out'[i] = i
    BY <1>2, <2>2, <2>3, <2>4, CarryOn DEF Focus, s
  <2>6. Types'
    BY <1>2, <2>1, <2>2, <2>5, Moving
  <2>7. at'[t] = "reset" /\ Waiting(t)' = 0 /\ Waiting(t) = pos
    BY <1>2, <2>1, <2>2, Moving DEF Waiting
  <2>8. Focus(t)'
    <3>1. \A u \in Tasks : u # t => at'[u] = "idle"
      BY <1>2, <2>1, Moving
    <3>2. runtime' = "rust" => t = Main
      BY <1>2, <2>1, Moving
    <3>3. op[t] = "flush" => written' = Len(out') + Waiting(t)'
      BY <2>1, <2>2, <2>5, <2>7 DEF Focus
    <3>4. op[t] = "write" =>
            first[t] = Len(out') + Waiting(t)' + 1 /\ written' = Len(out') + Waiting(t)' + len[t]
      BY <2>1, <2>2, <2>5, <2>7 DEF Focus
    <3>5. op'[t] = op[t] /\ first'[t] = first[t] /\ len'[t] = len[t]
      BY <1>2, <2>1, Moving
    <3> QED BY <2>5, <2>7, <3>1, <3>2, <3>3, <3>4, <3>5 DEF Focus
  <2> QED BY <2>2, <2>5, <2>6, <2>8, FocusOff DEF Inv
<1> QED BY <1>1, <1>2 DEF Flush

\* Looking at the size and emptying the buffer move no text.
LEMMA CheckKeeps ==
  ASSUME Inv, NEW t \in Tasks, Check(t) \/ Reset(t)
  PROVE  Inv' /\ out' = out
<1>1. UNCHANGED <<runtime, written, locals>> /\ buf' = buf /\ out' = out
  BY DEF Check, Reset
<1>2. CASE Check(t)
  <2>0. pos' = pos
    BY <1>2 DEF Check
  <2>1. CASE len[t] > room[t] /\ Goto(t, "check", "flush")
    <3>1a. /\ Focus(t) /\ at[t] = "check" /\ at'[t] = "flush" /\ Waiting(t)' = pos /\ Waiting(t) = pos
           /\ op'[t] = op[t] /\ first'[t] = first[t] /\ len'[t] = len[t] /\ room'[t] = room[t]
           /\ \A u \in Tasks : u # t => at'[u] = "idle"
           /\ runtime = "rust" => t = Main
      BY <1>1, <2>0, <2>1, Moving DEF Waiting
    <3>1. Focus(t)'
      BY <1>1, <2>0, <3>1a DEF Focus
    <3> QED BY <1>1, <2>0, <2>1, <3>1, Moving, FocusOff DEF Inv
  <2>2. CASE len[t] <= room[t] /\ Goto(t, "check", "copy")
    <3>1a. /\ Focus(t) /\ at[t] = "check" /\ at'[t] = "copy" /\ Waiting(t)' = pos /\ Waiting(t) = pos
           /\ op'[t] = op[t] /\ first'[t] = first[t] /\ len'[t] = len[t] /\ room'[t] = room[t]
           /\ \A u \in Tasks : u # t => at'[u] = "idle"
           /\ runtime = "rust" => t = Main
      BY <1>1, <2>0, <2>2, Moving DEF Waiting
    <3>1b. op[t] = "write" /\ room[t] = Size - pos
      BY <3>1a DEF Focus
    <3>1c. pos + len[t] <= Size
      <4>1. pos \in Nat /\ Size \in Nat /\ len[t] \in Nat
        BY <1>1, <2>0, <2>2, Moving
      <4> QED BY <2>2, <3>1b, <4>1
    <3>1. Focus(t)'
      BY <1>1, <2>0, <3>1a, <3>1b, <3>1c DEF Focus
    <3> QED BY <1>1, <2>0, <2>2, <3>1, Moving, FocusOff DEF Inv
  <2> QED BY <1>1, <1>2, <2>1, <2>2 DEF Check
<1>3. CASE Reset(t)
  <2>1. pos' = 0 /\ Goto(t, "reset", "flushed")
    BY <1>3 DEF Reset
  <2>2. /\ Focus(t) /\ at[t] = "reset" /\ at'[t] = "flushed"
        /\ op'[t] = op[t] /\ first'[t] = first[t] /\ len'[t] = len[t]
        /\ \A u \in Tasks : u # t => at'[u] = "idle"
        /\ runtime = "rust" => t = Main
        /\ 0 \in 0 .. Size
    BY <1>1, <2>1, Moving
  <2>3. Waiting(t) = 0 /\ Waiting(t)' = 0
    BY <2>1, <2>2 DEF Waiting
  <2>4. /\ op[t] = "flush" => written = Len(out) + 0
        /\ op[t] = "write" => first[t] = Len(out) + 0 + 1 /\ written = Len(out) + 0 + len[t]
    BY <2>2, <2>3 DEF Focus
  <2>5. Focus(t)'
    BY <1>1, <2>1, <2>2, <2>3, <2>4 DEF Focus
  <2> QED BY <1>1, <2>1, <2>2, <2>5, Moving, FocusOff DEF Inv
<1> QED BY <1>2, <1>3

\* A text longer than the buffer goes out by itself, after the flush.
LEMMA FlushedKeeps ==
  ASSUME Inv, NEW t \in Tasks, Flushed(t)
  PROVE  Inv' /\ Len(out) <= Len(out')
<1>1. UNCHANGED <<runtime, written, locals>> /\ buf' = buf /\ pos' = pos
  BY DEF Flushed
<1>2. CASE op[t] = "flush" /\ out' = out /\ Goto(t, "flushed", "idle")
  <2>1a. /\ Focus(t) /\ at[t] = "flushed" /\ at'[t] = "idle" /\ Waiting(t)' = pos /\ Waiting(t) = pos
         /\ op'[t] = op[t] /\ first'[t] = first[t] /\ len'[t] = len[t] /\ room'[t] = room[t]
         /\ \A u \in Tasks : u # t => at'[u] = "idle"
         /\ runtime = "rust" => t = Main
    BY <1>1, <1>2, Moving DEF Waiting
  <2>1. Focus(t)'
    BY <1>1, <1>2, <2>1a DEF Focus
  <2> QED BY <1>1, <1>2, <2>1, Moving, FocusOff DEF Inv
<1>3. CASE op[t] = "write" /\ len[t] <= Size /\ out' = out /\ Goto(t, "flushed", "copy")
  <2>1a. /\ Focus(t) /\ at[t] = "flushed" /\ at'[t] = "copy" /\ Waiting(t)' = pos /\ Waiting(t) = pos
         /\ op'[t] = op[t] /\ first'[t] = first[t] /\ len'[t] = len[t] /\ room'[t] = room[t]
         /\ \A u \in Tasks : u # t => at'[u] = "idle"
         /\ runtime = "rust" => t = Main
    BY <1>1, <1>3, Moving DEF Waiting
  <2>1b. pos = 0 /\ pos + len[t] <= Size
    <3>1. len[t] \in Nat
      BY <1>1, <1>3, Moving
    <3>2. pos = 0
      BY <2>1a DEF Focus
    <3> QED BY <1>3, <3>1, <3>2
  <2>1. Focus(t)'
    BY <1>1, <1>3, <2>1a, <2>1b DEF Focus
  <2> QED BY <1>1, <1>3, <2>1, Moving, FocusOff DEF Inv
<1>4. CASE op[t] = "write" /\ len[t] > Size /\ out' = out \o TextOf(t) /\ Goto(t, "flushed", "idle")
  <2>1. /\ Focus(t) /\ at[t] = "flushed" /\ len[t] \in Nat /\ first[t] \in Nat
        /\ out \in Seq(Nat) /\ Len(out) \in Nat /\ pos \in 0 .. Size
    BY <1>1, <1>4, Moving
  <2>2. pos = 0 /\ first[t] = Len(out) + 1 /\ written = Len(out) + len[t]
    BY <1>4, <2>1 DEF Focus, Waiting
  <2> DEFINE s == TextOf(t)
  <2>3. s \in [1 .. len[t] -> Nat]
    BY <2>1, <2>2 DEF TextOf
  <2>4. s \in Seq(Nat) /\ Len(s) = len[t]
    BY <2>1, <2>3, SeqDef, LenProperties, SMTT(30)
  <2>5. \A i \in 1 .. Len(s) : s[i] = Len(out) + i
    BY <2>1, <2>2, <2>4 DEF TextOf
  <2> HIDE DEF s
  <2>6. /\ out' \in Seq(Nat) /\ Len(out') = Len(out) + len[t]
        /\ \A i \in 1 .. Len(out') : out'[i] = i
    BY <1>4, <2>1, <2>4, <2>5, CarryOn DEF Focus, s
  <2>7. Types'
    BY <1>1, <1>4, <2>6, Moving
  <2>8. at'[t] = "idle" /\ Waiting(t)' = 0
    BY <1>1, <1>4, <2>2, Moving DEF Waiting
  <2>9. Focus(t)'
    <3>1. \A u \in Tasks : u # t => at'[u] = "idle"
      BY <1>1, <1>4, Moving
    <3>2. written' = Len(out') + Waiting(t)'
      BY <1>1, <2>1, <2>2, <2>6, <2>8
    <3> QED BY <2>6, <2>8, <3>1, <3>2 DEF Focus
  <2> QED BY <2>1, <2>6, <2>7, <2>9, FocusOff DEF Inv
<1> QED BY <1>2, <1>3, <1>4 DEF Flushed

\* The copy lands behind what the buffer holds, and then counts.
LEMMA CopyKeeps ==
  ASSUME Inv, NEW t \in Tasks, Copy(t) \/ Advance(t)
  PROVE  Inv' /\ out' = out
<1>1. UNCHANGED <<runtime, written, locals>> /\ out' = out
  BY DEF Copy, Advance
<1>2. CASE Copy(t)
  <2>1. Goto(t, "copy", "advance") /\ pos' = pos
    BY <1>2 DEF Copy
  <2>2. /\ Focus(t) /\ at[t] = "copy" /\ len[t] \in Nat /\ first[t] \in Nat /\ Size \in Nat
        /\ pos \in 0 .. Size /\ buf \in [1 .. Size -> Nat] /\ Len(out) \in Nat
    BY <1>1, <2>1, Moving
  <2>3. /\ op[t] = "write" /\ pos + len[t] <= Size
        /\ first[t] = Len(out) + pos + 1
    BY <2>2 DEF Focus, Waiting
  <2>4. buf' = [i \in 1 .. Size |->
                  IF i > pos /\ i <= pos + len[t] THEN first[t] + (i - pos) - 1 ELSE buf[i]]
    BY <1>2 DEF Copy
  <2>5. buf' \in [1 .. Size -> Nat]
    BY <2>2, <2>3, <2>4
  <2>6. \A i \in 1 .. pos : buf'[i] = buf[i]
    BY <2>2, <2>4
  <2>7. \A i \in 1 .. len[t] : buf'[pos + i] = first[t] + i - 1
    BY <2>2, <2>3, <2>4
  <2>8. Types'
    BY <1>1, <2>1, <2>2, <2>5, Moving
  <2>9a. /\ Focus(t) /\ at[t] = "copy" /\ at'[t] = "advance" /\ Waiting(t)' = pos /\ Waiting(t) = pos
         /\ op'[t] = op[t] /\ first'[t] = first[t] /\ len'[t] = len[t] /\ room'[t] = room[t]
         /\ \A u \in Tasks : u # t => at'[u] = "idle"
         /\ runtime = "rust" => t = Main
    BY <1>1, <2>1, Moving DEF Waiting
  <2>9. Focus(t)'
    BY <1>1, <2>1, <2>3, <2>6, <2>7, <2>9a DEF Focus
  <2> QED BY <1>1, <2>8, <2>9, FocusOff DEF Inv
<1>3. CASE Advance(t)
  <2>1. Goto(t, "advance", "idle") /\ pos' = pos + len[t] /\ buf' = buf
    BY <1>3 DEF Advance
  <2>2. /\ Focus(t) /\ at[t] = "advance" /\ len[t] \in Nat /\ first[t] \in Nat /\ Size \in Nat
        /\ pos \in 0 .. Size /\ Len(out) \in Nat
    BY <1>1, <2>1, Moving
  <2>3. /\ op[t] = "write" /\ pos + len[t] <= Size
        /\ first[t] = Len(out) + pos + 1 /\ written = Len(out) + pos + len[t]
        /\ \A i \in 1 .. pos : buf[i] = Len(out) + i
        /\ \A i \in 1 .. len[t] : buf[pos + i] = first[t] + i - 1
    BY <2>2 DEF Focus, Waiting
  <2>4. \A i \in 1 .. pos + len[t] : buf[i] = Len(out) + i
    <3> SUFFICES ASSUME NEW i \in 1 .. pos + len[t], i > pos PROVE buf[i] = Len(out) + i
      BY <2>2, <2>3, SMTT(30)
    <3>1. i - pos \in 1 .. len[t] /\ pos + (i - pos) = i
      BY <2>2
    <3>2. buf[pos + (i - pos)] = first[t] + (i - pos) - 1
      BY <2>3, <3>1
    <3> QED BY <2>2, <2>3, <3>1, <3>2
  <2>5. pos' \in 0 .. Size
    BY <2>1, <2>2, <2>3
  <2>6. Types'
    BY <1>1, <2>1, <2>5, Moving
  <2>7. at'[t] = "idle" /\ Waiting(t)' = pos + len[t]
    BY <1>1, <2>1, Moving DEF Waiting
  <2>8. Focus(t)'
    <3>1. \A u \in Tasks : u # t => at'[u] = "idle"
      BY <1>1, <2>1, Moving
    <3>2. written' = Len(out') + Waiting(t)'
      BY <1>1, <2>2, <2>3, <2>7
    <3>3. \A i \in 1 .. Len(out') : out'[i] = i
      BY <1>1, <2>2 DEF Focus
    <3> QED BY <1>1, <2>1, <2>4, <2>7, <3>1, <3>2, <3>3 DEF Focus
  <2> QED BY <1>1, <2>6, <2>8, FocusOff DEF Inv
<1> QED BY <1>2, <1>3

\* At the end nobody is printing under the Rust VM.
LEMMA EndKeeps ==
  ASSUME Inv, Return \/ Fail
  PROVE  Inv' /\ Len(out) <= Len(out')
<1>1. UNCHANGED <<runtime, buf, written, at, locals>> /\ at[Main] = "idle" /\ Main \in Tasks
  BY StdoutAssumption DEF Return, Fail
<1>2. CASE UNCHANGED <<out, pos>>
  <2>1. Len(out) \in Nat
    BY LenProperties DEF Inv, Types
  <2>2. Types'
    BY <1>1, <1>2 DEF Inv, Types, locals
  <2>3. BufferInv'
    BY <1>1, <1>2 DEF Inv, BufferInv, OnePrints, InOrder, Places, Held, Idle, locals
  <2> QED BY <1>2, <2>1, <2>2, <2>3 DEF Inv
<1>3. CASE runtime = "rust" /\ out' = out \o SubSeq(buf, 1, pos) /\ pos' = 0
  <2>1. \A u \in Tasks : Idle(u)
    BY <1>1, <1>3 DEF Inv, BufferInv, OnePrints, Idle
  <2>2. Focus(Main)
    BY <1>1, <2>1, FocusOn DEF Inv
  <2>3. /\ pos \in 0 .. Size /\ Size \in Nat /\ out \in Seq(Nat) /\ Len(out) \in Nat
        /\ buf \in [1 .. Size -> Nat]
    BY StdoutAssumption, LenProperties DEF Inv, Types
  <2> DEFINE s == SubSeq(buf, 1, pos)
  <2>4. s \in Seq(Nat) /\ Len(s) = pos /\ \A i \in 1 .. pos : s[i] = buf[i]
    BY <2>3, InUse
  <2>5. Waiting(Main) = pos /\ Waiting(Main)' = 0
    BY <1>1, <1>3 DEF Waiting
  <2>6. \A i \in 1 .. Len(s) : s[i] = Len(out) + i
    BY <2>2, <2>4, <2>5 DEF Focus
  <2> HIDE DEF s
  <2>7. /\ out' \in Seq(Nat) /\ Len(out') = Len(out) + pos
        /\ \A i \in 1 .. Len(out') : out'[i] = i
    <3>1. \A i \in 1 .. Len(out) : out[i] = i
      BY <2>2 DEF Focus
    <3>2. out' = out \o s
      BY <1>3 DEF s
    <3>3. /\ out \o s \in Seq(Nat) /\ Len(out \o s) = Len(out) + Len(s)
          /\ \A i \in 1 .. Len(out \o s) : (out \o s)[i] = i
      BY <2>3, <2>4, <2>6, <3>1, CarryOn
    <3> QED BY <2>4, <3>2, <3>3
  <2>8. Types'
    BY <1>1, <1>3, <2>3, <2>7 DEF Inv, Types, locals
  <2>9. written' = Len(out') + Waiting(Main)'
    BY <1>1, <2>2, <2>3, <2>5, <2>7 DEF Focus
  <2>10. Focus(Main)'
    BY <1>1, <2>1, <2>5, <2>7, <2>9 DEF Focus, Idle
  <2> QED BY <1>1, <2>3, <2>7, <2>8, <2>10, FocusOff DEF Inv
<1> QED BY <1>2, <1>3 DEF Return, Fail

\* The virtual machine stays the same.
LEMMA AloneKept ==
  [Next]_vars => runtime' = runtime /\ Alone' = Alone
BY DEF Next, Step, BeginWrite, BeginFlush, Check, Flush, Reset, Flushed, Copy, Advance,
       Return, Fail, vars, Alone

\* Every step keeps the invariant, and takes nothing back.
LEMMA StepInv == Inv /\ Alone /\ [Next]_vars => Inv' /\ Len(out) <= Len(out')
<1> SUFFICES ASSUME Inv, Alone, [Next]_vars PROVE Inv' /\ Len(out) <= Len(out')
  OBVIOUS
<1>0. Len(out) \in Nat
  BY LenProperties DEF Inv, Types
<1>1. ASSUME NEW t \in Tasks, NEW n \in 0 .. MaxLen, BeginWrite(t, n) \/ BeginFlush(t)
      PROVE  Inv' /\ Len(out) <= Len(out')
  <2>1. out' = out
    BY <1>1 DEF BeginWrite, BeginFlush
  <2>2. Inv'
    BY <1>1, BeginKeeps
  <2> QED BY <1>0, <2>1, <2>2
<1>2. ASSUME NEW t \in Tasks, BeginFlush(t)
      PROVE  Inv' /\ Len(out) <= Len(out')
  <2>1. 0 \in 0 .. MaxLen
    BY StdoutAssumption
  <2> QED BY <1>1, <1>2, <2>1
<1>3. ASSUME NEW t \in Tasks, Check(t) \/ Reset(t) \/ Copy(t) \/ Advance(t)
      PROVE  Inv' /\ Len(out) <= Len(out')
  BY <1>0, <1>3, CheckKeeps, CopyKeeps
<1>4. ASSUME NEW t \in Tasks, Flush(t) \/ Flushed(t)
      PROVE  Inv' /\ Len(out) <= Len(out')
  BY <1>4, FlushKeeps, FlushedKeeps
<1>5. CASE Return \/ Fail
  BY <1>5, EndKeeps
<1>6. CASE UNCHANGED vars
  <2>1. Types'
    BY <1>6 DEF Inv, Types, vars, locals
  <2>2. BufferInv'
    BY <1>6 DEF Inv, BufferInv, OnePrints, InOrder, Places, Held, Idle, vars, locals
  <2> QED BY <1>0, <1>6, <2>1, <2>2 DEF Inv, vars
<1> QED BY <1>1, <1>2, <1>3, <1>4, <1>5, <1>6 DEF Next, Step

\* So it is there all the time.
LEMMA AlwaysInv == ASSUME AlwaysAlone PROVE Spec => [](Inv /\ Alone)
<1>1. Init => Inv /\ Alone
  BY InitInv DEF Init, Alone, AlwaysAlone
<1>2. Inv /\ Alone /\ [Next]_vars => (Inv /\ Alone)'
  BY StepInv, AloneKept
<1> QED BY <1>1, <1>2, PTL DEF Spec

\* The buffer holds what is written and not out yet.
THEOREM BufferInvariance == ASSUME AlwaysAlone PROVE Spec => []BufferInv
<1>1. Inv => BufferInv
  BY DEF Inv
<1> QED BY <1>1, AlwaysInv, PTL

\* Nothing is copied past the end of the buffer.
THEOREM CopiesFit == ASSUME AlwaysAlone PROVE Spec => []CopyFits
<1>1. BufferInv => CopyFits
  BY DEF BufferInv, Places, CopyFits
<1> QED BY <1>1, BufferInvariance, PTL

\* A flush leaves nothing behind.
THEOREM FlushesDeliver == ASSUME AlwaysAlone PROVE Spec => []FlushDelivers
<1>1. Inv => FlushDelivers
  <2> SUFFICES ASSUME Inv, NEW t \in Tasks, at[t] = "flushed", op[t] = "flush"
               PROVE  Len(out) = written
    BY DEF FlushDelivers
  <2>1. Focus(t)
    BY FocusOn DEF Inv, Idle
  <2>2. Waiting(t) = 0 /\ Len(out) \in Nat
    BY <2>1, LenProperties DEF Waiting, Focus, Inv, Types
  <2> QED BY <2>1, <2>2 DEF Focus
<1> QED BY <1>1, AlwaysInv, PTL

-----------------------------------------------------------------------------
\* A step that ends a program well under the Rust VM empties the buffer, and
\* no step follows it.
LEMMA RustStep ==
  ASSUME runtime = "rust", Inv, RustDelivers, [Next]_vars
  PROVE  Inv' /\ RustDelivers' /\ runtime' = "rust"
<1>1. Inv'
  BY StepInv DEF Alone
<1>2. runtime' = runtime
  BY AloneKept
<1>3. CASE Return
  <2>1. at[Main] = "idle" /\ at' = at /\ written' = written /\ pos' = 0
    BY <1>3 DEF Return
  <2>2. \A t \in Tasks : Idle(t)'
    BY <2>1 DEF Inv, BufferInv, OnePrints, Idle
  <2>3. Held' = 0
    BY <2>1, <2>2 DEF Held, Idle
  <2>4. written' = Len(out') + 0
    BY <1>1, <2>2, <2>3 DEF Inv, BufferInv, InOrder
  <2>5. Len(out') \in Nat
    BY <1>1, LenProperties DEF Inv, Types
  <2> QED BY <1>1, <1>2, <2>4, <2>5 DEF RustDelivers
<1>4. CASE ended' # "ok"
  BY <1>1, <1>2, <1>4 DEF RustDelivers
<1>5. CASE UNCHANGED vars
  BY <1>1, <1>5 DEF RustDelivers, vars
<1>6. ASSUME NEW t \in Tasks, Step(t) PROVE ended' = "no"
  BY <1>6 DEF Step, BeginWrite, BeginFlush, MayPrint, Check, Flush, Reset, Flushed, Copy, Advance
<1>7. Fail => ended' = "error"
  BY DEF Fail
<1> QED BY <1>3, <1>4, <1>5, <1>6, <1>7 DEF Next

\* Under the Rust VM, which has no tasks, all that needs no synchronisation:
\* what a program that ends well has printed is out when it ends.
THEOREM RustShowsAll == Spec => []RustDelivers
<1> DEFINE RustInv == runtime = "rust" => Inv /\ RustDelivers
<1>1. Init => RustInv
  BY InitInv DEF Init, RustDelivers
<1>2. [Next]_vars => runtime' = runtime
  BY AloneKept
<1>3. RustInv /\ [Next]_vars => RustInv'
  BY <1>2, RustStep
<1>4. RustInv => RustDelivers
  BY DEF RustDelivers
<1> HIDE DEF RustInv
<1> QED BY <1>1, <1>3, <1>4, PTL DEF Spec

\* The buffer implements the output stream: a step that begins a write is a
\* write, every other step delivers some text or none.
THEOREM BufferIsAStream == ASSUME AlwaysAlone PROVE Spec => StreamSpec
<1>1. Init => Stream!Init
  BY DEF Init, Stream!Init
<1>2. Inv /\ Inv' /\ Len(out) <= Len(out') /\ [Next]_vars =>
        [Stream!Write \/ Stream!Deliver]_<<written, out>>
  <2> SUFFICES ASSUME Inv, Inv', Len(out) <= Len(out'), [Next]_vars
               PROVE  Stream!Write \/ Stream!Deliver \/ UNCHANGED <<written, out>>
    OBVIOUS
  <2>1. ASSUME NEW t \in Tasks, NEW n \in 0 .. MaxLen, BeginWrite(t, n)
        PROVE  Stream!Write
    BY <2>1 DEF BeginWrite, Stream!Write
  <2>2. CASE written' = written
    <3>1. /\ Len(out) \in Nat /\ Len(out') \in Nat /\ out' \in Seq(Nat) /\ pos' \in Nat
          /\ written \in Nat
      BY LenProperties, StdoutAssumption DEF Inv, Types
    <3>2. \A i \in 1 .. Len(out') : out'[i] = i
      BY DEF Inv, BufferInv, InOrder
    <3>3. DOMAIN out' = 1 .. Len(out') /\ out' = [i \in DOMAIN out' |-> out'[i]]
      BY <3>1, LenProperties
    <3>4. out' = Stream!Text(Len(out'))
      BY <3>2, <3>3 DEF Stream!Text
    <3>5. Len(out') <= written'
      <4>1. CASE \A t \in Tasks : Idle(t)'
        <5>1. written' = Len(out') + Held' /\ Held' \in Nat
          BY <4>1, <3>1 DEF Inv, BufferInv, InOrder, Held
        <5> QED BY <3>1, <5>1
      <4>2. CASE \E t \in Tasks : ~Idle(t)'
        <5>1. PICK t \in Tasks : ~Idle(t)'
          BY <4>2
        <5>2. op'[t] \in {"write", "flush"} /\ len'[t] \in Nat /\ Held' \in Nat
          BY <3>1 DEF Inv, Types, Held
        <5>3. written' = Len(out') + Held' \/ written' = Len(out') + Held' + len'[t]
          BY <5>1, <5>2 DEF Inv, BufferInv, InOrder
        <5> QED BY <3>1, <5>2, <5>3
      <4> QED BY <4>1, <4>2
    <3>6. Len(out') \in Len(out) .. written
      BY <2>2, <3>1, <3>5
    <3> QED BY <2>2, <3>4, <3>6 DEF Stream!Deliver
  <2>3. CASE UNCHANGED vars
    BY <2>3 DEF vars
  <2> QED BY <2>1, <2>2, <2>3 DEF Next, Step, BeginFlush, Check, Flush, Reset, Flushed, Copy,
       Advance, Return, Fail
<1>3. Inv /\ Alone /\ [Next]_vars => [Stream!Write \/ Stream!Deliver]_<<written, out>>
  BY <1>2, StepInv
<1> QED BY <1>1, <1>3, AlwaysInv, PTL DEF Spec, StreamSpec, Stream!Spec
=============================================================================
