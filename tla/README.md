# BearVM in TLA+

TLA+ models of BearVM, the virtual machine of this repository, with the TLC
configurations that check them and TLAPS proofs of their main properties.
BearVM exists twice: `rust_version/` (interpreter, QBE back end) and
`zig_rewrite/` (interpreter with tasks, AArch64 JIT, QBE and LLVM back ends).
Paths below are relative to `src/`; `vm.zig`, `io.zig` and `jit.zig` are
`zig_rewrite/vm/vm.zig`, `zig_rewrite/vm/io.zig` and
`zig_rewrite/codegen/jit.zig`; `vm.rs`, `lexer.rs`, `parser.rs`, `qbe.rs` and
`main.rs` are in `rust_version/src/`.

`PROJECT.json` lists the components, the runs, the source lines of every
definition (`map`), a mutant for every checked property, the findings, the
hazards and the theorems.

## 1. Inventory

| component | state it keeps | operations | hard parts |
|---|---|---|---|
| task table and `spawnEntry` (`vm.zig:13-99`, `1500-1521`) | slots of tasks, one mutex, one thread and one arena per task | `reserve`, `setThread`, `complete`, `join`; the instructions `spawn` and `sync` | a task may be done before its thread is recorded; `join` reads `state` never; results and arguments live in arenas that end at different times |
| call machinery (`vm.zig:907-962`, `1091-1117`, `1256-1274`) | slab of registers, integer stack, call depth | call, return, error | three homes for a frame, unwinding by `defer` only, two engines that call each other one way |
| purity (`vm.zig:707-808`) | `pure_int` of every function | `finish`, `propagatePurity` | the integer engine trusts the marks blindly |
| the two engines (`vm.zig:962-1551`) | tagged registers, or words and a 64-bit mask of the bools | one branch per instruction | the mask must follow the tags through every write |
| compiler (`vm.zig:379-789`) | `max_reg`, pools, labels and patches | `compileExpr`, `compileStmt` | scratch registers next to named ones |
| output buffer (`io.zig`, `vm.rs:1043-1082`) | a buffer and a position, global in Zig | `writeStdout`, `flushStdout`; end of the program | shared by all tasks with no lock, flushed at the end by one VM only |
| loops of the Rust VM (`vm.rs:645-1042`) | frames of words, an increment | `rewrite_simd_loops`, `exec_simd_loop` | four passes at a time, extrapolated |
| heap of the Zig VM (`vm.zig:1276-1500`) | cells, structs, arrays, arenas | `alloc*`, `load`, `store`, references, `free` | a one-element array looks like a struct cell; free leaves aliases |
| control flow of the Zig VM (`vm.zig:612-705`, `1055-1090`, `1222-1253`) | current and previous label | labels, `jmp`, `br_if`, `phi`, `while` | which label a phi sees; phis of one block in sequence |
| heap of the Rust VM (`vm.rs:20-140`, `1121-1125`, `1376-1582`) | heap values that are never freed, packed references | allocation, references, fields, `load`, `store` | 16-bit element index, struct number taken from a heap index |
| files (`vm.zig:897-905`, `1553-1603`; `vm.rs:1158-1168`, `1680-1761`) | table of handles | `open`, `read`, `write`, `close` | a closed slot is handed out again |
| lexer and parser of Rust (`lexer.rs`, `parser.rs`) | the text, a position, the register names of a function | `tokenize`, `parse` | labels against field names, the end of each list, numbers for names |
| compiler and interpreter of Rust (`vm.rs:276-770`, `1260-1663`) | code, pools, argument ranges, patches; frames | `compile_function`, `exec_func` | scratch registers, unchecked reads, labels, nested lists of arguments |
| QBE emitter of Rust (`qbe.rs`) | the operand each register holds, a counter | `emit` | one table for a text with loops |
| JIT (`jit.zig`) | code buffer, register of each expression | one emitter per instruction | temporaries across calls |
| lexer, parser, emitters of Zig; printers, option parsing | the text and a position | translation | formats |

The parts work together as follows. The parser numbers the registers of a
function by first appearance; the compiler translates every function to flat
code; `Vm.init` marks the functions that the integer engine may run; `run`
creates the task table and the main VM and calls `main`. A `spawn` reserves a
slot and starts a thread with a VM of its own over the same program, allocating
from an arena of its own; a `sync` joins the thread and copies the outcome. All
VMs of the process print through the same buffer.

What makes each part correct: tasks are futures (one outcome, delivered by the
sync) and never wait in a circle; call depth and stack tops are right on every
way out; the marks are closed under calls; a program cannot tell which engine
ran it; a compiled expression means what it says and changes no register it does
not own; the output is the text written, in order, and all of it; a loop that
was replaced does what the loop did; a text is read as the program its author
wrote or refused; a program runs as its statements say, on registers with names;
fields of structs and elements of arrays are cells of their own, whatever
reference leads to them.

## 2. Modules

| module | models | notes |
|---|---|---|
| `Futures` | what `spawn`/`sync` promise | abstract specification |
| `TaskTable` | task table, `spawn`, `sync`, `spawnEntry`, arenas | implements `Futures` |
| `TaskTableInv`, `TaskTableProofs`, `MCTaskTable` | inductive invariant, proofs, TLC instance | |
| `Purity` | `propagatePurity` | proved in `CallFramesProofs` |
| `CallFrames`, `CallFramesProofs`, `MCCallFrames` | frames, depth, unwinding; composes `Purity` | |
| `Engines`, `EnginesProofs` | both engines on one pure function | |
| `OutputStream` | what `puts`/`flush` promise | abstract specification |
| `Stdout`, `StdoutProofs`, `MCStdout` | the buffer of both VMs | implements `OutputStream` |
| `Compile`, `CompileProofs`, `MCCompile` | register allocation of expressions and statements | |
| `LoopCode` | the code of a while loop in the Rust VM | operators only |
| `WhileLoop` | what a while statement promises | abstract specification |
| `Memory` | what structs, arrays and references promise | abstract specification |
| `RustStore`, `MCRustStore` | heap, packed references, file table of the Rust VM | implements `Memory` |
| `RustStoreProofs` | proofs | safety; the refinement of `Memory` |
| `RustAst`, `RustLexer`, `RustParser` | text to tokens to tree | operators, TLC only (recursive) |
| `RustTree` | the trees that both back ends take, what is below a node | the assumption on them |
| `RustCompiler` | tree to bytecode, call by call | |
| `RustVm` | one run: load, compile, then one instruction per step | composes lexer, parser and compiler |
| `RustMeaning` | what a program means, and the discipline it must keep | reference definition |
| `Qbe` | tree to QBE's language, call by call | |
| `RustCodeProofs` | proofs about both back ends | bytecode stays in bounds, QBE's is in single assignment |
| `RustMain`, `MCRustMain` | both commands of `main.rs`, the properties; the programs | composes all |
| `SimdLoop`, `SimdLoopProofs`, `MCSimdLoop` | replacement and execution of arithmetic loops | implements `WhileLoop` |

### Tasks (`TaskTable`)

A VM is `Main` or a task; `pc` is where it stands in its instruction or in
`spawnEntry`. `spawn` is three steps, as in the code: `Reserve` (arguments
copied, `reserve` under the mutex), `SpawnThread`, `SetThread` (under the mutex,
then the register). `sync` is `Sync` (copies the thread under the mutex),
`SyncWait` (waits without it) and `SyncReturns` or `SyncRaises` (reads the slot
under it). `spawnEntry` is `Start`, the program, then `FreeArgs` and `Complete`
in the order of the success path or the reverse order of the error path,
`DestroyArgs` and `Finish`. A program is arbitrary: it may spawn, sync any handle it
has, return one or fail. A handle is got by spawning, as an argument or from a
sync; programs that make handles from integers are left out. A step that uses
storage whose owner is gone is `DanglingAccess`, joining a thread twice is
`SyncAgain`; both end the run, because nothing can be said of what follows.

### Calls (`Purity`, `CallFrames`)

`Purity` takes an arbitrary call graph and set of clean functions and runs the
walks of `propagatePurity` function by function. `CallFrames` adds the stack:
`EnterInt` and `EnterValue` are the two ways into a function, `CallFails` the
errors before the callee's code runs, `Raise` any error of the code, `Leave` the
defers. The limit is the option's value in the main VM and the constant of
`spawnEntry` in a task.

### Engines (`Engines`)

One step executes one instruction on both engines. Instructions are arbitrary,
with guards for what the value engine defines: integers for arithmetic and
comparisons, no quotient outside a word. Equality of two bools is left out: the
value engine refuses it and the integer engine compares. `Liberties` names two
things the runs leave out: bool arguments of a pure function and registers read
before they are written; with either of them the engines can be told apart (see
the hazards).

### Output (`Stdout`)

Every access to the two globals of `io.zig` is a step, so that tasks interleave
inside `writeStdout`. With `Synced` one task prints at a time, as in programs
that sync before they print: the properties are about those, and say nothing of the race
between two tasks that print at once (a hazard; without `Synced` they fail). The Rust buffer has the same steps and one user;
`Return` flushes it, and does not flush under Zig. A failing `writeAll` is left
out: both VMs ignore it.

### Compiler (`Compile`)

An expression is a table of parts, operands before what they are operands of;
parts whose operands are placed in the same way share a kind (`bin` stands for
`add` to `ge`, `of` for `alloc`, `cast` and so on). `compileExpr` is recursive in the code, and
a step machine here: a frame of `stack` is a call that has not returned. `Start`
is `compileStmt` up to the first call, `Take` an operand that needs no code, `Enter` the
recursive call, `Emit` its instruction and return, `Finish` the instruction of the
statement. An instruction runs when it is emitted, since this code has no branches, and
the value the statement gets is compared with `Eval`, the meaning of the expression.
`Apply`, what an instruction computes, is a constant: the runs take a function that
tells operands and their order apart, the theorems hold for any. `argRegs` is the table
that all argument lists of a function share, as in the code: a range is noted by its
start, before the arguments are compiled. So a call, spawn or struct
literal inside an argument of another puts its own registers into the middle of the outer range.
`ValueRight` therefore asks for `Untangled` expressions; without this TLC finds
`call f(call g(0, %1), %0)`, whose outer call reads the argument of the inner one.
It also asks that the expression reads no register from its scratch register up, which is the
defect of `compile_ssa`. Pools, labels, patches, field names, `phi` and
`free` as an expression are left out.

### Loops (`SimdLoop`)

`Rewritten` is the test of `rewrite_simd_loops`; loops that fail it run as
`PlainPass`. `EnterSimd` reads the limit and fills the four frames,
`FastForward` adds `delta` to all of them while all are active, then
`ScalarPass` finishes from `f0` and `ScalarLeave` writes the registers back.
The AVX2 and the NEON routine compute the same frames and are one path,
`unit = "vector"`; processors without either are `"scalar"`. `MeantFor` names the
loops for which the replacement is right: registers that move by a constant
amount, a limit the body leaves alone, no bool results, no division by a
register, by 0 or by -1 (the smallest integer by -1 is a panic). The compiler has no such test; `Careful` adds it.

### Heap, references and files of the Rust VM (`RustStore`)

The program is arbitrary: every step executes one instruction on any registers.
Slots are a tag and a number; `Ref` packs kind, heap index, element and field into
one number as `ref_array` and `ref_struct` do, `Unpack` takes it apart, with the
ranges as constants (2^31, 2^16, 2^16 in the code). `status` tells the errors of
instructions on memory (`fault`), other errors (`quit`) and failed bounds checks
(`panic`). The refinement maps a heap to objects and cells of `Memory`; a fault of
the machine must be one of `Memory`, so an instruction that fails though it has a
meaning is found too. `Liberties` names what programs must not do for the
properties to hold, each a defect of the code: `longArrays` (an element
index is cut to 16 bits, `vm.rs:1407`), `anyArray` (the fields of an element are
looked up in the struct whose number is the array's heap index, `vm.rs:1423`),
`staleClose` (closing a handle twice closes another file). With any of them TLC finds
a violation at once, so the properties of the run say nothing of these defects: they
are hazards that no property covers. Negative sizes, which the code turns into huge ones, are left
out (`Ints` is a set of naturals).

### From text to result (`RustLexer` to `RustMain`)

`source` is a text and the program that its author means. `Tokenize`, `Parse`,
`Compile` and `Start` are the stages of `load` and `run`, `Step` is one instruction of
`exec_func`. `EmitQbe` begins the other command, `EmitOn` is one step of it and
`EndEmit` its end. Texts are sequences of pieces: words,
digits, quoted strings and single characters. The parser carries its `ok` flag as
the code's `?` does; a list of nodes made and not yet used replaces the locals of
the recursive functions.

The compiler is complete: pools, argument ranges, patches and rewritten loops. Its
state is a `Compiler` (`comp`) and the calls of `compile_expr` and `compile_stmt` that
have not returned (`calls`). `Enter` makes a call, with the register that the caller
gives it (`Place`); `Operand` is an operand of `compile_binop` that needs no code;
`Leave` emits the instruction of a call that has all its operands and returns a
register, which `Receive` gives to the caller. Then follow, for each
function, the patches (`ApplyPatch`), the final `RetVoid` (`EndPatches`) and the
loops, one instruction at a time (`SkipInstr`, `BeginSimdLoop`, `MoveInstr`). An
undefined function or label is an `Err`. `RustVm` runs this machine between
`Compile` and `EndCompile`. Layouts of structs, which `finish` adds, are in
`RustStore`.

The machine runs the
instructions on integers, bools and strings; those on memory are compiled and
checked for bounds here and run in `RustStore`. Every program runs on a processor with
vectors and on one without (`vectors`). `EnterSimdLoop` fills the frame; with
vectors it also runs the body ahead, where it may panic though no pass is due. `FastForward` adds
`delta` to the four frames while all are active and then drops three of them,
`ScalarPass` runs the passes that are left and in the end writes the registers back. The
properties of these steps alone are in `SimdLoop`; here they are steps of whole programs.

`RustMeaning` evaluates the tree with the author's names. `RunsAgree`
holds for programs that are `Disciplined`, and the list of conditions is the list of
what the compiler does wrong: registers that are no parameters are assigned
first of all, in order (scratch registers lie above `max_reg`, which does not count
parameters or later names); the right side of an assignment is flat, and no call is in
an argument (`build_arg_range` mixes the ranges); `eq` has no literals; loops
that become a `SimdLoop` are in functions of integers and keep their limit, and, on a
processor with vectors, their statements add to a register or subtract from it what the
loop does not change (`Accumulates`). The loop of `sum_to` runs right without vectors only;
`mc_rust` has such a loop with enough passes, and `RunsAgree` fails without the condition.
`CodeInBounds` needs no discipline, but leaves two operands out: those of `eq`, and
of a constant in the body of a `SimdLoop`. It speaks of every function as soon as it
is compiled, also of programs that are refused for a later function.

`Qbe` is a machine of the same kind. `open` holds the calls of `emit_expr` and
`emit_stmt` that have not returned: `CallEmit` makes a call, `ReturnEmit` emits what a
call that has all its operands emits and returns an operand (`value`), `TakeValue` gives
it to the caller. `BeginIr` and `EndIr` are the two ends of `emit_function`; an `Err` ends
in the mode `"refused"`. It gives instructions rather than text, in which parameters and
temporaries are apart: a parameter that the author calls `t0` has the name of the first
temporary in the text, and is left out. `IrRun` runs them with QBE's meaning of
`add` to `ceqw` (external to the repository); `QbeAgrees` compares programs
without branches whose numbers fit a 32-bit word, `IntMax` here.

## 3. Runs

| run | configuration | shows |
|---|---|---|
| `mc_tasks` | two tasks, fairness | type invariant, safety, the inductive invariant, the refinement of `Futures`, and that every sync returns |
| `mc_calls` | every call graph on three functions | marks closed and largest, depth and stacks exact, walks terminate |
| `mc_engines` | three registers, 3-bit words | same registers, same result |
| `mc_compile` | two names, two statements, the last one nested up to four deep | value right, lower registers kept, frame long enough |
| `mc_stdout` | two tasks, buffer of 3, texts up to 4, 7 bytes | order, no overrun, flush and exit deliver, refinement of `OutputStream` |
| `mc_simd` | 48 loops, 4-bit words | fast forward is four passes, lanes stay ahead, refinement of `WhileLoop` |
| `mc_store` | two registers, two structs, two heap values, two opens | the inductive invariant, no panic, open handles work, refinement of `Memory` |
| `mc_rust` | some 400 texts, 5-bit words | texts read back, broken ones refused, code in bounds, runs and QBE code mean what the program means |
| `task_result` | two tasks | violated: a synced result may point into a freed arena |
| `compile_ssa` | names assigned once | violated: a literal operand is loaded over a parameter |
| `simd_sum` | the loop of `sum_to` | violated: the second fast forward is wrong |
| `eq_literal` | the test `comparison_eq_ints` | violated: `eq` of two literals fails |

The bounds. Two tasks, with results that have storage and results that have none,
already give every interleaving of `spawnEntry` with its spawner and a circle of
waits; three tasks (a handle passed to a sibling) are left to the proofs, which
hold for any number. Three
functions give mutual recursion beside a third function in either order; sizes
1, 2 and 3 against a slab of 4 and an integer stack of 5 fill both before the
depth limit, and let a small frame fit after a large one went to the heap.
Three registers separate operands from result, and 3-bit words contain the
boundary values; `MaskBits` equals the registers, and the theorem says that this
is needed. Texts from empty to longer than the buffer take every path of
`writeStdout`. The expressions of `MCCompile` contain every pair of
an outer way to place operands and an operand that needs no register, one, two or a table
entry; the statement before the last one is an atom, which is what moves `max_reg` and the
names. Depth is left to the proofs. Words of four bits let a counter run
fifteen passes, which is three fast forwards, and cross the end of a word. Two heap
values are an array and a struct, or two arrays of which one reference could be
taken for the other; the ranges of packed references are as small as the
values allow, so that every boundary is next to another one; two opens use a slot
again after a close. The programs of `mc_rust` combine every kind of expression and
statement with each other, in a second function that calls itself too; the texts that
break off do so at every piece. `TreeAssumption` is
evaluated on the trees of all these texts (`MCPrograms`). Words of five bits overflow within one
operation, and `MaxSteps` exceeds what `MaxLoops` passes take.

`Compile`, `Engines`, `Stdout`, `SimdLoop`, `RustStore` and `RustMain` stop when their program is over
(`CHECK_DEADLOCK FALSE`); `TaskTable` and `CallFrames` have a terminal stutter and
are checked for deadlock.

Fairness: `FairSpec` of `TaskTable` is weak fairness of every VM's program and
every `spawnEntry`: the operating system schedules every thread, and programs
are taken to end; nothing is assumed about the order. `FairSpec` of `CallFrames` is
weak fairness of `propagatePurity`, a loop of one thread. No other run uses
fairness.

## 4. Findings

1. `task_result`: the value of a `sync` may point into the arena of the task, which
   `spawnEntry` frees after `complete`.
2. `compile_ssa`: the operands of `call`, `ret`, `while`, `set` and `store` are
   evaluated in registers that may have names (`set %a.f = 1` overwrites `%b`).
3. `simd_sum`: for a loop such as `acc = acc + i` the Rust VM adds the sum of the
   first four passes again and again; after eight passes it has 20 in place of 36.
4. `eq_literal`: `eq` in the Rust VM takes the number of a literal for the number of a
   register; the repository's own test of `eq 4, 4` ends with an error.

Further divergences are hazards without a run of their own. A call inside an
argument of another tangles their ranges (`Untangled` above). A pure function called
with a bool returns an integer (`Engines` with `Liberties = {"boolArgs"}` shows it).
`spawnEntry` gives every task the depth 1000, whatever `--max-call-depth` says. The
Zig VM ends without flushing, where the Rust VM flushes. The Rust loop turns
every register that is no integer into 0 (`vm.rs:1039`), and a division by zero in it
gives 0. The three liberties of `RustStore` and the conditions of `Disciplined` are
above. The QBE emitter puts a `ret 0` after every `ret`, and its loops never see an
updated register.

## 5. Proofs

All theorems are about the modules as the runs check them, with arbitrary
constants under the named assumptions of the modules (`MaxTasksAssumption`,
`SizesAssumption`, ...).

*Tasks.* `Invariance`: `IndInv` of `TaskTableInv` is inductive. Type correctness
is not enough: that a handle names a recorded thread needs to know which handles
are held (`HandleInv`), in registers, in results on the way and in the spawn
instruction. That nobody waits in a circle follows from `HandlesWellFounded`:
in every set of tasks one has no handle of the set. It holds because a
new handle is known to nobody but the spawner, and what a sync delivers was held by
a task that has ended. `OutcomesAreFinal` and `TasksAreFutures` (the refinement)
follow from `IndInv` step by step.

*Purity and calls.* `WalkInv` says what a walk that has changed nothing has left
behind; `PureIsLargest` is inductive by itself. `CallInv` adds to depth and overlap
that each frame starts where the frame before it in the same home ends
(`ChainInv`), which is what makes a pop by subtraction exact.

*Engines.* `RegistersAlwaysAgree` and `EnginesAgree` under `NumRegs <= MaskBits` and
`Liberties = {}`: word and mask bit of a register determine its value. Both hypotheses
are needed, for the bit only: `WordsAlwaysAgree` has none, so all that more registers
than bits and calls with bools can do is to confuse a bool with an integer.

*Compiler.* `LowerAlwaysKept`, `RegistersAlwaysExist` and `ValueAlwaysRight`, for
expressions of any size and depth, programs of any length and any meaning of the
instructions, without hypotheses. `StackInv` says what the calls of `compileExpr` look like: each works
on the operand its caller wants next, in the place its caller gives it, and places
never fall along the stack. That alone gives the first two. For the value, `ValueInv`
adds four parts. `KeptInv`: the registers below the scratch register are those the
statement began with. `OperandsInv`: an operand that has been computed holds its
meaning, and is in a register below the scratch register or in its own place. It
survives what is compiled after it because places increase (`PlaceIncreases`; for a
binary operator this is what `SecondScratch` is for), and whatever is written later
is at or above a later place (`OperandSafe`). `RangesInv`: the registers of a call's arguments
are together in `argRegs`, and `AboveInv`: no call inside an argument notes anything
in between, which is where `Untangled` is used. `EvalIs` gives the recursive function `Eval`
its defining equation, by induction over the prefixes of the table.

*Output.* `BufferInvariance`, `CopiesFit`, `FlushesDeliver` and `BufferIsAStream`
under `AlwaysAlone`, which is `Synced = TRUE` or the Rust VM: what is out, what is in the buffer and the text being written
follow one another and are all there is, at every place inside `writeStdout`. The
hypothesis is needed: with two tasks of the Zig VM printing at once TLC finds both losses and
copies past the end. `RustShowsAll` has no hypothesis: a Rust program that has returned
has shown everything.

*Loops.* `LanesStayAhead`, `ForwardIsFourPasses` and `SimdIsWhile` (the refinement of
`WhileLoop`) under `Careful = TRUE`, for words of any size, any number of registers and bodies
of any length. Without `Careful` they are false: that is `simd_sum`. The inductive invariant
`SimdInv` says that lanes 1 to 3 are one to three passes of the body ahead of lane 0
and that `delta` is what four passes add (`AheadInv`), and that registers the body leaves alone, the limit
among them, are as they were at the start (`CopyInv`). Why adding `delta` once more is four more
passes: a body that adds fixed amounts commutes with adding a frame
(`ShiftOp`, `ShiftOnce`, `ShiftAhead`), modulo the word size too. In the refinement a
fast forward is one `Iterate` of four passes of the while statement, and `View` shows that the
machine's integers are its tagged registers. Folds over a body are handled as functions
on its prefixes, with induction over an interval by a least counterexample (`IntervalInduction`).

*Heap, references and files.* `StoreInvariance`, and from it `NeverPanics` and
`HandlesWork`, for programs that take fields of elements only where the layout is
the array's and close no handle twice (`"anyArray"`, `"staleClose"` not in
`Liberties`; both hypotheses are needed), with heaps, arrays and file tables of any
size and the ranges of packed references as constants. What has to be inductive is
`StoreInv`, which speaks of every slot `Held`, in a register or in a field of anything
on the heap: a slot may be stored, loaded and copied for as long as the program
likes before it is used. That it fits then follows from two facts: values on the heap
keep their kind and size (`Grows`), and packing is undone exactly by
`unpack_ref` (`Unpacked`). For files: two handles that work and share a slot are
handles of the same open, so a close disturbs no other, and `alloc_file` takes a slot
that no live handle names.

`StoreIsMemory` proves, for programs without liberties (`Liberties = {}`), that
`RustStore` implements `Memory`: one lemma per instruction shows that the step on
packed slots is the step of the same name on independent cells, or changes nothing
there, and fails only where `Memory` may. Two parts of `StoreInv` are there for
it: a reference without a field is one to an element, never to a whole struct, and
no array is longer than the indices a packed reference holds (the third liberty,
`"longArrays"`, drops it).
What the slots stand for is stated again in `RustStoreProofs` as a function of a
heap, because the heaps before and after a step have to be compared: growing a heap
leaves the meaning of every slot that fits it alone, and writing one slot changes
one cell.

*Code of the Rust compiler.* `CodeAlwaysInBounds`: whatever program is compiled, every
register, constant, name, range of arguments, callee and jump in the finished code is
inside its table, which the interpreter takes for granted (`get_unchecked`). The
only hypothesis is `TreeAssumption` (of `RustTree`), which says what trees the parser
makes: each node has the nodes below it that its kind has, a register is numbered below
`n_regs`, names are strings, and structs, functions and parameters are finite lists.
Nothing bounds the size or the nesting of a program. `CodeInBounds` says nothing of a
function that is being compiled, so the inductive invariant is `CompilerInv`: the
unfinished `Compiler` fits its own tables (`CompOk`); each open call has operands that
fit, and has put in the tables what it counts on (`FrameOk`: its arguments, the names of
its fields, the branch of its loop), and all but the innermost wait for one more operand (`Waits`); while loops
are rewritten, no branch leads behind the code (`ScanOk`). Until then one may: `CloseLoop`
sends a `while` at the end of a function to the instruction after its `Jmp`, which exists
only because `finish` adds a `RetVoid` after anything but a return (`JumpsOk`). What has been found to fit
stays so, because tables, registers and code only grow while statements are compiled
(`Grows`, `FitsGrows`). That a register is below the final `n_regs` rests on every
scratch register being the destination of an instruction or the register of the tree, so that
`max_reg` or the parser's count covers it: this is what dropping the count in `emit`
breaks. The theorem is about `CompilerSpec`; that the trees it starts from are those of the
parser is checked by `mc_rust`, which runs lexer, parser and compiler together.

*Code emitted for QBE.* `QbeSingleAssigned`: in the output for any program, no temporary
is defined twice, in any two functions, and what uses one stands behind its definition in
the same function, as QBE requires. The hypothesis is `TreeAssumption` again.
`QbeSingleAssignment` speaks of emitted functions only, and the property could be lost long
before: an operand is found at one point and used at another one, with whole
subtrees emitted in between. The inductive invariant `QbeInv` therefore follows every
temporary wherever the emitter keeps it, in the table of registers (`env`), with an open
call (`own`, `got`) or on its way to the caller (`value`): an instruction of this
function's code defines it (`Defined`, `IrFrameOk`, `ValueOk`). Code only gets longer, so it
stays defined (`Follows`). That definitions are unique rests on the counter, which goes on over
functions: the functions emitted so far define temporaries below some `low`, the
current one from `low` up to the counter (`Between`), so they share none (`Disjoint`), and an
instruction that is added defines the counter itself or nothing (`OneMore`).
A counter that stands still breaks this (`DefineStale`). A table of registers that went on to the
next function would too: it would hold temporaries that the new code does not define.
That every struct name has a last
declaration (`LastStructIs`), without which a literal has no offsets, is the
well-foundedness of the numbers. As for the compiler, the theorem is about `QbeSpec`
and `mc_rust` checks that its programs are the parser's.

Only model-checked:

- `EverySyncReturns` and `WalksTerminate`: liveness, which the prover does not do.
- `ReadsBack` and `NoPartOfAProgram`: the parser and the text of a tree are recursive over
  text and tree; what they compute for every text is an induction over data.
- `RunsAgree`: the meaning of a program is recursive over tree and fuel.
- `QbeAgrees`: running the emitted code and the meaning of the program are recursive.

## 6. Not modelled

Allocation failure other than as an error of the program; the inside of the arena
allocator, which two threads may use at once (a hazard); the Zig version's control
flow, heap, lexer, parser and emitters and its AArch64 JIT; the characters within
words, numbers and strings; printers and option parsing; the 16-bit limits of
the bytecode; the order in which a hash map of structs is searched for a field
(`qbe.rs:305`: the first struct that has it is any of them).

## 7. Plan

In this order, the most consequential first:

1. `ControlFlow`: labels, `jmp`, `br_if`, `phi` and `while` of the Zig VM; the label
   a phi sees against the edge the program took; simultaneous against sequential
   phis. Composes with `Compile` on code with labels.
2. `Heap`: cells, structs, arrays and `free` of the Zig VM, against `Memory` with
   objects that end; the deinit of frames.
3. `Jit`: which register holds which temporary across nested expressions and calls.
4. Branches in `IrRun`, for what the loops of emitted QBE code do.
5. Proofs: `NoPartOfAProgram`, with the parser as a step machine in the way of
   `RustCompiler`.

Runs of the new components will share configurations with the existing ones
where two components can be one instance.
