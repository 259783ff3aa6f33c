# A TLA+ verification of CrashLang

CrashLang is a small language whose runtime explains the memory errors of the
programs it runs. Objects live on a *simulated heap*; an *ownership tracker*
keeps a timeline of every object; a crash produces a report that quotes that
timeline. Programs run in a tree-walk interpreter (the default, and the
interactive REPL) or are compiled to bytecode for a stack VM (`--vm`). A third
path lowers functions to a register IR and allocates registers
(`--emit-ir`, `--emit-asm`).

This directory holds TLA+ modules that model the stateful parts of that
program, TLC configurations that check them on small instances, and TLAPS
proofs of the most important properties for every instance. `PROJECT.json`
lists the components, runs, theorems and hazards, and maps every definition to
the source lines it stands for.

## 1. The system

| Component | State | Operations | What makes it correct |
|---|---|---|---|
| Simulated heap (`heap.cpp`) | `objects_`: liveness and fields by id; `next_id_` | allocate, free, read_field, write_field, is_alive | ids are never reused, one free per object, no access to a freed object's fields |
| Ownership tracker (`ownership.cpp`) | per object: owner, moved, timeline; `var_to_heap_` | record_allocation/free/move/reference/dereference/field_access, bind_variable, set_owner | agrees with the heap although it is told separately |
| Environment (`environment.cpp`) | chain of scopes | define, get, assign, push_scope, push_existing_scope, pop_scope | the innermost binding is found; scopes are restored on every exit |
| Interpreter, memory (`interpreter.cpp`) | the C++ stack of operands | new, free, ref, deref, move, fields, let, assignment | checks are made on the state at the use; a crash leaves everything consistent |
| Interpreter, control (`interpreter.cpp`) | call stack, current scope; signals thrown as C++ exceptions | if, while, for, fn, return, break, continue, calls | a signal reaches the construct that stops it, and scopes and call stack follow |
| Compiler (`compiler.cpp`, `bytecode.cpp`) | scopes with locals and upvalues, loop stack, chunk | one method per AST node | slot numbers agree with the VM's stack at run time |
| VM (`vm.cpp`) | value stack, frames, open upvalue chain, globals, its own heap and tracker | one case per opcode | closures share variables, frames nest, limits are respected |
| IR builder (`ir_builder.cpp`, `ir.cpp`) | current block, variable-to-register map | one method per AST node | a register holds the variable's value on every path |
| IR passes (`ir_passes.cpp`) | live sets; intervals, active list, free registers | dead-code elimination, liveness, linear scan | live values never share a register |
| Codegen (`codegen.cpp`) | none | prints IR with its allocation | - |
| Optimizer (`optimizer.cpp`) | the AST | folding, dead branches | same result and same error as evaluation |
| Lexer, parser, AST | position in text or tokens | scanning, recursive descent, recovery | progress; recovery consumes input |
| Values and builtins | arrays shared by reference; one static callback | map/filter/forEach call back into the program | iteration survives what the callback does |
| Diagnostics, errors | none | format a crash or leaks | the evidence shown is true |
| `main.cpp` | one interpreter per REPL session; a SourceFile and an AST per line | run_file, run_repl | a crashed line leaves a usable session |

How they interact: everything runs in one thread. The interpreter calls the
heap and the tracker one after the other, so that the two stores are kept in
step only by the order of calls in each handler. Crashes and control flow are
C++ exceptions that unwind through handlers which restore the scope. Between
the evaluation of an operand and its use, another operand may be a call that
runs any statement. The VM's correctness rests on a contract with the compiler
that is written nowhere: which slots are variables, and when an upvalue must
be closed. The register allocator gets intervals computed from the layout
order of the blocks.

What is hard about it is therefore not concurrency but *aliasing* (many
references to one object, many closures over one variable), *staleness* (a
reference, a slot index or an AST pointer used after what it names has
changed), *partial failure* (a handler that crashes between two stores, a
session that goes on after it) and *ordering* (captures, closings and register
hand-overs in every order a program can bring about). The list `hazards` of
`PROJECT.json` gives each at its line.

## 2. The modules

| Module | Role | Configuration |
|---|---|---|
| `ObjectLifecycle` | abstract specification: what a heap promises of every object | |
| `TreeWalkMemory` | heap, tracker, scopes and the interpreter's memory handlers; implements `ObjectLifecycle` | `MCTreeWalk`, `...Owner` |
| `TreeWalkControl` | blocks, loops, calls and exceptions of the interpreter; the lines of a session | `MCTreeWalkControl`, `...Stale`, `...Uncaught` |
| `VMUpvalues` | value stack, frames and open upvalues of the VM, under the compiler's discipline | `MCVMUpvalues` |
| `VMMemory` | the VM's memory instructions, with its own heap and tracker; implements `ObjectLifecycle` | through `MemoryPaths` |
| `MemoryPaths` | one program run by `TreeWalkMemory` and `VMMemory` together | `MCMemoryPaths`, `...Field`, `...Move` |
| `CompilerSlots` | the compiler's scopes, locals, jumps and loops, with the VM's stack under the code it emits | `MCCompilerSlots`, `...If`, `...While`, `...For`, `...Match` |
| `SharedArrays` | arrays that loops and builtins iterate over while the program changes them, on both paths | `MCSharedArrays`, `...Stale` |
| `ConstantFolding` | the AST optimizer, the interpreter's and the VM's evaluation of expressions | `MCConstantFolding`, `...Floats`, `...Strings` |
| `Lexer` | the scanner and the positions of `SourceFile`, with the lexical grammar as reference | `MCLexer`, `...Strings`, `...Comments` |
| `Grammar`, `Parser` | the grammar of `docs/grammar.ebnf` as a recogniser; the recursive-descent parser | `MCParser`, `...Lambda` |
| `IRBuilder`, `IRPasses` | lowering to the register IR; dead code, liveness, intervals | `MCIRBuilder`, `MCIRArguments`, `MCIRIntervals` |
| `LinearScan` | `allocate_registers` from given intervals | `MCLinearScan` |
| `TreeWalkMemory_proof`, `TreeWalkControl_proof`, `VMUpvalues_proof`, `MemoryPaths_proof`, `SharedArrays_proof`, `LinearScan_proof`, `CompilerSlots_proof`, `CompilerStack_proof` | theorems and their proofs | |

The last column names the configurations; `...Owner` stands for
`MCTreeWalkOwner`, and so on. The modules whose name begins with `MC` give the
constants that a configuration cannot spell.

Operators called "Mutation of X" are deliberately wrong versions of the
definition that follows them. No specification uses them; each one stands for
a plausible bug, and substituting it for X makes TLC find the property
violated that `PROJECT.json` pairs it with.

The language has uses that the code handles wrongly. No guard keeps a
behaviour away from them: an action does what its handler does, also then. In
some modules a history variable, which no guard of the code's actions reads,
remembers that one has happened:

* `regular` of `CompilerSlots`: so far nothing was compiled whose code takes the
  compiler's slots and the VM's stack apart (`RegularJump`, `RegularIf`,
  `RegularMatch`, `RegularAccess`, under "Regular steps");
* `parted` of `MemoryPaths`: a step was taken that the two paths take
  differently, after which the pair is not followed any further;
* `steady` of an iteration in `SharedArrays`: nothing has moved or shortened
  what the interpreter's iterators point into;
* `bound` and `strays` of `IRBuilder`: the branches that were open when a name
  got its register, and the registers read through a name after such a branch.

A property that needs one of them says so in its statement, and tells what holds
up to that step, in every program. What the code or its documents promise
without the restriction is a property of its own, and a configuration of its
own shows TLC violating it: section 3, Known divergences.

### TreeWalkMemory

A behaviour is the run of an arbitrary program, taken as a sequence of
evaluation steps. `temps` is the stack of operands that C++ holds in local
variables (`Value val = evaluate(...)`) until the handler uses them; while it
is not empty, any other step may happen, because the next operand may be a
call. `scopes` is the chain of `Environment`, `nextId`, `alive` and `field`
are the heap, `owner`, `moved`, `timeline` and `varToHeap` the tracker, and
`crash` the `CrashError` in flight. The rigid variable `repl` is chosen at the
start: a file ends with its first crash, a session goes on after it.

| Action | Code |
|---|---|
| `EvalLiteral`, `EvalIdentifier` | `eval_literal`, `eval_identifier` |
| `EvalNewStruct` | `eval_new` with `allocate` and `record_allocation` |
| `EvalRef`, `EvalDeref` | `eval_ref`, `eval_deref` with their checks and records |
| `EvalMoveIdentifier`, `EvalMoveExpr` | `eval_move`; the first sets its source to nil |
| `EvalFieldAccess`, `AssignField` | record first, then the heap's checks and the access |
| `AssignIdentifier`, `ExecuteLet` | `eval_assign`, `execute_let` with `bind_variable` and `set_owner` |
| `ExecuteFree`, `ExecuteExprStmt` | `execute_free`; `execute_stmt` |
| `EnterBlock`, `CallFunction`, `PopScope` | scopes of blocks and calls |
| `NextLine` | the REPL's loop after a crash |

Abstractions: an object has at most one field; values other than references
are `Nil` and `Num`; a called function is a lambda over the current scope;
arrays, which can also hold references, are left out; spans and texts are left
out. `Raise` unwinds to the global scope, which is what the `catch (...)`
clauses of blocks, loops and calls do one after the other.

### TreeWalkControl

A behaviour is the run of an arbitrary program, seen through the C++ frames
that hold a scope or catch something. `handlers` is the stack of those frames;
each remembers the scope in force when it was entered (`entry`; for a call this
is `previous_scope`) and whether its try block is being executed (`trying`).
`parent` is the tree of all scopes, `current` is `Environment::current_`,
`callStack` is `call_stack_`, `fns` are the function values with the scope they
close over and the line whose tree their body lies in, `signal` is the
exception in flight.

| Action | Code |
|---|---|
| `EnterBlock`, `LeaveBlock` | `execute_block` |
| `EnterWhile`, `WhileIteration`, `WhileIterationEnds`, `LeaveLoop` | `execute_while`; a condition is evaluated while `trying` is false |
| `EnterFor`, `ForIteration`, `ForIterationEnds`, `LeaveLoop` | `execute_for`; an iteration has a scope of its own under that of the body |
| `CreateFunction`, `Call`, `FinishCall` | `execute_fn` and `eval_lambda`; `call_function` and its normal end |
| `CallStale` | a call of a function of an earlier line of the session |
| `BreakContinueOrReturn`, `Crash` | `throw` |
| `UnwindBlock`, `UnwindWhile`, `BreakWhile`, `ContinueWhile`, `UnwindFor`, `BreakFor`, `ContinueFor`, `UnwindCall` | the `catch` clauses, one frame at a time |
| `NextLine`, `FileCrashes`, `Terminate` | `run_repl`, `run_file`, and the C++ runtime when nothing catches |

`target` is a history variable: when an exception is thrown it is set to the
frame that ought to catch it, computed from the frames as they are then. No
action's guard reads it. The properties compare where the exception lands
with it.

Abstractions: conditions, operands and the choice of the function called are
nondeterministic; `if`, `match` and expressions hold no scope and catch
nothing, so they have no frame. An expression contains no statement other than
through a call (`match` arms are expressions), so a `break`, `continue` or
`return` is thrown at a statement only. After `CallStale` and after the process
has ended nothing follows.

### VMUpvalues

A frame runs any code the compiler can emit. `locals` is the number of
variables in scope, which the compiler keeps in the lowest slots of the frame;
above them are operands. `DeclareLocal` names the only operand (`let` leaves
its initializer on the stack), `CloseUpvalue` and `PopLocal` are the two
instructions `end_scope` chooses from, by `is_captured`. The `Closure`
instruction is split into its captures (`CaptureLocal`, `CaptureEnclosing`)
and the push, so that the chain is checked between them; `CaptureSelf` is a
closure that captures the variable it initializes, whose slot is not yet on
the stack. `slotVar`, `upVar` and `store` are history variables: the variable
instance behind a slot or an upvalue, and the value that lexical scoping gives
it. Properties compare the VM with them; no instruction reads them.

Left out: globals, arithmetic, heap instructions, builtins, and jumps. Code
that leaves a block by a jump, and an initializer that calls a closure over
the variable being initialized, are outside the discipline that the guards
express; that the compiler keeps to it is the subject of `CompilerSlots`.

### VMMemory and MemoryPaths

`VMMemory` has one action for each instruction that touches globals or
objects, with the checks of `vm.cpp` in their order: `Constant`, `GetGlobal`,
`SetGlobal`, `DefineGlobal`, `NewStruct`, `GetField`, `SetField`, `Ref`,
`Deref`, `Move`, `Free`, `PopOperand`. `stack` plays the part of `temps` in
`TreeWalkMemory`: any statement may run, through a call, while operands wait.
Of the tracker the VM calls `record_allocation` and `record_free` alone.

`MemoryPaths` composes the two. The rigid variable `paired` chooses between
two kinds of behaviour: in `Together` every step is one evaluation step of a
program that the interpreter's handler and the VM's instructions take at once,
each on its own heap; in `Alone` the VM runs by itself, any program. `Together`
has every memory operation. Four steps set `parted`, with the operands with
which the paths differ: `MoveVariable`; `MoveOperand`, when the interpreter
refuses the move; `Reference`, when the object is freed; `AssignToField`, when
the two operands differ and one of them is an object.

### CompilerSlots

The compiler is a recursive walk over a program. Here the program is chosen
while it is walked: `todo` is the continuation of the `compile_` functions in
progress, as a sequence of tasks. A `Compile...` action takes the task
"statements" or "expr" and puts the function's body in its place; the other
actions are its steps: `EmitInstruction`, `EmitJump`, `PatchJump`,
`BeginScope`, `EndScope`, `DeclareLocal`, `MarkInitialized`, `PushLoop`,
`EmitBreak`, `EndLoop`, `LeaveFunction`. `locals`, `depth`, `outer`, `loops`
are the compiler's members. `point` is the ghost: what the VM's stack holds,
above the frame's base, when execution stands where the next instruction will
be emitted; `jumps` has the points of the jumps that wait for their patch.
The compiler cannot read either.

A name that is not a local of the function is an upvalue or a global. `Home` is
the function at which the recursion of `resolve_upvalue` ends, `ResolveUpvalue`
the upvalue tables of all the functions inside it, from the outermost on, and
`MarkCaptured` the flag that makes `end_scope` emit `CloseUpvalue`. The ghost
`open` collects the slots that a closure made so far may refer to: none of them
may be popped without being closed, which is the discipline that `VMUpvalues`
takes as the guard of `PopLocal`. Constants and line numbers are left out.

`Next` is `CompileStep`, the whole compiler, and the bookkeeping of `regular`.
A step is irregular when it compiles a break or continue that is in a for, in a
function inside of the loop, or past locals of blocks (`RegularJump`); the end
of the then branch of an if without else, if it can be reached (`RegularIf`); a
match that has patterns and a wildcard, or patterns while operands or a call
wait for it (`RegularMatch`); or a use of a name in its own initializer, other
than the capture by the lambda that is the initializer (`RegularAccess`).

### SharedArrays

`elems` and `capacity` are the vectors that `ArrayValue` shares; `frames` the
iterations in progress, of which each is a `for`, a `map`, a `filter` or a
`forEach`; `path` is rigid and says which execution path runs. On the tree
walk an iteration keeps the buffer and the end it began with, in the VM's `for`
an index that is compared with the length at each turn. `CallPush`, `CallPop`
and `AssignIndex` are the program's changes, `Start`, `Enter`, `Leave`,
`Finish`, `Abandon` the steps of an iteration; bodies change any array,
whether it is iterated or not, and `Disturb` records it. Which arguments `push` gets
depends on the path (see the divergences).

### ConstantFolding

`Optimize`, `FoldBinary`, `FoldUnary`, `DropBranch` are the optimizer;
`Evaluate(e, path)` is evaluation with the trace of the calls made. The
actions only enumerate expressions: `AddUnary`, `AddBinary`, `AddIf` put an
operator around the one at hand. On the VM an `if` without else pops its
condition once more after the branch, as compiled. Integers have a small width with the
behaviour of the full one: sums wrap, the least integer divided by -1 traps.

### Lexer

The actions are the branches of `scan_token`, the loop of `scan_string` and
that of block comments, with an action for each way through the loop; a
run of letters, digits or spaces is one step. `LocationFromOffset` and
`GetLine` are `SourceFile`'s. `Words` is the reference: the division of a text
into the longest words of the lexical grammar, defined on spans, without
states. The code reads two forms that `grammar.ebnf` leaves out, a line end
inside of a string and a line comment at the end of the text (`Undocumented`):
`Words(forms)` is the grammar with those of the two that are asked for, so that
`LexesTheGrammar` is about both, and the two other properties about the
document's own words.

### Grammar and Parser

`Parser` has one operator per `parse_` function, from a parse state to a parse
state; the only variable is the input, and the properties speak of the parse of
what there is. The input grows by a token per step (`Read`); or it is one of
`Programs`, which have every construct of the grammar, each kind of expression
in each place of a statement, and the operators in pairs, and one token of it is
put in, left out or replaced (`Edit`). `Grammar` has the rules as data and their
meaning as the set of positions where a phrase may end, so that it shares no
structure with the parser. `Documented` are the rules of the file. Three forms
that they derive the code turns down (`TurnedDown`: assignments to what is no
place, statements that begin with a lambda, patterns that begin with `_` and go
on); `Without(forms)` is the grammar without some of them.

### IRBuilder and IRPasses

As in `CompilerSlots`, the function is chosen while it is lowered. `blocks`,
`bb`, `nextReg` and `locals` are the builder's, `regs` are the registers that
its C++ frames hold. A name is rebound at every let and assignment, wherever it
stands, and looked up wherever it stands, as in the code: functions may assign
in branches, shadow, and read a name after its block. `bound` and `strays` are
the histories of section 2's list; `Branches` are the branches open at a place.
`IRPasses` has `DeadCodeElimination`, `ComputeLiveness` and `Intervals` as
functions of the blocks. They are recursive, and so both modules are for TLC
only.

### LinearScan

`ReadInstr` reads one instruction and extends the intervals,
`SortIntervals` starts the scan, `Scan(iv)` is one iteration of its loop:
`expire_old`, then a free register, or the spill of the longest active
interval, or of the interval itself. Instructions define any register and use
any set of registers. Only ends of intervals matter afterwards, so the code is
not kept.

### ObjectLifecycle

Ids are handed out once and in order; an object is live from its allocation to
its only release; it is transferred at most once, while live; its contents do
not change after its release. `TreeWalkMemory!Lifecycle` is this specification
under the mapping *born* = `nextId - 1`, *released* = the objects not alive,
*transferred* = the objects marked moved, *holds* = the fields. `VMMemory!Lifecycle` is the same
without transfers: its `Move` does not change the object.

## 3. What the runs check

| Run | Bounds | Shows |
|---|---|---|
| `tree_walk` | 2 names, 2 objects, 2 operands, 2 scopes, 3 events; see below | `TypeOK`, `ReferencesAreSound`, `TimelineAgreesWithHeap`, `NoAccessSurvivesFree`, `CrashIsJustified`, `CrashLeavesHeap`, `Lifecycle` (refinement) |
| `control` | 2 lines, call depth 2, 5 scopes, 2 functions; 7 scopes for the calls of one function in a file | `TypeOK`, `ScopesFollowText`, `CallStackIsTrue`, `FramesRestoreScope`, `SignalsStopAtTarget`, `ExceptionsLand` (liveness) |
| `control_stale_function` | 3 scopes, 1 function, 2 lines | violation of `CallsRunLiveCode`: see Findings |
| `vm_upvalues` | 1 parameter, stack 4, 3 frames, 2 captures per closure, 2 upvalues, 2 variables | `TypeOK`, `OpenChainIsTrue`, `ReadsSeeLastWrite`, `FramesNested` |
| `memory_paths` | 1 name, 2 objects, 2 operands, 4 events | `PathsAgree`, `HeapIsSound`, `Lifecycle` (refinement) |
| `compiler_slots` | programs of 4 forms, or of 3 with 1 argument; of 4 forms of calls, arrays and matches with 1 argument; of 5 forms of loops with jumps and branches or blocks, of scopes that declare and read, or of closures with 2 names and 1 parameter | `StackDiscipline`, `AccessesFindVariable`, `JumpsFindLoop`, `CapturedAreClosed` |
| `shared_arrays` | 2 arrays of up to 3 elements, 2 nested iterations | `IterationsAreSound` |
| `folding` | 2 operators, integers of 3 bits, 3 floats, 2 strings | `FoldingIsSound`, `PathsAgree` |
| `lexer` | 5 characters of code, 6 of strings and line ends, 8 of comments | `LexesTheGrammar`, `TokensKeepTheirText`, `LexingEnds` (liveness) |
| `parser` | 3 tokens of all classes and 1 after the first error; 6 of expressions; 9 of match; 6 of blocks and 2 after the first error; programs of every construct with one token edited | `RecoveryMakesProgress`, `AcceptsTheGrammar`, `BrokenTreesAreReported` |
| `ir` | functions of 3 forms of all kinds, 4 that branch and loop, 3 with calls of 2 arguments | `WellFormed`, `EliminatesOnlyDeadCode`, `LivenessIsExact` |
| `linear_scan` | 4 virtual and 2 physical registers, 5 instructions | `AllocationIsSound`, `AllocationIsTight` |

Other configurations, of which every one makes TLC find a violation. Each
checks one property, which states what a document, a comment or an example of
the repository says of a use that the code gets wrong; "Known divergences"
tells which. They are kept so that the counterexample can be had again, and to
turn into runs once the code is mended: `tlc -config MCCompilerSlotsFor.cfg
MCCompilerSlots`, for one.

| Configuration | Module | Property violated |
|---|---|---|
| `MCTreeWalkControlUncaught` | `MCTreeWalkControl` | `SignalsAreCaught` |
| `MCTreeWalkOwner` | `MCTreeWalk` | `OwnersMayMove` |
| `MCSharedArraysStale` | `SharedArrays` | `NoStaleIterator` |
| `MCCompilerSlotsIf` | `MCCompilerSlots` | `StackHoldsLocals` |
| `MCCompilerSlotsWhile` | `MCCompilerSlots` | `LoopsRestoreStack` |
| `MCCompilerSlotsFor` | `MCCompilerSlots` | `JumpsAreAccepted` |
| `MCCompilerSlotsMatch` | `MCCompilerSlots` | `JoinsAgree` |
| `MCMemoryPathsField` | `MemoryPaths` | `AssignmentsReachField` |
| `MCMemoryPathsMove` | `MemoryPaths` | `MovesTakeTheSource` |
| `MCConstantFoldingFloats` | `MCConstantFolding` | `FoldingKeepsFloats` |
| `MCConstantFoldingStrings` | `MCConstantFolding` | `FoldingKeepsStrings` |
| `MCIRArguments` | `MCIRBuilder` | `RemovesOnlyUnused` |
| `MCIRIntervals` | `MCIRBuilder` | `IntervalsCoverLiveness` |
| `MCLexerStrings` | `MCLexer` | `StringsStayOnALine` |
| `MCLexerComments` | `MCLexer` | `LineCommentsEndWithNewline` |
| `MCParserLambda` | `MCParser` | `AcceptsLambdaStatements` |

Why the bounds are enough.

* `tree_walk`. The constraint `Instance` gives files one object and both names
  and scopes, sessions two objects, one name and the global scope. Two names
  and two scopes give aliases and shadowing, two operands let a free or a move
  come between the evaluation of a reference and its use. No handler
  relates two objects other than through a field, which the sessions have.
  Three events are an allocation and any two others.
* `control`. A call takes two scopes and a for iteration two: five nest a call
  in a loop or a loop in a call, and leave a scope for the second line. Two
  functions let the caller's scope and the closure's differ in both
  directions. The constraint `Instance` gives two more scopes to calls of one
  function in each other, which then try to exceed their limit. Scopes are never
  given back, so their bound also bounds the length of loops.
* `vm_upvalues`. Two variables in two upvalues are captured in both orders of
  their slots, closed together by `Return` and one by one by `CloseUpvalue`;
  stack and frames reach their limits.
* `memory_paths`. One name suffices since operands alias its object. Events
  are the interpreter's only; the VM's runs alone are not bounded by them.
* `compiler_slots`. Four forms put a declaration into a branch of a loop, and,
  among the forms that take arguments, a call with an argument into another or
  into the arm of a match; five
  of the forms that jump put a loop with a break in another loop, which is where
  loop contexts can be confused, and five of the forms that declare reach a
  variable through a function, a loop and a block. Five forms of closures nest
  two functions around an access, so that one captures an upvalue of the other,
  and two names give a function two variables to capture.
* `shared_arrays`. Capacities double from 1 or 2, and arrays begin with up to two
  elements: three are one reallocation of each, and two of an array that began
  with one. Two iterations, of one array or of two, inside each other.
* `folding`. Every pair of operators meets, with every kind of operand on every
  side. An integer width of 3 bits has its overflow, its trap and its
  zero.
* `lexer`. Comments need four characters for an opening and a closing, eight
  for one inside another. Six characters hold a string with an escaped
  quote, and a line end before and after a token.
* `parser`. No production looks further ahead than one token, so that the
  paths through each of them, and from each to each, are short; expressions,
  blocks and match, the longest, have vocabularies of their own. Programs of
  `EveryConstruct` have the rest: loops, free, new, references, functions, and
  each operator on either side of two others, accepted and one token away from it.
* `ir`. Three forms put an assignment into a branch of a loop.
* `linear_scan`. Four intervals on two registers reach every branch and let a
  register be taken, spilled away, given back and taken again.

The theorems of section 4 do not depend on any of these bounds.

Deadlock is not checked where the system really stops: after the crash of a
file, after the return of the main program, at the end of a compilation, a scan
or a text, and at the bounds.

Fairness is assumed in two places. `TreeWalkControl!FairSpec` has weak fairness
of `Unwind`: while an exception is in flight the C++ runtime runs the catch
clauses, none of which executes program text, so a clause that can run does.
Nothing is assumed of the program itself, whose loops need not end.
`Lexer!Spec` has weak fairness of its `Next`: `scan_tokens` is a loop that
nothing interrupts. All other properties are safety properties of sequential
code called by its user. The parser's progress is stated as a safety property
of every parse function that a loop calls, because TLC evaluates a parse in one
step.

### Findings

* `control_stale_function`. In a session the syntax tree of a line lives until
  the next prompt (`main.cpp:102`), while function values keep a raw pointer to
  their body in it (`value.hpp:44`). Calling on the second line a function that
  the first defined is undefined behaviour; a sanitizer build confirms it.
  `README.md:83` shows a session that uses earlier definitions.

### Known divergences

Other places where the code does not do what its documents or comments say, met
while modelling. All of them are in the models. In brackets is the property
that states the document's word and is violated. Line numbers are of `src/src`
unless a path is given.

Compiler and VM:

* [`StackHoldsLocals`] An `if` without `else` (`docs/design.md:75`,
  `docs/grammar.ebnf:42`) runs from its then branch into the pop that is meant
  for a false condition (`compiler.cpp:195`), and takes a local with it or
  underflows the stack.
* [`LoopsRestoreStack`] `break` and `continue` (`docs/design.md:76`) leave the locals
  of the blocks they jump out of on the stack (`compiler.cpp:304`);
  `LoopContext` records the depth for it and nothing reads it.
* [`JumpsAreAccepted`] `compile_for` pushes its loop after the body was compiled
  (`compiler.cpp:254`): `break` and `continue` in a for, shown in
  `README.md:160`, are reported as errors, or bound to a loop around it.
* [`JoinsAgree`] `compile_match` makes a local of its target that it never
  removes; pattern arms and wildcard reach the end with different stacks
  (`compiler.cpp:667`, against `docs/design.md:78` and `README.md:187`).
* [`AssignmentsReachField`] `compile_assign` pushes value and object in the order
  opposite to the one in which `SetField` pops them (`vm.cpp:559`): `p.x = 10;`
  of `README.md:177` is a TypeMismatch.
* [`MovesTakeTheSource`] `Move` leaves the source as it was and records no transfer
  (`vm.cpp:598`), against `docs/design.md:85` and `README.md:184`.

Interpreter and session:

* [`SignalsAreCaught`] `return`, `break` and `continue` outside of what catches
  them end the process, a session included (`main.cpp:111`), against
  `errors.hpp:57`, which says that they are caught within the interpreter.
* [`OwnersMayMove`] `move` marks the object and not the variable
  (`interpreter.cpp:706`): after `let q = move(p);`, `move(q)` is an
  OwnershipViolation that blames the owner, against `README.md:235`.
* [`NoStaleIterator`] `for`, `map`, `filter` and `forEach` iterate a vector
  that the body may push to or pop from (`interpreter.cpp:139`,
  `builtins.cpp:267`), against `docs/design.md:15`; AddressSanitizer reports
  heap-use-after-free.

Optimizer and IR:

* [`FoldingKeepsFloats`] A folded float is printed with six decimals and read again
  (`optimizer.cpp:178`, `compiler.cpp:420`): the compiled program computes with
  another number, against `docs/design.md:36`.
* [`FoldingKeepsStrings`] A folded string is not escaped, and the compiler unescapes it
  (`optimizer.cpp:191`, `compiler.cpp:424`), against `docs/design.md:120`.
* [`RemovesOnlyUnused`] A call is taken to use consecutive registers from that of its
  first argument (`ir_passes.cpp:34`), and the definition of another argument is
  removed, against the comments at `ir_passes.cpp:9` and `73`.
* [`IntervalsCoverLiveness`] Intervals follow the layout (`ir_passes.cpp:186`): around loops,
  and branches inside of branches, they do not cover where a register is live,
  against the comment at `ir_passes.cpp:181`.

Lexer and parser:

* [`StringsStayOnALine`] A string may hold a line end (`lexer.cpp:195`, whose comment
  means it so), against `docs/grammar.ebnf:151`.
* [`LineCommentsEndWithNewline`] The end of the text ends a line comment (`lexer.cpp:299`),
  against `docs/grammar.ebnf:154`.
* [`AcceptsLambdaStatements`] A statement that begins with a lambda is rejected
  (`parser.cpp:128`), against `docs/grammar.ebnf:40`.

And places where the code does what one would not expect of it, though no
document, comment or test states the opposite plainly:

* A function inside a loop may `break` the loop it is declared in: the loop
  stack is not per function (`compiler.cpp:304`). The step makes the program
  irregular (`RegularJump`).
* A local can be read in its own initializer, where its slot does not hold it
  yet, or captured there by a closure that is not itself the initializer
  (`compiler.cpp:146`). The step makes the program irregular (`RegularAccess`).
* A `break` in a function ends the loop of its caller in the interpreter:
  `SignalsStopAtTarget` takes that loop for its target.
* `ref` of a freed object crashes the interpreter (`interpreter.cpp:641`) and
  not the VM (`vm.cpp:576`). The step sets `parted`.
* The VM hands builtins their arguments in reverse (`vm.cpp:352`): `push` fails
  on every call, `range(0, 3)` is empty (`CallPush`).
* `filter` keeps the element as its predicate left it, not the one tested
  (`builtins.cpp:313`; `Leave`).
* Folding divides the least integer by -1 also in code that never runs
  (`optimizer.cpp:129`), which ends the compiler: `TrapsOnlyOnOverflow` says no
  more than that such a division is what it traps on.
* An `if` without else whose condition folds to true loses the stray pop with
  its condition: the VM runs better folded than not (`DropsOnlyBranch`).
* `and` and `or` leave a boolean on one path and an operand on the other; strings
  are converted differently. `PathsAgree` of `ConstantFolding` says so.
* An integer literal beyond 64 bits is clamped without an error
  (`lexer.cpp:269`), and ends the compiler with an exception
  (`compiler.cpp:415`).
* After an unknown escape the lexer goes on in code, inside of the string
  (`UnknownEscape`).
* An unexpected token is recovered from twice (`parser.cpp:329`), so that a
  statement at which recovery should stop (`parser.cpp:73`) is skipped.
* Assignments to what is no place are turned down, though the grammar's
  `assignment` derives them, and an arm `when _ + 1 =>` is taken for the wildcard
  (`TurnedDown`).
* Names of the IR are not scoped: an assignment in a branch or a loop, or an
  inner `let`, rebinds the name for the text after it, on every path
  (`ir_builder.cpp:98`, `386`). The register read there is in `strays`, which
  `WellFormed` exempts from being written on every path.

## 4. What is proved

All theorems hold for every value of the constants that satisfies the named
assumptions (`BoundsAssumption`, `NamesAssumption`, `ValuesAssumption`,
`NoCrashAssumption`, `RegsAssumption`, `ParametersAssumption`). They say that
bounds are naturals, that the special values are distinct from references and
from each other, that a function has finitely many virtual registers
(`RegsAssumption`: the pigeonhole argument counts them), and that an array can
hold the two elements it begins with (`ParametersAssumption`, `MaxLength >= 2`).

* `TreeWalkMemory_proof`: `TypeCorrect`, `NoReferenceIsInvalid`. The types are
  inductive. `NoInvalidReference` is inductive together with them: a reference
  moves between scopes, operands, fields and the tracker's map, and is only
  ever created by `EvalNew`, which allocates it in the same step.
* `TreeWalkMemory_proof`, second part: `TimelineIsTruthful`, `LifetimeIsLinear`,
  `CrashesAreJustified`, `AccessAfterFreeIsLast`, and `ReferencesSound`, which
  joins the first with `NoReferenceIsInvalid`. The inductive invariant
  `TimelineInv` says of each object alone that its record is sound
  (`SoundObject`: how the timeline begins, what it implies for liveness and
  the moved flag, what may follow a free), of the crash that it was deserved
  when raised (`Deserved`), and keeps `NoAccessSurvivesFree`. It is needed
  because the heap's flag and the timeline are updated by different calls, and
  neither property is inductive without the tie between them. On the same
  invariant rest `ImplementsLifecycle`, the refinement of `ObjectLifecycle`,
  action by action, and `CrashesAreClean`, an action property.
* `TreeWalkControl_proof`: `TypeCorrect`, `LexicalScoping`,
  `CallStackIsTruthful`, `ScopesAreRestored`, `SignalsStop`. The inductive
  invariant is `IInv`: the types, `ScopesFollowText`, `CallStackIsTrue` and
  `CallsNamed` (the frame of a call names a function that exists).
  `ScopesFollowText` is inductive because it speaks of every frame, not of the
  innermost only: when a frame goes, the statement about the frame below is
  already known. That a frame restores its scope then follows, since
  `pop_scope` leads to the parent, which `ScopesFollowText` says is the scope
  the frame was entered in. `SignalsStop` needs `TargetIsDue`: while an
  exception is in flight, no frame above its target stops it, and the target
  has not been unwound.
* `VMUpvalues_proof`: `TypeCorrect`, `OpenChainTrue`, `LexicalScoping` and
  `FramesPartitionStack`, all from one inductive invariant `Inv`. A read through
  an upvalue is right for a reason that is spread over five variables, so the
  invariant ties them: every reference to an upvalue is to one that exists
  (`KnownInv`), the windows of the frames are disjoint and each frame's locals
  lie in its own (`FramesInv`), no variable lives in two slots
  (`VariablesInv`), the open upvalues are the chain, in strictly descending
  order and each at the slot of its variable (`ChainInv`), and the variable of
  a closed upvalue lives in no slot any more (`ClosedGone`) - without it an
  assignment to the slot would leave the closed copy behind. `NamingInv` covers
  the steps in which a closure is built that captures the variable it is going
  to initialize. `ValuesInv` is `ReadsSeeLastWrite`; the rest is what it needs.
* `SharedArrays_proof`: `IterationsSound`, for every program on both paths. The
  invariant says of every frame of the stack of iterations, not of the innermost
  alone, that as long as it is steady its buffer is the array's and its end no
  further than the array's (`FrameSound`): the frame below comes back when the
  innermost one leaves, and other frames may have changed the array meanwhile.
  Of the VM's frames it needs nothing but that they read below the length.
* `LinearScan_proof`: `ScanInv` adds `ActiveApart` (active intervals hold
  different registers) and `InactiveIsPast` (an interval that is no longer
  active and keeps its register ended before any interval still to come
  starts) to the tables' properties. `OverlappingApart`, `TablesAgree` and
  `AllocationSound` follow. `AllocationTight` counts: when an interval is
  spilled no register is free, so each is held by a different active interval
  (`HoldersAreMany`), and
  all of them are live where the new one starts (`LiveCoverStart`). `TightInv`
  adds that the active intervals started before those to come, since the scan
  takes them in the order of their starts; without that order nothing says that
  the holders meet in one position.
* `MemoryPaths_proof`, first part, about `VMMemory`: `HeapSound` and
  `ImplementsLifecycle`. The inductive
  invariant `Sound` says in which set each variable lies, with references taken
  from `Known`, the values that exist so far, and that an object's timeline is
  the `Story` of its liveness flag; that the two agree is not inductive without
  the range of the references, since a step through an unknown one would update
  the tracker alone.
* `MemoryPaths_proof`, second part: `PathsIndistinguishable` and
  `PathsAgreeAlways`, for every program up to the first step that parts the
  paths. They are the relational counterpart of the others: `Sound`
  of the VM and `ObservablesAgree` are kept together by every step of
  `Together` that does not set `parted`, because on equal operands the checks of
  both paths come to the same verdict (`SameOperands` and the lemmas after it);
  for `ref`, `move` and the assignment of a field that is so of the operands
  which leave `parted` false, and the proof shows that no others need to be left
  out. Of the timelines every
  step does one of four things (`TogetherRecords`): nothing, an access on the
  interpreter's side alone, a free on both sides, a new object on both; each
  keeps the VM's timeline the interpreter's without the accesses
  (`AppendedBoth`, `AppendedAccess`). Programs, bounds and the number of
  variables are arbitrary.
* `CompilerSlots_proof`: `TypeCorrect` (the first conjunct of `StackDiscipline`)
  `CapturedClosed`, `UpvaluesAreFound` and `JumpsFind`, all for every program,
  regular or not. A state of the compiler says little
  about what is going to happen; the program text that is still to be compiled
  is in `todo`. The invariant therefore annotates it: to every place of `todo`
  belongs a context (`Contexts`: the scope depth, the depths of the suspended
  functions, the levels of the loops, how many jumps wait for their patch, how
  many `else if`s are still allowed) and every task leads from the context
  before it to the one after (`Leads`), so that `end`, `leaveFunction`,
  `endLoop` and `patch` never meet an empty scope, function, loop or jump list.
  `Typed` says that such an annotation exists, `Fits` that the first context is
  the state's. Each `compile_` function is then one lemma about the tasks it
  leaves (`TypedIf`, `TypedWhile`, `TypedForTasks`, `TypedMatch`, ...), and
  composing them is `TypedConcat`. On it rests `FunctionsOK`: in every function
  in progress the locals lie in scopes that only get deeper, and what an
  upvalue or a closure refers to is marked as captured - in the function where
  the name is at home, which `ResolveUpvalueIs` follows through all the
  functions between. The error paths are included. `JumpsFind` has no premise:
  a while is entered into `loop_stack_` before its body, and what a for in
  between enters and leaves, it leaves as it was. `UpvaluesAreFound` is about
  the tables of all the functions in progress at once: `Linking` says that
  every entry points to a slot or to an entry of the function around
  (`LinksOK`), that only the next task reads an upvalue (`AccessesNext`), and
  where it leads; one more entry, in several tables, leaves the others' way as
  it is (`Widened`). The module ends with the layouts on which
  `CompilerStack_proof` builds.
* `CompilerStack_proof`: `StackIsDisciplined`, that is `StackDiscipline`,
  `SlotsAreFound`, and `VariablesAreFound`, that is `AccessesFindVariable`. They
  are about `Spec`, hence about every program, and what they say of slots they
  say as long as the program is regular: `SInv` is the invariant of
  `CompilerSlots_proof` and `hadError = "none" /\ regular => InStep`. That
  slots and stack agree *at a statement* is not inductive: between two
  statements there are operands, jumps waiting for their patch, a declared local
  whose value is still being computed, and functions left in the middle of an
  expression. The invariant `InStep` therefore lays out the whole of `todo` in
  advance. A `Layout` says, for one place among the tasks, which slots the
  function has and how many results lie above them, what the suspended functions
  and the loops of `loop_stack_` look like, and which pile every pending jump
  brings; `Yields` says which layout a task takes to which; `Laid` that the
  layouts of all the tasks to come fit together, and `Matches` that the first of
  them is the state's. So the two branches of an `if` can be compared before
  either is compiled, and leaving a function finds the stack that its caller
  was promised. The place after a jump may be dead code (`Is`). Each `compile_`
  function is a lemma that its tasks lie between the layout of the task they
  replace and the one after it (`LaidConcat` joins them with the rest), each
  instruction a lemma that the state it leaves is the second layout of its task.
  `hadError = "none"` is a premise of the properties and of the invariant: what
  follows a redeclaration is never run. What a new closure captures needs one
  invariant more, `CapturesAwait`, which does without the layouts and asks only
  that no variable was read in its own initializer: a captured local either
  has its value already, or a closure being compiled is that value: its
  `leaveFunction` is still to come and `mark` follows it. Which closure that is
  the state does not record, so the functions still to be left are counted
  (`Leaves`, `Awaited`): it is the one that the capture's level asks for.

Only model-checked: `ExceptionsLand` and `LexingEnds` (liveness), the safety
properties of `Lexer`, whose proofs are still to be written, and everything about
`ConstantFolding`, `Parser` and the IR. Out of
the prover's reach, and left to TLC throughout, are liveness under fairness,
`ENABLED`, induction over recursive data, and modules with `RECURSIVE`
operators (`Grammar`, `Parser`, `ConstantFolding`, `IRPasses` and with it
`IRBuilder`).

## 5. Not modelled, and what is left

* Code generation (`codegen.cpp`) prints the IR with its allocation and keeps
  no state. The examples and tests are programs and were used to read the code.
* Reports, dumps of tokens, trees and bytecode, and the colours of the terminal:
  wording and layout. What a report takes from the stores is the timeline,
  which is modelled.
* Builtins on numbers and strings, conversion and input: they are functions of
  their arguments. Index assignment in the compiler.
* The composition of `CompilerSlots` with `VMUpvalues`: the first shows that
  captured slots are closed (`CapturedAreClosed`), the second what follows from it.
* Encodings: 16-bit jumps, 8-bit slots and counts. Programs that exceed them are
  too long for TLC; the hazard is listed.
* The table of keywords in the lexer, which stands for itself.

What is left, in order:

1. The tokens of `Lexer` as a theorem: `TokensKeepTheirText` needs the scanner's
   position tied to the end of the last token.
2. The composition of `CompilerSlots` with `VMUpvalues`, so that the discipline
   which the second takes as a guard is, in one behaviour, what the first emits.
3. Larger instances of `compiler_slots` and `ir`, which end at the forms that
   one construct nested in another takes.
