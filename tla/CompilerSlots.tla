---------------------------- MODULE CompilerSlots ----------------------------
(***************************************************************************)
(* The bytecode compiler and the value stack of the code it emits.         *)
(*                                                                         *)
(* The compiler never sees the stack: it numbers the locals of a function  *)
(* in `locals` and counts on every local being, when the code runs, in the *)
(* slot of its number.  Here the compiler walks a program that is chosen   *)
(* while it goes: `todo` holds what the compile_ functions in progress     *)
(* have still to do, the next task first.  Next to it runs `point`, what   *)
(* the VM's stack holds, from the frame's base on, whenever execution is   *)
(* at the place where code is being emitted.                               *)
(*                                                                         *)
(* There are programs for which slots and stack part.  They are compiled   *)
(* like the others, and `regular` remembers that the program is one of     *)
(* them.  What the VM does with the upvalues that are resolved here is the *)
(* subject of VMUpvalues.                                                  *)
(***************************************************************************)
EXTENDS Integers, Sequences, FiniteSets, SequencesExt

CONSTANTS
    Languages   \* kinds of program: forms and names they use, bounds on their size

AllForms == {"expression", "let", "block", "if", "while", "for", "fn", "return",
             "free", "break", "continue", "identifier", "unary", "binary", "and",
             "or", "print", "call", "field", "index", "assign", "array", "new",
             "lambda", "match"}

(* The local in the slot of the function value has no name. *)
NoName == ""

HiddenNames == {NoName, "$iter", "$idx", "$match"}

ASSUME ParametersAssumption ==
    \A l \in Languages :
        /\ l.forms \subseteq AllForms
        /\ HiddenNames \cap l.names = {}
        /\ l.nodes \in Nat /\ l.args \in Nat

VARIABLES
    language,  \* the kind of the program compiled, chosen at the start
    todo,      \* tasks of the compile_ functions in progress
    locals,    \* current_->locals
    upvalues,  \* current_->upvalues
    depth,     \* current_->scope_depth
    outer,     \* the CompilerScopes around the current one, with their points
    loops,     \* Compiler::loop_stack_
    hadError,  \* had_error_, and by what
    point,     \* the VM's stack at the place of emission
    open,      \* the slots that closures made by the code so far may refer to
    jumps,     \* the points of the forward jumps that are not patched yet
    nodes,     \* statements and expressions compiled so far
    regular    \* history: nothing irregular has been compiled yet

vars == <<language, todo, locals, upvalues, depth, outer, loops, hadError, point, open,
          jumps, nodes, regular>>

Forms == language.forms     \* the statements and expressions it may use
Names == language.names     \* of variables, parameters and local functions
MaxNodes == language.nodes  \* bound on those that are compiled
MaxArgs == language.args    \* bound on parameters, arguments, fields and arms

----------------------------------------------------------------------------
(* Points.  A value on the stack is a local, as its name and the depth of  *)
(* its scope, or the result of an expression.                              *)
Temp == <<>>
Variable(l) == <<l.name, l.depth>>
Local(name, d) == [name |-> name, depth |-> d, initialized |-> FALSE, captured |-> FALSE]

At(stack) == [live |-> TRUE, stack |-> stack]
Dead == [live |-> FALSE, stack |-> <<>>]
Join(p, q) == IF p.live THEN p ELSE q
Agree(p, q) == p.live /\ q.live => p = q

Height == Len(point.stack)
Drop(s, n) == SubSeq(s, 1, Len(s) - n)
SlotsOf(ls) == [i \in DOMAIN ls |-> Variable(ls[i])]

(* What an instruction does to the stack. *)
Emit(pops, pushes) == [do |-> "emit", pops |-> pops, pushes |-> pushes]
Load == Emit(0, 1)
Pop == Emit(1, 0)
DefineGlobal == Emit(1, 0)
Free == Emit(1, 0)
SetName == Emit(1, 1)
Convert == Emit(1, 1)
GetField == Emit(1, 1)
Arithmetic == Emit(2, 1)
Index == Emit(2, 1)
SetField == Emit(2, 1)
SetIndex == Emit(3, 1)
MakeArray(n) == Emit(n, 1)
NewStruct(n) == Emit(2 * n, 1)
PrintValues(n) == Emit(n, 0)
Call(n) == Emit(n + 1, 1)

After(p, e) ==
    IF p.live
    THEN At(Drop(p.stack, e.pops) \o [i \in 1..e.pushes |-> Temp])
    ELSE Dead

(* The value on top becomes the local that was declared last. *)
Settled(p, ls) ==
    IF p.live /\ p.stack # <<>> /\ ls # <<>>
    THEN At([p.stack EXCEPT ![Len(p.stack)] = Variable(ls[Len(ls)])])
    ELSE p

----------------------------------------------------------------------------
(* Tasks. *)
Do(what) == [do |-> what]
Expr == Do("expr")
Statements == Do("statements")
Block == Do("block")
JumpAway == Do("jump")
JumpIfFalse == Do("jumpIfFalse")
Patch(k) == [do |-> "patch", nth |-> k]    \* of the pending jumps, from the last
Get(slot) == [do |-> "get", pops |-> 0, pushes |-> 1, slot |-> slot]
Set(slot) == [do |-> "set", pops |-> 0, pushes |-> 0, slot |-> slot]
GetUpvalue(k, name) == [do |-> "getUpvalue", pops |-> 0, pushes |-> 1, slot |-> k, name |-> name]
SetUpvalue(k, name) == [do |-> "setUpvalue", pops |-> 0, pushes |-> 0, slot |-> k, name |-> name]
Declare(name) == [do |-> "declare", name |-> name]
Exprs(n) == [i \in 1..n |-> Expr]

Task == Head(todo)
TaskIs(what) == todo # <<>> /\ Task.do = what
Level == Len(outer)

(* resolve_local: the innermost of the locals of that name, -1 for none. *)
ResolveLocal(ls, name) ==
    LET found == {i \in DOMAIN ls : ls[i].name = name}
    IN IF found = {} THEN -1 ELSE CHOOSE i \in found : \A j \in found : j <= i

(* Upvalues of the functions being compiled: those at level l > 0 capture   *)
(* from the one at l - 1, its locals or its own upvalues.                  *)
LocalsOf(l) == IF l = Level THEN locals ELSE outer[l + 1].locals
UpvaluesOf(l) == IF l = Level THEN upvalues ELSE outer[l + 1].upvalues

(* The innermost enclosing function with a local of that name.             *)
Home(name) ==
    LET levels == {l \in 0..(Level - 1) : ResolveLocal(LocalsOf(l), name) # -1}
    IN IF levels = {} THEN -1 ELSE CHOOSE l \in levels : \A m \in levels : m <= l

(* add_upvalue: the table with u in it, and u's place. *)
AddUpvalue(table, u) ==
    LET with == IF Contains(table, u) THEN table ELSE Append(table, u)
    IN [table |-> with, index |-> CHOOSE i \in DOMAIN with : with[i] = u]

(* Mutation of ResolveUpvalue: every function captures from the locals of  *)
(* the one around it.                                                      *)
ResolveUpvalueAsLocal(name, home) ==
    LET added[l \in (home + 1)..Level] ==
            AddUpvalue(UpvaluesOf(l),
                       [isLocal |-> TRUE,
                        index |-> IF l = home + 1 THEN ResolveLocal(LocalsOf(home), name)
                                                  ELSE added[l - 1].index])
    IN added

(* resolve_upvalue, whose recursion ends at the home of the name: the      *)
(* function inside of it captures the local, every further one an upvalue. *)
ResolveUpvalue(name, home) ==
    LET added[l \in (home + 1)..Level] ==
            AddUpvalue(UpvaluesOf(l),
                       [isLocal |-> l = home + 1,
                        index |-> IF l = home + 1 THEN ResolveLocal(LocalsOf(home), name)
                                                  ELSE added[l - 1].index])
    IN added

(* Mutation of MarkCaptured: the local is not marked. *)
MarkCapturedNothing(name, home, resolved) ==
    [i \in DOMAIN outer |->
        IF i - 1 > home THEN [outer[i] EXCEPT !.upvalues = resolved[i - 1].table]
        ELSE outer[i]]

MarkCaptured(name, home, resolved) ==
    [i \in DOMAIN outer |->
        CASE i - 1 > home -> [outer[i] EXCEPT !.upvalues = resolved[i - 1].table]
          [] i - 1 = home -> [outer[i] EXCEPT
                                !.locals[ResolveLocal(LocalsOf(home), name)].captured = TRUE]
          [] OTHER -> outer[i]]

(* declare_local: TRUE when the scope already has a local of that name. *)
Redeclared(ls, name, d) ==
    \E i \in DOMAIN ls : ls[i].name = name /\ ls[i].depth = d

Marked(ls) == IF ls = <<>> THEN ls ELSE [ls EXCEPT ![Len(ls)].initialized = TRUE]
AddLocal(ls, name, d) == Marked(Append(ls, Local(name, d)))
Complain(what) == IF hadError = "none" THEN what ELSE hadError

Init ==
    /\ language \in Languages
    /\ todo = <<Statements>>
    /\ locals = <<>>
    /\ upvalues = <<>>
    /\ depth = 0
    /\ outer = <<>>
    /\ loops = <<>>
    /\ hadError = "none"
    /\ point = At(<<>>)
    /\ open = {}
    /\ jumps = <<>>
    /\ nodes = 0
    /\ regular = TRUE

----------------------------------------------------------------------------
(* Statements. *)
Statement(form, tasks) ==
    /\ TaskIs("statements")
    /\ form \in Forms
    /\ nodes < MaxNodes
    /\ nodes' = nodes + 1
    /\ todo' = tasks \o todo

CompileExprStmt ==
    /\ Statement("expression", <<Expr, Pop>>)
    /\ UNCHANGED <<locals, depth, outer, loops, hadError, point, jumps>>

(* In a block the name is declared before the initializer is compiled. *)
CompileLet ==
    \E name \in Names :
        /\ Statement("let", <<Expr, IF depth > 0 THEN Do("mark") ELSE DefineGlobal>>)
        /\ LET redeclared == depth > 0 /\ Redeclared(locals, name, depth)
           IN /\ hadError' = IF redeclared THEN Complain("redeclared") ELSE hadError
              /\ locals' = IF depth > 0 /\ ~redeclared
                           THEN Append(locals, Local(name, depth))
                           ELSE locals
        /\ UNCHANGED <<depth, outer, loops, point, jumps>>

(* A block is a statement, the body of a loop or a branch of an if. *)
CompileBlock ==
    /\ \/ Statement("block", <<Statements, Do("end")>>)
       \/ /\ TaskIs("block")
          /\ todo' = <<Statements, Do("end")>> \o Tail(todo)
          /\ UNCHANGED nodes
    /\ depth' = depth + 1
    /\ UNCHANGED <<locals, outer, loops, hadError, point, jumps>>

(* An else branch is a block or, in a chain, the next if. *)
IfTasks(chain) ==
    {<<Expr, JumpIfFalse, Pop, Block, Patch(1), Pop>>} \cup
    {<<Expr, JumpIfFalse, Pop, Block, JumpAway, Patch(2), Pop, else, Patch(1)>> :
        else \in {Block} \cup IF chain THEN {Do("elseIf")} ELSE {}}

CompileIf ==
    \E tasks \in IfTasks(nodes < MaxNodes) :
        /\ \/ Statement("if", tasks)
           \/ /\ TaskIs("elseIf")
              /\ todo' = tasks \o Tail(todo)
              /\ nodes' = nodes + 1
        /\ UNCHANGED <<locals, depth, outer, loops, hadError, point, jumps>>

Loop(start) == [level |-> Level, depth |-> depth, start |-> start, breaks |-> {}]

CompileWhile ==
    /\ Statement("while", <<Expr, JumpIfFalse, Pop, Block, Do("loop"), Patch(1),
                            Pop, Do("endLoop")>>)
    /\ loops' = Append(loops, Loop(point))
    /\ UNCHANGED <<locals, depth, outer, hadError, point, jumps>>

CompileFor ==
    \E name \in Names :
        /\ Statement("for", <<Expr, [do |-> "for", name |-> name], Do("end")>>)
        /\ depth' = depth + 1
        /\ UNCHANGED <<locals, outer, loops, hadError, point, jumps>>

(* The rest of compile_for, when the array or string is on the stack: its  *)
(* hidden locals, and the loop, which loop_stack_ learns of only after the *)
(* body.                                                                   *)
(* Mutation of ForTasks: the new index is not popped after it is stored. *)
ForTasksWithoutPop(name, iter, idx, start) ==
    <<Get(idx), Load, Get(iter), Call(1), Arithmetic, JumpIfFalse, Pop,
      Do("begin"), Get(iter), Get(idx), Index, Declare(name), Block, Do("end"),
      [do |-> "pushLoop", start |-> start], Get(idx), Load, Arithmetic, Set(idx),
      Do("loop"), Patch(1), Pop, Do("endLoop")>>

ForTasks(name, iter, idx, start) ==
    <<Get(idx), Load, Get(iter), Call(1), Arithmetic, JumpIfFalse, Pop,
      Do("begin"), Get(iter), Get(idx), Index, Declare(name), Block, Do("end"),
      [do |-> "pushLoop", start |-> start], Get(idx), Load, Arithmetic, Set(idx),
      Pop, Do("loop"), Patch(1), Pop, Do("endLoop")>>

CompileForLoop ==
    /\ TaskIs("for")
    /\ LET withIter == AddLocal(locals, "$iter", depth)
           withIdx == AddLocal(withIter, "$idx", depth)
           start == Settled(After(Settled(point, withIter), Load), withIdx)
       IN /\ locals' = withIdx
          /\ point' = start
          /\ todo' = ForTasks(Task.name, ResolveLocal(withIdx, "$iter"),
                              ResolveLocal(withIdx, "$idx"), start) \o Tail(todo)
    /\ UNCHANGED <<depth, outer, loops, hadError, jumps, nodes>>

PushLoop ==
    /\ TaskIs("pushLoop")
    /\ loops' = Append(loops, Loop(Task.start))
    /\ todo' = Tail(todo)
    /\ UNCHANGED <<locals, depth, outer, hadError, point, jumps, nodes>>

CompileReturn ==
    /\ \E value \in {Expr, Load} : Statement("return", <<value, Do("return")>>)
    /\ UNCHANGED <<locals, depth, outer, loops, hadError, point, jumps>>

CompileFree ==
    /\ Statement("free", <<Expr, Free>>)
    /\ UNCHANGED <<locals, depth, outer, loops, hadError, point, jumps>>

(* Neither emits anything for the locals of the blocks that it leaves. *)
CompileJump(form, task) ==
    /\ Statement(form, IF loops = <<>> THEN <<>> ELSE <<task>>)
    /\ hadError' = IF loops = <<>> THEN Complain("outsideLoop") ELSE hadError
    /\ UNCHANGED <<locals, depth, outer, loops, point, jumps>>

CompileBreak == CompileJump("break", Do("break"))
CompileContinue == CompileJump("continue", Do("continue"))

EndStatements ==
    /\ TaskIs("statements")
    /\ todo' = Tail(todo)
    /\ UNCHANGED <<locals, depth, outer, loops, hadError, point, jumps, nodes>>

----------------------------------------------------------------------------
(* Functions. *)
ParameterLists == UNION {[1..n -> Names] : n \in 0..MaxArgs}

(* Below the arguments of a call lies the function value. *)
Callee == <<NoName, 1>>

AddParameter(ls, name) ==
    IF Redeclared(ls, name, 1) THEN Marked(ls) ELSE AddLocal(ls, name, 1)

(* Slot 0 is the callee's; a parameter declared twice is an error. *)
(* Mutation of ParameterLocals: no slot is kept for the callee. *)
ParameterLocalsWithoutCallee(params) ==
    LET declared[n \in 0..Len(params)] ==
            IF n = 0 THEN <<>> ELSE AddParameter(declared[n - 1], params[n])
    IN declared[Len(params)]

ParameterLocals(params) ==
    LET declared[n \in 0..Len(params)] ==
            IF n = 0 THEN AddLocal(<<>>, NoName, 1) ELSE AddParameter(declared[n - 1], params[n])
    IN declared[Len(params)]

(* compile_function_body, up to the statements of the body.  The chunk is  *)
(* new; loop_stack_ is not.                                                *)
EnterFunction(rest) ==
    \E params \in ParameterLists :
        /\ todo' = <<Statements, Load, Do("return"), Do("leaveFunction")>> \o rest
        /\ outer' = Append(outer, [locals |-> locals, upvalues |-> upvalues, depth |-> depth,
                                   point |-> point, open |-> open])
        /\ locals' = ParameterLocals(params)
        /\ upvalues' = <<>>
        /\ open' = {}
        /\ depth' = 1
        /\ point' = At(<<Callee>> \o [i \in DOMAIN params |-> <<params[i], 1>>])
        /\ hadError' = IF \E i, j \in DOMAIN params : i # j /\ params[i] = params[j]
                       THEN Complain("redeclared")
                       ELSE hadError
        /\ UNCHANGED <<loops, jumps>>

CompileFn ==
    \E name \in Names :
        /\ TaskIs("statements")
        /\ "fn" \in Forms
        /\ nodes < MaxNodes
        /\ nodes' = nodes + 1
        /\ EnterFunction(<<IF depth > 0
                           THEN [do |-> "declareFn", name |-> name]
                           ELSE DefineGlobal>> \o todo)

CompileLambda ==
    /\ TaskIs("expr")
    /\ "lambda" \in Forms
    /\ nodes < MaxNodes
    /\ nodes' = nodes + 1
    /\ EnterFunction(Tail(todo))

(* The function is complete; Closure captures variables of the enclosing   *)
(* one, and is on its stack.                                               *)
LeaveFunction ==
    /\ TaskIs("leaveFunction")
    /\ LET saved == outer[Level]
       IN /\ locals' = saved.locals
          /\ upvalues' = saved.upvalues
          /\ open' = saved.open \cup {u.index : u \in {v \in Range(upvalues) : v.isLocal}}
          /\ depth' = saved.depth
          /\ point' = After(saved.point, Load)
    /\ outer' = Drop(outer, 1)
    /\ todo' = Tail(todo)
    /\ UNCHANGED <<loops, hadError, jumps, nodes>>

DeclareFunction ==
    /\ TaskIs("declareFn")
    /\ LET redeclared == Redeclared(locals, Task.name, depth)
       IN /\ hadError' = IF redeclared THEN Complain("redeclared") ELSE hadError
          /\ locals' = IF redeclared THEN Marked(locals)
                                     ELSE AddLocal(locals, Task.name, depth)
    /\ point' = Settled(point, locals')
    /\ todo' = Tail(todo)
    /\ UNCHANGED <<depth, outer, loops, jumps, nodes>>

----------------------------------------------------------------------------
(* Expressions: the operands, then the instruction. *)
Compound(form, tasks) ==
    /\ TaskIs("expr")
    /\ form \in Forms
    /\ nodes < MaxNodes
    /\ nodes' = nodes + 1
    /\ todo' = tasks \o Tail(todo)
    /\ UNCHANGED <<locals, depth, outer, loops, hadError, point, jumps>>

CompileLiteral ==
    /\ TaskIs("expr")
    /\ todo' = <<Load>> \o Tail(todo)
    /\ UNCHANGED <<locals, depth, outer, loops, hadError, point, jumps, nodes>>

(* A local of this function, an upvalue or a global, read or assigned. *)
Access(name, assigned) ==
    LET slot == ResolveLocal(locals, name)
        home == Home(name)
    IN /\ \/ /\ slot # -1
             /\ todo' = <<IF assigned THEN Set(slot) ELSE Get(slot)>> \o Tail(todo)
             /\ UNCHANGED <<outer, upvalues>>
          \/ /\ slot = -1 /\ home # -1
             /\ LET resolved == ResolveUpvalue(name, home)
                IN /\ outer' = MarkCaptured(name, home, resolved)
                   /\ upvalues' = resolved[Level].table
                   /\ todo' = <<IF assigned THEN SetUpvalue(resolved[Level].index, name)
                                          ELSE GetUpvalue(resolved[Level].index, name)>>
                            \o Tail(todo)
          \/ /\ slot = -1 /\ home = -1
             /\ todo' = <<IF assigned THEN SetName ELSE Load>> \o Tail(todo)
             /\ UNCHANGED <<outer, upvalues>>
       /\ UNCHANGED <<locals, depth, loops, hadError, point, open, jumps>>

CompileIdentifier ==
    /\ TaskIs("expr")
    /\ "identifier" \in Forms
    /\ nodes < MaxNodes
    /\ nodes' = nodes + 1
    /\ \E name \in Names : Access(name, FALSE)

(* -, not, ref, deref and move. *)
CompileUnary == Compound("unary", <<Expr, Convert>>)
CompileBinary == Compound("binary", <<Expr, Expr, Arithmetic>>)
(* Mutation of CompileAnd: the left operand stays under the right one. *)
CompileAndWithoutPop == Compound("and", <<Expr, JumpIfFalse, Expr, Patch(1)>>)

CompileAnd == Compound("and", <<Expr, JumpIfFalse, Pop, Expr, Patch(1)>>)
CompileOr ==
    Compound("or", <<Expr, JumpIfFalse, JumpAway, Patch(2), Pop, Expr, Patch(1)>>)
(* Mutation of CompilePrint: the call has no value. *)
CompilePrintWithoutNil ==
    \E n \in 0..MaxArgs : Compound("print", Exprs(n) \o <<PrintValues(n)>>)

CompilePrint ==
    \E n \in 0..MaxArgs : Compound("print", Exprs(n) \o <<PrintValues(n), Load>>)
CompileCall == \E n \in 0..MaxArgs : Compound("call", <<Expr>> \o Exprs(n) \o <<Call(n)>>)
CompileIndex == Compound("index", <<Expr, Expr, Index>>)
CompileField == Compound("field", <<Expr, GetField>>)
CompileArray == \E n \in 0..MaxArgs : Compound("array", Exprs(n) \o <<MakeArray(n)>>)
CompileNew ==
    \E n \in 0..MaxArgs :
        Compound("new", Exprs(n) \o [i \in 1..n |-> Load] \o <<NewStruct(n)>>)

(* The value, then the target, whose name is resolved last. *)
CompileAssign ==
    \/ \E name \in Names : Compound("assign", <<Expr, [do |-> "assign", name |-> name]>>)
    \/ Compound("assign", <<Expr, Expr, SetField>>)
    \/ Compound("assign", <<Expr, Expr, Expr, SetIndex>>)

AssignName ==
    /\ TaskIs("assign")
    /\ Access(Task.name, TRUE)
    /\ UNCHANGED nodes

(* match: `n` arms with a pattern, then perhaps a wildcard, after which    *)
(* arms are not looked at.  The first arm makes a local of the target.     *)
Arm == <<Do("getMatch"), Expr, Arithmetic, JumpIfFalse, Pop, Expr, JumpAway, Patch(2), Pop>>

ArmTasks(n) ==
    LET arms[i \in 0..n] == IF i = 0 THEN <<>> ELSE arms[i - 1] \o Arm
    IN (IF n = 0 THEN <<>> ELSE <<Declare("$match")>>) \o arms[n]

MatchTasks(n, wildcard, last) ==
    <<Expr>>
    \o ArmTasks(n)
    \o (IF wildcard THEN <<Pop, Expr>> ELSE <<>>)
    \o (IF wildcard /\ last THEN <<>> ELSE <<Load>>)
    \o [i \in 1..n |-> Patch(1)]

Match(n, wildcard, last) ==
    /\ ~wildcard => last
    /\ Compound("match", MatchTasks(n, wildcard, last))

CompileMatch ==
    \E n \in 0..MaxArgs, wildcard, last \in BOOLEAN : Match(n, wildcard, last)

GetMatch ==
    /\ TaskIs("getMatch")
    /\ todo' = <<Get(ResolveLocal(locals, "$match"))>> \o Tail(todo)
    /\ UNCHANGED <<locals, depth, outer, loops, hadError, point, jumps, nodes>>

----------------------------------------------------------------------------
(* What the compile_ functions do between their statements and operands. *)
EmitInstruction ==
    /\ todo # <<>> /\ Task.do \in {"emit", "get", "set", "getUpvalue", "setUpvalue"}
    /\ point' = After(point, Task)
    /\ todo' = Tail(todo)
    /\ UNCHANGED <<locals, depth, outer, loops, hadError, jumps, nodes>>

(* Return, and emit_loop: what follows is not reached. *)
EmitExit ==
    /\ TaskIs("return") \/ TaskIs("loop") \/ TaskIs("continue")
    /\ point' = Dead
    /\ todo' = Tail(todo)
    /\ UNCHANGED <<locals, depth, outer, loops, hadError, jumps, nodes>>

(* emit_jump: Jump never falls through, JumpIfFalse leaves its operand. *)
EmitJump ==
    /\ TaskIs("jump") \/ TaskIs("jumpIfFalse")
    /\ jumps' = Append(jumps, point)
    /\ point' = IF TaskIs("jump") THEN Dead ELSE point
    /\ todo' = Tail(todo)
    /\ UNCHANGED <<locals, depth, outer, loops, hadError, nodes>>

Patched == Len(jumps) + 1 - Task.nth

PatchJump ==
    /\ TaskIs("patch")
    /\ point' = Join(point, jumps[Patched])
    /\ jumps' = [i \in 1..(Len(jumps) - 1) |-> jumps[IF i < Patched THEN i ELSE i + 1]]
    /\ todo' = Tail(todo)
    /\ UNCHANGED <<locals, depth, outer, loops, hadError, nodes>>

EmitBreak ==
    /\ TaskIs("break")
    /\ loops' = [loops EXCEPT ![Len(loops)].breaks = @ \cup {[level |-> Level, at |-> point]}]
    /\ point' = Dead
    /\ todo' = Tail(todo)
    /\ UNCHANGED <<locals, depth, outer, hadError, jumps, nodes>>

Breaks == {b.at : b \in {c \in loops[Len(loops)].breaks : c.level = Level /\ c.at.live}}

(* Mutation of EndLoop: the contexts of the loops around go as well. *)
EndLoopForgetsOuter ==
    /\ TaskIs("endLoop")
    /\ point' = IF Breaks = {} THEN point ELSE Join(point, CHOOSE p \in Breaks : TRUE)
    /\ loops' = <<>>
    /\ todo' = Tail(todo)
    /\ UNCHANGED <<locals, depth, outer, hadError, jumps, nodes>>

EndLoop ==
    /\ TaskIs("endLoop")
    /\ point' = IF Breaks = {} THEN point ELSE Join(point, CHOOSE p \in Breaks : TRUE)
    /\ loops' = Drop(loops, 1)
    /\ todo' = Tail(todo)
    /\ UNCHANGED <<locals, depth, outer, hadError, jumps, nodes>>

BeginScope ==
    /\ TaskIs("begin")
    /\ depth' = depth + 1
    /\ todo' = Tail(todo)
    /\ UNCHANGED <<locals, outer, loops, hadError, point, jumps, nodes>>

(* What is left of the locals when those of a scope of depth d and within  *)
(* it have been removed from the back.                                     *)
Outside(ls, d) ==
    SubSeq(ls, 1, CHOOSE n \in 0..Len(ls) : /\ n = 0 \/ ls[n].depth < d
                                            /\ \A i \in (n + 1)..Len(ls) : ls[i].depth >= d)

(* end_scope: Pop or CloseUpvalue for every local of the scope. *)
(* Mutation of EndScope: the locals go, but no Pop is emitted for them. *)
EndScopeWithoutPops ==
    /\ TaskIs("end")
    /\ depth' = depth - 1
    /\ locals' = Outside(locals, depth)
    /\ todo' = Tail(todo)
    /\ UNCHANGED <<outer, loops, hadError, point, jumps, nodes, upvalues, open>>

(* Mutation of EndScope: the locals of the scope stay declared. *)
EndScopeWithoutRemoval ==
    /\ TaskIs("end")
    /\ depth' = depth - 1
    /\ todo' = Tail(todo)
    /\ UNCHANGED <<locals, outer, loops, hadError, point, jumps, nodes, upvalues, open>>

EndScope ==
    /\ TaskIs("end")
    /\ depth' = depth - 1
    /\ locals' = Outside(locals, depth)
    /\ point' = After(point, Emit(Len(locals) - Len(locals'), 0))
    /\ open' = {i \in open : i <= Len(locals')}
    /\ todo' = Tail(todo)
    /\ UNCHANGED <<upvalues, outer, loops, hadError, jumps, nodes>>

(* add_local and mark_initialized, for a value that is on the stack. *)
DeclareLocal ==
    /\ TaskIs("declare")
    /\ locals' = AddLocal(locals, Task.name, depth)
    /\ point' = Settled(point, locals')
    /\ todo' = Tail(todo)
    /\ UNCHANGED <<depth, outer, loops, hadError, jumps, nodes>>

(* mark_initialized at the end of compile_let. *)
MarkInitialized ==
    /\ TaskIs("mark")
    /\ locals' = Marked(locals)
    /\ point' = Settled(point, locals')
    /\ todo' = Tail(todo)
    /\ UNCHANGED <<depth, outer, loops, hadError, jumps, nodes>>

(* The steps of a single function's code, and those that its upvalues take  *)
(* part in.                                                                *)
PlainStep ==
    \/ CompileExprStmt \/ CompileLet \/ CompileBlock \/ CompileIf \/ CompileWhile
    \/ CompileFor \/ CompileForLoop \/ PushLoop \/ CompileReturn \/ CompileFree
    \/ CompileBreak \/ CompileContinue \/ EndStatements
    \/ DeclareFunction
    \/ CompileLiteral \/ CompileUnary \/ CompileBinary
    \/ CompileAnd \/ CompileOr \/ CompilePrint \/ CompileCall \/ CompileIndex
    \/ CompileField \/ CompileArray \/ CompileNew \/ CompileAssign
    \/ CompileMatch \/ GetMatch
    \/ EmitInstruction \/ EmitExit \/ EmitJump
    \/ PatchJump \/ EmitBreak \/ EndLoop \/ BeginScope
    \/ DeclareLocal \/ MarkInitialized

ClosureStep ==
    CompileFn \/ CompileLambda \/ LeaveFunction \/ CompileIdentifier \/ AssignName \/ EndScope

CompileStep ==
    /\ (PlainStep /\ UNCHANGED <<upvalues, open>>) \/ ClosureStep
    /\ UNCHANGED language

----------------------------------------------------------------------------
(* Regular steps.  The language has no rule against the constructs that    *)
(* are irregular and the compiler takes them all, but its code for them    *)
(* takes slots and stack apart.                                            *)

(* The loop of the source around the statement, up to the function: "loop" *)
(* is for the body of a while, "pushLoop" for that of a for.               *)
Around ==
    LET marks == {i \in DOMAIN todo :
                      todo[i].do \in {"loop", "pushLoop", "leaveFunction"}}
        first == CHOOSE i \in marks : \A j \in marks : i <= j
    IN IF marks = {} THEN "leaveFunction" ELSE todo[first].do

LocalsToDrop == \E i \in DOMAIN locals : locals[i].depth > loops[Len(loops)].depth

(* A break or continue that is not rejected is directly in a while and     *)
(* leaves no block that has locals.                                        *)
RegularJump ==
    (CompileBreak \/ CompileContinue) /\ loops # <<>> => Around = "loop" /\ ~LocalsToDrop

(* In an if that has no else, the Pop that is meant for the condition when *)
(* it was false follows the then branch too: its end must be out of reach. *)
RegularIf == IsPrefix(<<Do("end"), Patch(1), Pop>>, todo) => ~point.live

(* A match is a wildcard alone, or patterns alone with no operand pending. *)
RegularMatch ==
    CompileMatch =>
        \E n \in 0..MaxArgs, wildcard, last \in BOOLEAN :
            /\ Match(n, wildcard, last)
            /\ \/ n = 0 /\ wildcard /\ last
               \/ /\ n > 0 /\ ~wildcard
                  /\ \E after \in {<<Pop, Statements>>, <<Do("return")>>} :
                         IsPrefix(<<Expr>> \o after, todo)

(* A variable may be captured before it has its value by the lambda that   *)
(* will be its value: Closure is about to put it in that slot.             *)
HasValue(l, slot) ==
    \/ LocalsOf(l)[slot].initialized
    \/ \E i \in DOMAIN todo :
           /\ todo[i].do = "leaveFunction" /\ todo[i + 1].do = "mark"
           /\ Cardinality({j \in 1..i : todo[j].do = "leaveFunction"}) = Level - l

(* No initializer of a let uses the name that the let declares.            *)
RegularAccess ==
    CompileIdentifier \/ AssignName =>
        LET access == Head(todo')
        IN /\ access.do \in {"get", "set"} => locals[access.slot].initialized
           /\ access.do \in {"getUpvalue", "setUpvalue"} =>
                  LET home == Home(access.name)
                  IN HasValue(home, ResolveLocal(LocalsOf(home), access.name))

Regular == RegularJump /\ RegularIf /\ RegularMatch /\ RegularAccess

Next == CompileStep /\ regular' = (regular /\ Regular)

Spec == Init /\ [][Next]_vars

----------------------------------------------------------------------------
(* Every task is one that some action performs.                            *)
TaskKinds == {"statements", "expr", "block", "elseIf", "for", "assign", "getMatch",
              "emit", "get", "set", "getUpvalue", "setUpvalue", "return", "break",
              "jump", "jumpIfFalse", "patch", "begin", "end", "declare", "mark",
              "declareFn", "leaveFunction", "pushLoop", "loop", "continue", "endLoop"}

(* Types of the state; every suspended function has a scope of its own.    *)
TypeOK ==
    /\ language \in Languages
    /\ \A i \in DOMAIN todo : todo[i].do \in TaskKinds
    /\ \A i \in DOMAIN locals :
           /\ locals[i].name \in Names \cup HiddenNames
           /\ locals[i].depth \in 0..depth
           /\ locals[i].initialized \in BOOLEAN
    /\ depth \in Nat
    /\ \A i \in DOMAIN outer : outer[i].depth \in Nat
    /\ open \subseteq DOMAIN locals
    /\ \A i \in DOMAIN loops : loops[i].level \in 0..Level
    /\ hadError \in {"none", "redeclared", "outsideLoop"}
    /\ point.live \in BOOLEAN
    /\ nodes \in 0..(2 * MaxNodes)

Compiled == hadError = "none" /\ point.live

(* Wherever a statement may begin, a scope or a loop ends, the stack holds *)
(* the function's locals in the slots of their numbers and nothing else:   *)
(* no operand is left behind, no local was removed too early or too late.  *)
(* Of irregular programs this is false: the grammar makes the else of an   *)
(* if optional, but after an if without one a local is gone from the stack *)
(* (compile_if).                                                           *)
StackHoldsLocals ==
    Compiled /\ (todo = <<>> \/ Task.do \in {"statements", "end", "endLoop"})
        => point.stack = SlotsOf(locals)

(* A slot that an instruction reads or writes is on the stack and is the   *)
(* slot of the variable that the name was resolved to.                     *)
SlotsFindVariable ==
    Compiled /\ todo # <<>> /\ Task.do \in {"get", "set"}
        => /\ Task.slot \in DOMAIN locals
           /\ Task.slot <= Height
           /\ point.stack[Task.slot] = Variable(locals[Task.slot])

(* What the upvalues of a function lead to, through the functions around.  *)
Denoted(l, k) ==
    LET found[m \in 1..Level] ==
            [i \in DOMAIN UpvaluesOf(m) |->
                LET u == UpvaluesOf(m)[i]
                IN IF u.isLocal THEN <<m - 1, u.index>> ELSE found[m - 1][u.index]]
    IN found[l][k]

(* An upvalue that an instruction reads or writes leads, through all the   *)
(* closures between, to the innermost variable of that name.               *)
UpvaluesFindVariable ==
    todo # <<>> /\ Task.do \in {"getUpvalue", "setUpvalue"}
        => LET home == Home(Task.name)
           IN Denoted(Level, Task.slot) = <<home, ResolveLocal(LocalsOf(home), Task.name)>>

(* When a closure is made, every slot that it captures is on the stack of  *)
(* the function that makes it and holds the variable; or it is the slot    *)
(* that the closure itself is about to take.                               *)
CapturesFindVariable ==
    hadError = "none" /\ TaskIs("leaveFunction") /\ outer[Level].point.live =>
        LET stack == outer[Level].point.stack
        IN \A u \in Range(upvalues) : u.isLocal =>
               \/ /\ u.index <= Len(stack)
                  /\ stack[u.index] = Variable(LocalsOf(Level - 1)[u.index])
               \/ /\ u.index = Len(stack) + 1 /\ u.index = Len(LocalsOf(Level - 1))
                  /\ todo[2].do = "mark"

(* However a variable is named, by its own function or by closures nested  *)
(* in it, code reaches its slot.  Chains of upvalues do in every program,  *)
(* slots and captures as long as it is regular.                            *)
AccessesFindVariable ==
    /\ UpvaluesFindVariable
    /\ regular => SlotsFindVariable /\ CapturesFindVariable

(* No slot that a closure may refer to is popped without being closed: the *)
(* contract that the VM's upvalues rely on.  Every program keeps it.       *)
CapturedAreClosed ==
    TaskIs("end") => \A i \in open : locals[i].depth >= depth => locals[i].captured

(* Instructions consume results of expressions, never the slot of a local, *)
(* and a conditional jump tests such a result.                             *)
InstructionsSpareLocals ==
    Compiled /\ todo # <<>> =>
        LET used == CASE Task.do \in {"emit", "get", "set"} -> Task.pops
                      [] Task.do \in {"jumpIfFalse", "return", "mark", "declareFn"} -> 1
                      [] OTHER -> 0
        IN used <= Height /\ \A i \in 0..(used - 1) : point.stack[Height - i] = Temp

(* Where two ways of execution meet, after an if, and, or, match or the    *)
(* breaks of a loop, they bring the same stack; and the breaks that a loop *)
(* patches are in its own chunk.  Of irregular programs this is false: the *)
(* arms of a match and its wildcard, as the README shows them, leave       *)
(* stacks of different heights (compile_match).                            *)
JoinsAgree ==
    hadError = "none" /\ todo # <<>> =>
        /\ Task.do = "patch" => Agree(point, jumps[Patched])
        /\ Task.do = "endLoop" =>
               \A b \in loops[Len(loops)].breaks : b.level = Level /\ Agree(point, b.at)

(* Going back to the start of a loop, at its end or by continue, finds the *)
(* stack as it was when the loop was entered, in the same function.  Of    *)
(* irregular programs this is false: break and continue in a while emit    *)
(* nothing for the locals of the blocks that they leave.                   *)
LoopsRestoreStack ==
    hadError = "none" /\ (TaskIs("loop") \/ TaskIs("continue")) =>
        /\ loops[Len(loops)].level = Level
        /\ Agree(point, loops[Len(loops)].start)

(* In every program, wherever the loop around a break or continue is a     *)
(* while, loop_stack_ ends with a loop of the same function: the statement *)
(* is not rejected, and not taken for one of another function's loop.      *)
(* compile_for enters its loop only after the body, so for a for there is  *)
(* no such promise: JumpsAreAccepted.                                      *)
JumpsFindLoop ==
    TaskIs("statements") /\ Around = "loop" => loops # <<>> /\ loops[Len(loops)].level = Level

(* The README shows break and continue in a for: in a loop of the source,  *)
(* neither is reported as an error.  The code does report them             *)
(* (compile_for, compiler.cpp:254).                                        *)
JumpsAreAccepted ==
    [][(CompileBreak \/ CompileContinue) /\ Around # "leaveFunction" => hadError' = hadError]_vars

(* As long as the program is regular, the compiler and the VM agree on the *)
(* stack at every point of the code.                                       *)
StackDiscipline ==
    /\ TypeOK
    /\ regular => /\ StackHoldsLocals
                  /\ InstructionsSpareLocals
                  /\ JoinsAgree
                  /\ LoopsRestoreStack
=============================================================================
