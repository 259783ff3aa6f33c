----------------------------- MODULE IRBuilder ------------------------------
(***************************************************************************)
(* Lowering of a function to the register IR (src/src/ir_builder.cpp).     *)
(*                                                                         *)
(* The function is chosen while it is lowered: `todo` holds what the       *)
(* lower_ functions in progress have still to do, the next task first, and *)
(* `regs` the registers that hold the results their callers wait for.      *)
(* Constants, types and operators are left out; what is kept is which      *)
(* register an instruction reads and writes, and the control flow.         *)
(*                                                                         *)
(* The builder keeps one register for each name and rebinds it at every    *)
(* let and assignment, in the order of the text, whatever branch or block  *)
(* they stand in.  Two history variables, which no action reads but to     *)
(* record more, follow that: the branches that were open when a name got   *)
(* its register, and the registers that were read through a name after one *)
(* of those branches had been left.                                        *)
(***************************************************************************)
EXTENDS Integers, Sequences, FiniteSets, SequencesExt

CONSTANTS
    Names,      \* names of variables
    Params,     \* the function's parameters, a sequence of names
    Languages   \* kinds of function: the forms they use, bounds on their size

AllForms == {"expression", "nothing", "let", "block", "if", "while", "return",
             "literal", "identifier", "unary", "binary", "call", "logic", "assign"}

ASSUME FunctionAssumption ==
    /\ Params \in Seq(Names)
    /\ Languages \subseteq [forms : SUBSET AllForms, nodes : Nat, args : Nat]

VARIABLES
    language,  \* the kind of the function lowered, chosen at the start
    todo,      \* tasks of the lower_ functions in progress
    regs,      \* registers returned and not yet consumed
    blocks,    \* current_fn_->blocks
    bb,        \* current_bb_, counted from 1
    nextReg,   \* current_fn_->next_reg
    locals,    \* locals_
    nodes,     \* statements and expressions lowered so far
    bound,     \* history: the branches open where each name got its register
    strays     \* history: the registers read out of the branch that wrote them

history == <<bound, strays>>
vars == <<language, todo, regs, blocks, bb, nextReg, locals, nodes, history>>

Forms == language.forms     \* the statements and expressions it may use
MaxNodes == language.nodes  \* bound on those that are lowered
MaxArgs == language.args    \* bound on the arguments of a call

NoReg == -1
Reg == 0 .. nextReg - 1

-----------------------------------------------------------------------------
(* Instructions.  "op" is any instruction that computes a value from the   *)
(* registers in srcs.                                                      *)

Instr(op, dst, srcs, to) == [op |-> op, dst |-> dst, srcs |-> srcs, to |-> to]
LoadConst(r)        == Instr("const", r, <<>>, <<>>)
LoadParam(r)        == Instr("param", r, <<>>, <<>>)
Copy(r, src)        == Instr("copy", r, <<src>>, <<>>)
Operation(r, srcs)  == Instr("op", r, srcs, <<>>)
Call(r, args)       == Instr("call", r, args, <<>>)
Ret(srcs)           == Instr("ret", NoReg, srcs, <<>>)
Br(b)               == Instr("br", NoReg, <<>>, <<b>>)
BrIf(cond, b, else) == Instr("brif", NoReg, <<cond>>, <<b, else>>)

Terminators == {"ret", "br", "brif"}

EmptyBlock == [instrs |-> <<>>, succ |-> {}]

Emit(bs, b, i) == [bs EXCEPT ![b].instrs = Append(@, i)]

EndBlock(bs, b, i) == [Emit(bs, b, i) EXCEPT ![b].succ = ToSet(i.to)]

Returned(bs, b) == bs[b].instrs # <<>> /\ Last(bs[b].instrs).op = "ret"

\* Mutation of JumpUnlessReturned: the successors are left empty.
JumpWithoutSuccessor(bs, b, target) ==
    IF Returned(bs, b) THEN bs ELSE Emit(bs, b, Br(target))

JumpUnlessReturned(bs, b, target) ==
    IF Returned(bs, b) THEN bs ELSE EndBlock(bs, b, Br(target))

AddBlocks(bs, n) == bs \o [i \in 1..n |-> EmptyBlock]

-----------------------------------------------------------------------------
(* Tasks *)

Do(what) == [do |-> what]
Expr == Do("expr")
Statements == Do("statements")
Block == Do("block")

Task == Head(todo)
TaskIs(what) == todo # <<>> /\ Task.do = what

\* The branches of the function that are open at this point, each by the
\* block it begins with.
Branches ==
    {t.elseBlock - 1 : t \in {u \in ToSet(todo) : u.do = "endThen"}}
        \cup {t.merge - 1 : t \in {u \in ToSet(todo) : u.do \in {"endElse", "endLogic"}}}
        \cup {t.cond + 1 : t \in {u \in ToSet(todo) : u.do = "endWhile"}}

Pop(n) == SubSeq(regs, 1, Len(regs) - n)
Top == Last(regs)

-----------------------------------------------------------------------------
(* Function *)

ParamRegs == [name \in Names |->
    LET at == {i \in DOMAIN Params : Params[i] = name}
    IN  IF at = {} THEN NoReg ELSE (CHOOSE i \in at : \A j \in at : j <= i) - 1]

Init ==
    /\ language \in Languages
    /\ todo = <<Statements, Do("finish")>>
    /\ regs = <<>>
    /\ blocks = <<[EmptyBlock EXCEPT
                      !.instrs = [i \in DOMAIN Params |-> LoadParam(i - 1)]]>>
    /\ bb = 1
    /\ nextReg = Len(Params)
    /\ locals = ParamRegs
    /\ nodes = 0
    /\ bound = [name \in Names |-> {}]
    /\ strays = {}

\* Mutation of Finish: a block left open is not closed.
FinishWithoutRet ==
    /\ TaskIs("finish")
    /\ blocks' = [b \in DOMAIN blocks |->
                    IF blocks[b].instrs = <<>>
                    THEN [blocks[b] EXCEPT !.instrs = <<Ret(<<>>)>>]
                    ELSE blocks[b]]
    /\ todo' = Tail(todo)
    /\ UNCHANGED <<regs, bb, nextReg, locals, nodes, history>>

\* Every block gets a terminator.
Finish ==
    /\ TaskIs("finish")
    /\ blocks' = [b \in DOMAIN blocks |->
                    LET is == blocks[b].instrs
                    IN  IF is # <<>> /\ Last(is).op \in Terminators THEN blocks[b]
                        ELSE [blocks[b] EXCEPT !.instrs = Append(is, Ret(<<>>))]]
    /\ todo' = Tail(todo)
    /\ UNCHANGED <<regs, bb, nextReg, locals, nodes, history>>

-----------------------------------------------------------------------------
(* Statements *)

Statement(form, tasks) ==
    /\ TaskIs("statements")
    /\ form \in Forms
    /\ nodes < MaxNodes
    /\ nodes' = nodes + 1
    /\ todo' = tasks \o todo

LowerExprStmt ==
    /\ Statement("expression", <<Expr, Do("drop")>>)
    /\ UNCHANGED <<regs, blocks, bb, nextReg, locals, history>>

\* break, continue, for, free and nested functions are not lowered at all.
LowerNothing ==
    /\ Statement("nothing", <<>>)
    /\ UNCHANGED <<regs, blocks, bb, nextReg, locals, history>>

\* The parser gives every let an initializer.
LowerLet ==
    \E name \in Names :
        /\ Statement("let", <<Expr, [do |-> "bind", name |-> name]>>)
        /\ UNCHANGED <<regs, blocks, bb, nextReg, locals, history>>

Bind(name, r) ==
    /\ locals' = [locals EXCEPT ![name] = r]
    /\ bound' = [bound EXCEPT ![name] = Branches]
    /\ UNCHANGED strays

BindLet ==
    /\ TaskIs("bind")
    /\ Bind(Task.name, Top)
    /\ regs' = Pop(1)
    /\ todo' = Tail(todo)
    /\ UNCHANGED <<blocks, bb, nextReg, nodes>>

\* Names are not put back at the end of a block.
LowerBlock ==
    /\ \/ Statement("block", <<Statements>>)
       \/ /\ TaskIs("block")
          /\ todo' = <<Statements>> \o Tail(todo)
          /\ UNCHANGED nodes
    /\ UNCHANGED <<regs, blocks, bb, nextReg, locals, history>>

EndStatements ==
    /\ TaskIs("statements")
    /\ todo' = Tail(todo)
    /\ UNCHANGED <<regs, blocks, bb, nextReg, locals, nodes, history>>

\* The value of an expression statement is not used.
DropValue ==
    /\ TaskIs("drop")
    /\ regs' = Pop(1)
    /\ todo' = Tail(todo)
    /\ UNCHANGED <<blocks, bb, nextReg, locals, nodes, history>>

Else == {"none", "block", "if"}

LowerIf ==
    /\ \E else \in Else :
          LET tasks == <<Expr, [do |-> "ifBranch", else |-> else]>>
          IN  \/ Statement("if", tasks)
              \/ /\ TaskIs("else if")
                 /\ nodes < MaxNodes
                 /\ nodes' = nodes + 1
                 /\ todo' = tasks \o Tail(todo)
    /\ UNCHANGED <<regs, blocks, bb, nextReg, locals, history>>

IfBranch ==
    /\ TaskIs("ifBranch")
    /\ LET then  == Len(blocks) + 1
           merge == IF Task.else = "none" THEN then + 1 ELSE then + 2
       IN  /\ blocks' = AddBlocks(EndBlock(blocks, bb, BrIf(Top, then, then + 1)),
                                  merge - Len(blocks))
           /\ bb' = then
           /\ todo' = <<Block, [do |-> "endThen", else |-> Task.else,
                                elseBlock |-> then + 1, merge |-> merge]>> \o Tail(todo)
    /\ regs' = Pop(1)
    /\ UNCHANGED <<nextReg, locals, nodes, history>>

EndThen ==
    /\ TaskIs("endThen")
    /\ blocks' = JumpUnlessReturned(blocks, bb, Task.merge)
    /\ bb' = Task.elseBlock
    /\ todo' = CASE Task.else = "none"  -> Tail(todo)
                 [] Task.else = "block" -> <<Block, [do |-> "endElse", merge |-> Task.merge]>>
                                            \o Tail(todo)
                 [] Task.else = "if"    -> <<Do("else if"),
                                             [do |-> "endElse", merge |-> Task.merge]>>
                                            \o Tail(todo)
    /\ UNCHANGED <<regs, nextReg, locals, nodes, history>>

EndElse ==
    /\ TaskIs("endElse")
    /\ blocks' = JumpUnlessReturned(blocks, bb, Task.merge)
    /\ bb' = Task.merge
    /\ todo' = Tail(todo)
    /\ UNCHANGED <<regs, nextReg, locals, nodes, history>>

LowerWhile ==
    /\ LET cond == Len(blocks) + 1
       IN  /\ Statement("while", <<Expr, [do |-> "whileBranch", cond |-> cond]>>)
           /\ blocks' = AddBlocks(EndBlock(blocks, bb, Br(cond)), 3)
           /\ bb' = cond
    /\ UNCHANGED <<regs, nextReg, locals, history>>

WhileBranch ==
    /\ TaskIs("whileBranch")
    /\ LET body == Task.cond + 1
       IN  /\ blocks' = EndBlock(blocks, bb, BrIf(Top, body, body + 1))
           /\ bb' = body
    /\ todo' = <<Block, [do |-> "endWhile", cond |-> Task.cond]>> \o Tail(todo)
    /\ regs' = Pop(1)
    /\ UNCHANGED <<nextReg, locals, nodes, history>>

EndWhile ==
    /\ TaskIs("endWhile")
    /\ blocks' = JumpUnlessReturned(blocks, bb, Task.cond)
    /\ bb' = Task.cond + 2
    /\ todo' = Tail(todo)
    /\ UNCHANGED <<regs, nextReg, locals, nodes, history>>

LowerReturn ==
    \/ /\ Statement("return", <<Expr, Do("return")>>)
       /\ UNCHANGED <<regs, blocks, bb, nextReg, locals, history>>
    \/ /\ Statement("return", <<>>)
       /\ blocks' = Emit(blocks, bb, Ret(<<>>))
       /\ UNCHANGED <<regs, bb, nextReg, locals, history>>

EmitReturn ==
    /\ TaskIs("return")
    /\ blocks' = Emit(blocks, bb, Ret(<<Top>>))
    /\ regs' = Pop(1)
    /\ todo' = Tail(todo)
    /\ UNCHANGED <<bb, nextReg, locals, nodes, history>>

-----------------------------------------------------------------------------
(* Expressions *)

\* Mutation of LowerLiteral: the register is used before it is allocated.
LowerLiteralUnallocated ==
    /\ TaskIs("expr")
    /\ "literal" \in Forms
    /\ blocks' = Emit(blocks, bb, LoadConst(nextReg))
    /\ regs' = Append(regs, nextReg)
    /\ todo' = Tail(todo)
    /\ UNCHANGED <<bb, nextReg, locals, nodes, history>>

\* Literals, and the expressions that lowering does not support.
LowerLiteral ==
    /\ TaskIs("expr")
    /\ "literal" \in Forms
    /\ blocks' = Emit(blocks, bb, LoadConst(nextReg))
    /\ regs' = Append(regs, nextReg)
    /\ nextReg' = nextReg + 1
    /\ todo' = Tail(todo)
    /\ UNCHANGED <<bb, locals, nodes, history>>

\* An unknown name becomes a constant, like a literal.
LowerIdentifier ==
    /\ TaskIs("expr")
    /\ "identifier" \in Forms
    /\ \E name \in Names :
          /\ locals[name] # NoReg
          /\ regs' = Append(regs, locals[name])
          /\ strays' = IF bound[name] \subseteq Branches THEN strays
                       ELSE strays \cup {locals[name]}
    /\ todo' = Tail(todo)
    /\ UNCHANGED <<blocks, bb, nextReg, locals, nodes, bound>>

Compound(form, tasks) ==
    /\ TaskIs("expr")
    /\ form \in Forms
    /\ nodes < MaxNodes
    /\ nodes' = nodes + 1
    /\ todo' = tasks \o Tail(todo)
    /\ UNCHANGED <<regs, blocks, bb, nextReg, locals, history>>

Exprs(n) == [i \in 1..n |-> Expr]

LowerUnary == Compound("unary", <<Expr, [do |-> "operation", arity |-> 1]>>)

LowerBinary == Compound("binary", Exprs(2) \o <<[do |-> "operation", arity |-> 2]>>)

LowerCall ==
    \E n \in 0..MaxArgs : Compound("call", Exprs(n) \o <<[do |-> "call", arity |-> n]>>)

LowerLogic == \E op \in {"and", "or"} :
    Compound("logic", <<Expr, [do |-> "logicBranch", op |-> op]>>)

LowerAssign ==
    \E name \in Names : Compound("assign", <<Expr, [do |-> "assign", name |-> name]>>)

Operands(n) == SubSeq(regs, Len(regs) - n + 1, Len(regs))

EmitOperation ==
    /\ TaskIs("operation")
    /\ blocks' = Emit(blocks, bb, Operation(nextReg, Operands(Task.arity)))
    /\ regs' = Append(Pop(Task.arity), nextReg)
    /\ nextReg' = nextReg + 1
    /\ todo' = Tail(todo)
    /\ UNCHANGED <<bb, locals, nodes, history>>

EmitCall ==
    /\ TaskIs("call")
    /\ blocks' = Emit(blocks, bb, Call(nextReg, Operands(Task.arity)))
    /\ regs' = Append(Pop(Task.arity), nextReg)
    /\ nextReg' = nextReg + 1
    /\ todo' = Tail(todo)
    /\ UNCHANGED <<bb, locals, nodes, history>>

\* Mutation of LogicBranch: the left value is not copied to the result.
LogicBranchWithoutCopy ==
    /\ TaskIs("logicBranch")
    /\ LET rhs == Len(blocks) + 1
           merge == rhs + 1
           targets == IF Task.op = "and" THEN BrIf(Top, rhs, merge) ELSE BrIf(Top, merge, rhs)
       IN  /\ blocks' = AddBlocks(EndBlock(blocks, bb, targets), 2)
           /\ bb' = rhs
           /\ todo' = <<Expr, [do |-> "endLogic", result |-> nextReg, merge |-> merge]>>
                      \o Tail(todo)
    /\ regs' = Pop(1)
    /\ nextReg' = nextReg + 1
    /\ UNCHANGED <<locals, nodes, history>>

LogicBranch ==
    /\ TaskIs("logicBranch")
    /\ LET rhs == Len(blocks) + 1
           merge == rhs + 1
           copied == Emit(blocks, bb, Copy(nextReg, Top))
           targets == IF Task.op = "and" THEN BrIf(Top, rhs, merge) ELSE BrIf(Top, merge, rhs)
       IN  /\ blocks' = AddBlocks(EndBlock(copied, bb, targets), 2)
           /\ bb' = rhs
           /\ todo' = <<Expr, [do |-> "endLogic", result |-> nextReg, merge |-> merge]>>
                      \o Tail(todo)
    /\ regs' = Pop(1)
    /\ nextReg' = nextReg + 1
    /\ UNCHANGED <<locals, nodes, history>>

EndLogic ==
    /\ TaskIs("endLogic")
    /\ blocks' = EndBlock(Emit(blocks, bb, Copy(Task.result, Top)), bb, Br(Task.merge))
    /\ regs' = Append(Pop(1), Task.result)
    /\ bb' = Task.merge
    /\ todo' = Tail(todo)
    /\ UNCHANGED <<nextReg, locals, nodes, history>>

EmitAssign ==
    /\ TaskIs("assign")
    /\ Bind(Task.name, Top)
    /\ todo' = Tail(todo)
    /\ UNCHANGED <<regs, blocks, bb, nextReg, nodes>>

Step ==
    \/ LowerExprStmt \/ LowerNothing \/ LowerLet \/ BindLet \/ LowerBlock
    \/ EndStatements \/ DropValue \/ LowerIf \/ IfBranch \/ EndThen
    \/ EndElse \/ LowerWhile \/ WhileBranch \/ EndWhile \/ LowerReturn \/ EmitReturn
    \/ LowerLiteral \/ LowerIdentifier \/ LowerUnary \/ LowerBinary \/ LowerCall
    \/ LowerLogic \/ LowerAssign \/ EmitOperation \/ EmitCall \/ LogicBranch
    \/ EndLogic \/ EmitAssign \/ Finish

Next == Step /\ UNCHANGED language

Spec == Init /\ [][Next]_vars

-----------------------------------------------------------------------------
(* Properties of the function lowered *)

Done == todo = <<>>

TypeOK ==
    /\ language \in Languages
    /\ \A t \in ToSet(todo) : t.do \in STRING
    /\ regs \in Seq(Reg)
    /\ bb \in DOMAIN blocks
    /\ locals \in [Names -> Reg \cup {NoReg}]
    /\ bound \in [Names -> SUBSET DOMAIN blocks]
    /\ strays \subseteq Reg
    /\ Done => regs = <<>>

\* The blocks control can go on to: none from a block that returns midway.
Flow(bs, b) ==
    IF \E i \in DOMAIN bs[b].instrs : bs[b].instrs[i].op = "ret" THEN {}
    ELSE bs[b].succ

RECURSIVE Reach(_, _, _)
\* The blocks reached from those of S; control leaves only the blocks of Open.
Reach(bs, S, Open) ==
    LET next == S \cup UNION {Flow(bs, b) : b \in S \cap Open}
    IN  IF next = S THEN S ELSE Reach(bs, next, Open)

Defines(i, r) == i.op \notin Terminators /\ i.dst = r

\* The instructions of a block up to its first return.
Alive(bs, b) ==
    {i \in DOMAIN bs[b].instrs : \A j \in 1 .. i - 1 : bs[b].instrs[j].op # "ret"}

\* Where control can arrive without register r having been written.
Undefined(bs, r) ==
    Reach(bs, {1}, {b \in DOMAIN bs : \A i \in DOMAIN bs[b].instrs :
                                          ~Defines(bs[b].instrs[i], r)})

\* The registers that have been written whenever an instruction reads them,
\* whatever path control takes to it.
WrittenBeforeRead(bs) ==
    {r \in Reg : \A b \in Undefined(bs, r) : \A i \in Alive(bs, b) :
        r \in ToSet(bs[b].instrs[i].srcs) => \E j \in 1 .. i - 1 : Defines(bs[b].instrs[j], r)}

\* Every block is one run of instructions that ends in a terminator, which
\* leads where the block's successors say; only returns can come earlier.
BlocksEndOnce ==
    Done => \A b \in DOMAIN blocks :
        LET is == blocks[b].instrs
        IN  /\ is # <<>>
            /\ Last(is).op \in Terminators
            /\ blocks[b].succ = ToSet(Last(is).to)
            /\ \A i \in 1 .. Len(is) - 1 : is[i].op \notin {"br", "brif"}

\* Whatever path control takes to an instruction, the registers it reads
\* have been written: values that join after a branch, the result of and/or
\* among them, are written on both sides.  The registers excepted are those
\* read through a name that a branch rebound, after that branch: there the
\* builder does take a register of the path not taken.
OperandsAreDefined == Done => Reg \ strays \subseteq WrittenBeforeRead(blocks)

\* Every function is well formed: its blocks, its types and its operands.
WellFormed == TypeOK /\ BlocksEndOnce /\ OperandsAreDefined
=============================================================================
