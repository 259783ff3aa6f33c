-------------------------- MODULE ConstantFolding ---------------------------
(***************************************************************************)
(* The AST optimizer (src/src/optimizer.cpp) next to the two evaluations   *)
(* it has to agree with: the interpreter's eval_unary and eval_binary, and *)
(* the VM's arithmetic on what the compiler makes of the same tree.        *)
(*                                                                         *)
(* Values are <<type, payload>>.  Integers have a width, the way int64_t   *)
(* has: sums wrap, as the builds of this code do, and dividing the least   *)
(* integer by -1 traps, which ends the process.  Floats count units of a   *)
(* precision finer than the six decimals of std::to_string.  A string is a *)
(* sequence of characters; of those only the backslash, the letter n and   *)
(* the newline matter.                                                     *)
(*                                                                         *)
(* A literal node carries its value, which the interpreter and the         *)
(* optimizer use, and its lexeme, which the compiler reads again.  A call  *)
(* stands for every expression that is not a literal: it leaves a mark in  *)
(* the trace and returns what it likes.                                    *)
(***************************************************************************)
EXTENDS Integers, Sequences, SequencesExt, TLC

CONSTANTS
    IntMax,      \* the greatest integer
    Floats,      \* the floats that literals have, in units
    Unit,        \* units in 1.0
    Strings,     \* the strings that literals have
    Returned,    \* the values calls return
    MaxSize      \* bound on the operators above the innermost operand

ASSUME WidthAssumption == IntMax \in Nat \ {0} /\ Unit \in Nat \ {0} /\ MaxSize \in Nat

VARIABLES
    expr,    \* an expression, or an if statement over expressions
    size     \* the operators put on top of its innermost operand

-----------------------------------------------------------------------------
(* Values *)

Nil == <<"nil", 0>>
BoolValue(b) == <<"bool", b>>
IntValue(n) == <<"int", n>>
FloatValue(x) == <<"float", x>>
StringValue(s) == <<"string", s>>
Error(kind) == <<"error", kind>>
Trap == <<"trap", 0>>

Is(v, type) == v[1] = type
IsNumeric(v) == v[1] \in {"int", "float"}
Failed(v) == v[1] \in {"error", "trap"}
Truthy(v) == v # Nil /\ v # BoolValue(FALSE)

Wrap(n) == ((n + IntMax + 1) % (2 * IntMax + 2)) - IntMax - 1
ToFloat(v) == IF Is(v, "int") THEN v[2] * Unit ELSE v[2]

Quotient(a, b) ==
    LET q(x, y) == IF x >= 0 THEN x \div y ELSE -((-x) \div y)
    IN  IF b > 0 THEN q(a, b) ELSE q(-a, -b)
Remainder(a, b) == a - b * Quotient(a, b)

IsZero(v) == v = IntValue(0) \/ v = FloatValue(0)

ValuesEqual(a, b) ==
    IF IsNumeric(a) /\ IsNumeric(b) THEN ToFloat(a) = ToFloat(b) ELSE a = b

\* The text of a value, in characters that no literal has.
ValueToString(v) == IF Is(v, "string") THEN v[2] ELSE <<v[1], ToString(v[2])>>

\* Mutation of IntArithmetic: sums leave the width of the integers.
IntArithmeticUnbounded(op, a, b) ==
    CASE op \in {"+", "-", "*"} ->
             IntValue(IF op = "+" THEN a + b ELSE IF op = "-" THEN a - b ELSE a * b)
      [] op \in {"/", "%"} -> IF b = 0 THEN Trap ELSE IntValue(Quotient(a, b))
      [] OTHER -> BoolValue(IF op = "<" THEN a < b ELSE a = b)

IntArithmetic(op, a, b) ==
    CASE op = "+" -> IntValue(Wrap(a + b))
      [] op = "-" -> IntValue(Wrap(a - b))
      [] op = "*" -> IntValue(Wrap(a * b))
      [] op \in {"/", "%"} ->
             IF b = 0 \/ (b = -1 /\ a = -IntMax - 1) THEN Trap
             ELSE IntValue(IF op = "/" THEN Quotient(a, b) ELSE Remainder(a, b))
      [] op = "<" -> BoolValue(a < b)
      [] op = "==" -> BoolValue(a = b)

FloatArithmetic(op, a, b) ==
    CASE op = "+" -> FloatValue(a + b)
      [] op = "-" -> FloatValue(a - b)
      [] op = "*" -> FloatValue(Quotient(a * b, Unit))
      [] op = "/" -> FloatValue(Quotient(a * Unit, b))
      [] op = "<" -> BoolValue(a < b)

\* On two numbers: as integers, or both as floats.
Arithmetic(op, a, b) ==
    IF Is(a, "int") /\ Is(b, "int") THEN IntArithmetic(op, a[2], b[2])
    ELSE FloatArithmetic(op, ToFloat(a), ToFloat(b))

\* An order on strings; only its being one matters.
LessString(s, t) == Len(s) < Len(t)

-----------------------------------------------------------------------------
(* Expressions *)

UnaryOps == {"-", "not"}
BinaryOps == {"+", "-", "*", "/", "%", "==", "<"}
LogicOps == {"and", "or"}

Node(kind, op, kids, val, lexeme) ==
    [kind |-> kind, op |-> op, kids |-> kids, val |-> val, lexeme |-> lexeme]
Literal(v, lexeme) == Node("literal", "", <<>>, v, lexeme)
CallTo(v)          == Node("call", "", <<>>, v, Nil)
Unary(op, a)       == Node("unary", op, <<a>>, Nil, Nil)
Binary(op, a, b)   ==
    Node(IF op \in LogicOps THEN "logic" ELSE "binary", op, <<a, b>>, Nil, Nil)
If(cond, branches) == Node("if", "", <<cond>> \o branches, Nil, Nil)
Empty              == Node("block", "", <<>>, Nil, Nil)

Escaped(s) ==
    FlattenSeq([i \in DOMAIN s |->
        CASE s[i] = "newline" -> <<"backslash", "n">>
          [] s[i] = "backslash" -> <<"backslash", "backslash">>
          [] OTHER -> <<s[i]>>])

\* A literal of the program text: its lexeme spells its value.
Source(v) == Literal(v, IF Is(v, "string") THEN StringValue(Escaped(v[2])) ELSE v)

-----------------------------------------------------------------------------
(* Evaluation, on the interpreter's path ("tree walk") and on that of the  *)
(* compiler and the VM ("vm").  It yields the calls made, the outcome and  *)
(* the values popped off the VM's stack that were not pushed.              *)

Result(calls, out) == [calls |-> calls, out |-> out, popped |-> 0]

EvalUnary(op, a) ==
    CASE op = "not" -> BoolValue(~Truthy(a))
      [] op = "-" /\ Is(a, "int") -> IntValue(Wrap(-a[2]))
      [] op = "-" /\ Is(a, "float") -> FloatValue(-a[2])
      [] OTHER -> Error("TypeMismatch")

\* Whether op computes on numbers of these types.
OnNumbers(op, a, b) ==
    IF op = "%" THEN Is(a, "int") /\ Is(b, "int") ELSE IsNumeric(a) /\ IsNumeric(b)

EvalBinary(op, a, b) ==
    IF op = "==" THEN BoolValue(ValuesEqual(a, b))
    ELSE IF OnNumbers(op, a, b) THEN
        IF op \in {"/", "%"} /\ IsZero(b) THEN Error("DivisionByZero")
        ELSE Arithmetic(op, a, b)
    ELSE IF op = "+" /\ (Is(a, "string") \/ Is(b, "string")) THEN
        StringValue(ValueToString(a) \o ValueToString(b))
    ELSE IF op = "<" /\ Is(a, "string") /\ Is(b, "string") THEN
        BoolValue(LessString(a[2], b[2]))
    ELSE Error("TypeMismatch")

\* Mutation of VMBinary: the remainder does not look for a zero.
VMBinaryUncheckedModulo(op, a, b) ==
    IF op = "==" THEN BoolValue(ValuesEqual(a, b))
    ELSE IF op = "/" /\ IsZero(b) THEN Error("DivisionByZero")
    ELSE IF OnNumbers(op, a, b) THEN Arithmetic(op, a, b)
    ELSE IF op = "+" /\ Is(a, "string") THEN StringValue(a[2] \o ValueToString(b))
    ELSE Error("TypeMismatch")

\* The VM looks for a zero before it looks at types, adds to a string only
\* from the left and orders numbers alone.
VMBinary(op, a, b) ==
    IF op = "==" THEN BoolValue(ValuesEqual(a, b))
    ELSE IF (op = "/" /\ IsZero(b)) \/ (op = "%" /\ b = IntValue(0))
    THEN Error("DivisionByZero")
    ELSE IF OnNumbers(op, a, b) THEN Arithmetic(op, a, b)
    ELSE IF op = "+" /\ Is(a, "string") THEN StringValue(a[2] \o ValueToString(b))
    ELSE Error("TypeMismatch")

RECURSIVE Unescaped(_)
Unescaped(s) ==
    IF s = <<>> THEN <<>>
    ELSE IF Head(s) = "backslash" /\ Len(s) > 1 /\ s[2] \in {"n", "backslash"}
    THEN <<IF s[2] = "n" THEN "newline" ELSE "backslash">> \o Unescaped(SubSeq(s, 3, Len(s)))
    ELSE <<Head(s)>> \o Unescaped(Tail(s))

\* The compiler reads the lexeme of a literal again.
CompileLiteral(lexeme) ==
    IF Is(lexeme, "string") THEN StringValue(Unescaped(lexeme[2])) ELSE lexeme

\* The first and then the second, unless one fails; combine gives the rest.
Both(first, second, combine(_, _)) ==
    IF Failed(first.out) THEN first
    ELSE Result(first.calls \o second.calls,
                IF Failed(second.out) THEN second.out ELSE combine(first.out, second.out))

\* What and and or leave: a boolean, or on the VM the operand itself.
LogicValue(v, path) == IF path = "vm" THEN v ELSE BoolValue(Truthy(v))

\* Without an else, the code for the branch taken runs into the Pop that is
\* meant for the branch not taken.
RECURSIVE Evaluate(_, _)
Evaluate(e, path) ==
    LET first == Evaluate(e.kids[1], path)
        second == Evaluate(e.kids[2], path)
    IN  CASE e.kind = "literal" ->
                 Result(<<>>, IF path = "vm" THEN CompileLiteral(e.lexeme) ELSE e.val)
          [] e.kind = "call" -> Result(<<e.val>>, e.val)
          [] e.kind = "unary" ->
                 IF Failed(first.out) THEN first
                 ELSE Result(first.calls, EvalUnary(e.op, first.out))
          [] e.kind = "logic" ->
                 IF ~Failed(first.out) /\ Truthy(first.out) = (e.op = "or")
                 THEN Result(first.calls, LogicValue(first.out, path))
                 ELSE Both(first, second, LAMBDA a, b : LogicValue(b, path))
          [] e.kind = "binary" ->
                 Both(first, second, LAMBDA a, b : IF path = "vm" THEN VMBinary(e.op, a, b)
                                                   ELSE EvalBinary(e.op, a, b))
          [] e.kind = "block" -> Result(<<>>, Nil)
          [] e.kind = "if" /\ Len(e.kids) = 3 ->
                 Both(first, IF Truthy(first.out) THEN second ELSE Evaluate(e.kids[3], path),
                      LAMBDA a, b : b)
          [] e.kind = "if" /\ Len(e.kids) = 2 ->
                 IF Failed(first.out) THEN first
                 ELSE IF ~Truthy(first.out) THEN Result(first.calls, Nil)
                 ELSE [Both(first, second, LAMBDA a, b : b) EXCEPT
                          !.popped = IF path = "vm" THEN 1 ELSE 0]

-----------------------------------------------------------------------------
(* The optimizer.  A fold that traps takes the optimizer with it: such a   *)
(* tree is a "trap" node.                                                  *)

Trapped == Node("trap", "", <<>>, Nil, Nil)

\* std::to_string prints fewer digits than a float has.
Printed(v) == IF Is(v, "float") THEN FloatValue(2 * Quotient(v[2], 2)) ELSE v

Folded(v) == IF v = Trap THEN Trapped ELSE Literal(v, Printed(v))

\* Mutation of Folds: the zero check is missing.
FoldsByZero(op, a, b) ==
    \/ Is(a, "int") /\ Is(b, "int") /\ op \notin {"and", "or"}
    \/ Is(a, "bool") /\ Is(b, "bool") /\ op \in {"and", "or", "=="}

\* The pairs of literals that try_fold_binary folds.
Folds(op, a, b) ==
    \/ Is(a, "int") /\ Is(b, "int") /\ op \notin {"and", "or"}
                    /\ ~(op \in {"/", "%"} /\ IsZero(b))
    \/ IsNumeric(a) /\ IsNumeric(b) /\ (Is(a, "float") \/ Is(b, "float"))
                    /\ op \in {"+", "-", "*", "/"} /\ ~(op = "/" /\ IsZero(b))
    \/ Is(a, "string") /\ Is(b, "string") /\ op = "+"
    \/ Is(a, "bool") /\ Is(b, "bool") /\ op \in {"and", "or", "=="}

FoldedValue(op, a, b) ==
    CASE Is(a, "bool") -> BoolValue(CASE op = "and" -> a[2] /\ b[2]
                                 [] op = "or"  -> a[2] \/ b[2]
                                 [] op = "=="  -> a[2] = b[2])
      [] Is(a, "string") -> StringValue(a[2] \o b[2])
      [] IsNumeric(a) -> Arithmetic(op, a, b)

\* Mutation of FoldBinary: true and x becomes x.
FoldBinaryLeftTrue(e) ==
    LET a == e.kids[1]
        b == e.kids[2]
    IN  IF e.op = "and" /\ a.kind = "literal" /\ a.val = BoolValue(TRUE) THEN b
        ELSE IF a.kind = "literal" /\ b.kind = "literal" /\ Folds(e.op, a.val, b.val)
        THEN Folded(FoldedValue(e.op, a.val, b.val))
        ELSE e

FoldBinary(e) ==
    LET a == e.kids[1]
        b == e.kids[2]
    IN  IF a.kind = "literal" /\ b.kind = "literal" /\ Folds(e.op, a.val, b.val)
        THEN Folded(FoldedValue(e.op, a.val, b.val))
        ELSE e

FoldUnary(e) ==
    LET a == e.kids[1]
    IN  IF a.kind = "literal" /\ IF e.op = "-" THEN IsNumeric(a.val) ELSE Is(a.val, "bool")
        THEN Folded(EvalUnary(e.op, a.val))
        ELSE e

ElseOf(e) == IF Len(e.kids) = 3 THEN e.kids[3] ELSE Empty

\* Mutation of DropBranch: any literal decides an if.
DropBranchOfLiteral(e) ==
    LET cond == e.kids[1]
    IN  CASE cond.kind = "literal" /\ cond.val = BoolValue(TRUE) -> e.kids[2]
          [] cond.kind = "literal" /\ cond.val # BoolValue(TRUE) -> ElseOf(e)
          [] OTHER -> e

\* Only the literals true and false decide an if.
DropBranch(e) ==
    LET cond == e.kids[1]
    IN  CASE cond.kind = "literal" /\ cond.val = BoolValue(TRUE) -> e.kids[2]
          [] cond.kind = "literal" /\ cond.val = BoolValue(FALSE) -> ElseOf(e)
          [] OTHER -> e

\* The children first, then the node itself.
RECURSIVE Optimize(_)
Optimize(e) ==
    LET kids == [i \in DOMAIN e.kids |-> Optimize(e.kids[i])]
        done == [e EXCEPT !.kids = kids]
    IN  IF \E i \in DOMAIN kids : kids[i] = Trapped THEN Trapped
        ELSE CASE e.kind \in {"binary", "logic"} -> FoldBinary(done)
               [] e.kind = "unary" -> FoldUnary(done)
               [] e.kind = "if" -> DropBranch(done)
               [] OTHER -> done

-----------------------------------------------------------------------------
(* Every small expression *)

Literals ==
    {Source(v) : v \in {IntValue(n) : n \in 0 .. IntMax}
                       \cup {FloatValue(x) : x \in Floats}
                       \cup {StringValue(s) : s \in Strings}
                       \cup {BoolValue(TRUE), BoolValue(FALSE), Nil}}

Operands ==
    Literals \cup {CallTo(v) : v \in Returned}
             \cup {Unary("-", Source(IntValue(n))) : n \in {1, IntMax}}

Init == expr \in Operands /\ size = 0

Grow(e) ==
    /\ size < MaxSize
    /\ expr.kind # "if"
    /\ expr' = e
    /\ size' = size + 1

AddUnary == \E op \in UnaryOps : Grow(Unary(op, expr))

AddBinary ==
    \E op \in BinaryOps \cup LogicOps, o \in Operands :
        Grow(Binary(op, expr, o)) \/ Grow(Binary(op, o, expr))

AddIf ==
    \/ Grow(If(expr, <<CallTo(Nil)>>))
    \/ \E o \in Operands : Grow(If(o, <<expr, o>>))

Next == AddUnary \/ AddBinary \/ AddIf

Spec == Init /\ [][Next]_<<expr, size>>

-----------------------------------------------------------------------------
(* Properties *)

RECURSIVE Within(_)
Within(e) == {e} \cup UNION {Within(e.kids[i]) : i \in DOMAIN e.kids}

\* A literal's payload is of its type, also after folding: integers keep
\* their width.
TypeOK ==
    \A e \in Within(Optimize(expr)) :
        e.kind = "literal" /\ Is(e.val, "int") => e.val[2] \in -IntMax - 1 .. IntMax

\* Unless it traps, folding changes nothing the interpreter does: neither
\* the value or the error, nor the calls made on the way and their order.
FoldingPreservesMeaning ==
    LET folded == Optimize(expr)
    IN  folded # Trapped => Evaluate(folded, "tree walk") = Evaluate(expr, "tree walk")

\* The optimizer traps only on the one division that traps at run time too:
\* a division by zero is left for the program to report.  The division need
\* not be in code that runs: there the optimizer ends a program that works.
TrapsOnlyOnOverflow ==
    Optimize(expr) = Trapped =>
        \E e \in Within(expr) : Evaluate(e, "tree walk").out = Trap

HasLiteral(types) == \E e \in Within(expr) : e.kind = "literal" /\ e.val[1] \in types

\* An if without else of which the branch alone is left.
DropsOnlyBranch ==
    /\ expr.kind = "if" /\ Len(expr.kids) = 2
    /\ LET cond == Optimize(expr.kids[1])
       IN  cond.kind = "literal" /\ cond.val = BoolValue(TRUE)

\* Unless it traps, folding changes nothing the VM does, for a program that
\* has no literals of these types, and no if without else whose condition
\* folds to true: of that, the stray Pop is folded away with the condition.
FoldingPreservesVMWithout(types) ==
    LET folded == Optimize(expr)
    IN  folded # Trapped /\ ~HasLiteral(types) /\ ~DropsOnlyBranch
        => Evaluate(folded, "vm") = Evaluate(expr, "vm")

\* The interpreter cannot tell a program from its folded form, unless folding
\* traps; nor can the VM, for a program without literals of floats and
\* strings (the compiler reads their text a second time, and folding writes a
\* text that does not survive it) and without such an if.
FoldingIsSound ==
    /\ TypeOK
    /\ FoldingPreservesMeaning
    /\ FoldingPreservesVMWithout({"float", "string"})
    /\ TrapsOnlyOnOverflow

\* The VM computes the same with floats, folded or not.  Not the case: the
\* folded literal has the six decimals of std::to_string.
FoldingKeepsFloats == FoldingPreservesVMWithout({"string"})

\* The VM prints the same strings, folded or not.  Not the case: the folded
\* literal is not escaped, and the compiler unescapes it.
FoldingKeepsStrings == FoldingPreservesVMWithout({"float"})

\* No and or or, which leave a boolean on one path and an operand on the
\* other.
Plain(e) == \A sub \in Within(e) : sub.kind # "logic"

\* The two execution paths make the same calls in the same order, fail on
\* the same expressions (not always with the same error) and yield the same
\* value; a condition of and or or has the same truth.  Strings, on which
\* they differ, are left aside.
PathsAgree ==
    LET walk == Evaluate(expr, "tree walk")
        vm == Evaluate(expr, "vm")
    IN  ~HasLiteral({"string"}) /\ (\A i \in DOMAIN expr.kids : Plain(expr.kids[i]))
        => /\ walk.calls = vm.calls
           /\ Failed(walk.out) = Failed(vm.out)
           /\ (walk.out = Trap) = (vm.out = Trap)
           /\ ~Failed(vm.out) =>
                  IF Plain(expr) THEN walk.out = vm.out ELSE Truthy(walk.out) = Truthy(vm.out)
=============================================================================
