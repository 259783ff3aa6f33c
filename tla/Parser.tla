------------------------------- MODULE Parser --------------------------------
(***************************************************************************)
(* The recursive-descent parser (src/src/parser.cpp): one operator for     *)
(* each parse function.  A parse state holds what the functions change:    *)
(*                                                                         *)
(*   p     current_, the index of the token peek() returns;                *)
(*   e     the positions of errors_, in the order they were reported;      *)
(*   n     the kind of the node just returned, "null" for a nullptr;       *)
(*   hole  whether a nullptr was stored in the syntax tree.                *)
(*                                                                         *)
(* The tree itself is not kept: of a node only its kind matters, to the    *)
(* test of an assignment's target.  Tokens are named by the class the      *)
(* parser tells apart (see Grammar); "_" is the identifier of that name.   *)
(* The behaviour is the making of the input: it grows token by token, or   *)
(* it is one of some given programs, with a token edited; the properties   *)
(* speak of a parse of the tokens so far followed by Eof.                  *)
(***************************************************************************)
EXTENDS Naturals, Sequences, FiniteSets, FiniteSetsExt, SequencesExt, Grammar

CONSTANT
    Vocabularies    \* sets of token classes that inputs are made of, each with
                    \* bounds on the length of the input and on what follows
                    \* its first error
CONSTANT
    Programs        \* longer inputs, to edit

ASSUME VocabulariesAssumption ==
    \A v \in Vocabularies : v.length \in Nat /\ v.afterError \in Nat

VARIABLE tokens     \* tokens_ without its final Eof

-----------------------------------------------------------------------------
(* Looking, consuming, reporting *)

Tok(p) == IF p <= Len(tokens) THEN tokens[p] ELSE "eof"

Peek(st)  == Tok(st.p)
AtEnd(st) == Peek(st) = "eof"

Advance(st) == IF AtEnd(st) THEN st ELSE [st EXCEPT !.p = @ + 1]

ErrorAt(st, p) == [st EXCEPT !.e = Append(@, p)]
Error(st) == ErrorAt(st, st.p)

Expect(st, type) == IF Peek(st) = type THEN Advance(st) ELSE Error(st)

ExpectIdentifier(st) ==
    IF Peek(st) \in {"id", "_"} THEN Advance(st) ELSE Error(st)

StatementStarts ==
    {"let", "fn", "if", "while", "for", "return", "break", "continue", "free"}

\* Mutation of Synchronize: the problematic token itself is not skipped.
SynchronizeInPlace(st) ==
    [st EXCEPT !.p =
        Min({q \in st.p .. Len(tokens) + 1 :
                \/ Tok(q) = "eof"
                \/ q > 1 /\ Tok(q - 1) = ";"
                \/ Tok(q) \in StatementStarts})]

\* Skips the problematic token, then everything up to the next statement.
Synchronize(st) ==
    IF AtEnd(st) THEN st
    ELSE [st EXCEPT !.p =
             Min({q \in st.p + 1 .. Len(tokens) + 1 :
                     \/ Tok(q) = "eof"
                     \/ Tok(q - 1) = ";"
                     \/ Tok(q) \in StatementStarts})]

-----------------------------------------------------------------------------
(* Nodes *)

Node(st, kind) == [st EXCEPT !.n = kind]
Null(st) == Node(st, "null")

\* The node just returned becomes a child that should not be a nullptr.
Stored(st) == [st EXCEPT !.hole = @ \/ st.n = "null"]

RECURSIVE Do(_, _), ParseList(_), ParseParameters(_), ParseFields(_), ParseArms(_),
          ParseSuffixes(_), ParseOperators(_, _), ParseIf(_), ParseDeclarations(_),
          ParseProgram(_)

\* The functions that the ones before them call, see below.
Expression(st) == Do("expression", st)
Declaration(st) == Do("declaration", st)

-----------------------------------------------------------------------------
(* Primary expressions *)

\* expr { "," expr }, the loop of call arguments and array elements.
ParseList(st) ==
    LET element == Stored(Expression(st))
    IN  IF Peek(element) = "," THEN ParseList(Advance(element)) ELSE element

ParseListUpTo(st, close) ==
    Expect(IF Peek(st) = close THEN st ELSE ParseList(st), close)

ParseParameters(st) ==
    LET parameter == ExpectIdentifier(st)
    IN  IF Peek(parameter) = "," THEN ParseParameters(Advance(parameter)) ELSE parameter

ParseBlock(st) ==
    Node(Expect(ParseDeclarations(Expect(st, "{")), "}"), "stmt")

\* "(" [ parameters ] ")" block, of functions and of lambdas.
ParseSignature(st) ==
    LET open == Expect(st, "(")
        parameters == IF Peek(open) = ")" THEN open ELSE ParseParameters(open)
    IN  ParseBlock(Expect(parameters, ")"))

ParseFields(st) ==
    LET value == Stored(Expression(Expect(ExpectIdentifier(st), ":")))
    IN  IF Peek(value) = "," THEN ParseFields(Advance(value)) ELSE value

ParseNew(st) ==
    LET open == Expect(ExpectIdentifier(Advance(st)), "{")
        fields == IF Peek(open) = "}" THEN open ELSE ParseFields(open)
    IN  Node(Expect(fields, "}"), "expr")

\* ref, deref, move (and free, a statement): word "(" expression ")".
ParseWordCall(st) ==
    Expect(Stored(Expression(Expect(Advance(st), "("))), ")")

\* Mutation of ParseGroup: the closing parenthesis is optional.
ParseGroupUnclosed(st) ==
    LET inner == Expression(Advance(st))
    IN  IF Peek(inner) = ")" THEN Advance(inner) ELSE inner

\* Returns the inner node itself, a nullptr included.
ParseGroup(st) == Expect(Expression(Advance(st)), ")")

\* Mutation of ParseArm: the arrow is matched, not expected.
ParseArmWithoutArrow(st) ==
    LET when == Expect(st, "when")
        pattern == IF Peek(when) = "_" THEN Advance(when)
                   ELSE Stored(Expression(when))
        arrow == IF Peek(pattern) = "=>" THEN Advance(pattern) ELSE pattern
        body == Stored(Expression(arrow))
    IN  IF Peek(body) = "," THEN Advance(body) ELSE body

ParseArm(st) ==
    LET when == Expect(st, "when")
        pattern == IF Peek(when) = "_" THEN Advance(when)
                   ELSE Stored(Expression(when))
        body == Stored(Expression(Expect(pattern, "=>")))
    IN  IF Peek(body) = "," THEN Advance(body) ELSE body

ParseArms(st) ==
    IF Peek(st) \in {"}", "eof"} THEN st ELSE ParseArms(ParseArm(st))

ParseMatch(st) ==
    LET target == Stored(Expression(Advance(st)))
    IN  Node(Expect(ParseArms(Expect(target, "{")), "}"), "expr")

\* Mutation of ParseFailure: nothing is reported.
ParseFailureUnreported(st) == Null(Synchronize(st))

ParseFailure(st) == Null(Synchronize(Error(st)))

ParsePrimary(st) ==
    CASE Peek(st) = "lit" -> Node(Advance(st), "expr")
      [] Peek(st) \in {"id", "_"} -> Node(Advance(st), "id")
      [] Peek(st) = "(" -> ParseGroup(st)
      [] Peek(st) = "[" -> Node(ParseListUpTo(Advance(st), "]"), "expr")
      [] Peek(st) = "new" -> ParseNew(st)
      [] Peek(st) \in {"ref", "deref", "move"} -> Node(ParseWordCall(st), "expr")
      [] Peek(st) = "fn" /\ Tok(st.p + 1) = "(" ->
             Node(ParseSignature(Advance(st)), "expr")
      [] Peek(st) = "match" -> ParseMatch(st)
      [] OTHER -> ParseFailure(st)

-----------------------------------------------------------------------------
(* Operators *)

ParseSuffixes(st) ==
    CASE Peek(st) = "(" ->
             ParseSuffixes(Node(ParseListUpTo(Advance(st), ")"), "expr"))
      [] Peek(st) = "[" ->
             LET index == Stored(Expression(Advance(st)))
             IN  ParseSuffixes(Node(Expect(index, "]"), "index"))
      [] Peek(st) = "." ->
             ParseSuffixes(Node(ExpectIdentifier(Advance(st)), "field"))
      [] OTHER -> st

ParsePostfix(st) ==
    LET primary == ParsePrimary(st)
    IN  IF primary.n = "null" THEN primary ELSE ParseSuffixes(primary)

ParseUnary(st) ==
    IF Peek(st) \in {"-", "not"}
    THEN Node(Stored(Do("unary", Advance(st))), "expr")
    ELSE ParsePostfix(st)

\* parse_or, parse_and, parse_equality, parse_comparison, parse_addition and
\* parse_multiplication: one level of binary operators each.
Level(operators, operand) == [operators |-> operators, operand |-> operand]
BinaryLevels ==
    [or             |-> Level({"or"}, "and"),
     and            |-> Level({"and"}, "equality"),
     equality       |-> Level({"=="}, "comparison"),
     comparison     |-> Level({"<"}, "addition"),
     addition       |-> Level({"+", "-"}, "multiplication"),
     multiplication |-> Level({"*"}, "unary")]

ParseOperators(l, left) ==
    IF Peek(left) \notin BinaryLevels[l].operators THEN left
    ELSE LET right == Do(BinaryLevels[l].operand, Advance(left))
         IN  ParseOperators(l, Node(Stored(right), "expr"))

ParseLevel(l, st) ==
    LET left == Do(BinaryLevels[l].operand, st)
    IN  IF left.n = "null" THEN left ELSE ParseOperators(l, left)

\* The target is looked at after the value has been parsed.
ParseExpression(st) ==
    LET target == Do("or", st)
        value == Stored(Expression(Advance(target)))
    IN  IF target.n = "null" \/ Peek(target) # "=" THEN target
        ELSE Node(IF target.n \in {"id", "index", "field"} THEN value
                  ELSE ErrorAt(value, target.p), "expr")

-----------------------------------------------------------------------------
(* Statements.  parse_block never returns a nullptr, so the early returns  *)
(* of its callers are dead code.                                           *)

ParseExprStmt(st) ==
    LET expr == Expression(st)
    IN  IF expr.n = "null" THEN Null(Synchronize(Error(expr)))
        ELSE Node(Expect(expr, ";"), "stmt")

ParseLet(st) ==
    LET name == ExpectIdentifier(Advance(st))
    IN  IF Peek(name) # "=" THEN Null(Synchronize(Error(name)))
        ELSE Node(Expect(Stored(Expression(Advance(name))), ";"), "stmt")

ParseFn(st) == ParseSignature(ExpectIdentifier(Advance(st)))

ParseIf(st) ==
    LET then == ParseBlock(Stored(Expression(Advance(st))))
        else == Advance(then)
    IN  CASE Peek(then) # "else" -> then
          [] Peek(then) = "else" /\ Peek(else) = "if" -> ParseIf(else)
          [] OTHER -> ParseBlock(else)

ParseWhile(st) == ParseBlock(Stored(Expression(Advance(st))))

ParseFor(st) ==
    LET head == Expect(ExpectIdentifier(Advance(st)), "in")
    IN  ParseBlock(Stored(Expression(head)))

ParseReturn(st) ==
    LET keyword == Advance(st)
        value == IF Peek(keyword) = ";" THEN keyword ELSE Stored(Expression(keyword))
    IN  Node(Expect(value, ";"), "stmt")

ParseJump(st) == Node(Expect(Advance(st), ";"), "stmt")

ParseFree(st) == Node(Expect(ParseWordCall(st), ";"), "stmt")

ParseStatement(st) ==
    CASE Peek(st) = "if" -> ParseIf(st)
      [] Peek(st) = "while" -> ParseWhile(st)
      [] Peek(st) = "for" -> ParseFor(st)
      [] Peek(st) = "return" -> ParseReturn(st)
      [] Peek(st) \in {"break", "continue"} -> ParseJump(st)
      [] Peek(st) = "free" -> ParseFree(st)
      [] Peek(st) = "{" -> ParseBlock(st)
      [] OTHER -> ParseExprStmt(st)

ParseDeclaration(st) ==
    CASE Peek(st) = "let" -> ParseLet(st)
      [] Peek(st) = "fn" -> ParseFn(st)
      [] OTHER -> ParseStatement(st)

\* The function called, by the name of what it parses.
Do(what, st) ==
    CASE what = "expression" -> ParseExpression(st)
      [] what = "unary" -> ParseUnary(st)
      [] what = "declaration" -> ParseDeclaration(st)
      [] OTHER -> ParseLevel(what, st)

\* The statements of a block: up to its brace, the ones that failed left out.
ParseDeclarations(st) ==
    IF Peek(st) \in {"}", "eof"} THEN st ELSE ParseDeclarations(Declaration(st))

\* Mutation of ParseProgram: parse stops where a block would.
ParseProgramUpToBrace(st) == ParseDeclarations(st)

\* The loop of parse() goes on past a stray brace.
ParseProgram(st) == IF AtEnd(st) THEN st ELSE ParseProgram(Declaration(st))

Start == [p |-> 1, e |-> <<>>, n |-> "null", hole |-> FALSE]

Parse == ParseProgram(Start)

-----------------------------------------------------------------------------
(* The input *)

\* The leftmost error, or the end of the input.
FirstError ==
    LET errors == Parse.e
    IN  Min({Len(tokens) + 1} \cup {errors[i] : i \in DOMAIN errors})

Init == tokens \in {<<>>} \cup Programs

Read ==
    LET sinceError == Len(tokens) - FirstError
    IN  \E v \in Vocabularies :
            /\ ToSet(tokens) \subseteq v.classes
            /\ Len(tokens) < v.length
            /\ sinceError < v.afterError
            /\ \E t \in v.classes : tokens' = Append(tokens, t)

\* A token put in, left out or put in the place of another.
Edit ==
    /\ tokens \in Programs
    /\ \E i \in 1 .. Len(tokens) + 1 :
        \/ tokens' = RemoveAt(tokens, i)
        \/ \E t \in UNION {v.classes : v \in Vocabularies} :
            \/ tokens' = InsertAt(tokens, i, t)
            \/ i <= Len(tokens) /\ tokens' = ReplaceAt(tokens, i, t)

Spec == Init /\ [][Read \/ Edit]_tokens

-----------------------------------------------------------------------------
(* Properties *)

\* The parse ends at Eof, whatever the input, and every error is at a token.
TypeOK ==
    LET st == Parse
    IN  /\ ToSet(tokens) \subseteq UNION {v.classes : v \in Vocabularies}
        /\ st.p = Len(tokens) + 1
        /\ \A i \in DOMAIN st.e : st.e[i] \in 1 .. Len(tokens) + 1

\* The three loops that run until a brace or Eof (parse, parse_block, the
\* arms of a match) consume a token on every turn, also when what they parse
\* is broken: recovery cannot leave the parser where it was.
RecoveryMakesProgress ==
    /\ TypeOK
    /\ tokens # <<>> => /\ Declaration(Start).p > 1
                     /\ ParseArm(Start).p > 1

\* The parser accepts exactly the programs that the grammar without these
\* forms derives.
AcceptsWithout(forms) ==
    (Parse.e = <<>>) = Derivable(Without(forms), "program", tokens)

\* The parser accepts the programs that the grammar of the document derives,
\* but for the three forms of TurnedDown, and no others.
AcceptsTheGrammar == AcceptsWithout(TurnedDown)

\* An expression that begins with a lambda is a statement, as expr_stmt of the
\* document has it; parse_declaration takes every "fn" for the beginning of a
\* function declaration.  Not the case.
AcceptsLambdaStatements == AcceptsWithout(TurnedDown \ {"lambda statements"})

\* A nullptr never enters a syntax tree unnoticed: what main runs, a program
\* without errors, has no child missing and has every statement it read.
BrokenTreesAreReported ==
    LET st == Parse
        first == Declaration(Start)
    IN  st.e = <<>> => /\ ~st.hole
                       /\ tokens # <<>> => first.n # "null"

=============================================================================
