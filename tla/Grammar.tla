------------------------------- MODULE Grammar -------------------------------
(***************************************************************************)
(* The reference the parser is checked against: the context-free grammar   *)
(* of docs/grammar.ebnf, rule by rule, and what it means for a sequence of *)
(* tokens to be derivable from a rule.                                     *)
(*                                                                         *)
(* A term of the grammar is a token class, a rule, a concatenation, an     *)
(* alternative, a repetition or an option.  Its meaning is the set of      *)
(* positions where a phrase that starts at p can end.  Token classes that  *)
(* the grammar treats alike have one name: "lit" is every literal,         *)
(* "==" both equalities, "<" the comparisons, "+" and "*" their levels.    *)
(***************************************************************************)
EXTENDS Naturals, Sequences

T(t)      == [op |-> "token", arg |-> {t}]
Id        == [op |-> "token", arg |-> {"id", "_"}]
R(rule)   == [op |-> "rule", arg |-> rule]
Cat(ts)   == [op |-> "cat", arg |-> ts]
Alt(ts)   == [op |-> "alt", arg |-> ts]
Rep(t)    == [op |-> "rep", arg |-> t]
Opt(t)    == [op |-> "opt", arg |-> t]
Unless(S, t) == [op |-> "unless", avoid |-> S, arg |-> t]

List(t) == Cat(<<t, Rep(Cat(<<T(","), t>>))>>)
Chain(operand, ops) == Cat(<<R(operand), Rep(Cat(<<ops, R(operand)>>))>>)
Call(word) == Cat(<<T(word), T("("), R("expression"), T(")")>>)

\* Some token of the concatenation ts occurs nowhere in s from p on.
Missing(s, ts, p) ==
    \E i \in DOMAIN ts : /\ ts[i].op = "token"
                         /\ \A q \in p .. Len(s) : s[q] \notin ts[i].arg

RECURSIVE Ends(_, _, _, _), CatEnds(_, _, _, _), RepEnds(_, _, _, _, _)

\* The ends of a phrase of t that starts at p of s, under the rules.
Ends(rules, s, t, p) ==
    CASE t.op = "token"  -> IF p <= Len(s) /\ s[p] \in t.arg THEN {p + 1} ELSE {}
      [] t.op = "rule"   -> Ends(rules, s, rules[t.arg], p)
      [] t.op = "cat"    -> IF Missing(s, t.arg, p) THEN {}
                            ELSE CatEnds(rules, s, t.arg, {p})
      [] t.op = "alt"    -> UNION {Ends(rules, s, t.arg[i], p) : i \in DOMAIN t.arg}
      [] t.op = "rep"    -> RepEnds(rules, s, t.arg, {}, {p})
      [] t.op = "opt"    -> {p} \cup Ends(rules, s, t.arg, p)
      [] t.op = "unless" -> IF p <= Len(s) /\ s[p] \in t.avoid THEN {}
                            ELSE Ends(rules, s, t.arg, p)

CatEnds(rules, s, ts, P) ==
    IF ts = <<>> \/ P = {} THEN P
    ELSE CatEnds(rules, s, Tail(ts), UNION {Ends(rules, s, Head(ts), p) : p \in P})

RepEnds(rules, s, t, done, fresh) ==
    IF fresh = {} THEN done
    ELSE LET next == UNION {Ends(rules, s, t, p) : p \in fresh}
         IN  RepEnds(rules, s, t, done \cup fresh, next \ (done \cup fresh))

Derivable(rules, rule, s) == Len(s) + 1 \in Ends(rules, s, R(rule), 1)

-----------------------------------------------------------------------------
(* docs/grammar.ebnf *)

Documented ==
  [ program     |-> Rep(R("declaration")),
    declaration |-> Alt(<<R("fn_decl"), R("let_decl"), R("statement")>>),
    fn_decl     |-> Cat(<<T("fn"), Id, R("signature")>>),
    signature   |-> Cat(<<T("("), Opt(List(Id)), T(")"), R("block")>>),
    let_decl    |-> Cat(<<T("let"), Id, T("="), R("expression"), T(";")>>),
    statement   |-> Alt(<<R("expr_stmt"), R("if_stmt"), R("while_stmt"),
                          R("for_stmt"), R("return_stmt"), R("jump_stmt"),
                          R("free_stmt"), R("block")>>),
    expr_stmt   |-> Cat(<<R("expression"), T(";")>>),
    if_stmt     |-> Cat(<<T("if"), R("expression"), R("block"),
                          Opt(Cat(<<T("else"),
                                    Alt(<<R("if_stmt"), R("block")>>)>>))>>),
    while_stmt  |-> Cat(<<T("while"), R("expression"), R("block")>>),
    for_stmt    |-> Cat(<<T("for"), Id, T("in"), R("expression"), R("block")>>),
    return_stmt |-> Cat(<<T("return"), Opt(R("expression")), T(";")>>),
    jump_stmt   |-> Cat(<<Alt(<<T("break"), T("continue")>>), T(";")>>),
    free_stmt   |-> Cat(<<Call("free"), T(";")>>),
    block       |-> Cat(<<T("{"), Rep(R("declaration")), T("}")>>),
    expression  |-> R("assignment"),
    assignment  |-> Cat(<<R("or_expr"), Opt(Cat(<<T("="), R("assignment")>>))>>),
    or_expr     |-> Chain("and_expr", T("or")),
    and_expr    |-> Chain("equality", T("and")),
    equality    |-> Chain("comparison", T("==")),
    comparison  |-> Chain("addition", T("<")),
    addition    |-> Chain("multiplication", Alt(<<T("+"), T("-")>>)),
    multiplication |-> Chain("unary", T("*")),
    unary       |-> Alt(<<Cat(<<Alt(<<T("-"), T("not")>>), R("unary")>>),
                          R("postfix")>>),
    postfix     |-> Cat(<<R("primary"), Rep(R("suffix"))>>),
    suffix      |-> Alt(<<Cat(<<T("("), Opt(List(R("expression"))), T(")")>>),
                          R("access")>>),
    access      |-> Alt(<<Cat(<<T("["), R("expression"), T("]")>>),
                          Cat(<<T("."), Id>>)>>),
    primary     |-> Alt(<<T("lit"), Id,
                          Cat(<<T("("), R("expression"), T(")")>>),
                          Cat(<<T("["), Opt(List(R("expression"))), T("]")>>),
                          R("new_expr"), Call("ref"), Call("deref"), Call("move"),
                          Cat(<<T("fn"), R("signature")>>),
                          Cat(<<T("match"), R("expression"),
                                T("{"), Rep(R("match_arm")), T("}")>>)>>),
    new_expr    |-> Cat(<<T("new"), Id, T("{"),
                          Opt(List(Cat(<<Id, T(":"), R("expression")>>))),
                          T("}")>>),
    match_arm   |-> Cat(<<T("when"), R("pattern"), T("=>"), R("expression"),
                          Opt(T(","))>>),
    pattern     |-> R("expression"),
    target      |-> Alt(<<Id, Cat(<<R("primary"), Rep(R("suffix")), R("access")>>),
                          Cat(<<T("("), R("target"), T(")")>>)>>) ]

\* Three forms that the document derives and the code turns down: an
\* assignment to what is no place (a parenthesized place is one), a statement
\* that begins with "fn" and is no function declaration, and a pattern that
\* begins with "_" and goes on.
TurnedDown == {"other targets", "lambda statements", "wildcard expressions"}

\* The grammar without some of them.
Without(forms) ==
    [Documented EXCEPT
        !.assignment = IF "other targets" \notin forms THEN @
                       ELSE Alt(<<R("or_expr"), Cat(<<R("target"), T("="), R("assignment")>>)>>),
        !.expr_stmt  = IF "lambda statements" \in forms THEN Unless({"fn"}, @) ELSE @,
        !.pattern    = IF "wildcard expressions" \notin forms THEN @
                       ELSE Alt(<<T("_"), Unless({"_"}, R("expression"))>>)]
=============================================================================
