------------------------------ MODULE MCParser -------------------------------
(* The token classes for model checking.  Of the words the parser treats    *)
(* alike (break and continue; ref, deref and move) there is one.            *)
EXTENDS Parser

Every == {"lit", "id", "_", "(", ")", "[", "]", "{", "}", ",", ";", ":", ".", "=",
          "or", "and", "==", "<", "+", "-", "*", "not", "=>", "let", "fn", "if",
          "else", "while", "for", "in", "return", "break", "free", "new", "ref",
          "match", "when"}

Matches(name) == {name, "{", "}", ",", "match", "when", "=>", ";"}

Expressions == {"id", "(", ")", "[", "]", ".", "=", "-", "or", ";", ","}

Blocks == {"id", ")", "{", "}", ";", "=", "let", "if", "else", "fn"}

Vocabulary(classes, length, afterError) ==
    [classes |-> classes, length |-> length, afterError |-> afterError]

\* All classes; the nesting of expressions and the targets of assignments;
\* match expressions with each kind of pattern; errors inside of blocks.
AllVocabularies ==
    {Vocabulary(Every, 3, 1), Vocabulary(Expressions, 6, 0),
     Vocabulary(Matches("id"), 9, 0), Vocabulary(Matches("_"), 9, 0),
     Vocabulary(Blocks, 6, 2)}

-----------------------------------------------------------------------------
(* Programs with every construct: each kind of expression as a statement,   *)
(* the shorter ones in each place where a statement has an expression, and  *)
(* the operators in pairs of either order.                                  *)

Binary == {"or", "and", "==", "<", "+", "-", "*"}

Operations == {<<"id", o, "id", "-", "lit">> : o \in Binary} \cup {<<"id", "<", "id", o, "lit">> : o \in Binary}

Short ==
    { <<"lit">>, <<"[", "]">>, <<"id", "(", ")">>, <<"new", "id", "{", "}">>, <<"id", "=", "lit">>,
      <<"fn", "(", ")", "{", "}">>, <<"match", "id", "{", "}">> }

Long ==
    { <<"-", "not", "id">>, <<"(", "id", ")">>, <<"[", "id", ",", "lit", "]">>, <<"ref", "(", "id", ")">>,
      <<"id", "(", "lit", ",", "id", ")">>, <<"new", "id", "{", "id", ":", "lit", "}">>,
      <<"id", "=", "id", "=", "lit">>, <<"id", ".", "id", "=", "id">>, <<"id", "[", "id", "]", "=", "lit">>,
      <<"(", "id", ")", "=", "lit">>, <<"id", "(", ")", "=", "lit">>,
      <<"id", "(", "id", ")", ".", "id", "[", "lit", "]">>, <<"id", "=", "fn", "(", "id", ",", "_", ")", "{", "}">>,
      <<"new", "id", "{", "id", ":", "lit", ",", "id", ":", "id", "}">>,
      <<"match", "id", "{", "when", "lit", "=>", "id", ",", "when", "_", "=>", "lit", "}">>,
      <<"match", "id", "{", "when", "_", "+", "id", "=>", "lit", "}">> }

Block(s) == <<"{">> \o s \o <<"}">>
Jump == <<"break", ";">>

Statements(e) ==
    { e \o <<";">>, <<"let", "id", "=">> \o e \o <<";">>, <<"return">> \o e \o <<";">>,
      <<"free", "(">> \o e \o <<")", ";">>, <<"while">> \o e \o Block(Jump),
      <<"for", "id", "in">> \o e \o Block(<<>>), <<"if">> \o e \o Block(<<>>),
      <<"fn", "id", "(", "id", ")">> \o Block(e \o <<";">>) }

Compounds ==
    { <<"if", "id">> \o Block(<<>>) \o <<"else", "if", "lit">> \o Block(Jump) \o <<"else">> \o Block(<<>>),
      <<"for", "_", "in", "id">> \o Block(<<"while", "lit">> \o Block(Jump) \o <<"return", ";">>),
      Block(Block(<<"let", "id", "=", "lit", ";">>) \o <<"fn", "id", "(", ")">> \o Block(<<>>)) }

EveryConstruct ==
    {e \o <<";">> : e \in Operations \cup Long} \cup UNION {Statements(e) : e \in Short} \cup Compounds
=============================================================================
