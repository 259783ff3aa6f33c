--------------------------- MODULE MCCompilerSlots ---------------------------
(* Small programs of every form, and larger ones of loops and their jumps,  *)
(* and of the scopes that declare what they use.                            *)
EXTENDS CompilerSlots

Branches == {"let", "if", "while", "break", "continue"}

Jumps == {"let", "block", "while", "break", "continue"}

Scopes == {"let", "block", "for", "fn", "while", "identifier"}

Calls == {"let", "call", "array", "match", "print", "fn", "identifier"}

Captures == {"fn", "lambda", "return", "let", "assign", "identifier"}

Language(forms, names, size, args) ==
    [forms |-> forms, names |-> names, nodes |-> size, args |-> args]

SmallOrNested == {Language(AllForms, {"x"}, 4, 0), Language(AllForms, {"x"}, 3, 1),
                  Language(Calls, {"x"}, 4, 1), Language(Branches, {"x"}, 5, 0),
                  Language(Jumps, {"x"}, 5, 0), Language(Scopes, {"x"}, 5, 0),
                  Language(Captures, {"x", "y"}, 5, 1)}

\* The forms with which slots and stack part.
Ifs == {Language({"let", "block", "if"}, {"x"}, 4, 0)}
Whiles == {Language({"let", "while", "break", "continue"}, {"x"}, 4, 0)}
Fors == {Language({"let", "for", "break", "continue"}, {"x"}, 4, 0)}
Matches == {Language({"let", "match"}, {"x"}, 3, 1)}
=============================================================================
