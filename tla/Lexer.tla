-------------------------------- MODULE Lexer --------------------------------
(***************************************************************************)
(* The lexer: one pass over the text of a program that leaves its tokens,  *)
(* and the places in the text that spans and reports name.                 *)
(*                                                                         *)
(* Offsets count from 0, as in the code.  A run of characters of one class *)
(* is taken in one step; strings and block comments, whose loops carry     *)
(* state, one character or pair of characters at a time.  The texts are    *)
(* all those over some alphabets up to a length; bytes outside of the      *)
(* classes below are the characters the language has no use for.           *)
(***************************************************************************)
EXTENDS Integers, Sequences, SequencesExt, FiniteSetsExt

CONSTANTS
    Texts,       \* sets of characters that texts are made of, and how long
    Keywords,    \* keywords_, as sequences of characters
    IntMax       \* the greatest int64_t

ASSUME ParametersAssumption ==
    /\ \A t \in Texts : t.length \in Nat
    /\ IntMax \in Nat

VARIABLES
    text,         \* text_
    current,      \* current_
    tokenStart,   \* token_start_
    tokens,       \* tokens_
    mode,         \* the loop in progress: scan_tokens, a string, a comment
    value,        \* the string value in the making
    depth         \* the nesting of block comments

vars == <<text, current, tokenStart, tokens, mode, value, depth>>

-----------------------------------------------------------------------------
(* Characters *)

Alphabet == UNION {t.chars : t \in Texts}
Digits == {"0", "9"}
DigitValue(c) == IF c = "0" THEN 0 ELSE 9
Letters == {"_", "i", "n", "x"}
Space == {" ", "\t", "\r", "\n"}

\* The characters that may follow each symbol within its token.
Seconds ==
    [c \in {"(", ")", "{", "}", "[", "]", ",", ":", ";", ".", "+", "-", "*", "/", "%"} |-> {}]
    @@ ("=" :> {">", "="} @@ "!" :> {"="} @@ "<" :> {"="} @@ ">" :> {"="})

Nul == "nul"

Escapes == "n" :> "\n" @@ "t" :> "\t" @@ "r" :> "\r" @@ "\\" :> "\\" @@ "\"" :> "\"" @@ "0" :> Nul

Char(i) == IF i \in 0 .. Len(text) - 1 THEN text[i + 1] ELSE Nul
AtEnd == current >= Len(text)
Peek == Char(current)
PeekNext == Char(current + 1)

\* Where the run of characters of a class that contains from - 1 ends.
RunEnd(from, class) == Min({i \in from .. Len(text) : Char(i) \notin class})

Lexeme(from, to) == SubSeq(text, from + 1, to)

Decimal(digits) == FoldLeft(LAMBDA n, c : 10 * n + DigitValue(c), 0, digits)

Token(type, from, to, val) == [type |-> type, from |-> from, to |-> to, value |-> val]

AddToken(type, from, to, val) == tokens' = Append(tokens, Token(type, from, to, val))
AddError(from, to) == AddToken("Error", from, to, <<>>)

HadErrors == \E k \in DOMAIN tokens : tokens[k].type = "Error"

Init ==
    /\ \E t \in Texts : text \in BoundedSeq(t.chars, t.length)
    /\ current = 0
    /\ tokenStart = 0
    /\ tokens = <<>>
    /\ mode = "code"
    /\ value = <<>>
    /\ depth = 0

-----------------------------------------------------------------------------
(* scan_token *)

Begin(to, next) ==
    /\ mode = "code" /\ ~AtEnd
    /\ tokenStart' = current
    /\ current' = to
    /\ mode' = next
    /\ UNCHANGED text

SkipSpace ==
    /\ Peek \in Space
    /\ Begin(current + 1, "code")
    /\ UNCHANGED <<tokens, value, depth>>

ScanSymbol ==
    /\ Peek \in DOMAIN Seconds
    /\ ~(Peek = "/" /\ PeekNext \in {"/", "*"})
    /\ LET to == IF PeekNext \in Seconds[Peek] THEN current + 2 ELSE current + 1
       IN  /\ Begin(to, "code")
           /\ IF Lexeme(current, to) = <<"!">> THEN AddError(current, to)
              ELSE AddToken("Symbol", current, to, <<>>)
    /\ UNCHANGED <<value, depth>>

UnknownCharacter ==
    /\ Peek \notin Space \cup DOMAIN Seconds \cup Digits \cup Letters \cup {"\""}
    /\ Begin(current + 1, "code")
    /\ AddError(current, current + 1)
    /\ UNCHANGED <<value, depth>>

\* Mutation of ScanNumber: a dot after digits belongs to the number.
ScanNumberWithDot ==
    /\ Peek \in Digits
    /\ LET whole == RunEnd(current + 1, Digits)
           to == IF Char(whole) = "." THEN RunEnd(whole + 1, Digits) ELSE whole
       IN  /\ Begin(to, "code")
           /\ AddToken(IF to > whole THEN "Float" ELSE "Int", current, to, <<>>)
    /\ UNCHANGED <<value, depth>>

\* strtoll yields the greatest integer for digits that stand for more.
ScanNumber ==
    /\ Peek \in Digits
    /\ LET whole == RunEnd(current + 1, Digits)
           isFloat == Char(whole) = "." /\ Char(whole + 1) \in Digits
           to == IF isFloat THEN RunEnd(whole + 1, Digits) ELSE whole
       IN  /\ Begin(to, "code")
           /\ IF isFloat THEN AddToken("Float", current, to, <<>>)
              ELSE AddToken("Int", current, to, <<Min({IntMax, Decimal(Lexeme(current, to))})>>)
    /\ UNCHANGED <<value, depth>>

ScanIdentifier ==
    /\ Peek \in Letters
    /\ LET to == RunEnd(current + 1, Letters \cup Digits)
           type == IF Lexeme(current, to) \in Keywords THEN "Keyword" ELSE "Identifier"
       IN  Begin(to, "code") /\ AddToken(type, current, to, <<>>)
    /\ UNCHANGED <<value, depth>>

\* Mutation of SkipLineComment: the end of the line is consumed as well.
SkipLineCommentAndNewline ==
    /\ Peek = "/" /\ PeekNext = "/"
    /\ Begin(RunEnd(current + 2, Alphabet \ {"\n"}) + 1, "code")
    /\ UNCHANGED <<tokens, value, depth>>

SkipLineComment ==
    /\ Peek = "/" /\ PeekNext = "/"
    /\ Begin(RunEnd(current + 2, Alphabet \ {"\n"}), "code")
    /\ UNCHANGED <<tokens, value, depth>>

\* The end of the text.
EmitEof ==
    /\ mode = "code" /\ AtEnd
    /\ mode' = "done"
    /\ tokenStart' = current
    /\ LET at == Max({0, Len(text) - 1}) IN AddToken("Eof", at, at, <<>>)
    /\ UNCHANGED <<text, current, value, depth>>

-----------------------------------------------------------------------------
(* scan_string *)

BeginString ==
    /\ Peek = "\""
    /\ Begin(current + 1, "string")
    /\ value' = <<>>
    /\ UNCHANGED <<tokens, depth>>

StringChar ==
    /\ mode = "string" /\ ~AtEnd /\ Peek \notin {"\"", "\\"}
    /\ current' = current + 1
    /\ value' = Append(value, Peek)
    /\ UNCHANGED <<text, tokenStart, tokens, mode, depth>>

InEscape == mode = "string" /\ Peek = "\\"

\* Mutation of StringEscape: an escape stands for its second character.
StringEscapeItself ==
    /\ InEscape /\ PeekNext \in DOMAIN Escapes
    /\ current' = current + 2
    /\ value' = Append(value, PeekNext)
    /\ UNCHANGED <<text, tokenStart, tokens, mode, depth>>

StringEscape ==
    /\ InEscape /\ PeekNext \in DOMAIN Escapes
    /\ current' = current + 2
    /\ value' = Append(value, Escapes[PeekNext])
    /\ UNCHANGED <<text, tokenStart, tokens, mode, depth>>

\* Mutation of UnknownEscape: it stands for itself, as it does for the compiler.
UnknownEscapeKept ==
    /\ InEscape /\ current + 1 < Len(text) /\ PeekNext \notin DOMAIN Escapes
    /\ current' = current + 2
    /\ value' = Append(Append(value, Peek), PeekNext)
    /\ UNCHANGED <<text, tokenStart, tokens, mode, depth>>

\* Gives up in the middle of the string: what follows is read as code.
UnknownEscape ==
    /\ InEscape /\ current + 1 < Len(text) /\ PeekNext \notin DOMAIN Escapes
    /\ current' = current + 2
    /\ AddError(tokenStart, current + 2)
    /\ mode' = "code"
    /\ UNCHANGED <<text, tokenStart, value, depth>>

UnterminatedString ==
    /\ mode = "string"
    /\ AtEnd \/ (InEscape /\ current + 1 = Len(text))
    /\ current' = Len(text)
    /\ AddError(tokenStart, Len(text))
    /\ mode' = "code"
    /\ UNCHANGED <<text, tokenStart, value, depth>>

EndString ==
    /\ mode = "string" /\ Peek = "\""
    /\ current' = current + 1
    /\ AddToken("String", tokenStart, current + 1, value)
    /\ mode' = "code"
    /\ UNCHANGED <<text, tokenStart, value, depth>>

-----------------------------------------------------------------------------
(* skip_block_comment *)

BeginComment ==
    /\ Peek = "/" /\ PeekNext = "*"
    /\ Begin(current + 2, "comment")
    /\ depth' = 1
    /\ UNCHANGED <<tokens, value>>

Opens == Peek = "/" /\ PeekNext = "*"
Closes == Peek = "*" /\ PeekNext = "/"

NestComment ==
    /\ mode = "comment" /\ Opens
    /\ current' = current + 2
    /\ depth' = depth + 1
    /\ UNCHANGED <<text, tokenStart, tokens, mode, value>>

\* Mutation of CloseComment: comments do not nest.
CloseCommentFlat ==
    /\ mode = "comment" /\ Closes
    /\ current' = current + 2
    /\ depth' = 0
    /\ mode' = "code"
    /\ UNCHANGED <<text, tokenStart, tokens, value>>

CloseComment ==
    /\ mode = "comment" /\ Closes
    /\ current' = current + 2
    /\ depth' = depth - 1
    /\ mode' = IF depth = 1 THEN "code" ELSE "comment"
    /\ UNCHANGED <<text, tokenStart, tokens, value>>

CommentChar ==
    /\ mode = "comment" /\ ~AtEnd /\ ~Opens /\ ~Closes
    /\ current' = current + 1
    /\ UNCHANGED <<text, tokenStart, tokens, mode, value, depth>>

\* Mutation of UnterminatedComment: the loop asks for the depth alone, and
\* what it reads behind the text never ends a comment.
UnterminatedCommentGoesOn ==
    /\ mode = "comment" /\ AtEnd
    /\ UNCHANGED vars

UnterminatedComment ==
    /\ mode = "comment" /\ AtEnd
    /\ AddError(tokenStart, current)
    /\ mode' = "code"
    /\ depth' = 0
    /\ UNCHANGED <<text, current, tokenStart, value>>

Next ==
    \/ SkipSpace \/ ScanSymbol \/ UnknownCharacter \/ ScanNumber \/ ScanIdentifier
    \/ SkipLineComment \/ EmitEof
    \/ BeginString \/ StringChar \/ StringEscape \/ UnknownEscape
    \/ UnterminatedString \/ EndString
    \/ BeginComment \/ NestComment \/ CloseComment \/ CommentChar \/ UnterminatedComment

\* The lexer runs alone: nothing keeps its loop from going on.
Spec == Init /\ [][Next]_vars /\ WF_vars(Next)

-----------------------------------------------------------------------------
(* Places: SourceFile's table of lines and what reports look up in it. *)

\* Mutation of LineOffsets: a line begins with the end of the one before.
LineOffsetsAtNewlines == <<0>> \o SetToSortSeq({i - 1 : i \in {k \in 1 .. Len(text) : text[k] = "\n"}}, <)

LineOffsets == <<0>> \o SetToSortSeq({i \in 1 .. Len(text) : text[i] = "\n"}, <)

\* The binary search for the line that an offset is on.
FirstBeyond(offset) ==
    LET offsets == LineOffsets
        search[lo \in 0 .. Len(offsets), hi \in 0 .. Len(offsets)] ==
            IF lo >= hi THEN lo
            ELSE LET mid == lo + (hi - lo) \div 2
                 IN  IF offsets[mid + 1] <= offset THEN search[mid + 1, hi] ELSE search[lo, mid]
    IN  search[0, Len(offsets)]

LocationFromOffset(offset) ==
    LET line == FirstBeyond(offset)
    IN  [line |-> line, column |-> offset - LineOffsets[line] + 1]

\* A line without its end, of either kind.
GetLine(line) ==
    LET from == LineOffsets[line]
        to == IF line < Len(LineOffsets) THEN LineOffsets[line + 1] - 1 ELSE Len(text)
    IN  Lexeme(from, IF to > from /\ Char(to - 1) = "\r" THEN to - 1 ELSE to)

\* compile_literal reads the escapes of a string once more, from its lexeme.
Unescaped(raw) ==
    LET from[i \in 1 .. Len(raw) + 1] ==
            IF i > Len(raw) THEN <<>>
            ELSE IF raw[i] = "\\" /\ i < Len(raw) /\ raw[i + 1] \in DOMAIN Escapes
            THEN <<Escapes[raw[i + 1]]>> \o from[i + 2]
            ELSE <<raw[i]>> \o from[i + 1]
    IN  from[1]

-----------------------------------------------------------------------------
(* The lexical grammar of docs/grammar.ebnf, as the spans from i up to but *)
(* not including j that are its words.  The code reads two forms that the  *)
(* document leaves out; forms names those that a use of the grammar adds.  *)

\* An end of line inside of a string, and the end of the text after a line
\* comment.
Undocumented == {"newline in string", "comment at end"}

All(i, j, class) == \A k \in i .. j - 1 : Char(k) \in class

IsWord(i, j) == i < j /\ Char(i) \in Letters /\ All(i, j, Letters \cup Digits)
IsInt(i, j) == i < j /\ All(i, j, Digits)
IsFloat(i, j) == \E k \in i .. j : IsInt(i, k) /\ Char(k) = "." /\ IsInt(k + 1, j)

IsSymbol(i, j) ==
    /\ Char(i) \in DOMAIN Seconds
    /\ j = i + 1 \/ (j = i + 2 /\ Char(i + 1) \in Seconds[Char(i)])
    /\ Lexeme(i, j) # <<"!">>
    /\ ~(Char(i) = "/" /\ Char(i + 1) \in {"/", "*"})

IsString(i, j, forms) ==
    LET special == {"\"", "\\"} \cup (IF "newline in string" \in forms THEN {} ELSE {"\n"})
        body[k \in i .. j + 1] ==
            \/ k = j - 1
            \/ k < j - 1 /\ Char(k) \notin special /\ body[k + 1]
            \/ k < j - 1 /\ Char(k) = "\\" /\ Char(k + 1) \in DOMAIN Escapes /\ body[k + 2]
    IN  i + 2 <= j /\ Char(i) = "\"" /\ Char(j - 1) = "\"" /\ body[i + 1]

IsLineComment(i, j, forms) ==
    /\ i + 2 <= j /\ Char(i) = "/" /\ Char(i + 1) = "/"
    /\ \A k \in i .. j - 2 : Char(k) # "\n"
    /\ Char(j - 1) = "\n" \/ ("comment at end" \in forms /\ j = Len(text))

IsBlockComment(i, j) ==
    LET open(k) == Char(k) = "/" /\ Char(k + 1) = "*"
        close(k) == Char(k) = "*" /\ Char(k + 1) = "/"
        inside[k \in 0 .. Len(text), l \in 0 .. Len(text)] ==
            \/ k = l
            \/ k < l /\ ~open(k) /\ ~close(k) /\ inside[k + 1, l]
            \/ /\ k < l /\ open(k)
               /\ \E m \in k + 4 .. l : close(m - 2) /\ inside[k + 2, m - 2] /\ inside[m, l]
    IN  i + 4 <= j /\ open(i) /\ close(j - 2) /\ inside[i + 2, j - 2]

IsBlank(i, j, forms) ==
    (j = i + 1 /\ Char(i) \in Space) \/ IsLineComment(i, j, forms) \/ IsBlockComment(i, j)

TypesOf(i, j, forms) ==
    UNION { IF IsWord(i, j) THEN {IF Lexeme(i, j) \in Keywords THEN "Keyword" ELSE "Identifier"}
            ELSE {},
            IF IsInt(i, j) THEN {"Int"} ELSE {},
            IF IsFloat(i, j) THEN {"Float"} ELSE {},
            IF IsSymbol(i, j) THEN {"Symbol"} ELSE {},
            IF IsString(i, j, forms) THEN {"String"} ELSE {},
            IF IsBlank(i, j, forms) THEN {"blank"} ELSE {} }

\* The words of the text, each the longest that begins where the one before
\* it ends; fewer than the text when one is missing.
Words(forms) ==
    LET ends(i) == {j \in i + 1 .. Len(text) : TypesOf(i, j, forms) # {}}
        from[i \in 0 .. Len(text)] ==
            IF i = Len(text) THEN [valid |-> TRUE, words |-> {}]
            ELSE IF ends(i) = {} THEN [valid |-> FALSE, words |-> {}]
            ELSE LET j == Max(ends(i))
                     rest == from[j]
                 IN  [rest EXCEPT !.words = @ \cup {<<t, i, j>> : t \in TypesOf(i, j, forms) \ {"blank"}}]
    IN  from[0]

-----------------------------------------------------------------------------
(* Properties *)

\* What the members of the lexer hold: offsets within the text, a depth only
\* inside of comments, and tokens in the order of the text.
TypeOK ==
    /\ current \in 0 .. Len(text) /\ tokenStart \in 0 .. current
    /\ mode \in {"code", "string", "comment", "done"}
    /\ depth \in 0 .. Len(text) /\ (depth > 0 <=> mode = "comment")
    /\ \A k \in DOMAIN tokens :
        /\ tokens[k].type \in {"Symbol", "Int", "Float", "Keyword", "Identifier", "String",
                               "Error", "Eof"}
        /\ 0 <= tokens[k].from /\ tokens[k].from <= tokens[k].to /\ tokens[k].to <= current
        /\ k > 1 /\ tokens[k].type # "Eof" => tokens[k - 1].to <= tokens[k].from

\* The lexer reports an error exactly for the texts that the grammar with
\* these forms added does not divide into words, and otherwise finds the
\* words it divides them into.
LexesWith(forms) ==
    mode = "done" =>
        LET w == Words(forms)
        IN  /\ HadErrors <=> ~w.valid
            /\ w.valid => {<<t.type, t.from, t.to>> : t \in ToSet(Front(tokens))} = w.words

\* The lexer reads the lexical grammar of the document and the two forms of
\* Undocumented, no other: no word is cut short, run into the next, or taken
\* out of a comment.
LexesTheGrammar == LexesWith(Undocumented)

\* A string does not hold an end of line, as the document says of CHAR; the
\* lexer reads on to the next quote, lines below.  Not the case.
StringsStayOnALine == LexesWith({"comment at end"})

\* A line comment ends with a NEWLINE, as the document says; the lexer also
\* takes the end of the text.  Not the case.
LineCommentsEndWithNewline == LexesWith({"newline in string"})

\* A string literal means the same on both execution paths: the interpreter
\* takes the value that the lexer found, the compiler unescapes the lexeme.
LexemesSpellValues ==
    \A t \in ToSet(tokens) :
        t.type = "String" => Unescaped(Lexeme(t.from + 1, t.to - 1)) = t.value

\* A report of a token names its line and column: the line shown has the
\* token's first character in that column, and as many lines before it as the
\* text has.
ReportsPointAtTokens ==
    mode = "done" =>
        \A t \in ToSet(Front(tokens)) :
            LET at == LocationFromOffset(t.from)
                shown == GetLine(at.line)
            IN  /\ at.column \in DOMAIN shown /\ shown[at.column] = Char(t.from)
                /\ at.line = 1 + Cardinality({i \in 1 .. t.from : text[i] = "\n"})

\* Whoever takes a token for the text it stands for is right.
TokensKeepTheirText == TypeOK /\ LexemesSpellValues /\ ReportsPointAtTokens

\* The lexer comes to the end of every text, terminated or not.
LexingEnds == <>(mode = "done")

=============================================================================
