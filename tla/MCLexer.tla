------------------------------- MODULE MCLexer -------------------------------
\* Instances of Lexer for TLC.
EXTENDS Lexer

InKeyword == {<<"i", "n">>}
CodeText == {"i", "n", "9", ".", "=", "!", ">", "/"}
QuotedText == {"\"", "\\", "n", "/", "\n", "\r"}
CommentText == {"/", "*", "n"}

CodeStringsComments ==
    {[chars |-> CodeText, length |-> 5],
     [chars |-> QuotedText, length |-> 6],
     [chars |-> CommentText, length |-> 8]}
=============================================================================
