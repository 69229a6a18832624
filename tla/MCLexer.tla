------------------------------ MODULE MCLexer -------------------------------
(* Lexer on all short files over four alphabets: words, comments and        *)
(* strings, operators of two characters, operators with dots and colons.    *)
EXTENDS Lexer

Alphabet(max, chars) == [chars |-> chars, max |-> max]

MCAlphabets ==
  { Alphabet(6, {"a", "0", " ", "\n", "(", "!"}),
    Alphabet(6, {"/", "*", "=", "\n", "a", "\""}),
    Alphabet(5, {"-", ">", "<", "=", "+", "&", "|"}),
    Alphabet(6, {":", ".", "a", " "}) }

MCKeywords == {<<"a", "a">>}
=============================================================================
