------------------------------- MODULE Lexer --------------------------------
(***************************************************************************)
(* class Lexer (lexer/Lexer.cpp): from the characters of a file to its     *)
(* tokens.  A character stands for its class: "a" for the letters and the  *)
(* underscore, "0" for the digits, " " for the blanks but the newline.     *)
(* Positions count from 1, the NUL after the file is at Len(text) + 1.     *)
(***************************************************************************)
EXTENDS Integers, FiniteSets, SequencesExt

CONSTANTS
  Alphabets,  \* the files: sets of characters with a bound on the length
  Keywords    \* the spellings keywords.cpp lists, keyword by keyword

ASSUME AlphabetsAssumption ==
  Alphabets \subseteq [chars : SUBSET STRING, max : Nat]

VARIABLES
  text,       \* input_
  cursor,     \* cursor_
  curr_line,  \* curr_line_
  tokens,
  result      \* "run", then "done", or "overrun" when a scan passes the NUL

vars == <<text, cursor, curr_line, tokens, result>>

Token(type, from, size) ==
  [type |-> type, start |-> from, size |-> size, line_num |-> curr_line,
   num_trailing_newlines |-> 0]

Letter == {"a"}
Digit == {"0"}
Blank == {" ", "\n"}
Single == {"(", ")", "[", "]", "{", "}", ";", ","}
Ambiguous == {":", ".", "/", ">", "<", "=", "*", "+", "-", "&", "|"}

\* The characters that lex() has a case for.
HasCase == Letter \cup Digit \cup Blank \cup Single \cup Ambiguous \cup {"\""}

NUL == "nul"

\* The character at i.
Char(i) == IF i \in DOMAIN text THEN text[i] ELSE NUL
Here == Char(cursor)

\* The first position from i on whose character is not in set.
EndOf(i, set) == CHOOSE j \in i..Len(text) + 1 :
                   Char(j) \notin set /\ \A k \in i..j - 1 : text[k] \in set

\* The first position from i on that has character c, 0 if none has.
Find(i, c) == SelectInSubSeq(text, i, Len(text), LAMBDA d : d = c)

Lexing == result = "run" /\ cursor <= Len(text)

Emit(token, next) ==
  /\ tokens' = Append(tokens, token)
  /\ cursor' = next

-----------------------------------------------------------------------------
track_newline ==
  IF tokens = <<>> THEN tokens
  ELSE Append(Front(tokens), [Last(tokens) EXCEPT !.num_trailing_newlines = @ + 1])

Whitespace ==
  /\ Lexing /\ Here \in Blank
  /\ IF Here = "\n" THEN curr_line' = curr_line + 1 /\ tokens' = track_newline
                    ELSE UNCHANGED <<curr_line, tokens>>
  /\ cursor' = cursor + 1
  /\ UNCHANGED <<text, result>>

\* lex() reports a character no case is for, and goes on.
Unexpected ==
  /\ Lexing /\ Here \notin HasCase
  /\ cursor' = cursor + 1
  /\ UNCHANGED <<text, curr_line, tokens, result>>

\* Mutant: no `cursor_--` after the scan, so the loop skips the character after.
AfterRunSkips(end) == end + 1

AfterRun(end) == end

get_identifier_or_keyword_type(word) ==
  IF word \in Keywords THEN "keyword" ELSE "identifier"

lex_consume_identifier ==
  /\ Lexing /\ Here \in Letter
  /\ LET end == EndOf(cursor, Letter \cup Digit)
         type == get_identifier_or_keyword_type(SubSeq(text, cursor, end - 1))
     IN Emit(Token(type, cursor, end - cursor), AfterRun(end))
  /\ UNCHANGED <<text, curr_line, result>>

lex_consume_number ==
  /\ Lexing /\ Here \in Digit
  /\ LET end == EndOf(cursor, Digit)
     IN Emit(Token("literal", cursor, end - cursor), AfterRun(end))
  /\ UNCHANGED <<text, curr_line, result>>

lex_consume_single ==
  /\ Lexing /\ Here \in Single
  /\ Emit(Token("punctuation", cursor, 1), cursor + 1)
  /\ UNCHANGED <<text, curr_line, result>>

-----------------------------------------------------------------------------
\* What may follow the first character of a lexeme of two.
SecondOf == [c \in Ambiguous \ {"."} |->
  IF c \in {":", "&", "|"} THEN {c} ELSE IF c \in {"-", "="} THEN {"=", ">"} ELSE {"="}]

\* Mutant: peek compares the first character of the sequence only.
PeekFirst(seq) == Char(cursor + 1) = seq[1]

peek(seq) == \A i \in DOMAIN seq : Char(cursor + i) = seq[i]

LexemeSize ==
  IF Here = "." THEN IF peek(<<".", ".">>) THEN 3 ELSE 1
  ELSE IF \E c \in SecondOf[Here] : peek(<<c>>) THEN 2 ELSE 1

StartsComment == Here = "/" /\ peek(<<"/">>)

\* A lone `|` has the type a token starts with: bad.
lex_consume_ambiguous_lexeme ==
  /\ Lexing /\ Here \in Ambiguous /\ ~StartsComment
  /\ LET type == IF Here = "|" /\ LexemeSize = 1 THEN "bad" ELSE "operator"
     IN Emit(Token(type, cursor, LexemeSize), cursor + LexemeSize)
  /\ UNCHANGED <<text, curr_line, result>>

\* Past the NUL the scan reads memory that is not the file's.
Overrun ==
  /\ result' = "overrun"
  /\ UNCHANGED <<text, cursor, curr_line, tokens>>

\* Mutant: no `--cursor_` at the end, the newline goes with the comment.
AfterCommentEats(newline) == newline + 1

AfterComment(newline) == newline

lex_consume_line_comment ==
  /\ Lexing /\ StartsComment
  /\ LET newline == Find(cursor, "\n")
     IN \/ newline = 0 /\ Overrun
        \/ /\ newline # 0
           /\ Emit(Token("line_comment", cursor, newline - cursor),
                   AfterComment(newline))
           /\ UNCHANGED <<text, curr_line, result>>

lex_consume_string_literal ==
  /\ Lexing /\ Here = "\""
  /\ LET quote == Find(cursor + 1, "\"")
     IN \/ quote = 0 /\ Overrun
        \/ /\ quote # 0
           /\ Emit(Token("literal", cursor, quote + 1 - cursor), quote + 1)
           /\ UNCHANGED <<text, curr_line, result>>

\* What stands in a line number that nothing has set.  In the program it is
\* whatever the memory had: the constructor of the eof token sets its type only.
Unset == -1

Finish ==
  /\ result = "run" /\ cursor > Len(text)
  /\ Emit([Token("eof", cursor, 0) EXCEPT !.line_num = Unset], cursor)
  /\ result' = "done"
  /\ UNCHANGED <<text, curr_line>>

-----------------------------------------------------------------------------
Init ==
  /\ \E a \in Alphabets : \E n \in 0..a.max : text \in [1..n -> a.chars]
  /\ cursor = 1 /\ curr_line = 0 /\ tokens = <<>> /\ result = "run"

Next ==
  \/ Whitespace \/ Unexpected \/ lex_consume_identifier \/ lex_consume_number
  \/ lex_consume_single \/ lex_consume_ambiguous_lexeme
  \/ lex_consume_line_comment \/ lex_consume_string_literal \/ Finish

Spec == Init /\ [][Next]_vars

-----------------------------------------------------------------------------
(* Properties                                                               *)

\* cursor_ is never past the NUL unless a scan has run past it, and the rest has
\* its type.
TypeOK ==
  /\ cursor \in 1..Len(text) + 1
  /\ curr_line \in 0..Len(text)
  /\ result \in {"run", "done", "overrun"}
  /\ tokens \in Seq([type : {"identifier", "keyword", "literal", "punctuation",
                              "operator", "bad", "line_comment", "eof"},
                      start : 1..Len(text) + 1, size : 0..Len(text),
                      line_num : {Unset} \cup 0..curr_line,
                      num_trailing_newlines : Nat])

Span(t) == t.start..t.start + t.size - 1

\* Each character that was passed is a blank or unexpected, or belongs to
\* exactly one token, and the tokens are in the order of the file.  A scan leaves
\* cursor_ on its last character for the `cursor_++` of lex(), three of them by
\* stepping back: an error of one loses a character or reads it twice.
TokensTile ==
  /\ \A i \in 1..Len(tokens) - 1 :
       tokens[i].start + tokens[i].size <= tokens[i + 1].start
  /\ \A k \in 1..cursor - 1 :
       \/ Char(k) \in Blank \/ Char(k) \notin HasCase
       \/ \E i \in DOMAIN tokens : k \in Span(tokens[i])
  /\ \A i \in DOMAIN tokens : tokens[i].start + tokens[i].size <= Len(text) + 1

Newlines(from, to) == {k \in from..to : text[k] = "\n"}

\* curr_line_ does not count the newlines inside string literals.
InStrings == UNION {Span(tokens[i]) : i \in {j \in DOMAIN tokens : tokens[j].type = "literal"}}

\* The line number of a token that was scanned is that of its line, string
\* literals of several lines before it not counted: what ParseError::print
\* (ParseResult.cpp) indexes the lines with.  The newline that ends a comment is
\* counted though the comment's scan has passed it.  The eof token has no line
\* number that could be right, and print reads it too.
LinesRight ==
  \A i \in DOMAIN tokens :
    tokens[i].type # "eof" =>
      tokens[i].line_num =
        Cardinality(Newlines(1, tokens[i].start - 1) \ InStrings)

\* The lexemes of token.h that are not words, `!=` excepted: lex() has no case
\* for the character it starts with.
Lexemes ==
  {<<c>> : c \in Single \cup (Ambiguous \ {"|"})} \cup
  { <<":", ":">>, <<".", ".", ".">>, <<"=", ">">>, <<"-", ">">>, <<"=", "=">>,
    <<"*", "=">>, <<"/", "=">>, <<"-", "=">>, <<"+", "=">>, <<">", "=">>,
    <<"<", "=">>, <<"&", "&">>, <<"|", "|">> }

\* Maximal munch: an operator is one of the lexemes the parser knows and no
\* longer one starts where it does; a word or number does not go on after it.
LongestMatch ==
  \A i \in DOMAIN tokens :
    LET t == tokens[i]
        rest == SubSeq(text, t.start, Len(text))
        after == t.start + t.size
    IN /\ t.type \in {"operator", "punctuation"} =>
            /\ \E w \in Lexemes : IsPrefix(w, rest) /\ Len(w) = t.size
            /\ \A w \in Lexemes : IsPrefix(w, rest) => Len(w) <= t.size
       /\ t.type \in {"identifier", "keyword"} =>
            Char(after) \notin Letter \cup Digit
       /\ t.type = "literal" /\ Char(t.start) \in Digit =>
            Char(after) \notin Digit
=============================================================================
