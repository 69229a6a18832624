---------------------------- MODULE LexerProofs -----------------------------
(***************************************************************************)
(* Proofs about the lexer, for every file over every alphabet and every    *)
(* set of keywords.                                                        *)
(*                                                                         *)
(* The invariant LexInv is what lex() has achieved up to the cursor: the   *)
(* tokens end before it, one after the other, they leave out only blanks   *)
(* and characters without a case, curr_line_ counts the newlines outside   *)
(* string literals, and each token is a longest one.  That no token goes   *)
(* past the cursor is what the properties leave out and need: without it a *)
(* newline could be counted and belong to a literal as well.               *)
(***************************************************************************)
EXTENDS Lexer, IntegerProofs, FiniteSetTheorems, SequenceTheorems, TLAPS

-----------------------------------------------------------------------------
(* The scans of the lexer.                                                  *)

\* The file is a sequence of characters.
IsFile == DOMAIN text = 1..Len(text) /\ Len(text) \in Nat

\* The characters of the file, and the NUL behind it.
LEMMA CharIs ==
  ASSUME IsFile
  PROVE  /\ Len(text) \in Nat /\ Char(Len(text) + 1) = NUL
         /\ \A i \in 1..Len(text) : Char(i) = text[i]
         /\ \A i \in Nat \ {0} : Char(i) # NUL => i \in 1..Len(text)
         /\ \A i : i \notin 1..Len(text) => Char(i) = NUL
<1>1. DOMAIN text = 1..Len(text) /\ Len(text) \in Nat
  BY DEF IsFile
<1>2. \A i : i \in DOMAIN text => Char(i) = text[i]
  BY DEF Char
<1>3. \A i : i \notin DOMAIN text => Char(i) = NUL
  BY DEF Char
<1>4. Len(text) + 1 \notin 1..Len(text)
  BY <1>1
<1>5. \A i : i \in 1..Len(text) => Char(i) = text[i]
  BY <1>1, <1>2
<1>6. \A i : i \notin 1..Len(text) => Char(i) = NUL
  BY <1>1, <1>3
<1>7. \A i \in Nat \ {0} : Char(i) # NUL => i \in 1..Len(text)
  BY <1>6
<1>. QED  BY <1>1, <1>4, <1>5, <1>6, <1>7

\* A scan over the characters of a set ends, at the NUL at the latest.
LEMMA EndOfScan ==
  ASSUME IsFile, NEW set, NUL \notin set, NEW i \in 1..Len(text) + 1
  PROVE  /\ EndOf(i, set) \in i..Len(text) + 1
         /\ Char(EndOf(i, set)) \notin set
         /\ \A k \in i..EndOf(i, set) - 1 : text[k] \in set
<1>1. PICK n \in Nat : n = Len(text) + 1
  BY CharIs
<1>2. i \in 1..n /\ n \in i..n /\ i..n \subseteq Nat /\ \A k \in i..n - 1 : k \in 1..Len(text)
  BY <1>1, CharIs
<1>. DEFINE T == {j \in i..n : Char(j) \notin set}
<1>3. n \in T
  <2>1. Char(n) = NUL
    BY <1>1, CharIs
  <2>. QED  BY <1>2, <2>1
<1>4. PICK j \in T : \A y \in T : j <= y
  <2>1. T \in SUBSET Nat /\ T # {}
    BY <1>2, <1>3
  <2>. HIDE DEF T
  <2>. QED  BY <2>1, LeastNat
<1>5. \A k \in i..j - 1 : text[k] \in set
  <2>. SUFFICES ASSUME NEW k \in i..j - 1, text[k] \notin set PROVE FALSE
    OBVIOUS
  <2>1. j \in i..n
    BY <1>4
  <2>2. k \in i..n - 1 /\ k \in i..n /\ ~(j <= k)
    BY <1>2, <2>1
  <2>3. Char(k) = text[k]
    BY <1>2, <2>2, CharIs
  <2>4. k \in T
    BY <2>2, <2>3
  <2>. QED  BY <1>4, <2>2, <2>4
<1>6. \E m \in i..n : Char(m) \notin set /\ \A k \in i..m - 1 : text[k] \in set
  BY <1>4, <1>5
<1>. QED  BY <1>1, <1>6 DEF EndOf

\* Find is the first position that has the character, if there is one.
LEMMA FindFirst ==
  ASSUME IsFile, NEW i \in Nat \ {0}, NEW c
  PROVE  Find(i, c) # 0 =>
           /\ Find(i, c) \in i..Len(text)
           /\ text[Find(i, c)] = c
           /\ \A k \in i..Find(i, c) - 1 : text[k] # c
<1>. DEFINE T == {k \in i..Len(text) : text[k] = c}
<1>1. Find(i, c) = IF T # {} THEN Min(T) ELSE 0
  BY DEF Find, SelectInSubSeq
<1>2. ASSUME T # {}
      PROVE  Min(T) \in T /\ \A y \in T : Min(T) <= y
  <2>1. T \in SUBSET Nat
    OBVIOUS
  <2>. HIDE DEF T
  <2>2. \E x \in T : \A y \in T : x <= y
    BY <1>2, <2>1, LeastNat
  <2>. QED  BY <2>2 DEF Min
<1>3. ASSUME T # {}, NEW k \in i..Min(T) - 1
      PROVE  text[k] # c
  <2>1. Min(T) \in i..Len(text) /\ Len(text) \in Nat
    BY <1>2, <1>3
  <2>. DEFINE m == Min(T)
  <2>2. m \in Nat /\ k \in i..Len(text) /\ ~(m <= k)
    BY <2>1
  <2>. QED  BY <1>2, <1>3, <2>2
<1>. QED  BY <1>1, <1>2, <1>3
-----------------------------------------------------------------------------
(* The invariant, of a cursor, a line and the tokens so far.                *)

TokenOn(line) ==
  [type : {"identifier", "keyword", "literal", "punctuation", "operator", "bad",
           "line_comment", "eof"},
   start : 1..Len(text) + 1, size : 0..Len(text),
   line_num : {Unset} \cup 0..line, num_trailing_newlines : Nat]

\* The positions inside string literals, and the newlines outside before one.
StringsOf(ts) == UNION {Span(ts[i]) : i \in {j \in DOMAIN ts : ts[j].type = "literal"}}
LinesUpTo(from, ts) == Newlines(1, from - 1) \ StringsOf(ts)

\* What LongestMatch says of one token.
Munched(t) ==
  LET rest == SubSeq(text, t.start, Len(text))
      after == t.start + t.size
  IN /\ t.type \in {"operator", "punctuation"} =>
          /\ \E w \in Lexemes : IsPrefix(w, rest) /\ Len(w) = t.size
          /\ \A w \in Lexemes : IsPrefix(w, rest) => Len(w) <= t.size
     /\ t.type \in {"identifier", "keyword"} => Char(after) \notin Letter \cup Digit
     /\ t.type = "literal" /\ Char(t.start) \in Digit => Char(after) \notin Digit

Within(ts, c) == \A i \in 1..Len(ts) : ts[i].start + ts[i].size <= c
Follows(ts) == \A i \in 1..Len(ts) - 1 : ts[i].start + ts[i].size <= ts[i + 1].start
Covers(ts, c) ==
  \A k \in 1..c - 1 : \/ Char(k) \in Blank \/ Char(k) \notin HasCase
                      \/ \E i \in 1..Len(ts) : k \in Span(ts[i])

\* The tokens that were scanned have the numbers of their lines.
Numbered(ts) ==
  \A i \in 1..Len(ts) :
    ts[i].type # "eof" => ts[i].line_num = Cardinality(LinesUpTo(ts[i].start, ts))

\* lex() has come as far as c, in the given line, with the tokens ts.
LexedTo(c, line, ts) ==
  /\ c \in 1..Len(text) + 1
  /\ line \in 0..c - 1
  /\ ts \in Seq(TokenOn(line))
  /\ Within(ts, c) /\ Follows(ts) /\ Covers(ts, c)
  /\ line = Cardinality(LinesUpTo(c, ts))
  /\ Numbered(ts)
  /\ \A i \in 1..Len(ts) : Munched(ts[i])

LexInv ==
  /\ IsFile /\ \E S : text \in Seq(S)
  /\ result \in {"run", "done", "overrun"}
  /\ LexedTo(cursor, curr_line, tokens)

-----------------------------------------------------------------------------
(* What a step does to the invariant: a character passed, a newline passed, *)
(* a token added.                                                           *)

\* A token of the sequence, field by field.
LEMMA TokenFields ==
  ASSUME IsFile, NEW line \in Nat, NEW ts \in Seq(TokenOn(line)), NEW i \in 1..Len(ts)
  PROVE  /\ ts[i] \in TokenOn(line)
         /\ ts[i].start \in Nat /\ ts[i].start >= 1 /\ ts[i].size \in Nat
<1>1. ts[i] \in TokenOn(line)
  OBVIOUS
<1>2. Len(text) \in Nat
  BY DEF IsFile
<1>. QED  BY <1>1, <1>2 DEF TokenOn

\* A position is in a string if some literal spans it.
LEMMA InString ==
  ASSUME NEW ts, NEW k
  PROVE  k \in StringsOf(ts) <=>
           \E i \in DOMAIN ts : ts[i].type = "literal" /\ k \in Span(ts[i])
BY DEF StringsOf

\* The positions of newlines before one are finitely many.
LEMMA LinesFinite ==
  ASSUME IsFile, NEW c \in Nat, NEW S
  PROVE  IsFiniteSet(Newlines(1, c - 1) \ S)
<1>1. IsFiniteSet(1..c - 1)
  BY FS_Interval
<1>2. Newlines(1, c - 1) \ S \subseteq 1..c - 1
  BY DEF Newlines
<1>. QED  BY <1>1, <1>2, FS_Subset

\* A character that is no newline and belongs to no token has been passed.
LEMMA PassCharacter ==
  ASSUME IsFile, NEW line, NEW ts, NEW c, LexedTo(c, line, ts), c <= Len(text),
         text[c] # "\n", Char(c) \in Blank \/ Char(c) \notin HasCase
  PROVE  LexedTo(c + 1, line, ts)
<1>1. c \in Nat /\ c >= 1 /\ Len(text) \in Nat /\ line \in 0..c - 1 /\ line \in Nat
  BY DEF LexedTo, IsFile
<1>2. c + 1 \in 1..Len(text) + 1 /\ line \in 0..(c + 1) - 1
  BY <1>1
<1>3. Within(ts, c + 1)
  <2>. SUFFICES ASSUME NEW i \in 1..Len(ts) PROVE ts[i].start + ts[i].size <= c + 1
    BY DEF Within
  <2>1. ts[i].start + ts[i].size <= c /\ ts[i].start \in Nat /\ ts[i].size \in Nat
    BY <1>1, TokenFields DEF LexedTo, Within
  <2>. QED  BY <1>1, <2>1
<1>4. Covers(ts, c + 1)
  <2>1. \A k \in 1..(c + 1) - 1 : k \in 1..c - 1 \/ k = c
    BY <1>1
  <2>. QED  BY <2>1 DEF LexedTo, Covers
<1>5. Newlines(1, (c + 1) - 1) = Newlines(1, c - 1)
  <2>1. \A k : k \in 1..(c + 1) - 1 <=> k \in 1..c - 1 \/ k = c
    BY <1>1
  <2>. QED  BY <2>1 DEF Newlines
<1>. QED  BY <1>2, <1>3, <1>4, <1>5 DEF LexedTo, LinesUpTo

\* A newline has been passed: one line more, and one newline more outside the
\* string literals, all of which end before it.
LEMMA PassNewline ==
  ASSUME IsFile, NEW line, NEW ts, NEW c, LexedTo(c, line, ts), c <= Len(text),
         text[c] = "\n", Char(c) \in Blank
  PROVE  LexedTo(c + 1, line + 1, ts)
<1>1. c \in Nat /\ c >= 1 /\ Len(text) \in Nat /\ line \in 0..c - 1 /\ line \in Nat
  BY DEF LexedTo, IsFile
<1>2. c + 1 \in 1..Len(text) + 1 /\ line + 1 \in 0..(c + 1) - 1
  BY <1>1
<1>3. Within(ts, c + 1)
  <2>. SUFFICES ASSUME NEW i \in 1..Len(ts) PROVE ts[i].start + ts[i].size <= c + 1
    BY DEF Within
  <2>1. ts[i].start + ts[i].size <= c /\ ts[i].start \in Nat /\ ts[i].size \in Nat
    BY <1>1, TokenFields DEF LexedTo, Within
  <2>. QED  BY <1>1, <2>1
<1>4. Covers(ts, c + 1)
  <2>1. \A k \in 1..(c + 1) - 1 : k \in 1..c - 1 \/ k = c
    BY <1>1
  <2>. QED  BY <2>1 DEF LexedTo, Covers
<1>5. ts \in Seq(TokenOn(line + 1))
  <2>1. ts \in Seq(TokenOn(line))
    BY DEF LexedTo
  <2>2. {Unset} \cup 0..line \subseteq {Unset} \cup 0..line + 1
    BY <1>1
  <2>3. TokenOn(line) \subseteq TokenOn(line + 1)
    BY <2>2 DEF TokenOn
  <2>. QED  BY <2>1, <2>3, SeqMonotonic
<1>6. c \notin StringsOf(ts)
  <2>. SUFFICES ASSUME NEW i \in 1..Len(ts), c \in Span(ts[i]) PROVE FALSE
    BY InString DEF LexedTo
  <2>1. ts[i].start + ts[i].size <= c /\ ts[i].start \in Nat /\ ts[i].size \in Nat
    BY <1>1, TokenFields DEF LexedTo, Within
  <2>. QED  BY <1>1, <2>1 DEF Span
<1>7. LinesUpTo(c + 1, ts) = LinesUpTo(c, ts) \cup {c} /\ c \notin LinesUpTo(c, ts)
  <2>1. \A k : k \in 1..(c + 1) - 1 <=> k \in 1..c - 1 \/ k = c
    BY <1>1
  <2>2. c \notin 1..c - 1
    BY <1>1
  <2>. QED  BY <1>6, <2>1, <2>2 DEF Newlines, LinesUpTo
<1>8. line + 1 = Cardinality(LinesUpTo(c + 1, ts))
  <2>1. IsFiniteSet(LinesUpTo(c, ts))
    BY <1>1, LinesFinite DEF LinesUpTo
  <2>2. line = Cardinality(LinesUpTo(c, ts))
    BY DEF LexedTo
  <2>. QED  BY <1>7, <2>1, <2>2, FS_AddElement
<1>. QED  BY <1>2, <1>3, <1>4, <1>5, <1>8 DEF LexedTo

\* The token t takes the characters from the cursor up to next: it counts no
\* line, as there is no newline in it or it is a literal.
LEMMA AddToken ==
  ASSUME IsFile, NEW line, NEW ts, NEW c, LexedTo(c, line, ts),
         NEW t \in TokenOn(line), t.start = c,
         t.type # "eof" => t.line_num = line, Munched(t),
         NEW next \in c..Len(text) + 1, next = c + t.size,
         t.type = "literal" \/ \A k \in c..next - 1 : text[k] # "\n"
  PROVE  LexedTo(next, line, Append(ts, t))
<1>. DEFINE us == Append(ts, t)
            n == Len(ts)
<1>1. c \in Nat /\ c >= 1 /\ Len(text) \in Nat /\ line \in 0..c - 1 /\ line \in Nat
  BY DEF LexedTo, IsFile
<1>2. ts \in Seq(TokenOn(line)) /\ n \in Nat
  BY DEF LexedTo
<1>3. /\ us \in Seq(TokenOn(line)) /\ Len(us) = n + 1
      /\ us[n + 1] = t /\ \A i \in 1..n : us[i] = ts[i]
  BY <1>2
<1>4. \A i \in 1..Len(us) : i \in 1..n \/ i = n + 1
  BY <1>2, <1>3
<1>5. n + 1 \in 1..Len(us) /\ 1..n \subseteq 1..Len(us) /\ DOMAIN ts = 1..n
      /\ DOMAIN us = 1..Len(us)
  BY <1>2, <1>3
<1>0. us = Append(ts, t)
  OBVIOUS
<1>. HIDE DEF us
<1>6. ASSUME NEW i \in 1..n
      PROVE  /\ us[i] = ts[i] /\ ts[i].start \in Nat /\ ts[i].size \in Nat /\ ts[i].start >= 1
             /\ ts[i].start + ts[i].size <= c /\ ts[i].start <= c
  <2>1. ts[i].start \in Nat /\ ts[i].size \in Nat /\ ts[i].start >= 1
    BY <1>1, <1>2, TokenFields
  <2>2. ts[i].start + ts[i].size <= c
    BY DEF LexedTo, Within
  <2>. QED  BY <1>1, <1>3, <2>1, <2>2
<1>7. t.size \in Nat /\ next \in Nat /\ next >= c
  BY <1>1 DEF TokenOn
<1>8. next \in 1..Len(text) + 1 /\ line \in 0..next - 1
  BY <1>1, <1>7
<1>9. Within(us, next)
  <2>. SUFFICES ASSUME NEW i \in 1..Len(us) PROVE us[i].start + us[i].size <= next
    BY DEF Within
  <2>1. CASE i \in 1..n
    BY <2>1, <1>1, <1>6, <1>7
  <2>2. CASE i = n + 1
    BY <2>2, <1>1, <1>3, <1>7
  <2>. QED  BY <1>4, <2>1, <2>2
<1>10. Follows(us)
  <2>. SUFFICES ASSUME NEW i \in 1..Len(us) - 1
                PROVE  us[i].start + us[i].size <= us[i + 1].start
    BY DEF Follows
  <2>1. i \in 1..n /\ (i = n \/ (i \in 1..n - 1 /\ i + 1 \in 1..n))
    BY <1>2, <1>3
  <2>2. CASE i = n
    BY <2>1, <2>2, <1>3, <1>6
  <2>3. CASE i \in 1..n - 1 /\ i + 1 \in 1..n
    BY <2>1, <2>3, <1>3 DEF LexedTo, Follows
  <2>. QED  BY <2>1, <2>2, <2>3
<1>11. Covers(us, next)
  <2>. SUFFICES ASSUME NEW k \in 1..next - 1
                PROVE  \/ Char(k) \in Blank \/ Char(k) \notin HasCase
                       \/ \E i \in 1..Len(us) : k \in Span(us[i])
    BY DEF Covers
  <2>1. CASE k \in 1..c - 1
    <3>1. \A i \in 1..n : us[i] = ts[i] /\ i \in 1..Len(us)
      BY <1>3, <1>5
    <3>. QED  BY <2>1, <3>1 DEF LexedTo, Covers
  <2>2. CASE k \in c..next - 1
    <3>1. k \in t.start..t.start + t.size - 1
      BY <2>2, <1>1, <1>7
    <3>2. k \in Span(us[n + 1])
      BY <3>1, <1>3 DEF Span
    <3>. QED  BY <3>2, <1>5
  <2>. QED  BY <1>1, <1>7, <2>1, <2>2
<1>12. ASSUME NEW k \in Int, k < c
       PROVE  k \in StringsOf(us) <=> k \in StringsOf(ts)
  <2>1. k \notin Span(us[n + 1])
    BY <1>1, <1>3, <1>7, <1>12 DEF Span
  <2>2. \A i \in 1..n : us[i] = ts[i] /\ i \in 1..Len(us)
    BY <1>3, <1>5
  <2>. QED  BY <1>4, <1>5, <2>1, <2>2, InString
<1>13. ASSUME NEW from \in Nat, from <= c
       PROVE  LinesUpTo(from, us) = LinesUpTo(from, ts)
  <2>1. \A k \in 1..from - 1 : k \in Int /\ k < c
    BY <1>1, <1>13
  <2>. QED  BY <1>12, <2>1 DEF LinesUpTo, Newlines
<1>14. LinesUpTo(next, us) = LinesUpTo(c, us)
  <2>1. \A k : k \in 1..next - 1 <=> k \in 1..c - 1 \/ k \in c..next - 1
    BY <1>1, <1>7
  <2>2. ASSUME NEW k \in c..next - 1, text[k] = "\n"
        PROVE  k \in StringsOf(us)
    <3>1. t.type = "literal" /\ k \in Span(t)
      BY <2>2, <1>1, <1>7 DEF Span
    <3>. QED  BY <3>1, <1>3, <1>5, InString
  <2>. QED  BY <2>1, <2>2 DEF LinesUpTo, Newlines
<1>15. line = Cardinality(LinesUpTo(next, us))
  BY <1>1, <1>13, <1>14 DEF LexedTo
<1>16. Numbered(us)
  <2>. SUFFICES ASSUME NEW i \in 1..Len(us), us[i].type # "eof"
                PROVE  us[i].line_num = Cardinality(LinesUpTo(us[i].start, us))
    BY DEF Numbered
  <2>1. CASE i \in 1..n
    <3>1. LinesUpTo(us[i].start, us) = LinesUpTo(us[i].start, ts)
      BY <2>1, <1>6, <1>13
    <3>. QED  BY <2>1, <3>1, <1>6 DEF LexedTo, Numbered
  <2>2. CASE i = n + 1
    BY <2>2, <1>3, <1>14, <1>15
  <2>. QED  BY <1>4, <2>1, <2>2
<1>17. \A i \in 1..Len(us) : Munched(us[i])
  BY <1>3, <1>4 DEF LexedTo
<1>18. LexedTo(next, line, us)
  BY <1>3, <1>8, <1>9, <1>10, <1>11, <1>15, <1>16, <1>17 DEF LexedTo
<1>. QED  BY <1>18, <1>0

\* Tokens that differ only in the newlines counted behind them.
LEMMA SameTokens ==
  ASSUME IsFile, NEW line, NEW ts, NEW c, LexedTo(c, line, ts),
         NEW us \in Seq(TokenOn(line)), Len(us) = Len(ts),
         \A i \in 1..Len(ts) :
           /\ us[i].start = ts[i].start /\ us[i].size = ts[i].size
           /\ us[i].type = ts[i].type /\ us[i].line_num = ts[i].line_num
  PROVE  LexedTo(c, line, us)
<1>1. ts \in Seq(TokenOn(line)) /\ Len(ts) \in Nat /\ DOMAIN ts = 1..Len(ts)
      /\ DOMAIN us = 1..Len(ts)
  BY DEF LexedTo
<1>2. \A i \in 1..Len(ts) : Span(us[i]) = Span(ts[i]) /\ (Munched(ts[i]) => Munched(us[i]))
  BY DEF Span, Munched
<1>3. StringsOf(us) = StringsOf(ts)
  <2>1. \A k : k \in StringsOf(us) <=> k \in StringsOf(ts)
    BY <1>1, <1>2, InString
  <2>2. StringsOf(us) \subseteq StringsOf(ts) /\ StringsOf(ts) \subseteq StringsOf(us)
    BY <2>1
  <2>. QED  BY <2>2
<1>4. \A from : LinesUpTo(from, us) = LinesUpTo(from, ts)
  BY <1>3 DEF LinesUpTo
<1>5. Within(us, c) /\ Covers(us, c)
  BY <1>2 DEF LexedTo, Within, Covers
<1>6. Follows(us)
  <2>1. \A i \in 1..Len(ts) - 1 : i \in 1..Len(ts) /\ i + 1 \in 1..Len(ts)
    BY <1>1
  <2>. QED  BY <2>1 DEF LexedTo, Follows
<1>7. Numbered(us)
  BY <1>1, <1>4 DEF LexedTo, Numbered
<1>. QED  BY <1>1, <1>2, <1>4, <1>5, <1>6, <1>7 DEF LexedTo

-----------------------------------------------------------------------------
(* Maximal munch.                                                           *)

\* The lexemes: one character, two the second of which may follow the first, or
\* three dots.
LEMMA LexemeShapes ==
  \A w \in Lexemes :
    \/ \E a \in Single \cup (Ambiguous \ {"|"}) : w = <<a>>
    \/ \E a \in Ambiguous \ {"."} : \E b \in SecondOf[a] : w = <<a, b>>
    \/ w = <<".", ".", ".">>
BY DEF Lexemes, SecondOf, Single, Ambiguous

\* All of those are lexemes.
LEMMA LexemesOf ==
  /\ \A a \in Single \cup (Ambiguous \ {"|"}) : <<a>> \in Lexemes
  /\ \A a \in Ambiguous \ {"."} : \A b \in SecondOf[a] : <<a, b>> \in Lexemes
  /\ <<".", ".", ".">> \in Lexemes
BY DEF Lexemes, SecondOf, Single, Ambiguous

\* The classes of characters are disjoint as far as the scans rely on it.
LEMMA Characters ==
  /\ NUL \notin Letter \cup Digit \cup Blank \cup Single \cup Ambiguous \cup {"\""}
  /\ "\n" \notin Letter \cup Digit \cup Single \cup Ambiguous \cup {"\"", NUL}
  /\ Single \cap Ambiguous = {}
  /\ (Letter \cup Digit \cup {"\""}) \cap (Single \cup Ambiguous) = {}
  /\ Letter \cap Digit = {} /\ "\"" \notin Letter \cup Digit
  /\ \A a \in Ambiguous \ {"."} : SecondOf[a] \subseteq Ambiguous
<1>2. NUL \notin Letter \cup Digit \cup Blank \cup Single \cup Ambiguous \cup {"\""}
  BY DEF Letter, Digit, Blank, Single, Ambiguous, NUL
<1>3. "\n" \notin Letter \cup Digit \cup Single \cup Ambiguous \cup {"\"", NUL}
  BY DEF Letter, Digit, Single, Ambiguous, NUL
<1>4. \A x \in Single : x \notin Ambiguous
  BY DEF Single, Ambiguous
<1>5. \A x \in Letter \cup Digit \cup {"\""} : x \notin Single \cup Ambiguous
  BY DEF Letter, Digit, Single, Ambiguous
<1>6. Letter \cap Digit = {} /\ "\"" \notin Letter \cup Digit
  BY DEF Letter, Digit
<1>7. \A a \in Ambiguous \ {"."} : SecondOf[a] \subseteq Ambiguous
  BY DEF Ambiguous, SecondOf
<1>. QED  BY <1>2, <1>3, <1>4, <1>5, <1>6, <1>7

\* Sequences of one to three elements.
LEMMA ShortSeqs ==
  ASSUME NEW S
  PROVE  /\ \A a \in S : /\ <<a>> \in Seq(S) /\ Len(<<a>>) = 1 /\ <<a>>[1] = a
         /\ \A a, b \in S : /\ <<a, b>> \in Seq(S) /\ Len(<<a, b>>) = 2
                           /\ <<a, b>>[1] = a /\ <<a, b>>[2] = b
         /\ \A a, b, c \in S : /\ <<a, b, c>> \in Seq(S) /\ Len(<<a, b, c>>) = 3
                              /\ <<a, b, c>>[1] = a /\ <<a, b, c>>[2] = b
                              /\ <<a, b, c>>[3] = c
OBVIOUS

\* The indices of short sequences.
LEMMA FirstNumbers == 1..1 = {1} /\ 1..2 = {1, 2} /\ 1..3 = {1, 2, 3}
OBVIOUS

\* The characters of w are those of the file from c on.
Reads(w, c) == \A i \in 1..Len(w) : Char(c + i - 1) = w[i]

\* A prefix of what is left of the file.
LEMMA PrefixReads ==
  ASSUME IsFile, NEW S, text \in Seq(S), NEW c \in 1..Len(text), NEW w \in Seq(S),
         \A i \in 1..Len(w) : w[i] # NUL
  PROVE  IsPrefix(w, SubSeq(text, c, Len(text))) <=> Reads(w, c)
<1>. DEFINE rest == SubSeq(text, c, Len(text))
            n == Len(text)
            m == Len(w)
<1>1. n \in Nat /\ m \in Nat /\ c \in 1..n
  BY CharIs
<1>2. rest \in Seq(S) /\ Len(rest) = n - c + 1 /\ \A i \in 1..n - c + 1 : rest[i] = text[c + i - 1]
  BY <1>1, SubSeqProperties
<1>. HIDE DEF rest
<1>3. \A i \in 1..m : c + i - 1 \in Nat \ {0}
  BY <1>1
<1>4. ASSUME Reads(w, c)
      PROVE  m <= n - c + 1
  <2>1. CASE m = 0
    BY <1>1, <2>1
  <2>2. CASE m # 0
    <3>1. m \in 1..m
      BY <1>1, <2>2
    <3>2. c + m - 1 \in 1..n
      BY <1>3, <1>4, <3>1, CharIs DEF Reads
    <3>. QED  BY <1>1, <3>2
  <2>. QED  BY <2>1, <2>2
<1>5. ASSUME m <= n - c + 1
      PROVE  /\ \A i \in 1..m : rest[i] = Char(c + i - 1)
             /\ SubSeq(rest, 1, m) \in Seq(S) /\ Len(SubSeq(rest, 1, m)) = m
             /\ \A i \in 1..m : SubSeq(rest, 1, m)[i] = rest[i]
  <2>1. \A i \in 1..m : i \in 1..n - c + 1 /\ c + i - 1 \in 1..n
    BY <1>1, <1>5
  <2>2. \A i \in 1..m : rest[i] = Char(c + i - 1)
    BY <1>2, <2>1, CharIs
  <2>. QED  BY <1>1, <1>2, <1>5, <2>2
<1>6. SubSeq(w, 1, m) = w
  BY <1>1
<1>7. ASSUME m <= n - c + 1
      PROVE  (SubSeq(rest, 1, m) = w) <=> Reads(w, c)
  <2>1. Reads(w, c) => SubSeq(rest, 1, m) = w
    <3>. SUFFICES ASSUME Reads(w, c) PROVE SubSeq(rest, 1, m) = w
      OBVIOUS
    <3>1. \A i \in 1..m : SubSeq(rest, 1, m)[i] = w[i]
      BY <1>5, <1>7 DEF Reads
    <3>. QED  BY <1>5, <1>7, <3>1, SeqEqual
  <2>2. SubSeq(rest, 1, m) = w => Reads(w, c)
    BY <1>5, <1>7 DEF Reads
  <2>. QED  BY <2>1, <2>2
<1>8. IsPrefix(w, rest) <=> m <= n - c + 1 /\ SubSeq(rest, 1, m) = w
  BY <1>2, <1>6 DEF IsPrefix
<1>9. IsPrefix(w, rest) <=> Reads(w, c)
  BY <1>4, <1>7, <1>8
<1>. QED  BY <1>9 DEF rest

\* The same of a lexeme.
LEMMA LexemeReads ==
  ASSUME IsFile, NEW S, text \in Seq(S), NEW c \in 1..Len(text), NEW w \in Lexemes
  PROVE  IsPrefix(w, SubSeq(text, c, Len(text))) <=> Reads(w, c)
<1>. DEFINE Chars == (Single \cup Ambiguous) \ {NUL}
<1>1. w \in Seq(Chars)
  <2>0. Single \subseteq Chars /\ Ambiguous \subseteq Chars
    BY Characters
  <2>1. CASE \E a \in Single \cup (Ambiguous \ {"|"}) : w = <<a>>
    <3>1. PICK a \in Chars : w = <<a>>
      BY <2>0, <2>1
    <3>. HIDE DEF Chars
    <3>. QED  BY <3>1, ShortSeqs
  <2>2. CASE \E a \in Ambiguous \ {"."} : \E b \in SecondOf[a] : w = <<a, b>>
    <3>1. PICK a \in Chars, b \in Chars : w = <<a, b>>
      BY <2>0, <2>2, Characters
    <3>. HIDE DEF Chars
    <3>. QED  BY <3>1, ShortSeqs
  <2>3. CASE w = <<".", ".", ".">>
    <3>1. "." \in Chars
      BY <2>0 DEF Ambiguous
    <3>. HIDE DEF Chars
    <3>. QED  BY <2>3, <3>1, ShortSeqs
  <2>. QED  BY <2>1, <2>2, <2>3, LexemeShapes
<1>2. \A i \in 1..Len(w) : w[i] # NUL
  <2>1. \A i \in 1..Len(w) : w[i] \in Chars
    <3>. HIDE DEF Chars
    <3>. QED  BY <1>1
  <2>. QED  BY <2>1
<1>3. w \in Seq(S \cup Chars) /\ text \in Seq(S \cup Chars)
  <2>1. S \subseteq S \cup Chars /\ Chars \subseteq S \cup Chars
    OBVIOUS
  <2>. HIDE DEF Chars
  <2>. QED  BY <1>1, <2>1, SeqMonotonic
<1>. HIDE DEF Chars
<1>. QED  BY <1>2, <1>3, PrefixReads

\* What peek sees.
LEMMA PeekReads ==
  /\ \A c : peek(<<c>>) <=> Char(cursor + 1) = c
  /\ \A c, d : peek(<<c, d>>) <=> Char(cursor + 1) = c /\ Char(cursor + 2) = d
<1>1. ASSUME NEW c
      PROVE  peek(<<c>>) <=> Char(cursor + 1) = c
  <2>1. DOMAIN <<c>> = {1} /\ <<c>>[1] = c
    OBVIOUS
  <2>. QED  BY <2>1 DEF peek
<1>2. ASSUME NEW c, NEW d
      PROVE  peek(<<c, d>>) <=> Char(cursor + 1) = c /\ Char(cursor + 2) = d
  <2>1. DOMAIN <<c, d>> = {1, 2} /\ <<c, d>>[1] = c /\ <<c, d>>[2] = d
    OBVIOUS
  <2>. QED  BY <2>1 DEF peek
<1>. QED  BY <1>1, <1>2

\* A lexeme that is read at c, character by character.
LEMMA ReadsShort ==
  ASSUME NEW c \in Nat
  PROVE  /\ \A a : Reads(<<a>>, c) <=> Char(c) = a
         /\ \A a, b : Reads(<<a, b>>, c) <=> Char(c) = a /\ Char(c + 1) = b
         /\ \A a, b, d : Reads(<<a, b, d>>, c) <=>
              Char(c) = a /\ Char(c + 1) = b /\ Char(c + 2) = d
<1>0. c + 1 - 1 = c /\ c + 2 - 1 = c + 1 /\ c + 3 - 1 = c + 2
  OBVIOUS
<1>1. ASSUME NEW a
      PROVE  Reads(<<a>>, c) <=> Char(c) = a
  <2>1. Len(<<a>>) = 1 /\ <<a>>[1] = a
    OBVIOUS
  <2>. QED  BY <1>0, <2>1, FirstNumbers DEF Reads
<1>2. ASSUME NEW a, NEW b
      PROVE  Reads(<<a, b>>, c) <=> Char(c) = a /\ Char(c + 1) = b
  <2>1. Len(<<a, b>>) = 2 /\ <<a, b>>[1] = a /\ <<a, b>>[2] = b
    OBVIOUS
  <2>. QED  BY <1>0, <2>1, FirstNumbers DEF Reads
<1>3. ASSUME NEW a, NEW b, NEW d
      PROVE  Reads(<<a, b, d>>, c) <=> Char(c) = a /\ Char(c + 1) = b /\ Char(c + 2) = d
  <2>1. Len(<<a, b, d>>) = 3 /\ <<a, b, d>>[1] = a /\ <<a, b, d>>[2] = b /\ <<a, b, d>>[3] = d
    OBVIOUS
  <2>. QED  BY <1>0, <2>1, FirstNumbers DEF Reads
<1>. QED  BY <1>1, <1>2, <1>3

\* A lexeme of n characters can be read at c and no longer one.
Longest(c, n) == /\ \E w \in Lexemes : Reads(w, c) /\ Len(w) = n
                 /\ \A w \in Lexemes : Reads(w, c) => Len(w) <= n

\* The lexemes that can be read at c.
LEMMA LexemesAt ==
  ASSUME NEW c \in Nat
  PROVE  \A w \in Lexemes : Reads(w, c) =>
           \/ Len(w) = 1 /\ Char(c) \in Single \cup (Ambiguous \ {"|"})
           \/ Len(w) = 2 /\ Char(c) \in Ambiguous \ {"."} /\ Char(c + 1) \in SecondOf[Char(c)]
           \/ Len(w) = 3 /\ Char(c) = "." /\ Char(c + 1) = "." /\ Char(c + 2) = "."
<1>. SUFFICES ASSUME NEW w \in Lexemes, Reads(w, c)
              PROVE  \/ Len(w) = 1 /\ Char(c) \in Single \cup (Ambiguous \ {"|"})
                     \/ Len(w) = 2 /\ Char(c) \in Ambiguous \ {"."}
                        /\ Char(c + 1) \in SecondOf[Char(c)]
                     \/ Len(w) = 3 /\ Char(c) = "." /\ Char(c + 1) = "." /\ Char(c + 2) = "."
  OBVIOUS
<1>1. CASE \E a \in Single \cup (Ambiguous \ {"|"}) : w = <<a>>
  <2>1. PICK a \in Single \cup (Ambiguous \ {"|"}) : w = <<a>>
    BY <1>1
  <2>. QED  BY <2>1, ReadsShort, ShortSeqs
<1>2. CASE \E a \in Ambiguous \ {"."} : \E b \in SecondOf[a] : w = <<a, b>>
  <2>0. PICK a \in Ambiguous \ {"."} : \E b \in SecondOf[a] : w = <<a, b>>
    BY <1>2
  <2>1. PICK b \in SecondOf[a] : w = <<a, b>>
    BY <2>0
  <2>2. Len(w) = 2
    BY <2>1
  <2>. QED  BY <2>0, <2>1, <2>2, ReadsShort
<1>3. CASE w = <<".", ".", ".">>
  <2>1. Len(w) = 3
    BY <1>3
  <2>. QED  BY <1>3, <2>1, ReadsShort
<1>. QED  BY <1>1, <1>2, <1>3, LexemeShapes

\* Punctuation is the longest lexeme where it starts.
LEMMA SingleLongest ==
  ASSUME NEW c \in Nat, Char(c) \in Single
  PROVE  Longest(c, 1)
<1>1. <<Char(c)>> \in Lexemes /\ Reads(<<Char(c)>>, c) /\ Len(<<Char(c)>>) = 1
  BY LexemesOf, ReadsShort
<1>2. Char(c) \notin Ambiguous /\ "." \in Ambiguous
  BY Characters DEF Ambiguous
<1>3. \A w \in Lexemes : Reads(w, c) => Len(w) = 1
  BY <1>2, LexemesAt
<1>. QED  BY <1>1, <1>3 DEF Longest

\* The sizes that occur.
LEMMA UpToThree ==
  \A x : /\ x = 1 => x <= 1
         /\ x = 1 \/ x = 2 => x <= 2
         /\ x = 1 \/ x = 2 \/ x = 3 => x <= 3
OBVIOUS

\* The size that lex_consume_ambiguous_lexeme peeks for is that of the longest
\* lexeme, but for the lone `|`, which is none.
LEMMA PeekedLongest ==
  ASSUME IsFile, NEW S, text \in Seq(S), cursor \in 1..Len(text), Here \in Ambiguous
  PROVE  /\ LexemeSize \in 1..3 /\ cursor + LexemeSize <= Len(text) + 1
         /\ \A k \in cursor..cursor + LexemeSize - 1 : text[k] # "\n"
         /\ ~(Here = "|" /\ LexemeSize = 1) => Longest(cursor, LexemeSize)
<1>1. cursor \in Nat /\ Len(text) \in Nat /\ cursor >= 1
  BY CharIs
<1>2. Char(cursor) = Here /\ Here \in Ambiguous /\ "." \in Ambiguous /\ "|" # "."
      /\ "." # "\n" /\ "." # NUL
  BY DEF Here, Ambiguous, NUL
<1>3. \A i \in Nat \ {0} : Char(i) # NUL => i \in 1..Len(text) /\ text[i] = Char(i)
  BY CharIs
<1>4. \A a \in Ambiguous \cup {"."} : a # NUL /\ a # "\n"
  BY <1>2, Characters
<1>5. text[cursor] # "\n"
  BY <1>1, <1>2, <1>3, <1>4
<1>6. CASE LexemeSize = 1
  <2>1. \A w \in Lexemes : Reads(w, cursor) => Len(w) = 1
    <3>1. ~(Here = "." /\ Char(cursor + 1) = "." /\ Char(cursor + 2) = ".")
      BY <1>6, PeekReads DEF LexemeSize
    <3>2. ~(Here \in Ambiguous \ {"."} /\ Char(cursor + 1) \in SecondOf[Here])
      BY <1>6, PeekReads DEF LexemeSize
    <3>. QED  BY <1>1, <1>2, <3>1, <3>2, LexemesAt
  <2>2. Here # "|" => <<Here>> \in Lexemes /\ Reads(<<Here>>, cursor) /\ Len(<<Here>>) = 1
    BY <1>1, <1>2, LexemesOf, ReadsShort
  <2>3. Here # "|" => Longest(cursor, 1)
    <3>1. \A w \in Lexemes : Reads(w, cursor) => Len(w) <= 1
      BY <2>1, UpToThree, Zenon
    <3>. QED  BY <2>2, <3>1 DEF Longest
  <2>4. \A k \in cursor..cursor + 1 - 1 : k = cursor
    BY <1>1
  <2>. QED  BY <1>1, <1>5, <1>6, <2>3, <2>4
<1>7. CASE LexemeSize = 2
  <2>1. Here \in Ambiguous \ {"."} /\ Char(cursor + 1) \in SecondOf[Here]
    <3>1. Here # "." /\ \E a \in SecondOf[Here] : peek(<<a>>)
      BY <1>7 DEF LexemeSize
    <3>. QED  BY <1>2, <3>1, PeekReads
  <2>2. /\ cursor + 1 \in 1..Len(text) /\ text[cursor + 1] # "\n"
    <3>0. SecondOf[Here] \subseteq Ambiguous
      BY <2>1, Characters
    <3>1. Char(cursor + 1) \in Ambiguous /\ cursor + 1 \in Nat \ {0}
      BY <1>1, <2>1, <3>0
    <3>. QED  BY <1>3, <1>4, <3>1
  <2>3. <<Here, Char(cursor + 1)>> \in Lexemes /\ Reads(<<Here, Char(cursor + 1)>>, cursor)
        /\ Len(<<Here, Char(cursor + 1)>>) = 2
    BY <1>1, <1>2, <2>1, LexemesOf, ReadsShort
  <2>4. \A w \in Lexemes : Reads(w, cursor) => Len(w) <= 2
    <3>1. \A w \in Lexemes : Reads(w, cursor) => Len(w) = 1 \/ Len(w) = 2
      BY <1>1, <1>2, <2>1, LexemesAt
    <3>. QED  BY <3>1, UpToThree, Zenon
  <2>5. \A k \in cursor..cursor + 2 - 1 : k = cursor \/ k = cursor + 1
    BY <1>1
  <2>. QED  BY <1>1, <1>5, <1>7, <2>2, <2>3, <2>4, <2>5 DEF Longest
<1>8. CASE LexemeSize = 3
  <2>1. Here = "." /\ Char(cursor + 1) = "." /\ Char(cursor + 2) = "."
    BY <1>8, PeekReads DEF LexemeSize
  <2>2. /\ cursor + 1 \in 1..Len(text) /\ text[cursor + 1] # "\n"
        /\ cursor + 2 \in 1..Len(text) /\ text[cursor + 2] # "\n"
    BY <1>1, <1>2, <1>3, <2>1
  <2>3. <<".", ".", ".">> \in Lexemes /\ Reads(<<".", ".", ".">>, cursor)
        /\ Len(<<".", ".", ".">>) = 3
    BY <1>1, <1>2, <2>1, LexemesOf, ReadsShort
  <2>4. \A w \in Lexemes : Reads(w, cursor) => Len(w) <= 3
    <3>1. \A w \in Lexemes : Reads(w, cursor) => Len(w) = 1 \/ Len(w) = 2 \/ Len(w) = 3
      BY <1>1, LexemesAt
    <3>. QED  BY <3>1, UpToThree, Zenon
  <2>5. \A k \in cursor..cursor + 3 - 1 : k = cursor \/ k = cursor + 1 \/ k = cursor + 2
    BY <1>1
  <2>. QED  BY <1>1, <1>5, <1>8, <2>2, <2>3, <2>4, <2>5 DEF Longest
<1>. QED  BY <1>6, <1>7, <1>8 DEF LexemeSize

\* What a token has to satisfy, type by type.
LEMMA OperatorMunched ==
  ASSUME IsFile, NEW S, text \in Seq(S), NEW t, t.start \in 1..Len(text),
         t.type \in {"operator", "punctuation"}, Longest(t.start, t.size)
  PROVE  Munched(t)
<1>. DEFINE rest == SubSeq(text, t.start, Len(text))
<1>1. \A w \in Lexemes : IsPrefix(w, rest) <=> Reads(w, t.start)
  BY LexemeReads
<1>. HIDE DEF rest
<1>2. /\ \E w \in Lexemes : IsPrefix(w, rest) /\ Len(w) = t.size
      /\ \A w \in Lexemes : IsPrefix(w, rest) => Len(w) <= t.size
  BY <1>1 DEF Longest
<1>. QED  BY <1>2 DEF Munched, rest

\* A word ends where its letters and digits do.
LEMMA WordMunched ==
  ASSUME NEW t, t.type \in {"identifier", "keyword"},
         Char(t.start + t.size) \notin Letter \cup Digit
  PROVE  Munched(t)
BY DEF Munched

\* So does a number; a string starts with a quote.
LEMMA LiteralMunched ==
  ASSUME NEW t, t.type = "literal",
         Char(t.start) \in Digit => Char(t.start + t.size) \notin Digit
  PROVE  Munched(t)
BY DEF Munched

\* Of the other tokens nothing is asked.
LEMMA OtherMunched ==
  ASSUME NEW t, t.type \in {"bad", "line_comment", "eof"}
  PROVE  Munched(t)
BY DEF Munched

-----------------------------------------------------------------------------
(* One step of each action.                                                 *)

\* What a lexing step starts from.
LEMMA LexingAt ==
  ASSUME LexInv
  PROVE  /\ IsFile /\ Len(text) \in Nat /\ cursor \in 1..Len(text) + 1
         /\ cursor \in Nat /\ cursor >= 1 /\ curr_line \in 0..cursor - 1 /\ curr_line \in Nat
         /\ LexedTo(cursor, curr_line, tokens)
         /\ tokens \in Seq(TokenOn(curr_line))
<1>1. IsFile /\ Len(text) \in Nat /\ LexedTo(cursor, curr_line, tokens)
  BY DEF LexInv, IsFile
<1>2. cursor \in 1..Len(text) + 1 /\ curr_line \in 0..cursor - 1 /\ tokens \in Seq(TokenOn(curr_line))
  BY <1>1 DEF LexedTo
<1>. QED  BY <1>1, <1>2

\* The character at the cursor.
LEMMA HereIs ==
  ASSUME LexInv, Lexing
  PROVE  /\ cursor \in 1..Len(text) /\ cursor <= Len(text)
         /\ Char(cursor) = Here /\ text[cursor] = Here
<1>1. cursor \in 1..Len(text) /\ cursor <= Len(text)
  BY LexingAt DEF Lexing
<1>. QED  BY <1>1, LexingAt, CharIs DEF Here

\* A token that a scan of the right length makes is added to the others.
LEMMA EmitLexed ==
  ASSUME LexInv, NEW type, NEW size \in Nat, NEW next \in cursor..Len(text) + 1,
         next = cursor + size,
         type \in {"identifier", "keyword", "literal", "punctuation", "operator", "bad",
                   "line_comment", "eof"},
         Munched(Token(type, cursor, size)), Emit(Token(type, cursor, size), next),
         type = "literal" \/ \A k \in cursor..next - 1 : text[k] # "\n"
  PROVE  LexedTo(cursor', curr_line, tokens')
<1>. DEFINE t == Token(type, cursor, size)
<1>1. t.start = cursor /\ t.size = size /\ t.line_num = curr_line /\ t.type = type
  BY DEF Token
<1>2. t \in TokenOn(curr_line)
  <2>1. cursor \in 1..Len(text) + 1 /\ curr_line \in 0..curr_line /\ 0 \in Nat
    BY LexingAt
  <2>2. size \in 0..Len(text)
    <3>1. cursor \in Nat /\ cursor >= 1 /\ Len(text) \in Nat /\ next - cursor \in 0..Len(text)
      BY LexingAt
    <3>2. size = next - cursor
      BY <3>1
    <3>. QED  BY <3>1, <3>2
  <2>. QED  BY <2>1, <2>2 DEF Token, TokenOn
<1>3. tokens' = Append(tokens, t) /\ cursor' = next /\ Munched(t)
  BY DEF Emit
<1>4. IsFile /\ LexedTo(cursor, curr_line, tokens)
  BY LexingAt
<1>. HIDE DEF t
<1>. QED  BY <1>1, <1>2, <1>3, <1>4, AddToken

\* A blank, a newline or a character without a case.
LEMMA WhitespaceStep ==
  ASSUME LexInv, Whitespace \/ Unexpected
  PROVE  LexedTo(cursor', curr_line', tokens')
<1>1. Lexing /\ cursor' = cursor + 1 /\ cursor \in 1..Len(text) /\ text[cursor] = Here
      /\ Char(cursor) = Here /\ cursor <= Len(text)
  BY HereIs DEF Whitespace, Unexpected
<1>2. IsFile /\ LexedTo(cursor, curr_line, tokens) /\ tokens \in Seq(TokenOn(curr_line))
      /\ curr_line \in Nat
  BY LexingAt
<1>3. CASE Whitespace /\ Here = "\n"
  <2>1. LexedTo(cursor + 1, curr_line + 1, tokens)
    BY <1>1, <1>2, <1>3, PassNewline DEF Whitespace
  <2>2. curr_line' = curr_line + 1 /\ tokens' = track_newline
    BY <1>3 DEF Whitespace
  <2>3. CASE tokens = <<>>
    BY <1>1, <2>1, <2>2, <2>3 DEF track_newline
  <2>4. CASE tokens # <<>>
    <3>. DEFINE n == Len(tokens)
                last == [tokens[n] EXCEPT !.num_trailing_newlines = @ + 1]
                us == Append(SubSeq(tokens, 1, n - 1), last)
                S == TokenOn(curr_line + 1)
    <3>1. tokens \in Seq(S) /\ S = TokenOn(curr_line + 1)
      BY <2>1 DEF LexedTo
    <3>2. n \in Nat /\ n # 0 /\ n - 1 \in Nat /\ tokens[n] \in S
      <4>. HIDE DEF S
      <4>. QED  BY <2>4, <3>1
    <3>3. /\ last \in S /\ last.start = tokens[n].start /\ last.size = tokens[n].size
          /\ last.type = tokens[n].type /\ last.line_num = tokens[n].line_num
      BY <3>2 DEF TokenOn
    <3>4. tokens' = us
      BY <2>2, <2>4 DEF track_newline, Front, Last
    <3>5. us \in Seq(S) /\ Len(us) = n /\ us[n] = last /\ \A i \in 1..n - 1 : us[i] = tokens[i]
      <4>. HIDE DEF S, last
      <4>1. SubSeq(tokens, 1, n - 1) \in Seq(S) /\ Len(SubSeq(tokens, 1, n - 1)) = n - 1
            /\ \A i \in 1..n - 1 : SubSeq(tokens, 1, n - 1)[i] = tokens[i]
        <5>1. 1 \in 1..n + 1 /\ n - 1 \in 0..n /\ \A i \in 1..n - 1 : i \in 1..(n - 1) - 1 + 1 /\ 1 + i - 1 = i
          BY <3>2
        <5>2. (n - 1) - 1 + 1 = n - 1 /\ ((1 <= n - 1) \/ n - 1 = 0)
          BY <3>2
        <5>. QED  BY <3>1, <3>2, <5>1, <5>2, SubSeqProperties
      <4>. QED  BY <3>2, <3>3, <4>1, AppendProperties
    <3>6. \A i \in 1..n : i = n \/ i \in 1..n - 1
      BY <3>2
    <3>. HIDE DEF us, last
    <3>7. \A i \in 1..n : /\ us[i].start = tokens[i].start /\ us[i].size = tokens[i].size
                          /\ us[i].type = tokens[i].type /\ us[i].line_num = tokens[i].line_num
      BY <3>3, <3>5, <3>6
    <3>8. LexedTo(cursor + 1, curr_line + 1, us)
      BY <1>2, <2>1, <3>1, <3>5, <3>7, SameTokens
    <3>. QED  BY <1>1, <2>2, <3>4, <3>8
  <2>. QED  BY <2>3, <2>4
<1>4. CASE ~(Whitespace /\ Here = "\n")
  <2>1. curr_line' = curr_line /\ tokens' = tokens
    BY <1>4 DEF Whitespace, Unexpected
  <2>2. Here # "\n" /\ (Here \in Blank \/ Here \notin HasCase)
    BY <1>4 DEF Whitespace, Unexpected, HasCase, Blank
  <2>3. LexedTo(cursor + 1, curr_line, tokens)
    BY <1>1, <1>2, <2>2, PassCharacter
  <2>. QED  BY <1>1, <2>1, <2>3
<1>. QED  BY <1>3, <1>4

\* lex_consume_identifier.
LEMMA IdentifierStep ==
  ASSUME LexInv, lex_consume_identifier
  PROVE  LexedTo(cursor', curr_line', tokens')
<1>. DEFINE set == Letter \cup Digit
            end == EndOf(cursor, set)
            type == get_identifier_or_keyword_type(SubSeq(text, cursor, end - 1))
            size == end - cursor
<1>1. Lexing /\ Here \in set /\ curr_line' = curr_line
      /\ Emit(Token(type, cursor, size), end)
  BY DEF lex_consume_identifier, AfterRun
<1>2. IsFile /\ cursor \in 1..Len(text) + 1 /\ cursor \in Nat /\ Len(text) \in Nat
  BY LexingAt
<1>3. NUL \notin set /\ "\n" \notin set
  BY Characters
<1>4. /\ end \in cursor..Len(text) + 1 /\ Char(end) \notin set
      /\ \A k \in cursor..end - 1 : text[k] \in set
  <2>. HIDE DEF set
  <2>. QED  BY <1>2, <1>3, EndOfScan
<1>5. type \in {"identifier", "keyword"}
  BY DEF get_identifier_or_keyword_type
<1>. HIDE DEF end, type
<1>6. size \in Nat /\ end = cursor + size
  BY <1>2, <1>4
<1>7. Munched(Token(type, cursor, size))
  BY <1>4, <1>5, <1>6, WordMunched DEF Token
<1>8. \A k \in cursor..end - 1 : text[k] # "\n"
  BY <1>3, <1>4
<1>. HIDE DEF size, set
<1>. QED  BY <1>1, <1>4, <1>5, <1>6, <1>7, <1>8, EmitLexed

\* lex_consume_number.
LEMMA NumberStep ==
  ASSUME LexInv, lex_consume_number
  PROVE  LexedTo(cursor', curr_line', tokens')
<1>. DEFINE end == EndOf(cursor, Digit)
            size == end - cursor
<1>1. Lexing /\ curr_line' = curr_line /\ Emit(Token("literal", cursor, size), end)
  BY DEF lex_consume_number, AfterRun
<1>2. IsFile /\ cursor \in 1..Len(text) + 1 /\ cursor \in Nat /\ Len(text) \in Nat
  BY LexingAt
<1>4. end \in cursor..Len(text) + 1 /\ Char(end) \notin Digit
  BY <1>2, Characters, EndOfScan
<1>. HIDE DEF end
<1>6. size \in Nat /\ end = cursor + size
  BY <1>2, <1>4
<1>7. Munched(Token("literal", cursor, size))
  BY <1>4, <1>6, LiteralMunched DEF Token
<1>. HIDE DEF size
<1>. QED  BY <1>1, <1>4, <1>6, <1>7, EmitLexed

\* lex_consume_single.
LEMMA SingleStep ==
  ASSUME LexInv, lex_consume_single
  PROVE  LexedTo(cursor', curr_line', tokens')
<1>. DEFINE type == "punctuation"
            size == 1
            next == cursor + 1
<1>1. Lexing /\ Here \in Single /\ curr_line' = curr_line
      /\ Emit(Token(type, cursor, size), next)
  BY DEF lex_consume_single
<1>2. IsFile /\ cursor \in 1..Len(text) /\ cursor \in Nat /\ Len(text) \in Nat
      /\ Char(cursor) = Here /\ text[cursor] = Here
  BY <1>1, LexingAt, HereIs
<1>3. Munched(Token(type, cursor, size))
  <2>1. Longest(cursor, 1)
    BY <1>1, <1>2, SingleLongest
  <2>2. PICK S : text \in Seq(S)
    BY DEF LexInv
  <2>. QED  BY <1>2, <2>1, <2>2, OperatorMunched DEF Token
<1>4. next \in cursor..Len(text) + 1 /\ size \in Nat /\ next = cursor + size
      /\ \A k \in cursor..next - 1 : k = cursor
  BY <1>2
<1>5. text[cursor] # "\n"
  BY <1>1, <1>2, Characters
<1>6. \A k \in cursor..next - 1 : text[k] # "\n"
  BY <1>4, <1>5
<1>7. type \in {"identifier", "keyword", "literal", "punctuation", "operator", "bad",
               "line_comment", "eof"}
  OBVIOUS
<1>. HIDE DEF type, size, next
<1>. QED  BY <1>1, <1>3, <1>4, <1>6, <1>7, EmitLexed

\* lex_consume_ambiguous_lexeme.
LEMMA OperatorStep ==
  ASSUME LexInv, lex_consume_ambiguous_lexeme
  PROVE  LexedTo(cursor', curr_line', tokens')
<1>. DEFINE type == IF Here = "|" /\ LexemeSize = 1 THEN "bad" ELSE "operator"
            size == LexemeSize
            next == cursor + size
<1>1. Lexing /\ Here \in Ambiguous /\ curr_line' = curr_line
      /\ Emit(Token(type, cursor, size), next)
  BY DEF lex_consume_ambiguous_lexeme
<1>2. IsFile /\ cursor \in 1..Len(text) /\ cursor \in Nat /\ Len(text) \in Nat
      /\ Char(cursor) = Here /\ text[cursor] = Here
  BY <1>1, LexingAt, HereIs
<1>3. PICK S : text \in Seq(S)
  BY DEF LexInv
<1>4. /\ size \in 1..3 /\ next <= Len(text) + 1
      /\ \A k \in cursor..next - 1 : text[k] # "\n"
      /\ ~(Here = "|" /\ size = 1) => Longest(cursor, size)
  BY <1>1, <1>2, <1>3, PeekedLongest
<1>5. Munched(Token(type, cursor, size))
  <2>1. CASE Here = "|" /\ size = 1
    <3>1. type = "bad"
      BY <2>1
    <3>. HIDE DEF type, size
    <3>. QED  BY <3>1, OtherMunched DEF Token
  <2>2. CASE ~(Here = "|" /\ size = 1)
    <3>1. type = "operator"
      BY <2>2
    <3>. HIDE DEF type, size
    <3>. QED  BY <1>2, <1>3, <1>4, <2>2, <3>1, OperatorMunched DEF Token
  <2>. QED  BY <2>1, <2>2
<1>6. type \in {"identifier", "keyword", "literal", "punctuation", "operator", "bad",
               "line_comment", "eof"}
  BY DEF LexemeSize
<1>. HIDE DEF type
<1>7. next \in cursor..Len(text) + 1 /\ size \in Nat /\ next = cursor + size
  <2>. HIDE DEF size
  <2>. QED  BY <1>2, <1>4
<1>. HIDE DEF size, next
<1>. QED  BY <1>1, <1>4, <1>5, <1>6, <1>7, EmitLexed

\* lex_consume_line_comment.
LEMMA CommentStep ==
  ASSUME LexInv, lex_consume_line_comment
  PROVE  LexedTo(cursor', curr_line', tokens')
<1>. DEFINE type == "line_comment"
            next == Find(cursor, "\n")
            size == next - cursor
<1>1. IsFile /\ cursor \in Nat \ {0} /\ Len(text) \in Nat /\ LexedTo(cursor, curr_line, tokens)
  BY LexingAt
<1>2. CASE next = 0
  BY <1>1, <1>2 DEF lex_consume_line_comment, Overrun
<1>3. CASE next # 0
  <2>1. /\ Emit(Token(type, cursor, size), next)
        /\ curr_line' = curr_line
    BY <1>3 DEF lex_consume_line_comment, AfterComment
  <2>2. next \in cursor..Len(text) /\ \A k \in cursor..next - 1 : text[k] # "\n"
    <3>1. PICK S : text \in Seq(S)
      BY DEF LexInv
    <3>. QED  BY <1>1, <1>3, FindFirst
  <2>3. type \in {"identifier", "keyword", "literal", "punctuation", "operator", "bad",
                 "line_comment", "eof"}
    OBVIOUS
  <2>4. Munched(Token(type, cursor, size))
    BY OtherMunched DEF Token
  <2>. HIDE DEF type, next
  <2>5. next \in cursor..Len(text) + 1 /\ size \in Nat /\ next = cursor + size
    BY <1>1, <2>2
  <2>. HIDE DEF size
  <2>. QED  BY <2>1, <2>2, <2>3, <2>4, <2>5, EmitLexed
<1>. QED  BY <1>2, <1>3

\* lex_consume_string_literal.
LEMMA StringStep ==
  ASSUME LexInv, lex_consume_string_literal
  PROVE  LexedTo(cursor', curr_line', tokens')
<1>. DEFINE type == "literal"
            quote == Find(cursor + 1, "\"")
            next == quote + 1
            size == next - cursor
<1>1. IsFile /\ cursor \in Nat /\ cursor + 1 \in Nat \ {0} /\ Len(text) \in Nat
      /\ LexedTo(cursor, curr_line, tokens)
  BY LexingAt
<1>2. CASE quote = 0
  BY <1>1, <1>2 DEF lex_consume_string_literal, Overrun
<1>3. CASE quote # 0
  <2>2. quote \in cursor + 1..Len(text)
    BY <1>1, <1>3, FindFirst
  <2>1. /\ Emit(Token(type, cursor, size), next)
        /\ curr_line' = curr_line
        /\ Lexing /\ Here = "\""
    <3>1. Lexing /\ Here = "\""
      BY DEF lex_consume_string_literal
    <3>2. Emit(Token("literal", cursor, quote + 1 - cursor), quote + 1) /\ curr_line' = curr_line
      <4>. HIDE DEF quote
      <4>1. \/ quote = 0
            \/ /\ Emit(Token("literal", cursor, quote + 1 - cursor), quote + 1)
               /\ curr_line' = curr_line
        BY DEF lex_consume_string_literal, quote
      <4>. QED  BY <1>3, <4>1
    <3>3. quote + 1 - cursor = size
      <4>. HIDE DEF quote
      <4>. QED  BY <1>1, <2>2
    <3>. QED  BY <3>1, <3>2, <3>3
  <2>3. type \in {"identifier", "keyword", "literal", "punctuation", "operator", "bad",
                 "line_comment", "eof"}
    OBVIOUS
  <2>4. Munched(Token(type, cursor, size))
    <3>1. Char(cursor) \notin Digit
      BY <2>1, HereIs, Characters
    <3>. HIDE DEF size
    <3>. QED  BY <3>1, LiteralMunched DEF Token
  <2>. HIDE DEF quote
  <2>5. next \in cursor..Len(text) + 1 /\ size \in Nat /\ next = cursor + size
    BY <1>1, <2>2
  <2>6. type = "literal"
    OBVIOUS
  <2>. HIDE DEF size, next, type
  <2>. QED  BY <2>1, <2>3, <2>4, <2>5, <2>6, EmitLexed
<1>. QED  BY <1>2, <1>3

\* The eof token behind the last character.
LEMMA FinishStep ==
  ASSUME LexInv, Finish
  PROVE  LexedTo(cursor', curr_line', tokens')
<1>. DEFINE t == [Token("eof", cursor, 0) EXCEPT !.line_num = Unset]
<1>1. curr_line' = curr_line /\ cursor' = cursor /\ tokens' = Append(tokens, t)
  BY DEF Finish, Emit
<1>2. cursor \in 1..Len(text) + 1 /\ cursor \in Nat /\ Len(text) \in Nat /\ 0 \in 0..Len(text)
  BY LexingAt
<1>3. t.start = cursor /\ t.size = 0 /\ t.type = "eof"
  BY DEF Token
<1>4. t \in TokenOn(curr_line)
  BY <1>2 DEF Token, TokenOn
<1>. HIDE DEF t
<1>5. Munched(t)
  BY <1>3, OtherMunched
<1>6. /\ cursor \in cursor..Len(text) + 1 /\ cursor = cursor + t.size
      /\ \A k \in cursor..cursor - 1 : FALSE
  BY <1>2, <1>3
<1>. QED  BY <1>1, <1>3, <1>4, <1>5, <1>6, LexingAt, AddToken

-----------------------------------------------------------------------------
(* The theorems.                                                            *)

\* The file is a sequence and nothing has been lexed.
LEMMA InitLexed == Init => LexInv
<1>. SUFFICES ASSUME Init PROVE LexInv
  OBVIOUS
<1>1. PICK a \in Alphabets, n \in Nat : text \in [1..n -> a.chars]
  <2>1. \A a \in Alphabets : a.max \in Nat
    BY AlphabetsAssumption
  <2>2. \A a \in Alphabets : \A n \in 0..a.max : n \in Nat
    BY <2>1
  <2>. QED  BY <2>2 DEF Init
<1>2. text \in Seq(a.chars)
  BY <1>1, SeqDef
<1>3. IsFile
  BY <1>2 DEF IsFile
<1>4. cursor = 1 /\ curr_line = 0 /\ tokens = <<>> /\ result = "run"
  BY DEF Init
<1>5. Len(text) \in Nat
  BY <1>3, CharIs
<1>6. tokens \in Seq(TokenOn(0)) /\ Len(tokens) = 0
  BY <1>4
<1>7. cursor \in 1..Len(text) + 1 /\ 0 \in 0..cursor - 1 /\ 1..cursor - 1 = {} /\ 1..0 = {}
      /\ 1..Len(tokens) - 1 = {}
  BY <1>4, <1>5, <1>6
<1>8. Cardinality(LinesUpTo(cursor, tokens)) = 0
  <2>1. LinesUpTo(cursor, tokens) = {}
    BY <1>7 DEF LinesUpTo, Newlines
  <2>. QED  BY <2>1, FS_EmptySet
<1>9. Within(tokens, cursor) /\ Follows(tokens) /\ Covers(tokens, cursor)
  BY <1>6, <1>7 DEF Within, Follows, Covers
<1>10. LexedTo(cursor, curr_line, tokens)
  BY <1>4, <1>6, <1>7, <1>8, <1>9 DEF LexedTo, Numbered
<1>. QED  BY <1>2, <1>3, <1>4, <1>10 DEF LexInv

\* Every step of lex() preserves it.
LEMMA StepLexed == LexInv /\ [Next]_vars => LexInv'
<1>. SUFFICES ASSUME LexInv, [Next]_vars PROVE LexInv'
  OBVIOUS
<1>1. LexedTo(cursor', curr_line', tokens')
  <2>1. CASE UNCHANGED vars
    BY <2>1, LexingAt DEF vars
  <2>. QED  BY <2>1, WhitespaceStep, IdentifierStep, NumberStep, SingleStep, OperatorStep,
               CommentStep, StringStep, FinishStep DEF Next
<1>2. text' = text /\ result' \in {"run", "done", "overrun"}
  BY DEF LexInv, Next, vars, Whitespace, Unexpected, lex_consume_identifier,
     lex_consume_number, lex_consume_single, lex_consume_ambiguous_lexeme,
     lex_consume_line_comment, lex_consume_string_literal, Finish, Overrun
<1>3. IsFile' /\ \E S : text' \in Seq(S)
  BY <1>2 DEF LexInv, IsFile
<1>4. LexedTo(cursor, curr_line, tokens)'
  BY <1>1, <1>2 DEF LexedTo, TokenOn, Within, Follows, Covers, LinesUpTo, StringsOf,
     Numbered, Newlines, Munched, Char, Span
<1>. QED  BY <1>2, <1>3, <1>4 DEF LexInv

(***************************************************************************)
(* Throughout, the file up to the cursor is tokens, blanks and characters  *)
(* no case is for, every token that was scanned has its line and none is   *)
(* too short.  The eof token's line is left open, as nothing sets it.      *)
(***************************************************************************)
THEOREM FileIsLexed == Spec => []LexInv
BY InitLexed, StepLexed, PTL DEF Spec

(***************************************************************************)
(* The cursor stays within the file and the NUL behind it, and a line      *)
(* number that was set never exceeds the number of lines passed.           *)
(***************************************************************************)
THEOREM LexerTypes == Spec => []TypeOK
<1>1. LexInv => TypeOK
  <2>. SUFFICES ASSUME LexInv PROVE TypeOK
    OBVIOUS
  <2>1. cursor \in 1..Len(text) + 1 /\ curr_line \in 0..Len(text)
    BY LexingAt
  <2>. QED  BY <2>1, LexingAt DEF TypeOK, TokenOn, LexInv
<1>. QED  BY <1>1, FileIsLexed, PTL

(***************************************************************************)
(* No character is lost and none is read twice: cursor_ stands on the last *)
(* character of each token when lex() increments it.                       *)
(***************************************************************************)
THEOREM TokensTileTheFile == Spec => []TokensTile
<1>1. LexInv => TokensTile
  <2>. SUFFICES ASSUME LexInv PROVE TokensTile
    OBVIOUS
  <2>1. DOMAIN tokens = 1..Len(tokens)
    BY LexingAt
  <2>2. Follows(tokens) /\ Covers(tokens, cursor) /\ Within(tokens, cursor)
    BY LexingAt DEF LexedTo
  <2>3. \A i \in 1..Len(tokens) : tokens[i].start + tokens[i].size <= Len(text) + 1
    <3>. SUFFICES ASSUME NEW i \in 1..Len(tokens)
                  PROVE  tokens[i].start + tokens[i].size <= Len(text) + 1
      OBVIOUS
    <3>1. tokens[i].start + tokens[i].size <= cursor
      BY <2>2 DEF Within
    <3>2. tokens[i].start \in Nat /\ tokens[i].size \in Nat
      BY LexingAt, TokenFields
    <3>. QED  BY <3>1, <3>2, LexingAt
  <2>. QED  BY <2>1, <2>2, <2>3 DEF TokensTile, Follows, Covers
<1>. QED  BY <1>1, FileIsLexed, PTL

(***************************************************************************)
(* The line of a token that was scanned is counted right, whatever         *)
(* comments and strings of several lines come before it.  Nothing is said  *)
(* of the eof token.                                                       *)
(***************************************************************************)
THEOREM LinesAreRight == Spec => []LinesRight
<1>1. LexInv => LinesRight
  <2>. SUFFICES ASSUME LexInv PROVE LinesRight
    OBVIOUS
  <2>1. DOMAIN tokens = 1..Len(tokens)
    BY LexingAt
  <2>2. InStrings = StringsOf(tokens)
    BY DEF InStrings, StringsOf
  <2>. QED  BY <2>1, <2>2, LexingAt DEF LexedTo, Numbered, LinesRight, LinesUpTo
<1>. QED  BY <1>1, FileIsLexed, PTL

(***************************************************************************)
(* No operator, word or number could have been longer.                     *)
(***************************************************************************)
THEOREM MatchesAreLongest == Spec => []LongestMatch
<1>1. LexInv => LongestMatch
  <2>. SUFFICES ASSUME LexInv PROVE LongestMatch
    OBVIOUS
  <2>1. DOMAIN tokens = 1..Len(tokens) /\ \A i \in 1..Len(tokens) : Munched(tokens[i])
    BY LexingAt DEF LexedTo
  <2>. QED  BY <2>1 DEF LongestMatch, Munched
<1>. QED  BY <1>1, FileIsLexed, PTL
=============================================================================
