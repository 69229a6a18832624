------------------------------- MODULE Parser -------------------------------
(***************************************************************************)
(* The recursive descent of class AstGen over the tokens of a TokenCursor: *)
(* module Grammar's functions, run on a stack of what is still to be done. *)
(* The file is not chosen beforehand: whenever a token is consumed, any    *)
(* token may be the next one.                                              *)
(***************************************************************************)
EXTENDS Grammar

CONSTANTS
  Inputs  \* what is parsed: the function that starts, the tokens, the bound
          \* on their number, and whether read and tree are recorded

ASSUME InputsAssumption ==
  Inputs \subseteq [start : DOMAIN Functions \ InnerLoops,
                    tokens : SUBSET STRING, max : Nat, trace : BOOLEAN]

\* A statement is what is recorded: its last token is no part of an expression.
ASSUME TraceAssumption ==
  \A i \in Inputs : i.trace => i.start = "parse_statement"

VARIABLES
  input,     \* the member of Inputs
  tok,       \* TokenCursor::peek()
  pos,       \* TokenCursor::_index, comments not counted
  todo,      \* the C++ call stack: what remains of each function, innermost first
  result,    \* "run", then "ok" or "error"
  unclosed,  \* history: the brackets consumed and not closed, innermost last
  slips,     \* history: the defects of Grammar met on the way
  read,      \* history: the tokens consumed, where recorded
  tree       \* history: the tree in postfix order, where recorded

cursor == <<tok, pos, unclosed, read>>
vars == <<input, tok, pos, todo, result, unclosed, slips, read, tree>>

Following(i, n) == IF n < i.max THEN i.tokens \cup {"eof"} ELSE {"eof"}

Init ==
  /\ input \in Inputs
  /\ tok \in Following(input, 0)
  /\ pos = 0
  /\ todo = <<Call(input.start)>>
  /\ result = "run"
  /\ unclosed = <<>> /\ slips = {} /\ read = <<>> /\ tree = <<>>

-----------------------------------------------------------------------------
Opener ==
  [t \in {")", "]", "}"} |->
     CASE t = ")" -> "(" [] t = "]" -> "[" [] OTHER -> "{"]

Closed(us, t) ==
  CASE t \in {"(", "[", "{"} -> Append(us, t)
    [] t \in DOMAIN Opener -> IF us # <<>> /\ Last(us) = Opener[t]
                              THEN Front(us) ELSE Append(us, t)
    [] OTHER -> us

\* _index += 1
Advance ==
  /\ pos' = pos + 1
  /\ tok' \in Following(input, pos')
  /\ unclosed' = Closed(unclosed, tok)
  /\ read' = IF input.trace THEN Append(read, tok) ELSE read

Doing(kind) == result = "run" /\ todo # <<>> /\ Head(todo)[1] = kind
Arg == Head(todo)[2]
Rest == Tail(todo)

\* Mutant: consume and consume_if_expected do not stop at the end of the file.
MatchesPastEnd(ts) == tok \in ts \/ tok = "eof"

Matches(ts) == tok \in ts

-----------------------------------------------------------------------------
Consume ==
  /\ Doing("expect") /\ Matches(Arg)
  /\ Advance
  /\ todo' = Rest
  /\ UNCHANGED <<input, result, slips, tree>>

\* An error goes up to the caller that drops it, or out of the parser.
Refuse ==
  /\ Doing("expect") /\ ~Matches(Arg)
  /\ LET at == SelectInSeq(todo, LAMBDA item : item = Attempted)
     IN \/ /\ at = 0
           /\ result' = "error" /\ todo' = <<>> /\ UNCHANGED slips
        \/ /\ at # 0
           /\ todo' = SubSeq(todo, at + 1, Len(todo))
           /\ slips' = slips \cup {"then"} /\ UNCHANGED result
  /\ UNCHANGED <<input, cursor, tree>>

Descend ==
  /\ \/ Doing("call") /\ todo' = Functions[Arg] \o Rest
     \/ Doing("attempt") /\ todo' = <<Call(Arg), Attempted>> \o Rest
     \/ Doing("attempted") /\ todo' = Rest
  /\ UNCHANGED <<input, cursor, result, slips, tree>>

Branch ==
  /\ Doing("switch")
  /\ \/ \E k \in DOMAIN Arg : tok \in Arg[k][1] /\ todo' = Arg[k][2] \o Rest
     \/ /\ \A k \in DOMAIN Arg : tok \notin Arg[k][1]
        /\ todo' = Head(todo)[3] \o Rest
  /\ UNCHANGED <<input, cursor, result, slips, tree>>

Loop ==
  /\ Doing("until") \/ Doing("while")
  /\ todo' = IF (tok \in Arg) = (Head(todo)[1] = "while")
             THEN Head(todo)[3] \o todo ELSE Rest
  /\ UNCHANGED <<input, cursor, result, slips, tree>>

-----------------------------------------------------------------------------
(* parse_bin_op                                                             *)

\* The operator is consumed before its precedence is compared.
BinOpOperator ==
  /\ Doing("binop") /\ tok \in BinOpTokens
  /\ Advance
  /\ todo' = IF get_token_precedence(tok) < Arg THEN Rest
             ELSE <<Call("parse_postfix_expr"), Climb(Arg, tok)>> \o Rest
  /\ UNCHANGED <<input, result, slips, tree>>

BinOpDone ==
  /\ Doing("binop") /\ tok \notin BinOpTokens
  /\ todo' = Rest
  /\ UNCHANGED <<input, cursor, result, slips, tree>>

\* Mutant: the right-hand side takes operators of the same precedence too.
TighterThanEqual(op) == get_token_precedence(op)

TighterThan(op) == get_token_precedence(op) + 1

\* The operator after the right-hand side takes it when it binds more tightly.
BinOpClimb ==
  /\ Doing("climb")
  /\ LET op == Head(todo)[3]
         rhs == IF get_token_precedence(op) < get_token_precedence(tok)
                THEN <<BinOp(TighterThan(op))>> ELSE <<>>
     IN todo' = rhs \o <<Build(op), BinOp(Arg)>> \o Rest
  /\ UNCHANGED <<input, cursor, result, slips, tree>>

-----------------------------------------------------------------------------
BuildNode ==
  /\ Doing("build")
  /\ tree' = IF input.trace THEN Append(tree, Arg) ELSE tree
  /\ todo' = Rest
  /\ UNCHANGED <<input, cursor, result, slips>>

NoteSlip ==
  /\ Doing("slip")
  /\ slips' = slips \cup {Arg}
  /\ todo' = Rest
  /\ UNCHANGED <<input, cursor, result, tree>>

Finish ==
  /\ result = "run" /\ todo = <<>>
  /\ result' = "ok"
  /\ UNCHANGED <<input, cursor, todo, slips, tree>>

Next ==
  \/ Consume \/ Refuse \/ Descend \/ Branch \/ Loop
  \/ BinOpOperator \/ BinOpDone \/ BinOpClimb
  \/ BuildNode \/ NoteSlip \/ Finish

Spec == Init /\ [][Next]_vars

\* The parser is one thread that waits for nothing: it takes its next step.
FairSpec == Spec /\ WF_vars(Next)

-----------------------------------------------------------------------------
(* Properties                                                               *)

Brackets == {"(", ")", "[", "]", "{", "}"}

\* The cursor never moves past the end of the file (TokenCursor: _index is
\* used unchecked), and the rest has its type.
TypeOK ==
  /\ input \in Inputs
  /\ tok \in input.tokens \cup {"eof"}
  /\ pos \in 0..input.max

  /\ result \in {"run", "ok", "error"}
  /\ unclosed \in Seq(Brackets)
  /\ slips \subseteq {"then", "initializer"}

\* A bracket the parser consumes as a closing one closes the innermost open
\* one, and a program it accepts has none left open: the pairing is spread over
\* a dozen functions that consume one of a pair each, some under a condition.
\* Only after an if whose then-statement failed (AstGen.cpp:750) or an
\* initializer left open (AstGen.cpp:994) it may not be so.
BracketsMatch ==
  slips = {} => /\ ToSet(unclosed) \subseteq {"(", "[", "{"}
                /\ result = "ok" => unclosed = <<>>

\* Tokens on which parse_expr or the comma after it moves the cursor.
StartsExpr ==
  BinOpTokens \cup {"x", "1", "text", "(", "&", ".", "->", "[", "{", "is", ","}

\* Before a turn of parse_value_list, at a token that no argument starts with and
\* that does not end the list.
Stalled ==
  /\ todo # <<>> /\ Head(todo) = parse_value_list[1]
  /\ tok \notin StartsExpr \cup {")"}

\* The parser ends, whatever the file is: each turn of a loop consumes a token
\* or finds an error, at the end of the file at the latest.  The one exception
\* is parse_value_list (AstGen.cpp:1008), which then turns for ever.
EndsOrStalls == <>(result # "run") \/ []<>Stalled

-----------------------------------------------------------------------------
(* A reference for expressions: operands and binary operators in turn, and  *)
(* parentheses, read with a stack of pending operators.                     *)

\* How many of the pending operators wait for more than one of precedence p.
Waiting(ops, p) ==
  SelectLastInSeq(ops, LAMBDA op : get_token_precedence(op) < p)

\* The pending operators above the first n, in the order they are applied.
Applied(ops, n) == Reverse(SubSeq(ops, n + 1, Len(ops)))

\* out is the tree so far in postfix order; operand says that one is missing.
Shift(s, t) ==
  LET n == Waiting(s.ops, IF t = ")" THEN 0 ELSE get_token_precedence(t))
  IN CASE t = "x" /\ s.operand ->
            [s EXCEPT !.out = Append(@, t), !.operand = FALSE]
       [] t = "(" /\ s.operand -> [s EXCEPT !.ops = Append(@, t)]
       [] t \in BinOpTokens /\ ~s.operand ->
            [s EXCEPT !.out = @ \o Applied(s.ops, n), !.operand = TRUE,
                      !.ops = Append(SubSeq(@, 1, n), t)]
       [] t = ")" /\ ~s.operand /\ n > 0 ->
            [s EXCEPT !.out = @ \o Applied(s.ops, n), !.ops = SubSeq(@, 1, n - 1)]
       [] OTHER -> [s EXCEPT !.ok = FALSE]

Shifted(ts) ==
  FoldLeft(Shift, [out |-> <<>>, ops |-> <<>>, operand |-> TRUE, ok |-> TRUE], ts)

WellFormed(ts) ==
  LET s == Shifted(ts) IN s.ok /\ ~s.operand /\ ~Contains(s.ops, "(")

Postfix(ts) == LET s == Shifted(ts) IN s.out \o Reverse(s.ops)

\* An expression that is accepted has the tree its operators' precedences ask
\* for, those of one precedence grouped from the left (parse_bin_op).
GroupedByPrecedence ==
  result = "ok" /\ read # <<>> /\ WellFormed(Front(read)) =>
    tree = Postfix(Front(read))

\* An expression is not refused at an operand that follows an operator.
\* AstGen.cpp:337: "If this is a binop that binds at least as tightly as the
\* current binop, consume it, otherwise we are done."
OperatorsKept ==
  result = "error" /\ tok = "x" => ~WellFormed(Append(read, tok))
=============================================================================
