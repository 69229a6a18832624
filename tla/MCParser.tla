------------------------------ MODULE MCParser ------------------------------
(* Parser on all inputs of a few families: short files of declarations, and *)
(* single statements, types and expressions, each with the tokens that tell *)
(* its functions apart.                                                     *)
EXTENDS Parser

Family(start, max, tokens) ==
  [start |-> start, tokens |-> tokens, max |-> max, trace |-> FALSE]

MCFiles ==
  { Family("parse", 9, {"extern", "fn", "x", "(", ")", "{", "}", ":", ";", ",", "..."}),
    Family("parse", 10, {"struct", "union", "enum", "x", "{", "}", ":", ";", ","}),
    Family("parse_type_decl", 6, {"x", "::", "*", "[", "1", "text", "]"}),
    Family("parse_statement", 7, {"let", "if", "else", "x", "(", ")", "{", "}", ":", ";", "=", "=>"}),
    Family("parse_statement", 7, {"for", "while", "return", "x", "(", ")", "{", "}", ";", "+="}),
    Family("parse_statement", 8, {"switch", "case", "default", "x", "1", "(", ")", "{", "}", ":", ";", "=>"}),
    Family("parse_expr", 7, {"x", "+", "*", "(", ")", "{", "}", ".", "=", ","}),
    Family("parse_expr", 6, {"x", "&", "->", "is", "[", "]", "(", ")", ";", "&&"}) }

Expression(max, tokens) ==
  [start |-> "parse_statement", tokens |-> tokens, max |-> max, trace |-> TRUE]

MCExpressions ==
  { Expression(8, {"x", "-", "*", ";"}),
    Expression(6, {"x", "-", "*", "<", ";"}),
    Expression(6, {"x", "-", "*", "(", ")", ";"}) }

MCInputs == MCFiles \cup MCExpressions
=============================================================================
