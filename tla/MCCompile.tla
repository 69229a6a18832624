----------------------------- MODULE MCCompile ------------------------------
(* Compile on a small program space: the two functions and the statements   *)
(* that declare, hide and read the names x and y; x may also be a type.     *)
EXTENDS Compile

T(t) == OfType(t)
Id(n) == [k |-> "id", n |-> n]
Num == [k |-> "num"]
EqualTo(l, r) == [k |-> "binop", op |-> "equal", n |-> l, r |-> r]
IsA(n, t) == [k |-> "is", n |-> n, type |-> T(t)]
LetOf(n, rhs) == [k |-> "let", n |-> n, decl |-> InferType, rhs |-> rhs]
Param(n, t) == [n |-> n, decl |-> T(t)]

MCNames == {"x", "y", "f"}
MCUserTypes == {"E", "E#A", "f", "x"}
MCStructNodes == { [k |-> "struct", n |-> "x", fields |-> {}] }
MCEnumNodes == { [n |-> "E", members |->
  << [t |-> "E#A", is_struct |-> TRUE, fields |-> {T("i32")}] >>] }
MCFnNodes ==
  { [n |-> "f", params |-> <<Param("x", "E")>>, ret |-> T("void")] }
MCExternNodes ==
  { [n |-> "f", params |-> <<Param("x", "i32")>>, ret |-> T("void")] }
MCSimpleNodes ==
  { LetOf("x", Num), LetOf("x", Id("x")), LetOf("y", Id("x")),
    [k |-> "expr", rhs |-> Id("y")] }
MCCondExprs == { IsA("x", "E#A"), EqualTo("y", "y") }
MCArrowParams == { <<Param("y", "E#A")>>, <<>> }
MCForNodes == { [init |-> LetOf("y", Num), cond |-> EqualTo("y", "y"),
                 end |-> [k |-> "assign", n |-> "y", rhs |-> Id("x")]] }
MCSwitchExprs == { Id("x"), [k |-> "call", n |-> "f", args |-> <<"x">>] }
MCCaseNodes ==
  { [label |-> Id("E#A"), arrow |-> TRUE, params |-> <<Param("y", "E#A")>>],
    [label |-> [k |-> "default"], arrow |-> FALSE, params |-> <<>>] }
=============================================================================
