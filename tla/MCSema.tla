------------------------------- MODULE MCSema -------------------------------
(* Sema on a small program space: an enum with a member that has fields and *)
(* one that has none, a struct, functions over them, and statements chosen  *)
(* so that every handler succeeds and fails somewhere.                      *)
EXTENDS Sema

T(t) == OfType(t)
Id(n) == [k |-> "id", n |-> n]
Num == [k |-> "num"]
Empty == [k |-> "empty"]
EqualTo(l, r) == [k |-> "binop", op |-> "equal", n |-> l, r |-> r]
IsA(n, t) == [k |-> "is", n |-> n, type |-> T(t)]
Call(f, args) == [k |-> "call", n |-> f, args |-> args]
LetOf(n, d, rhs) == [k |-> "let", n |-> n, decl |-> d, rhs |-> rhs]
Param(n, t) == [n |-> n, decl |-> T(t)]

EnumE == [n |-> "E", members |->
  << [t |-> "E#A", is_struct |-> TRUE, fields |-> {T("i32")}],
     [t |-> "E#N", is_struct |-> FALSE, fields |-> {}] >>]
StructP == [k |-> "struct", n |-> "P", fields |-> {T("E")}]

MCNames == {"x", "f", "E"}
MCUserTypes == {"E", "E#A", "E#N", "P", "f"}
MCStructNodes == {StructP}
MCEnumNodes == {EnumE}
MCFnNodes ==
  { [n |-> "f", params |-> <<Param("x", "E")>>, ret |-> T("bool")],
    [n |-> "f", params |-> <<Param("x", "i32")>>, ret |-> T("i32")],
    [n |-> "E", params |-> <<Param("x", "i32")>>, ret |-> T("void")] }
MCExternNodes == { [n |-> "f", params |-> <<>>, ret |-> T("void")] }
MCSimpleNodes ==
  { LetOf("x", T("E"), Id("E#N")), LetOf("x", InferType, Call("f", <<"x">>)),
    [k |-> "assign", n |-> "x", rhs |-> Num],
    [k |-> "return", rhs |-> Id("x")] }
MCCondExprs == { IsA("x", "E#A"), EqualTo("x", "x") }
MCArrowParams == { <<Param("x", "E#A")>>, <<>> }
MCForNodes == { [init |-> LetOf("x", InferType, Num), cond |-> EqualTo("x", "x"),
                 end |-> [k |-> "assign", n |-> "x", rhs |-> Id("x")]] }
MCSwitchExprs == { Id("x") }
Label(l, arrow, params) == [label |-> l, arrow |-> arrow, params |-> params]
MCCaseNodes ==
  { Label(Id("E#A"), TRUE, <<Param("x", "E#A")>>), Label(Id("P"), FALSE, <<>>),
    Label(Num, FALSE, <<>>), Label([k |-> "default"], FALSE, <<>>) }
=============================================================================
