------------------------------ MODULE MCValues ------------------------------
(***************************************************************************)
(* Integers of two, three and four bits stand for those of 8, 16 and 32.    *)
(***************************************************************************)
EXTENDS Values

MCHalf ==
  [t \in IntTypes \cup {"bool"} |->
     CASE t \in {"i8", "u8"} -> 2 [] t \in {"i16", "u16"} -> 4 [] t = "bool" -> 1
       [] t \in {"i32", "u32", "i64", "u64"} -> 8]

i8 == OfType("i8")
u8 == OfType("u8")
i16 == OfType("i16")
i32 == OfType("i32")
u32 == OfType("u32")
P == OfType("P")
Array == [type |-> "i32", ind |-> 0, arr |-> 2]

M(n, ti) == [n |-> n, type |-> ti]
\* struct P { x: i8, y: i32 }  struct Q { p: P, z: i8 }  union U { s: i8, w: i32 }
\* enum E { A { v: i32 }, N }
MCUserTypes ==
  LET Made(t, cls, dep, nominal, members) ==
        t :> [cls |-> cls, dep |-> dep, nominal |-> nominal, members |-> members,
              ret |-> None, params |-> <<>>]
  IN Made("P", "struct", "P", None, <<M("x", i8), M("y", i32)>>)
       @@ Made("Q", "struct", "Q", None, <<M("p", P), M("z", i8)>>)
       @@ Made("U", "union", "U", None, <<M("s", i8), M("w", i32)>>)
       @@ Made("E", "enum", "E", None, <<>>)
       @@ Made("E#A", "struct", "E", 0, <<M("v", i32)>>)
       @@ Made("E#N", "primitive", "E", 1, <<>>)

-----------------------------------------------------------------------------
nil == [k |-> "empty"]
num(n) == [k |-> "num", val |-> n]
id(n) == [k |-> "id", n |-> n]
bin(op, l, r) == [k |-> "binop", op |-> op, l |-> l, r |-> r]
dot(e, m) == [k |-> "member", e |-> e, m |-> m]
arrow(e, m) == [k |-> "imember", e |-> e, m |-> m]
at(e, i) == [k |-> "index", e |-> e, i |-> i]
ref(e) == [k |-> "addressof", e |-> e]
deref(e) == [k |-> "deref", e |-> e]
isA(e, t) == [k |-> "is", e |-> e, type |-> t]
call(n, args) == [k |-> "call", n |-> n, args |-> args]
fld(m, e) == [m |-> m, e |-> e]
new(t, fields) == [k |-> "init", type |-> t, fields |-> fields]

let(n, decl, rhs) == [k |-> "let", n |-> n, decl |-> decl, rhs |-> rhs]
set(l, op, r) == [k |-> "assign", lhs |-> l, op |-> op, rhs |-> r]
do(e) == [k |-> "expr", e |-> e]
ret(e) == [k |-> "return", e |-> e]
if(e, params, then) == [k |-> "if", e |-> e, params |-> params, then |-> then]

par(n, ti) == [n |-> n, type |-> ti]
fun(params, r, body) == [params |-> params, ret |-> r, body |-> body]

-----------------------------------------------------------------------------
(* moved takes a P by value, changes it and returns it; put writes through  *)
(* a pointer; payload asks an enum; next is called for its value; touch is   *)
(* called for its effect.                                                    *)
MCFunctions ==
  LET Common ==
        "put" :> fun(<<par("q", PointerTo(P, 1)), par("k", i32)>>, i32,
                     <<set(arrow(id("q"), "y"), "=", id("k")),
                       set(arrow(id("q"), "x"), "=", bin("-", num(0), id("k"))),
                       ret(arrow(id("q"), "y"))>>)
        @@ "payload" :> fun(<<par("f", OfType("E"))>>, i32,
                     <<if(isA(id("f"), "E#A"), <<"pl">>, ret(bin("+", dot(id("pl"), "v"), num(1)))),
                       ret(num(0))>>)
        @@ "next" :> fun(<<par("k", i32)>>, i32,
                     <<set(id("k"), "=", bin("+", id("k"), num(1))), ret(id("k"))>>)
        @@ "touch" :> fun(<<par("q", PointerTo(P, 1))>>, VoidType,
                     <<set(arrow(id("q"), "x"), "=", num(1)), ret(nil)>>)
      moved == fun(<<par("v", P)>>, P,
                   <<set(dot(id("v"), "y"), "=", bin("*", dot(id("v"), "y"), num(3))),
                     set(dot(id("v"), "x"), "=", num(3)), ret(id("v"))>>)
      fresh == fun(<<par("v", P)>>, P,
                   <<let("r", P, new("P", <<fld("y", dot(id("v"), "x")), fld("x", dot(id("v"), "x"))>>)),
                     ret(id("r"))>>)
      built == fun(<<par("v", P)>>, P,
                   <<let("r", P, new("P", <<fld("y", num(5)), fld("x", dot(id("v"), "x"))>>)),
                     ret(id("r"))>>)
      relayed == fun(<<par("w", P)>>, P, <<ret(call("inner", <<id("w")>>))>>)
  IN {Common @@ ("moved" :> moved), Common @@ ("moved" :> built), Common @@ ("moved" :> fresh),
      Common @@ ("inner" :> moved) @@ ("moved" :> relayed)}

MCPrologue ==
  <<let("a", i8, num(3)), let("b", u8, num(3)), let("c", i32, num(2)), let("n", u32, num(1)),
    let("d", i16, bin("+", num(4), num(2))),
    let("p", P, new("P", <<fld("y", id("c")), fld("x", id("a"))>>)),
    let("e", OfType("E"), new("E#A", <<fld("v", num(6))>>)),
    let("w", Array, nil), let("u", OfType("U"), nil)>>

MCStatements ==
  <<set(id("c"), "=", id("a")), set(id("c"), "=", id("b")), set(id("b"), "=", num(1)), set(id("d"), "=", bin("+", id("a"), id("c"))),
   set(id("c"), "=", bin("*", id("c"), id("d"))), set(id("a"), "=", bin("-", id("a"), num(5))),
   set(id("n"), "=", bin("+", id("c"), id("b"))), set(id("c"), "=", bin("/", id("d"), id("a"))),
   set(id("c"), "+", num(3)), set(id("a"), "-", id("c")),
   set(id("p"), "=", call("moved", <<id("p")>>)),
   set(dot(id("p"), "y"), "=", call("put", <<ref(id("p")), id("c")>>)),
   set(id("c"), "=", bin("+", dot(id("p"), "y"), call("put", <<ref(id("p")), id("c")>>))),
   set(id("c"), "=", call("next", <<bin("+", id("c"), id("a"))>>)),
   do(call("touch", <<ref(id("p"))>>)), do(call("moved", <<id("p")>>)), do(bin("<", id("a"), id("c"))),
   let("q", InferType, call("moved", <<id("p")>>)), let("r", InferType, id("p")),
   let("z", OfType("Q"), new("Q", <<fld("p", call("moved", <<id("p")>>)), fld("z", id("a"))>>)),
   let("t", InferType, new("E#A", <<fld("v", id("c"))>>)),
   set(dot(id("t"), "v"), "=", id("c")),
   set(id("e"), "=", new("E#N", <<>>)), set(id("e"), "=", new("E#A", <<fld("v", id("c"))>>)),
   set(id("c"), "=", call("payload", <<id("e")>>)),
   if(isA(id("e"), "E#A"), <<"pl">>, set(dot(id("pl"), "v"), "=", id("c"))),
   if(isA(id("e"), "E#N"), <<>>, set(id("c"), "=", num(7))),
   if(bin("&&", bin("<", id("c"), num(4)), bin("!=", id("c"), id("n"))), <<>>,
      set(id("c"), "=", bin("+", id("c"), num(4)))),
   set(at(id("w"), id("n")), "=", id("c")), set(id("c"), "=", at(id("w"), num(1))),
   set(id("z"), "=", new("Q", <<fld("z", id("a")), fld("p", new("P", <<fld("x", dot(id("z"), "z"))>>))>>)),
   set(id("p"), "=", new("P", <<fld("x", id("a")), fld("y", id("c"))>>)),
   set(id("u"), "=", new("U", <<fld("w", id("c"))>>)), set(dot(id("u"), "s"), "=", id("a")),
   set(id("a"), "=", dot(id("u"), "s")),
   set(dot(dot(id("z"), "p"), "y"), "=", dot(id("z"), "z")),
   set(id("p"), "=", id("p")), let("h", InferType, deref(ref(id("a"))))>>
=============================================================================
