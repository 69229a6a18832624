---------------------------- MODULE ValueMeaning ----------------------------
(***************************************************************************)
(* What the statements of the language mean, for module Values to hold the  *)
(* generated code against.  Variables are objects, numbered as they come    *)
(* into being; an integer is a number, not a pattern, and is converted by   *)
(* the types of the places it comes from and goes to, never by the other    *)
(* operand's; an argument, a result and an initializer are values, made     *)
(* before anything is written.                                              *)
(*                                                                         *)
(* A state m is [mem, objs], an environment env is [at, tys]: where each    *)
(* name is and what it is.                                                  *)
(***************************************************************************)
EXTENDS ValueCode

SrcInt(i, h) == <<>> :> [i |-> i, h |-> h]
Read(m, at) == Load(m.mem, at)
Write(m, at, v) == [m EXCEPT !.mem = Store(@, at, v)]
Declare(m) == [m EXCEPT !.objs = @ + 1]
At(m, x) == [m |-> m, at |-> x]
Is(m, v) == [m |-> m, v |-> v]

Convert(v, ti) ==
  IF Defined(v) /\ IsDirect(ti) /\ ti.type \in IntTypes
  THEN LET h == Half[ti.type]
       IN SrcInt(Decode(Wrap(v[<<>>].i, h), h, IsSignedIntegerType(ti)), h)
  ELSE v

\* The value below a path of a larger one.
Under(path, v) ==
  [c \in {path \o rest : rest \in DOMAIN v} |-> v[SubSeq(c, Len(path) + 1, Len(c))]]

\* An operation is done in the wider of the two types, and is signed when the
\* left operand's type is.
SrcBinop(op, signed, x, y) ==
  LET h == IF x.h > y.h THEN x.h ELSE y.h
      truth == CASE op = "&&" -> x.i = 1 /\ y.i = 1
                 [] op = "||" -> x.i = 1 \/ y.i = 1
                 [] op \in Comparisons \ {"&&", "||"} -> Compare(op, x.i, y.i)
      number == CASE op = "+" -> x.i + y.i [] op = "-" -> x.i - y.i [] op = "*" -> x.i * y.i
  IN IF op \in Comparisons THEN SrcInt(IF truth THEN 1 ELSE 0, 1)
                           ELSE SrcInt(Decode(Wrap(number, h), h, signed), h)

OnPlace(p, F(_, _)) == F(p.m, p.at)
OnValue(x, F(_, _)) == F(x.m, x.v)

RECURSIVE Place(_, _, _), Value(_, _, _), Means(_, _), Run(_, _, _)

SrcType(env, e) == sema_expr(env.tys, fns, e)

\* A union's members are one place.
MemberOf(m, ti, at, name) ==
  At(m, IF types[ti.type].cls = "union" THEN at
                                        ELSE Append(at, get_member(ti.type, name).idx))

\* Where an expression that has a place is.
Place(m, env, e) ==
  CASE e.k = "id" -> At(m, env.at[e.n])
    [] e.k = "member" ->
         OnPlace(Place(m, env, e.e), LAMBDA m1, at :
           MemberOf(m1, SrcType(env, e.e), at, e.m))
    [] e.k = "imember" ->
         OnValue(Value(m, env, e.e), LAMBDA m1, v :
           MemberOf(m1, SrcType(env, e.e), v[<<>>].at, e.m))
    [] e.k = "index" ->
         OnPlace(Place(m, env, e.e), LAMBDA m1, at :
         OnValue(Value(m1, env, e.i), LAMBDA m2, i : At(m2, Append(at, i[<<>>].i))))

\* A function's parameters are new objects.
Bind(m, at, param, v) ==
  LET m1 == Declare(m)
  IN [m |-> Write(m1, <<m1.objs>>, Convert(v, param.type)),
      at |-> (param.n :> <<m1.objs>>) @@ at]

NextParam(acc, env, param, arg) ==
  OnValue(Value(acc.m, env, arg), LAMBDA m, v : Bind(m, acc.at, param, v))

RunBody(entry, fn) == Run(entry.m, [at |-> entry.at, tys |-> ParamTypes(fn)], fn.body)

Apply(m, env, e) ==
  OnValue(RunBody(FoldLeftDomain(LAMBDA acc, i :
                                   NextParam(acc, env, fns[e.n].params[i], e.args[i]),
                                 [m |-> m, at |-> <<>>], e.args),
                  fns[e.n]),
          Is)

\* A value of a struct, a union or a member of an enum.
FieldPath(type, member) == IF UserTypes[type].cls = "union" THEN <<>> ELSE <<member.idx>>

NextField(acc, env, type, d) ==
  OnValue(Value(acc.m, env, d.e), LAMBDA m, v :
    Is(m, Under(FieldPath(type, get_member(type, d.m)),
                Convert(v, get_member(type, d.m).type)) @@ acc.v))

WithNominal(type, v) ==
  IF UserTypes[type].nominal = None THEN v
  ELSE Under(<<0>>, SrcInt(UserTypes[type].nominal, Half["i32"])) @@ Under(<<1>>, v)

Construct(m, env, e) ==
  OnValue(FoldLeft(LAMBDA acc, d : NextField(acc, env, e.type, d), Is(m, Undef), e.fields),
          LAMBDA m1, v : Is(m1, WithNominal(e.type, v)))

SrcIs(tag, type) ==
  IF Defined(tag)
  THEN SrcInt(IF tag[<<>>].i = UserTypes[type].nominal THEN 1 ELSE 0, 1) ELSE Undef

BothDefined(op, signed, x, y) ==
  IF Defined(x) /\ Defined(y) THEN SrcBinop(op, signed, x[<<>>], y[<<>>]) ELSE Undef

Value(m, env, e) ==
  CASE e.k = "empty" -> Is(m, Undef)
    [] e.k = "num" -> Is(m, Convert(SrcInt(e.val, 0), I32))
    [] e.k \in {"id", "member", "imember", "index"} ->
         OnPlace(Place(m, env, e), LAMBDA m1, at : Is(m1, Read(m1, at)))
    [] e.k = "binop" ->
         OnValue(Value(m, env, e.l), LAMBDA m1, x :
         OnValue(Value(m1, env, e.r), LAMBDA m2, y :
           Is(m2, BothDefined(e.op, IsSignedIntegerType(SrcType(env, e.l)), x, y))))
    [] e.k = "call" -> Apply(m, env, e)
    [] e.k = "init" -> Construct(m, env, e)
    [] e.k = "addressof" ->
         OnPlace(Place(m, env, e.e), LAMBDA m1, at : Is(m1, PointerCell(at)))
    [] e.k = "is" ->
         OnPlace(Place(m, env, e.e), LAMBDA m1, at :
           Is(m1, SrcIs(Read(m1, Append(at, 0)), e.type)))

-----------------------------------------------------------------------------
(* Statements, on [m, env, done, v].                                        *)

\* What x op= v leaves in a place of type ti that holds old.
Assigned(op, ti, old, v) ==
  IF op = "=" THEN v ELSE BothDefined(op, IsSignedIntegerType(ti), old, v)

AssignAt(m, at, ti, op, v) == Write(m, at, Convert(Assigned(op, ti, Read(m, at), v), ti))

SrcAssign(acc, st) ==
  OnPlace(Place(acc.m, acc.env, st.lhs), LAMBDA m, at :
  OnValue(Value(m, acc.env, st.rhs), LAMBDA m1, v :
    [acc EXCEPT !.m = AssignAt(m1, at, SrcType(acc.env, st.lhs), st.op, v)]))

SrcDeclare(acc, st, m) ==
  [acc EXCEPT !.m = m,
              !.env = [at |-> (st.n :> <<m.objs>>) @@ @.at, tys |-> AfterStmt(@.tys, fns, st)]]

SrcLet(acc, st) ==
  IF st.rhs.k = "empty" THEN SrcDeclare(acc, st, Declare(acc.m))
  ELSE SrcAssign(SrcDeclare(acc, st, Declare(acc.m)),
                 [lhs |-> [k |-> "id", n |-> st.n], op |-> "=", rhs |-> st.rhs])

SrcPayload(m, env, st) ==
  IF st.params = <<>> THEN env
  ELSE OnPlace(Place(m, env, st.e.e), LAMBDA m1, at :
         [at |-> (st.params[1] :> Append(at, 1)) @@ env.at,
          tys |-> WithDiscrimination(env.tys, st)])

SrcIf(acc, st) ==
  OnValue(Value(acc.m, acc.env, st.e), LAMBDA m, v :
    IF v[<<>>].i = 0 THEN [acc EXCEPT !.m = m]
    ELSE [Run(m, SrcPayload(m, acc.env, st), <<st.then>>) EXCEPT !.env = acc.env])

Means(acc, st) ==
  CASE st.k = "let" -> SrcLet(acc, st)
    [] st.k = "assign" -> SrcAssign(acc, st)
    [] st.k = "return" ->
         OnValue(Value(acc.m, acc.env, st.e), LAMBDA m, v :
           [acc EXCEPT !.m = m, !.v = v, !.done = TRUE])
    [] st.k = "expr" -> [acc EXCEPT !.m = Value(@, acc.env, st.e).m]
    [] st.k = "if" -> SrcIf(acc, st)

Run(m, env, sts) ==
  FoldLeft(LAMBDA acc, st : IF acc.done THEN acc ELSE Means(acc, st),
           [m |-> m, env |-> env, done |-> FALSE, v |-> Undef], sts)
=============================================================================
