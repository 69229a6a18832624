----------------------------- MODULE ExprTypes ------------------------------
(***************************************************************************)
(* The types the semantic phase gives to nested expressions, and what it    *)
(* refuses: sema_expr and the handlers it calls, with members, arrays and   *)
(* initializers, which module Sema leaves out.                              *)
(*                                                                         *)
(* An expression is a record whose k names the handler; tys gives the types *)
(* of the values in scope, fns the functions of the module.                 *)
(***************************************************************************)
EXTENDS TypeRules, FiniteSets, SequencesExt

CONSTANT UserTypes  \* the structs, unions, enums and members of enums

\* members: the fields in the order of their names, which is that of the
\* std::map that members_to_members numbers them in.
ASSUME UserTypesAssumption ==
  /\ DOMAIN UserTypes \subseteq UserTypeNames
  /\ \A t \in DOMAIN UserTypes :
       /\ UserTypes[t].cls \in Classes /\ UserTypes[t].dep \in DOMAIN UserTypes
       /\ UserTypes[t].nominal \in Nat \cup {None}

types ==
  [t \in BuiltinTypes \cup DOMAIN UserTypes |->
     IF t \in BuiltinTypes THEN PlainType(t, "primitive") ELSE UserTypes[t]]

MembersOf(t) == IF t \in DOMAIN UserTypes THEN UserTypes[t].members ELSE <<>>

\* Type::get_member: the member's number and type, None if there is none.
get_member(t, m) ==
  LET i == SelectInSeq(MembersOf(t), LAMBDA x : x.n = m)
  IN IF i = 0 THEN None ELSE [idx |-> i - 1, type |-> MembersOf(t)[i].type]

Comparisons == {"<", "<=", ">", ">=", "==", "!=", "&&", "||"}
binop_type(op, l) == IF op \in Comparisons THEN BoolType ELSE l

\* sema_member_access asks the type's class and pointers, not for arrays.
Aggregate(ti, ind) ==
  types[ti.type].cls \in {"struct", "union"} /\ ti.ind = ind

IsType(x) == x \notin {Failed, Aborted}

ThenType(x, T(_)) == IF IsType(x) THEN T(x) ELSE x

MemberType(ti, ind, m) ==
  IF Aggregate(ti, ind) /\ get_member(ti.type, m) # None
  THEN get_member(ti.type, m).type ELSE Failed

RECURSIVE sema_expr(_, _, _)

sema_fn_args(tys, fns, e) ==
  /\ Len(e.args) = Len(fns[e.n].params)
  /\ \A i \in 1..Len(e.args) :
       LET t == sema_expr(tys, fns, e.args[i])
       IN IsType(t) /\ EqualTypes(t, fns[e.n].params[i].type)

sema_initializer(tys, fns, e) ==
  /\ e.type \in DOMAIN UserTypes
  /\ \A i \in 1..Len(e.fields) :
       /\ get_member(e.type, e.fields[i].m) # None
       /\ IsType(sema_expr(tys, fns, e.fields[i].e))

sema_binop(op, l, r) ==
  IF CompatibleInts(l, r) \/ EqualTypes(l, r) THEN binop_type(op, l) ELSE Failed

sema_array_access(target, index) ==
  IF ~IsIntegerType(index) \/ (target.arr = 0 /\ ~IsPointerType(target)) THEN Failed
  ELSE IF target.arr # 0 THEN ArrayElementType(target)
                         ELSE PointerElementType(target)

sema_expr(tys, fns, e) ==
  LET Sub(x, T(_)) == ThenType(sema_expr(tys, fns, x), T)
  IN CASE e.k = "empty" -> VoidType
       [] e.k = "num" -> OfType("i32")
       [] e.k = "id" -> IF e.n \in DOMAIN tys THEN tys[e.n] ELSE Failed
       [] e.k = "binop" ->
            Sub(e.l, LAMBDA l : Sub(e.r, LAMBDA r : sema_binop(e.op, l, r)))
       [] e.k = "call" ->
            IF e.n \in DOMAIN fns /\ sema_fn_args(tys, fns, e)
            THEN fns[e.n].ret ELSE Failed
       [] e.k = "init" ->
            IF sema_initializer(tys, fns, e) THEN OfType(e.type) ELSE Failed
       [] e.k = "index" ->
            Sub(e.e, LAMBDA t : Sub(e.i, LAMBDA i : sema_array_access(t, i)))
       [] e.k = "member" -> Sub(e.e, LAMBDA t : MemberType(t, 0, e.m))
       [] e.k = "imember" -> Sub(e.e, LAMBDA t : MemberType(t, 1, e.m))
       [] e.k = "addressof" -> Sub(e.e, LAMBDA t : PointerTo(t, 1))
       [] e.k = "deref" -> Sub(e.e, LAMBDA t : PointerElementType(t))
       [] e.k = "is" ->
            Sub(e.e, LAMBDA t : IF IsEnumType(types, t) THEN BoolType ELSE Failed)

-----------------------------------------------------------------------------
(* Statements: whether one is accepted, and what it adds to the scope.      *)

DependentType(ti) == OfType(types[ti.type].dep)

\* sema_let and sema_assign; a let takes a value of the very type as well.
Assignable(l, r) ==
  IF types[l.type].cls = "enum" THEN EqualTypes(l, DependentType(r))
                                ELSE EqualTypes(l, r) \/ CompatibleInts(l, r)

LetType(tys, fns, st) ==
  IF st.rhs.k = "empty" THEN st.decl
  ELSE NonInferred(st.decl, sema_expr(tys, fns, st.rhs))

LetAccepted(tys, fns, st) ==
  LET r == sema_expr(tys, fns, st.rhs)
  IN IF st.rhs.k = "empty" THEN ~IsInferType(st.decl)
     ELSE IsType(r) /\ (Assignable(st.decl, r) \/ EqualTypes(st.decl, r))

AfterStmt(tys, fns, st) ==
  IF st.k = "let" THEN (st.n :> LetType(tys, fns, st)) @@ tys ELSE tys

\* sema_if_arrow: the parameters have the types of the members asked for.
WithDiscrimination(tys, st) ==
  IF st.params = <<>> THEN tys ELSE (st.params[1] :> OfType(st.e.type)) @@ tys

RECURSIVE Accepted(_, _, _, _)
Accepted(tys, fns, ret, st) ==
  CASE st.k = "let" -> LetAccepted(tys, fns, st)
    [] st.k = "assign" ->
         LET l == sema_expr(tys, fns, st.lhs)
             r == sema_expr(tys, fns, st.rhs)
         IN IsType(l) /\ IsType(r) /\ Assignable(l, r)
    [] st.k = "return" ->
         LET t == sema_expr(tys, fns, st.e) IN IsType(t) /\ EqualTypes(ret, t)
    [] st.k = "expr" -> IsType(sema_expr(tys, fns, st.e))
    [] st.k = "if" ->
         /\ IsType(sema_expr(tys, fns, st.e))
         /\ st.params # <<>> => st.e.k = "is" /\ IsStructType(types, OfType(st.e.type))
         /\ Accepted(WithDiscrimination(tys, st), fns, ret, st.then)

\* The statements of a function's body, one after the other.
ScopeAfter(tys, fns, sts) ==
  FoldLeft(LAMBDA acc, st : AfterStmt(acc, fns, st), tys, sts)

ParamTypes(fn) ==
  [n \in {fn.params[i].n : i \in 1..Len(fn.params)} |->
     fn.params[SelectInSeq(fn.params, LAMBDA p : p.n = n)].type]

BodyAccepted(fns, fn) ==
  \A i \in 1..Len(fn.body) :
    Accepted(ScopeAfter(ParamTypes(fn), fns, SubSeq(fn.body, 1, i - 1)), fns,
             fn.ret, fn.body[i])
=============================================================================
