------------------------------ MODULE ValueCode ------------------------------
(***************************************************************************)
(* What the generated code computes: the expression handlers of codegen2,   *)
(* the assignments, initializers, returns and calls, with the way structs   *)
(* go in and out of functions.  The code of a body is straight but for one  *)
(* `if`, so here each instruction runs when its handler emits it, on a      *)
(* memory of typed cells; module Codegen has the blocks and branches, and   *)
(* the shadowing of names is Compile's: here a name is declared once.       *)
(*                                                                         *)
(* `slips` remembers the constructs the code is known to get wrong, when    *)
(* the values are such that it matters.                                     *)
(***************************************************************************)
EXTENDS ExprTypes, Ints

CONSTANT Half \* the half range of each integer type, and 1 for bool

ASSUME HalfAssumption == Half \in [IntTypes \cup {"bool"} -> Nat \ {0}]

VARIABLE fns \* the functions of the module: name -> [params, ret, body]

-----------------------------------------------------------------------------
(* Cells.  An address is the number of an alloca followed by the indices of *)
(* GEPs; a bitcast is no step.  A value maps the rest of an address to the  *)
(* cells below it: a scalar has one cell, at <<>>, and undefined cells are   *)
(* missing.  A union's members share its own cell.                          *)

Load(mem, at) ==
  [rest \in {SubSeq(a, Len(at) + 1, Len(a)) : a \in {b \in DOMAIN mem : IsPrefix(at, b)}}
     |-> mem[at \o rest]]

Store(mem, at, v) ==
  [a \in {b \in DOMAIN mem : ~IsPrefix(at, b)} |-> mem[a]]
    @@ [a \in {at \o rest : rest \in DOMAIN v} |-> v[SubSeq(a, Len(at) + 1, Len(a))]]

Undef == [c \in {} |-> 0]
IntCell(h, n) == <<>> :> [h |-> h, n |-> n]
PointerCell(at) == <<>> :> [at |-> at]
Defined(v) == <<>> \in DOMAIN v
Pattern(v) == v[<<>>].n

-----------------------------------------------------------------------------
(* LLVM types: integers have no sign, get_type knows no bool.               *)

Signless == ("u8" :> "i8") @@ ("u16" :> "i16") @@ ("u32" :> "i32")
LLVMType(ti) ==
  [ti EXCEPT !.type = IF @ \in DOMAIN Signless THEN Signless[@] ELSE @]

HasLLVMType(ti) ==
  ti.type \in {"i8", "i16", "i32", "u8", "u16", "u32", "void"} \cup DOMAIN UserTypes

IsIntegerTy(t) == IsDirect(t) /\ t.type \in DOMAIN Half
IsStructTy(t) == IsDirect(t) /\ t.type \in DOMAIN UserTypes
I1 == BoolType
I32 == OfType("i32")

\* sizefor
HasSize(t) == IsIntegerTy(t) /\ t # I1

-----------------------------------------------------------------------------
(* CGExpr, and the machine the handlers run: out is run, error (a CGError), *)
(* abort (an assertion of the handlers or of LLVM's casts), illtyped (an    *)
(* instruction LLVM does not allow) or ub.                                  *)

Empty == [k |-> "empty"]
Address(at, t) == [k |-> "address", at |-> at, t |-> t]
RValue(v, t) == [k |-> "rvalue", v |-> v, t |-> t, disc |-> <<>>]

Gives(s, x) == [s |-> s, x |-> x]
Ends(s, how) == Gives([s EXCEPT !.out = how], Empty)
Slip(s, what, when) == IF when THEN [s EXCEPT !.slips = @ \cup {what}] ELSE s

Then(r, F(_, _)) == IF r.s.out = "run" THEN F(r.s, r.x) ELSE r

\* CGExpr::address asserts.
WithAddress(r, F(_, _)) ==
  Then(r, LAMBDA s, x : IF x.k = "address" THEN F(s, x) ELSE Ends(s, "abort"))

\* A member of a union may be read after another one has been written: a slip.
Loaded(s, t, v) ==
  IF Defined(v) /\ IsIntegerTy(t) /\ v[<<>>].h # Half[t.type]
  THEN Gives(Slip(s, "pun", TRUE), RValue(Undef, t)) ELSE Gives(s, RValue(v, t))

codegen_operand_expr(s, x) ==
  CASE x.k = "address" -> Loaded(s, x.t, Load(s.mem, x.at))
    [] x.k = "rvalue" -> Gives(s, x)
    [] x.k = "empty" -> Ends(s, "abort")

WithOperand(r, F(_, _)) == Then(Then(r, codegen_operand_expr), F)

CreateAlloca(s) == [s EXCEPT !.objs = @ + 1]
CreateStore(s, at, v) == [s EXCEPT !.mem = Store(@, at, v)]
CreateMemCpy(s, to, from) == CreateStore(s, to, Load(s.mem, from))

-----------------------------------------------------------------------------
(* Operators.                                                               *)

Arithmetic(op, a, b, h, signed) ==
  CASE op = "+" -> Wrap(a + b, h)
    [] op = "-" -> Wrap(a - b, h)
    [] op = "*" -> Wrap(a * b, h)
    [] op = "/" -> Divide(a, b, h, signed)

Compare(op, a, b) ==
  CASE op = "<" -> a < b [] op = "<=" -> a <= b [] op = ">" -> a > b
    [] op = ">=" -> a >= b [] op = "==" -> a = b [] op = "!=" -> a # b

Bool(b) == IntCell(1, IF b THEN 1 ELSE 0)

\* cg_division: the operands reach CreateSDiv in this order.
DivisionOperands(num, den) == <<den, num>>

\* Mutant: both operands are widened without their sign.
WidenZero(v, h, g, ti) == ZExt(Pattern(v), h, g)

\* widen, with signof
Widen(v, h, g, ti) ==
  ExtOrTrunc(Pattern(v), h, g, IsSignedIntegerType(ti))

\* codegen_arithmetic_binop: the right operand is widened by the sign of the
\* left one, and the result keeps the larger width.
codegen_arithmetic_binop(s, op, lt, rt, l, r) ==
  LET lh == Half[l.t.type]
      rh == Half[r.t.type]
      t == IF lh > rh THEN l.t ELSE r.t
      h == Half[t.type]
      signed == IsSignedIntegerType(lt)
      a == Widen(l.v, lh, h, lt)
      b == Widen(r.v, rh, h, lt)
      operands == IF op = "/" THEN DivisionOperands(a, b) ELSE <<a, b>>
      slipped == Slip(Slip(s, "division", op = "/"), "sign",
                      /\ rh < h /\ signed # IsSignedIntegerType(rt)
                      /\ Defined(r.v) /\ Pattern(r.v) >= rh)
  IN IF ~(HasSize(l.t) /\ HasSize(r.t)) THEN Ends(s, "abort")
     ELSE IF ~(Defined(l.v) /\ Defined(r.v)) THEN Gives(slipped, RValue(Undef, t))
     ELSE IF op = "/" /\ operands[2] = 0 THEN Ends(slipped, "ub")
     ELSE Gives(slipped, RValue(
            IntCell(h, Arithmetic(op, operands[1], operands[2], h, signed)), t))

Misread(v, h, ti) == Defined(v) /\ Pattern(v) >= h /\ ~IsSignedIntegerType(ti)

\* CreateICmpSxx, CreateAnd and CreateOr want two operands of one type.
Comparison(s, op, lt, rt, l, r) ==
  LET h == Half[l.t.type]
      a == Signed(Pattern(l.v), h)
      b == Signed(Pattern(r.v), h)
      logic == op \in {"&&", "||"}
      slipped == Slip(s, "unsigned", ~logic /\ (Misread(l.v, h, lt) \/ Misread(r.v, h, rt)))
  IN IF l.t # r.t \/ ~IsIntegerTy(l.t) \/ (logic /\ l.t # I1) THEN Ends(s, "illtyped")
     ELSE IF ~(Defined(l.v) /\ Defined(r.v)) THEN Gives(slipped, RValue(Undef, I1))
     ELSE Gives(slipped, RValue(
       CASE op = "&&" -> Bool(Pattern(l.v) = 1 /\ Pattern(r.v) = 1)
         [] op = "||" -> Bool(Pattern(l.v) = 1 \/ Pattern(r.v) = 1)
         [] ~logic -> Bool(Compare(op, a, b)), I1))

Binop(s, op, lt, rt, l, r) ==
  IF op \in Comparisons THEN Comparison(s, op, lt, rt, l, r)
                        ELSE codegen_arithmetic_binop(s, op, lt, rt, l, r)

-----------------------------------------------------------------------------
(* Places.                                                                  *)

\* Mutant: every member is at the start, as in a union.
CgAccessAtStart(s, x, ti, m) ==
  Gives(s, Address(x.at, LLVMType(get_member(ti.type, m).type)))

\* cg_access: a GEP to the member's number in a struct, a bitcast in a union.
\* The address may be that of a type that stores the struct, an enum: a slip.
cg_access(s, x, ti, m) ==
  LET member == get_member(ti.type, m)
  IN IF ~HasLLVMType(member.type) THEN Ends(s, "abort")
     ELSE Gives(Slip(s, "storage", x.t # LLVMType(ti)),
                Address(IF IsStructType(types, ti) THEN Append(x.at, member.idx) ELSE x.at,
                        LLVMType(member.type)))

\* dereference
LoadPointer(s, x, F(_, _)) ==
  IF ~IsPointerType(x.t) THEN Ends(s, "abort")
  ELSE IF ~Defined(Load(s.mem, x.at)) THEN Ends(s, "ub")
  ELSE F(s, Address(s.mem[x.at].at, PointerElementType(x.t)))

\* codegen_array_access
ElementOf(s, x, i) ==
  LET n == Signed(Pattern(i.v), Half[i.t.type])
  IN IF x.t.arr = 0 \/ ~IsIntegerTy(i.t) THEN Ends(s, "abort")
     ELSE IF ~Defined(i.v) \/ n \notin 0..x.t.arr - 1 THEN Ends(s, "ub")
     ELSE Gives(s, Address(Append(x.at, n), ArrayElementType(x.t)))

\* codegen_is: the number is in front of an enum's payload.
IsMember(s, x, member) ==
  LET nominal == Load(s.mem, Append(x.at, 0))
      v == IF Defined(nominal) THEN Bool(Pattern(nominal) = UserTypes[member].nominal)
                               ELSE Undef
      disc == IF IsStructType(types, OfType(member)) THEN <<x>> ELSE <<>>
  IN IF UserTypes[member].nominal = None THEN Ends(s, "abort")
     ELSE Gives(s, [RValue(v, I1) EXCEPT !.disc = disc])

-----------------------------------------------------------------------------
(* Calls: LLVMArgABIInfo and how a function's arguments are laid out.       *)

HasSRet(fn) == IsStructType(types, fn.ret)

\* get_named_params
AbiAttr(ti) ==
  IF IsStructType(types, ti) \/ IsEnumType(types, ti) \/ IsUnionType(types, ti)
  THEN "value" ELSE "default"

\* codegen_function_proto: the hidden argument is the first.
AbiArgs(fn) ==
  (IF HasSRet(fn) THEN <<[attr |-> "sret", n |-> "", t |-> PointerTo(LLVMType(fn.ret), 1)]>>
                  ELSE <<>>) \o
  [i \in 1..Len(fn.params) |->
     LET p == fn.params[i]
         t == LLVMType(p.type)
     IN [attr |-> AbiAttr(p.type), n |-> p.n,
         t |-> IF AbiAttr(p.type) = "value" THEN PointerTo(t, 1) ELSE t]]

ReturnTy(fn) == IF HasSRet(fn) THEN VoidType ELSE LLVMType(fn.ret)

AddressArg(at, t) == RValue(PointerCell(at), PointerTo(t, 1))

\* The alloca made for a result nobody wants has the type of the argument, a
\* pointer, so what is passed is a pointer to a pointer.
SRetArg(s, fn, lv) ==
  LET s1 == CreateAlloca(s)
  IN IF lv # None THEN Gives(s, AddressArg(lv.at, lv.t))
                  ELSE Gives(s1, AddressArg(<<s1.objs>>, PointerTo(LLVMType(fn.ret), 1)))

\* Mutant: the callee gets the caller's struct.
PassShared(s, x) == Gives(s, AddressArg(x.at, x.t))

\* LLVMArgABIInfo::Value: a copy in an alloca of the caller.
PassCopy(s, x) ==
  LET s1 == CreateAlloca(s)
  IN Gives(CreateMemCpy(s1, <<s1.objs>>, x.at), AddressArg(<<s1.objs>>, x.t))

\* codegen_function_entry: a default argument is stored in an alloca, the
\* others are used where they are.
codegen_function_entry(s, fn, args) ==
  LET abi == AbiArgs(fn)
      Arg(acc, i) ==
        LET s1 == CreateAlloca(acc.s)
            at == args[i].v[<<>>].at
        IN CASE abi[i].attr = "sret" ->
                  [acc EXCEPT !.f.sret = Address(at, PointerElementType(abi[i].t))]
             [] abi[i].attr = "value" ->
                  [acc EXCEPT !.f.values =
                     (abi[i].n :> Address(at, PointerElementType(abi[i].t))) @@ @]
             [] abi[i].attr = "default" ->
                  [s |-> CreateStore(s1, <<s1.objs>>, args[i].v),
                   f |-> [acc.f EXCEPT !.values =
                     (abi[i].n :> Address(<<s1.objs>>, abi[i].t)) @@ @]]
      empty == [values |-> <<>>, tys |-> ParamTypes(fn), sret |-> None,
                ret |-> ReturnTy(fn)]
  IN FoldLeft(Arg, [s |-> s, f |-> empty], [i \in 1..Len(args) |-> i])

\* Mutant: a call says that it has a value when the value is stored already.
CallResultAlways(s, fn, v) == Gives(s, RValue(v.v, LLVMType(fn.ret)))

CallResult(s, fn, v) ==
  IF HasSRet(fn) THEN Gives(s, Empty) ELSE Gives(s, RValue(v.v, ReturnTy(fn)))

-----------------------------------------------------------------------------
(* Expressions.  lv is the place the value is wanted at, or None.           *)

TypeOf(f, e) == sema_expr(f.tys, fns, e)

RECURSIVE codegen_expr(_, _, _, _)
RECURSIVE codegen_body(_, _, _)

codegen_id(s, f, e) ==
  IF e.n \in DOMAIN f.values THEN Gives(s, f.values[e.n]) ELSE Ends(s, "error")

\* Both operands are loaded once both have been generated: a slip when the
\* right one has changed the left one.
codegen_binop(s, f, e) ==
  Then(codegen_expr(s, f, e.l, None), LAMBDA s1, l :
  Then(codegen_expr(s1, f, e.r, None), LAMBDA s2, r :
  WithOperand(Gives(Slip(s2, "late", l.k = "address" /\ Load(s1.mem, l.at) # Load(s2.mem, l.at)), l),
    LAMBDA s3, lv : WithOperand(Gives(s3, r), LAMBDA s4, rv :
      Binop(s4, e.op, TypeOf(f, e.l), TypeOf(f, e.r), lv, rv)))))

Argument(s, f, e, abi) ==
  IF abi.attr = "value"
  THEN WithAddress(codegen_expr(s, f, e, None), PassCopy)
  ELSE WithOperand(codegen_expr(s, f, e, None), Gives)

Hidden(s, fn, lv) ==
  IF HasSRet(fn) THEN Then(SRetArg(s, fn, lv), LAMBDA s1, x : Gives(s1, <<x>>))
                 ELSE Gives(s, <<>>)

NextArgument(r, f, fn, arg) ==
  Then(r, LAMBDA s, done :
  Then(Argument(s, f, arg, AbiArgs(fn)[Len(done) + 1]), LAMBDA s1, x :
    Gives(s1, Append(done, x))))

CallWith(s, fn, args) ==
  IF \E i \in 1..Len(args) : args[i].t # AbiArgs(fn)[i].t THEN Ends(s, "illtyped")
  ELSE Then(codegen_body(s, fn, args), LAMBDA s1, v : CallResult(s1, fn, v))

codegen_call(s, f, e, lv) ==
  Then(FoldLeft(LAMBDA r, arg : NextArgument(r, f, fns[e.n], arg),
                Hidden(s, fns[e.n], lv), e.args),
       LAMBDA s1, args : CallWith(s1, fns[e.n], args))

\* struct_initializer: each designator is given its own place.
InitializeField(r, f, d, x, ti) ==
  Then(r, LAMBDA s, done :
  Then(cg_access(s, x, ti, d.m), LAMBDA s1, to :
  Then(codegen_expr(s1, f, d.e, to), LAMBDA s2, v :
    IF v.k = "empty" THEN Gives(s2, Empty)
    ELSE WithOperand(Gives(s2, v), LAMBDA s3, o :
           IF o.t # to.t THEN Ends(s3, "illtyped")
           ELSE Gives(CreateStore(s3, to.at, o.v), Empty)))))

struct_initializer(s, f, fields, x, ti) ==
  FoldLeft(LAMBDA r, d : InitializeField(r, f, d, x, ti), Gives(s, Empty), fields)

\* enum_initializer: the number of the member, then its fields as a struct.
Numbered(s, e, lv) ==
  CreateStore(Slip(s, "storage", lv.t # StorageType(types, OfType(e.type))),
              Append(lv.at, 0), IntCell(Half["i32"], UserTypes[e.type].nominal))

enum_initializer(s, f, e, lv) ==
  IF UserTypes[e.type].nominal = None THEN Ends(s, "abort")
  ELSE IF ~IsStructType(types, OfType(e.type)) THEN Gives(Numbered(s, e, lv), Empty)
  ELSE struct_initializer(Numbered(s, e, lv), f, e.fields,
         Address(Append(lv.at, 1), OfType(e.type)), OfType(e.type))

codegen_initializer(s, f, e, lv) ==
  LET storage == StorageType(types, OfType(e.type))
  IN IF lv = None THEN Ends(s, "abort")
     ELSE IF IsEnumType(types, storage) THEN enum_initializer(s, f, e, lv)
     ELSE struct_initializer(s, f, e.fields,
            IF IsUnionType(types, storage) THEN Address(lv.at, storage) ELSE lv,
            OfType(e.type))

\* codegen_deref gives back the pointer it has loaded: a slip.
codegen_deref(s, x) ==
  Gives(Slip(s, "deref", TRUE), RValue(Load(s.mem, x.at), x.t))

codegen_expr(s, f, e, lv) ==
  LET Of(x) == codegen_expr(s, f, x, None)
  IN CASE e.k = "empty" -> Gives(s, Empty)
       [] e.k = "num" -> Gives(s, RValue(IntCell(Half["i32"], Wrap(e.val, Half["i32"])), I32))
       [] e.k = "id" -> codegen_id(s, f, e)
       [] e.k = "binop" -> codegen_binop(s, f, e)
       [] e.k = "call" -> codegen_call(s, f, e, lv)
       [] e.k = "init" -> codegen_initializer(s, f, e, lv)
       [] e.k = "member" ->
            WithAddress(Of(e.e), LAMBDA s1, x : cg_access(s1, x, TypeOf(f, e.e), e.m))
       [] e.k = "imember" ->
            WithAddress(Of(e.e), LAMBDA s1, x : LoadPointer(s1, x, LAMBDA s2, y :
              cg_access(s2, y, PointerElementType(TypeOf(f, e.e)), e.m)))
       [] e.k = "index" ->
            WithAddress(Of(e.e), LAMBDA s1, x :
              WithOperand(codegen_expr(s1, f, e.i, None), LAMBDA s2, i : ElementOf(s2, x, i)))
       [] e.k = "addressof" ->
            WithAddress(Of(e.e), LAMBDA s1, x : Gives(s1, AddressArg(x.at, x.t)))
       [] e.k = "deref" -> WithAddress(Of(e.e), codegen_deref)
       [] e.k = "is" -> WithAddress(Of(e.e), LAMBDA s1, x : IsMember(s1, x, e.type))

-----------------------------------------------------------------------------
(* Statements, on [s, f, done, x]: the machine, the function's frame, whether *)
(* it has returned and what.                                                 *)

On(acc, r) == [acc EXCEPT !.s = r.s]

\* trunc: the value is widened by the sign of the place it goes to.
trunc(s, l, lt, rt, o) ==
  LET h == Half[lt.type]
      from == Half[o.t.type]
      wrong == /\ h > from /\ IsSignedIntegerType(lt) # IsSignedIntegerType(rt)
               /\ Defined(o.v) /\ Pattern(o.v) >= from
      v == IF Defined(o.v)
           THEN IntCell(h, ExtOrTrunc(Pattern(o.v), from, h, IsSignedIntegerType(lt)))
           ELSE Undef
  IN IF ~IsIntegerTy(o.t) \/ lt.type \notin IntTypes THEN Ends(s, "abort")
     ELSE IF l.t # LLVMType(OfType(lt.type)) THEN Ends(s, "illtyped")
     ELSE Gives(CreateStore(Slip(s, "sign", wrong), l.at, v), Empty)

RECURSIVE RootName(_), Names(_)
RootName(e) == IF e.k = "id" THEN e.n ELSE RootName(e.e)
Names(e) ==
  CASE e.k \in {"empty", "num"} -> {}
    [] e.k = "id" -> {e.n}
    [] e.k = "binop" -> Names(e.l) \cup Names(e.r)
    [] e.k = "call" -> UNION {Names(e.args[i]) : i \in 1..Len(e.args)}
    [] e.k = "init" -> UNION {Names(e.fields[i].e) : i \in 1..Len(e.fields)}
    [] e.k = "index" -> Names(e.e) \cup Names(e.i)
    [] e.k \in {"member", "imember", "addressof", "deref", "is"} -> Names(e.e)

\* The operator of a compound assignment.
ComputedValue(s, f, st, l, o) ==
  IF st.op = "=" THEN Gives(s, o)
  ELSE WithOperand(Gives(Slip(s, "compound", TRUE), l), LAMBDA s1, lv :
         codegen_arithmetic_binop(s1, st.op, TypeOf(f, st.lhs), TypeOf(f, st.rhs), lv, o))

\* What the operator gives is dropped and its right operand stored.
AssignFrom(s, f, st, l, r) ==
  IF r.k = "empty" THEN Gives(s, Empty)
  ELSE WithOperand(Gives(s, r), LAMBDA s1, o :
       Then(ComputedValue(s1, f, st, l, o), LAMBDA s2, unused :
         trunc(s2, l, TypeOf(f, st.lhs), TypeOf(f, st.rhs), o)))

\* An initializer writes its fields in place, one by one: a slip when they are
\* computed from the variable that is being written.
codegen_assign(s, f, st) ==
  WithAddress(
    codegen_expr(Slip(s, "alias", st.rhs.k = "init" /\ RootName(st.lhs) \in Names(st.rhs)),
                 f, st.lhs, None),
    LAMBDA s1, l : Then(codegen_expr(s1, f, st.rhs, l), LAMBDA s2, r :
                     AssignFrom(s2, f, st, l, r)))

LetAs(acc, st, s, t, f) ==
  IF ~HasLLVMType(t) THEN On(acc, Ends(acc.s, "error"))
  ELSE IF t = VoidType THEN On(acc, Ends(acc.s, "illtyped"))
  ELSE IF st.rhs.k = "empty" THEN [acc EXCEPT !.s = s, !.f = f]
  ELSE On([acc EXCEPT !.f = f],
          codegen_assign(s, f, [lhs |-> [k |-> "id", n |-> st.n], op |-> "=", rhs |-> st.rhs]))

Declared(acc, st, s, t) ==
  LetAs(acc, st, s, t,
        [acc.f EXCEPT !.values = (st.n :> Address(<<s.objs>>, LLVMType(t))) @@ @,
                      !.tys = AfterStmt(@, fns, st)])

codegen_let(acc, st) ==
  Declared(acc, st, CreateAlloca(acc.s), StorageType(types, LetType(acc.f.tys, fns, st)))

Returned(f, s, x) ==
  CASE x.k = "empty" ->
         IF f.ret = VoidType THEN Gives(s, RValue(Undef, VoidType)) ELSE Ends(s, "illtyped")
    [] x.k # "empty" /\ f.sret # None ->
         WithAddress(Gives(s, x), LAMBDA s1, y :
           Gives(CreateMemCpy(Slip(s1, "storage", y.t # f.sret.t), f.sret.at, y.at),
                 RValue(Undef, VoidType)))
    [] x.k # "empty" /\ f.sret = None ->
         WithOperand(Gives(s, x), LAMBDA s1, o :
           IF IsStructTy(o.t) THEN Ends(s1, "abort")
           ELSE IF o.t # f.ret THEN Ends(s1, "illtyped") ELSE Gives(s1, o))

Done(acc, r) == [acc EXCEPT !.s = r.s, !.x = r.x, !.done = TRUE]

codegen_return(acc, st) ==
  Done(acc, Then(codegen_expr(acc.s, acc.f, st.e, None),
                 LAMBDA s, x : Returned(acc.f, s, x)))

\* cg_discriminations: the parameter is the payload of the enum that was asked.
WithPayload(f, st, x) ==
  IF st.params = <<>> THEN f
  ELSE [f EXCEPT
          !.values = (st.params[1] :>
                        Address(Append(x.disc[1].at, 1), OfType(st.e.type))) @@ @,
          !.tys = WithDiscrimination(@, st)]

RECURSIVE codegen_stmt(_, _)

Branch(acc, st, s, x) ==
  IF x.t # I1 THEN On(acc, Ends(s, "illtyped"))
  ELSE IF st.params # <<>> /\ x.disc = <<>> THEN On(acc, Ends(s, "abort"))
  ELSE IF ~Defined(x.v) THEN On(acc, Ends(s, "ub"))
  ELSE IF Pattern(x.v) = 0 THEN [acc EXCEPT !.s = s]
  ELSE [codegen_stmt([acc EXCEPT !.s = s, !.f = WithPayload(@, st, x)], st.then)
          EXCEPT !.f = acc.f]

IfCondition(acc, st, r) == IF r.s.out = "run" THEN Branch(acc, st, r.s, r.x) ELSE On(acc, r)

codegen_if(acc, st) ==
  IfCondition(acc, st, WithOperand(codegen_expr(acc.s, acc.f, st.e, None), Gives))

codegen_stmt(acc, st) ==
  CASE st.k = "let" -> codegen_let(acc, st)
    [] st.k = "assign" -> On(acc, codegen_assign(acc.s, acc.f, st))
    [] st.k = "return" -> codegen_return(acc, st)
    [] st.k = "expr" -> On(acc, codegen_expr(acc.s, acc.f, st.e, None))
    [] st.k = "if" -> codegen_if(acc, st)

codegen_block(acc, sts) ==
  FoldLeft(LAMBDA a, st : IF a.s.out # "run" \/ a.done THEN a ELSE codegen_stmt(a, st),
           acc, sts)

\* A block that ends without a return has no terminator.
BodyEnds(end) ==
  IF end.s.out = "run" /\ ~end.done THEN Ends(end.s, "illtyped") ELSE Gives(end.s, end.x)

Entered(entry) == [s |-> entry.s, f |-> entry.f, done |-> FALSE, x |-> Empty]

codegen_body(s, fn, args) ==
  BodyEnds(codegen_block(Entered(codegen_function_entry(s, fn, args)), fn.body))
=============================================================================
