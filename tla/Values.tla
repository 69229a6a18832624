------------------------------- MODULE Values -------------------------------
(***************************************************************************)
(* A program of a few functions and the statements of its main, generated   *)
(* and run one after the other (module ValueCode) beside what they mean     *)
(* (module ValueMeaning).                                                   *)
(***************************************************************************)
EXTENDS ValueMeaning

CONSTANTS
  Functions,    \* the functions a module may have: values of fns
  Prologue,     \* the statements main starts with
  Statements,   \* a sequence of those that may follow, in any order
  MaxStatements \* bound: how many do

VARIABLES
  machine, \* the memory, how many allocas there are, out and slips
  frame,   \* main's names: their places and types
  source,  \* history: the variables of the source
  count,   \* statements so far
  last     \* history: the number of the last of them, 0 before the first

vars == <<fns, machine, frame, source, count, last>>

Understood == {"compound"}

\* What the code and the source do with one statement.
Generated(st) ==
  codegen_stmt([s |-> machine, f |-> frame, done |-> FALSE, x |-> Empty], st)

Known(end) == [m |-> end.m, env |-> end.env]

Meant(s, st) ==
  IF s.out = "run" /\ s.slips \subseteq Understood
  THEN Known(Means([m |-> source.m, env |-> source.env, done |-> FALSE, v |-> Undef], st))
  ELSE source

Main == [values |-> <<>>, tys |-> <<>>, sret |-> None, ret |-> VoidType]
Started == [s |-> [mem |-> Undef, objs |-> 0, out |-> "run", slips |-> {}],
            f |-> Main, done |-> FALSE, x |-> Empty]

Init ==
  /\ fns \in Functions
  /\ \A n \in DOMAIN fns : BodyAccepted(fns, fns[n])
  /\ \E end \in {codegen_block(Started, Prologue)} : machine = end.s /\ frame = end.f
  /\ source = Known(Run([mem |-> Undef, objs |-> 0], [at |-> <<>>, tys |-> <<>>], Prologue))
  /\ count = 0
  /\ last = 0

\* The history ends at the first slip: from then on source and code differ.
Statement(i, st) ==
  /\ machine.out = "run" /\ machine.slips = {} /\ count < MaxStatements
  /\ Accepted(frame.tys, fns, VoidType, st)
  /\ st.k = "let" => st.n \notin DOMAIN frame.values
  /\ \E end \in {Generated(st)} : machine' = end.s /\ frame' = end.f
  /\ source' = Meant(machine', st)
  /\ count' = count + 1 /\ last' = i
  /\ UNCHANGED fns

Next == \E i \in 1..Len(Statements) : Statement(i, Statements[i])

Spec == Init /\ [][Next]_vars

-----------------------------------------------------------------------------
(* What is in memory.                                                       *)

RECURSIVE CellsOf(_)
CellsOf(ti) ==
  LET Inside(path, t) == {[at |-> path \o c.at, h |-> c.h] : c \in CellsOf(t)}
      members == MembersOf(ti.type)
      payloads == {t \in DOMAIN UserTypes : UserTypes[t].dep = ti.type /\ t # ti.type}
  IN CASE ti.arr # 0 -> UNION {Inside(<<i>>, ArrayElementType(ti)) : i \in 0..ti.arr - 1}
       [] ti.arr = 0 /\ ti.ind # 0 -> {}
       [] IsDirect(ti) /\ ti.type \in IntTypes -> {[at |-> <<>>, h |-> Half[ti.type]]}
       [] IsStructType(types, ti) ->
            UNION {Inside(<<i - 1>>, members[i].type) : i \in 1..Len(members)}
       [] IsUnionType(types, ti) ->
            UNION {CellsOf(members[i].type) : i \in 1..Len(members)}
       [] IsEnumType(types, ti) ->
            {[at |-> <<0>>, h |-> Half["i32"]]} \cup
            UNION {Inside(<<1>>, OfType(t)) : t \in {u \in payloads : types[u].cls = "struct"}}

(* Type invariant: what main's variables hold lies where their types have   *)
(* an integer, and is as wide as it, whatever was written by whom.          *)
TypeOK ==
  /\ machine.out \in {"run", "error", "abort", "illtyped", "ub"}
  /\ machine.slips \subseteq {"pun", "division", "sign", "unsigned", "storage", "late",
                              "deref", "alias", "compound"}
  /\ count \in 0..MaxStatements
  /\ DOMAIN frame.values = DOMAIN frame.tys
  /\ \A n \in DOMAIN frame.values :
       LET v == Load(machine.mem, frame.values[n].at)
       IN \A c \in DOMAIN v :
            [at |-> c, h |-> v[c].h] \in CellsOf(StorageType(types, frame.tys[n]))

\* A field that an initializer leaves out has no value in the source: in memory
\* there may be what was there before.
Agree ==
  \A n \in DOMAIN frame.values :
    LET got == Load(machine.mem, frame.values[n].at)
        want == Read(source.m, source.env.at[n])
    IN /\ DOMAIN want \subseteq DOMAIN got
       /\ \A c \in DOMAIN want :
            /\ got[c].h = want[c].h
            /\ got[c].n = Wrap(want[c].i, want[c].h)

(* As long as no construct is met that the code is known to get wrong, the  *)
(* variables of main hold in memory what the source says: operators,        *)
(* widening and truncation (codegen_binop.cpp, codegen_assign.cpp), members *)
(* and elements, initializers, and structs that go in and out of functions  *)
(* (codegen_call.cpp, codegen_function.cpp, codegen_return.cpp).            *)
ComputesSource == machine.out = "run" /\ machine.slips = {} => Agree

(* x op= e leaves in x what x op e computes.  The suite assignments names   *)
(* its tests "+=" and "-=" for this.                                        *)
CompoundApplies == machine.out = "run" /\ machine.slips \subseteq {"compound"} => Agree

-----------------------------------------------------------------------------
(* What a statement may change.                                             *)

RECURSIVE Addressed(_), Destinations(_)
Addressed(e) ==
  CASE e.k \in {"empty", "num", "id"} -> {}
    [] e.k = "addressof" -> {RootName(e.e)}
    [] e.k = "binop" -> Addressed(e.l) \cup Addressed(e.r)
    [] e.k = "call" -> UNION {Addressed(e.args[i]) : i \in 1..Len(e.args)}
    [] e.k = "init" -> UNION {Addressed(e.fields[i].e) : i \in 1..Len(e.fields)}
    [] e.k = "index" -> Addressed(e.e) \cup Addressed(e.i)
    [] e.k \in {"member", "imember", "deref", "is"} -> Addressed(e.e)

Destinations(st) ==
  CASE st.k = "let" -> {st.n} \cup Addressed(st.rhs)
    [] st.k = "assign" -> {RootName(st.lhs)} \cup Addressed(st.lhs) \cup Addressed(st.rhs)
    [] st.k \in {"return", "expr"} -> Addressed(st.e)
    [] st.k = "if" ->
         Addressed(st.e) \cup
         {IF st.params # <<>> /\ n = st.params[1] THEN RootName(st.e.e) ELSE n :
            n \in Destinations(st.then)}

(* A statement changes no variable of main but the one it assigns to and    *)
(* those whose address it takes: what a callee does to a parameter passed   *)
(* by value, where it builds its result, and what an initializer writes     *)
(* never reaches another.                                                   *)
WritesOnlyDestinations ==
  [][\A n \in DOMAIN frame.values :
       Load(machine'.mem, frame.values[n].at) # Load(machine.mem, frame.values[n].at)
         => n \in Destinations(Statements[last'])]_vars

-----------------------------------------------------------------------------
(* The part of the language the code generator can do.                      *)

PlaceKinds == {"id", "member", "imember", "index"}

RECURSIVE Lowered(_, _), CanPlace(_, _), CanOperand(_, _), CanInto(_, _, _), CanStmt(_, _, _)

Wider(l, r) == IF HasSize(l) /\ HasSize(r) /\ Half[l.type] > Half[r.type] THEN l ELSE r

\* The LLVM type of an operand.
Lowered(tys, e) ==
  CASE e.k = "is" -> I1
    [] e.k = "binop" -> IF e.op \in Comparisons THEN I1
                        ELSE Wider(Lowered(tys, e.l), Lowered(tys, e.r))
    [] e.k \notin {"binop", "is"} -> LLVMType(sema_expr(tys, fns, e))

OperandsFit(op, l, r) ==
  CASE op \in {"&&", "||"} -> l = I1 /\ r = I1
    [] op \in Comparisons \ {"&&", "||"} -> IsIntegerTy(l) /\ l = r
    [] op \notin Comparisons -> HasSize(l) /\ HasSize(r)

\* The place inside one of type t.
InsidePlace(tys, e, t) ==
  CASE e.k = "member" -> StorageType(types, t) = t
    [] e.k = "imember" -> TRUE
    [] e.k = "index" -> t.arr # 0 /\ CanOperand(tys, e.i)

CanPlace(tys, e) ==
  /\ e.k \in PlaceKinds
  /\ HasLLVMType(sema_expr(tys, fns, e))
  /\ e.k = "id" \/ (CanPlace(tys, e.e) /\ InsidePlace(tys, e, sema_expr(tys, fns, e.e)))

CanFn(fn) ==
  /\ fn.body # <<>> /\ Last(fn.body).k = "return"
  /\ \A i \in 1..Len(fn.body) :
       CanStmt(ScopeAfter(ParamTypes(fn), fns, SubSeq(fn.body, 1, i - 1)), fn, fn.body[i])

CanArg(tys, arg, ti) ==
  /\ AbiAttr(ti) = "value" => CanPlace(tys, arg)
  /\ AbiAttr(ti) # "value" => CanOperand(tys, arg)
  /\ Lowered(tys, arg) = LLVMType(ti)

CanArgs(tys, e) ==
  /\ CanFn(fns[e.n])
  /\ \A i \in 1..Len(e.args) : CanArg(tys, e.args[i], fns[e.n].params[i].type)

CanOperand(tys, e) ==
  CASE e.k = "num" -> TRUE
    [] e.k \in PlaceKinds -> CanPlace(tys, e)
    [] e.k = "addressof" -> CanPlace(tys, e.e)
    [] e.k = "is" -> CanPlace(tys, e.e) /\ UserTypes[e.type].nominal # None
    [] e.k = "call" -> ~HasSRet(fns[e.n]) /\ CanArgs(tys, e)
    [] e.k = "binop" ->
         /\ CanOperand(tys, e.l) /\ CanOperand(tys, e.r)
         /\ OperandsFit(e.op, Lowered(tys, e.l), Lowered(tys, e.r))
    [] e.k \in {"empty", "init", "deref"} -> FALSE

MadeInPlace(e) == e.k = "init" \/ (e.k = "call" /\ HasSRet(fns[e.n]))

\* A value that is made at its place, or stored there as it is.
CanInto(tys, ti, e) ==
  CASE e.k = "init" ->
         /\ StorageType(types, OfType(e.type)) = ti
         /\ \A i \in 1..Len(e.fields) :
              /\ HasLLVMType(get_member(e.type, e.fields[i].m).type)
              /\ CanInto(tys, get_member(e.type, e.fields[i].m).type, e.fields[i].e)
    [] e.k # "init" /\ MadeInPlace(e) -> fns[e.n].ret = ti /\ CanArgs(tys, e)
    [] ~MadeInPlace(e) -> CanOperand(tys, e) /\ Lowered(tys, e) = LLVMType(ti)

CanAssign(tys, place, lt, e) ==
  /\ CanPlace(tys, place)
  /\ IF MadeInPlace(e) THEN CanInto(tys, StorageType(types, lt), e)
     ELSE /\ CanOperand(tys, e) /\ HasSize(Lowered(tys, e))
          /\ IsDirect(lt) /\ lt.type \in IntTypes

CanReturn(tys, fn, e) ==
  IF e.k = "empty" THEN ReturnTy(fn) = VoidType /\ ~HasSRet(fn)
  ELSE /\ IF HasSRet(fn) THEN CanPlace(tys, e) ELSE CanOperand(tys, e) /\ ~IsStructTy(ReturnTy(fn))
       /\ Lowered(tys, e) = LLVMType(fn.ret)

CanDeclare(t) == HasLLVMType(t) /\ t # VoidType

CanLet(tys, st) ==
  /\ CanDeclare(StorageType(types, tys[st.n]))
  /\ st.rhs.k # "empty" => CanAssign(tys, [k |-> "id", n |-> st.n], tys[st.n], st.rhs)

CanStmt(tys, fn, st) ==
  CASE st.k = "let" -> CanLet(AfterStmt(tys, fns, st), st)
    [] st.k = "assign" -> CanAssign(tys, st.lhs, sema_expr(tys, fns, st.lhs), st.rhs)
    [] st.k = "return" -> CanReturn(tys, fn, st.e)
    [] st.k = "expr" -> st.e.k = "empty" \/ CanOperand(tys, st.e)
    [] st.k = "if" ->
         /\ CanOperand(tys, st.e) /\ Lowered(tys, st.e) = I1
         /\ CanStmt(WithDiscrimination(tys, st), fn, st.then)

MainFn == [params |-> <<>>, ret |-> VoidType, body |-> <<>>]

(* A statement of that part is generated without a failed assertion, an     *)
(* error or an instruction LLVM does not allow: in it what sema accepts is  *)
(* enough.  Outside are comparisons of different widths, assignments of     *)
(* structs and pointers, calls that return a struct to nobody, dereferences *)
(* and the like.                                                            *)
SupportedCompletes ==
  [][CanStmt(frame.tys, MainFn, Statements[last']) => machine'.out \in {"run", "ub"}]_vars
=============================================================================
