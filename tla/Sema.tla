-------------------------------- MODULE Sema --------------------------------
(***************************************************************************)
(* The semantic phase, statement by statement (sema2/SemaGen.cpp): one     *)
(* action for what each handler does before it recurses into a child, one  *)
(* for what it does after the child returns.  The C++ call stack is the    *)
(* sequence `stack` of the handlers that have been entered and have not    *)
(* returned, so a state is a point of the walk over some program.          *)
(*                                                                         *)
(* The program is not given in advance: at each point any node that the    *)
(* parser could have put there may come next.  Expressions are one         *)
(* operator deep (their operands are identifiers).                         *)
(***************************************************************************)
EXTENDS TypeRules, Integers, SequencesExt

CONSTANTS
  Names,      \* identifiers of values, functions included
  StructNodes,\* struct and union declarations a program may contain
  EnumNodes,  \* enum declarations
  FnNodes,    \* fn declarations (their prototypes)
  ExternNodes,\* extern fn declarations
  SimpleNodes,\* let, assignment, return and expression statements
  CondExprs, ArrowParams, ForNodes, SwitchExprs, CaseNodes,  \* see Next
  MaxNodes,   \* bound: nodes of the program
  MaxDepth,   \* bound: nesting of compound statements
  UB          \* see ScopeOps

\* What a name is bound to: a TypeInstance and (history) where it was
\* declared, as <<node, 0>> or, for the node's i-th parameter, <<node, i>>.
Declared == [ty : TypeInstance, site : Nat \X Nat]

Table == INSTANCE ScopeOps WITH
  Values <- Declared, Returns <- TypeInstance, Builtins <- BuiltinTypes,
  Reserve <- 100

(* What the parser builds.  A parameter's type is written out, that of a    *)
(* `let` may be left to inference.                                          *)

ParamDecls == [n : Names, decl : {d \in TypeInstance : ~IsInferType(d)}]

IsExpr(e) ==
  /\ e.k \in {"num", "empty", "id", "binop", "is", "call", "addressof", "deref"}
  /\ e.k = "is" => e.type \in TypeInstance

IsSimple(node) ==
  /\ node.k \in {"let", "assign", "return", "expr"}
  /\ IsExpr(node.rhs)
  /\ node.k = "let" => node.n \in Names /\ node.decl \in TypeInstance

ASSUME DeclarationsAssumption ==
  /\ StructNodes \subseteq
       [k : {"struct", "union"}, n : UserTypeNames, fields : SUBSET TypeInstance]
  /\ EnumNodes \subseteq
       [n : UserTypeNames,
        members : Seq([t : UserTypeNames, is_struct : BOOLEAN,
                       fields : SUBSET TypeInstance])]
  /\ FnNodes \cup ExternNodes \subseteq
       [n : Names \cap UserTypeNames, params : Seq(ParamDecls), ret : TypeInstance]

ASSUME StatementsAssumption ==
  /\ \A node \in SimpleNodes : IsSimple(node)
  /\ \A e \in CondExprs \cup SwitchExprs : IsExpr(e)
  /\ ArrowParams \subseteq Seq(ParamDecls)
  /\ \A node \in ForNodes : IsSimple(node.init) /\ IsExpr(node.cond) /\ IsSimple(node.end)
  /\ \A node \in CaseNodes : node.params \in Seq(ParamDecls)

\* The marks are no types, and no program can spell the name of the inference
\* placeholder.
ASSUME MarksAssumption ==
  /\ None \notin TypeInstance /\ None \notin Type /\ None \notin Declared
  /\ UB \notin TypeInstance /\ UB \notin Declared /\ UB \notin TypeNames /\ UB # None
  /\ InferType.type \notin UserTypeNames

ASSUME BoundsAssumption == MaxNodes \in Nat /\ MaxDepth \in Nat \ {0}

VARIABLES
  scopes, current,  \* Sema2::scopes and Sema2::current_scope
  types,            \* Sema2::types
  switch_context,   \* Sema2::switch_context_, the type of the condition
  stack,            \* the handlers entered and not returned, innermost last
  pos,              \* nodes visited so far: the identity of a node
  out               \* run, error (a SemaError is on its way out) or abort

vars == <<scopes, current, types, switch_context, stack, pos, out>>

-----------------------------------------------------------------------------
(* Handlers.  A handler whose child is a list of statements, and one whose  *)
(* children are single statements counted by kids.                          *)

ListKinds == {"fn", "block", "arrow", "switch", "case_arrow"}
SingleKinds == {"if", "else", "while", "for", "case"}

Frame == [k : ListKinds \cup SingleKinds, kids : 0..2,
          scope : Nat, ctx : TypeInstance \cup {None},
          ty : TypeInstance \cup {None},
          disc : Seq(TypeInstance) \cup {None}]

\* scope and ctx are current_scope and switch_context_ on entry.  Only
\* sema_switch keeps the second (restore_context); the others are history.
\* ty is the type of a case label and, as history, the return type of a
\* function and the type of a switch condition.
Enter(k) == [k |-> k, kids |-> 0, scope |-> current, ctx |-> switch_context,
             ty |-> None, disc |-> None]

Top == stack[Len(stack)]
Below == SubSeq(stack, 1, Len(stack) - 1)

\* The stack once the innermost handler has begun its next child.
Begun == IF stack = <<>> \/ Top.k \in ListKinds THEN stack
         ELSE Append(Below, [Top EXCEPT !.kids = @ + 1])

StmtExpected ==
  /\ stack # <<>>
  /\ Top.k \in ListKinds \/ Top.kids = 0

Visiting == out = "run" /\ pos < MaxNodes /\ pos' = pos + 1

Stop(r) ==
  /\ out' = IF r = Failed THEN "error" ELSE "abort"
  /\ UNCHANGED <<scopes, current, types, switch_context, stack>>

Stops(r) == r \in {Failed, Aborted}

Declare(ss, c, n, ti, i) ==
  Table!AddValue(ss, c, n, [ty |-> ti, site |-> <<pos, i>>])

-----------------------------------------------------------------------------
(* Types and expressions: each yields a TypeInstance, Failed or Aborted.    *)

HasType(ss, t) == Table!LookupType(ss, current, t) # None

\* sema_type_decl; a declarator is InferType or a name, stars and brackets.
DeclType(ss, d) ==
  IF IsInferType(d) \/ HasType(ss, d.type) THEN d ELSE Failed

ValueOf(ss, n) ==
  IF n \in Names THEN Table!LookupValue(ss, current, n) ELSE None

\* sema_id: a value, or else a type used as a value.
TypeOfId(ss, n, v) ==
  IF v # None THEN v.ty
  ELSE IF n \in TypeNames /\ HasType(ss, n) THEN OfType(n)
  ELSE Failed

IdType(ss, n) == TypeOfId(ss, n, ValueOf(ss, n))

BinOpType(op, l, r) ==
  IF Stops(l) THEN l ELSE IF Stops(r) THEN r
  ELSE IF ~CompatibleInts(l, r) /\ ~EqualTypes(l, r) THEN Failed
  ELSE IF op = "plus" THEN l ELSE BoolType

IsExprType(ss, l, d) ==
  IF Stops(l) THEN l
  ELSE IF ~IsEnumType(types, l) THEN Failed
  ELSE IF Stops(DeclType(ss, d)) THEN Failed
  ELSE BoolType

\* sema_fn_call and sema_fn_args; no call of the model has variable arguments.
ArgMatches(got, param) == ~Stops(got) /\ EqualTypes(got, param)

CallOf(ss, target, args) ==
  IF Stops(target) THEN target
  ELSE IF /\ IsFunctionType(types, target)
          /\ Len(args) = Len(types[target.type].params)
          /\ \A i \in 1..Len(args) :
               ArgMatches(IdType(ss, args[i]), types[target.type].params[i])
  THEN types[target.type].ret ELSE Failed

AddressOfType(t) == IF Stops(t) THEN t ELSE PointerTo(t, 1)
DerefType(t) == IF Stops(t) THEN t ELSE PointerElementType(t)

\* sema_expr_any
ExprType(ss, e) ==
  CASE e.k = "num"   -> OfType("i32")
    [] e.k = "empty" -> VoidType
    [] e.k = "id"    -> IdType(ss, e.n)
    [] e.k = "binop" -> BinOpType(e.op, IdType(ss, e.n), IdType(ss, e.r))
    [] e.k = "is"    -> IsExprType(ss, IdType(ss, e.n), e.type)
    [] e.k = "call"  -> CallOf(ss, IdType(ss, e.n), e.args)
    [] e.k = "addressof" -> AddressOfType(IdType(ss, e.n))
    [] e.k = "deref" -> DerefType(IdType(ss, e.n))

\* IRExpr::discriminations: only an `is` makes the list, and it holds the
\* member's type when that is a struct.
Discriminations(e) ==
  IF e.k # "is" THEN None
  ELSE IF IsStructType(types, e.type) THEN <<e.type>> ELSE <<>>

\* The enum test is of the type alone, stars and brackets do not count.
NamesEnum(ti) == types[ti.type].cls = "enum"

AssignableTo(l, r) ==
  IF NamesEnum(l) THEN EqualTypes(l, OfType(types[r.type].dep))
                  ELSE EqualTypes(l, r) \/ CompatibleInts(l, r)

-----------------------------------------------------------------------------
(* The statements without child statements, which are also what a `for` has *)
(* for an init and an end.  Each After operator takes the scopes before the *)
(* statement and gives those after it; Failed and Aborted pass through.     *)

\* Mutant: the declared type is kept when it was to be inferred.
LetInfers(ss, node, d, r) ==
  IF Stops(d) THEN d
  ELSE IF Stops(r) THEN r
  ELSE IF EqualTypes(d, r) THEN Declare(ss, current, node.n, d, 0) ELSE Failed

\* The name is added after the right-hand side has been analysed.
LetWith(ss, node, d, r) ==
  IF Stops(d) THEN d
  ELSE IF Stops(r) THEN r
  ELSE IF node.rhs.k = "empty" THEN
    (IF IsInferType(d) THEN Failed ELSE Declare(ss, current, node.n, d, 0))
  ELSE IF AssignableTo(d, r) \/ (NamesEnum(d) /\ EqualTypes(d, r))
  THEN Declare(ss, current, node.n, NonInferred(d, r), 0)
  ELSE Failed

AssignTo(ss, l, r) ==
  IF Stops(l) THEN l ELSE IF Stops(r) THEN r
  ELSE IF AssignableTo(l, r) THEN ss ELSE Failed

ReturnOf(ss, r, expected) ==
  IF Stops(r) THEN r
  ELSE IF expected # None /\ EqualTypes(expected, r) THEN ss ELSE Failed

AfterExpr(ss, e) ==
  LET Of(r) == IF Stops(r) THEN r ELSE ss
  IN IF Stops(ss) THEN ss ELSE Of(ExprType(ss, e))

AfterSimple(ss, node) ==
  CASE Stops(ss) -> ss
    [] ~Stops(ss) /\ node.k = "let" ->
         LetWith(ss, node, DeclType(ss, node.decl), ExprType(ss, node.rhs))
    [] ~Stops(ss) /\ node.k = "assign" ->
         AssignTo(ss, IdType(ss, node.n), ExprType(ss, node.rhs))
    [] ~Stops(ss) /\ node.k = "return" ->
         ReturnOf(ss, ExprType(ss, node.rhs), Table!ExpectedReturn(ss, current))
    [] ~Stops(ss) /\ node.k = "expr" -> AfterExpr(ss, node.rhs)

\* The handler goes on with scopes r and this stack, or it stops with r.
Continue(r, stk) ==
  \/ Stops(r) /\ Stop(r)
  \/ /\ ~Stops(r)
     /\ scopes' = r
     /\ stack' = stk
     /\ UNCHANGED <<current, types, switch_context, out>>

Simple(node) ==
  Visiting /\ StmtExpected /\ Continue(AfterSimple(scopes, node), Begun)

-----------------------------------------------------------------------------
(* The statements with children: what the handler does before the first.    *)
(* r is the scopes by then, or Failed or Aborted.                           *)

Begin(frame, r) ==
  Visiting /\ Len(stack) < MaxDepth /\ Continue(r, Append(Begun, frame))

\* sema_block with new_scope: the one statement that opens a scope.
Block ==
  /\ Visiting /\ StmtExpected /\ Len(stack) < MaxDepth
  /\ scopes' = Table!PushScope(scopes, current)
  /\ current' = Len(scopes) + 1
  /\ stack' = Append(Begun, Enter("block"))
  /\ UNCHANGED <<types, switch_context, out>>

IfOn(t) == IF Stops(t) THEN t
           ELSE IF EqualTypes(t, BoolType) THEN scopes ELSE Failed

If(e) ==
  /\ StmtExpected
  /\ Begin([Enter("if") EXCEPT !.disc = Discriminations(e)],
           IfOn(ExprType(scopes, e)))

\* The parameters of an arrow are declared in the scope that is current.
AfterArrowParams(params, expected) ==
  IF params = <<>> THEN scopes
  ELSE IF Len(params) > Len(expected) THEN Failed
  ELSE LET p == params[1]
       IN IF Stops(DeclType(scopes, p.decl)) \/ ~EqualTypes(expected[1], p.decl)
          THEN Failed ELSE Declare(scopes, current, p.n, p.decl, 1)

\* sema_if_arrow, the then-branch of an `if`; its block opens no scope.
Arrow(params) ==
  /\ stack # <<>> /\ Top.k = "if" /\ Top.kids = 0
  /\ Begin(Enter("arrow"),
           AfterArrowParams(params, IF Top.disc = None THEN <<>> ELSE Top.disc))

\* Mutant: a second else is taken for the else of the same `if`.
ElseAgain ==
  /\ stack # <<>> /\ Top.k = "if" /\ Top.kids >= 1
  /\ Begin(Enter("else"), scopes)

Else ==
  /\ stack # <<>> /\ Top.k = "if" /\ Top.kids = 1
  /\ Begin(Enter("else"), scopes)

\* The condition may have any type.
While(e) == StmtExpected /\ Begin(Enter("while"), AfterExpr(scopes, e))

\* init, condition and end are analysed before the body and in the scope
\* around the statement: lower_for adds a block to the IR, not a scope here.
AfterForHead(node) ==
  AfterSimple(AfterExpr(AfterSimple(scopes, node.init), node.cond), node.end)

For(node) == StmtExpected /\ Begin(Enter("for"), AfterForHead(node))

SwitchOn(t) ==
  \/ Stops(t) /\ Stop(t)
  \/ ~Stops(t) /\ ~IsEnumType(types, t) /\ ~IsIntegerType(t) /\ Stop(Failed)
  \/ /\ ~Stops(t) /\ (IsEnumType(types, t) \/ IsIntegerType(t))
     /\ switch_context' = t
     /\ stack' = Append(Begun, [Enter("switch") EXCEPT !.ty = t])
     /\ UNCHANGED <<scopes, current, types, out>>

Switch(e) ==
  /\ Visiting /\ StmtExpected /\ Len(stack) < MaxDepth
  /\ SwitchOn(ExprType(scopes, e))

\* sema_enum_case.  The label is looked up as a type; the as_nominal() of the
\* label is only read once the body has been analysed (see Exit).
EnumCase(node) ==
  IF node.label.k # "id" \/ ~HasType(scopes, node.label.n) THEN
    Begin(Enter("case"), Failed)
  ELSE LET type == OfType(node.label.n) IN
    IF ~node.arrow THEN Begin([Enter("case") EXCEPT !.ty = type], scopes)
    ELSE Begin([Enter("case_arrow") EXCEPT !.ty = type],
               IF Len(node.params) # 1 THEN Failed
               ELSE AfterArrowParams(node.params, <<type>>))

\* sema_case with sema_default_case and sema_integral_case.
Case(node) ==
  /\ StmtExpected
  /\ CASE switch_context = None -> Begin(Enter("case"), Failed)
       [] switch_context # None /\ node.label.k = "default" ->
            Begin(Enter("case"), scopes)
       [] switch_context # None /\ node.label.k # "default" ->
            IF IsEnumType(types, switch_context) THEN EnumCase(node)
            ELSE Begin(Enter("case"), IF node.label.k = "num" /\ ~node.arrow
                                      THEN scopes ELSE Failed)

-----------------------------------------------------------------------------
(* Declarations, at the top level of the module only.                       *)

\* sema_fn_proto
ProtoFails(node) ==
  \/ \E i \in 1..Len(node.params) : Stops(DeclType(scopes, node.params[i].decl))
  \/ Stops(DeclType(scopes, node.ret))

TypesAfterProto(node) ==
  DefineType(types, node.n,
    FunctionType(node.n, node.ret,
                 [i \in 1..Len(node.params) |-> node.params[i].decl]))

ScopesAfterProto(node) ==
  Declare(Table!AddType(scopes, current, node.n), current, node.n,
          OfType(node.n), 0)

WithParams(ss, c, params) ==
  FoldLeftDomain(LAMBDA acc, i : Declare(acc, c, params[i].n, params[i].decl, i),
                 ss, params)

\* Mutant: the return type is set before the scope is pushed.
BodyOutside(node, tm, c, ret) ==
  /\ ret # None
  /\ types' = tm
  /\ scopes' = WithParams(Table!PushScope(Table!SetExpectedReturn(
       ScopesAfterProto(node), current, ret), current), c, node.params)
  /\ current' = c
  /\ stack' = <<[Enter("fn") EXCEPT !.ty = ret]>>
  /\ UNCHANGED <<switch_context, out>>

\* sema_fn up to its body.  The return type is the one of the type that has
\* the function's name; a name taken by a type that is no function has none.
Body(node, tm, c, ret) ==
  \/ ret = None /\ Stop(Aborted)
  \/ /\ ret # None
     /\ types' = tm
     /\ scopes' = Table!SetExpectedReturn(
          WithParams(Table!PushScope(ScopesAfterProto(node), current), c,
                     node.params), c, ret)
     /\ current' = c
     /\ stack' = <<[Enter("fn") EXCEPT !.ty = ret]>>
     /\ UNCHANGED <<switch_context, out>>

Fn(node) ==
  /\ Visiting /\ stack = <<>>
  /\ \/ ProtoFails(node) /\ Stop(Failed)
     \/ /\ ~ProtoFails(node)
        /\ LET tm == TypesAfterProto(node)
           IN Body(node, tm, Len(scopes) + 1, tm[node.n].ret)

ExternFn(node) ==
  /\ Visiting /\ stack = <<>>
  /\ \/ ProtoFails(node) /\ Stop(Failed)
     \/ /\ ~ProtoFails(node)
        /\ types' = TypesAfterProto(node)
        /\ scopes' = ScopesAfterProto(node)
        /\ UNCHANGED <<current, switch_context, stack, out>>

\* sema_struct and sema_union: fields is the set of the members' types.
StructOrUnion(node) ==
  /\ Visiting /\ stack = <<>>
  /\ \/ (\E d \in node.fields : Stops(DeclType(scopes, d))) /\ Stop(Failed)
     \/ /\ \A d \in node.fields : ~Stops(DeclType(scopes, d))
        /\ types' = DefineType(types, node.n, PlainType(node.n, node.k))
        /\ scopes' = Table!AddType(scopes, current, node.n)
        /\ UNCHANGED <<current, switch_context, stack, out>>

\* sema_enum_member, on <<types, scopes>>; a member that is a name has no
\* fields.  set_dependent_type reaches a member without fields through the
\* pointer define_type returns, also when that is an older type.
AfterMember(acc, m, enum) ==
  LET cls == IF m.is_struct THEN "struct" ELSE "primitive"
      defined == DefineType(acc[1], m.t, EnumMember(m.t, cls, enum))
  IN IF Stops(acc) THEN acc
     ELSE IF \E f \in m.fields : Stops(DeclType(acc[2], f)) THEN Failed
     ELSE << IF m.is_struct THEN defined ELSE [defined EXCEPT ![m.t].dep = enum],
             Table!AddType(acc[2], current, m.t) >>

\* sema_enum: the enum's own name is in scope only after its members.
AfterMembers(node) ==
  FoldLeft(LAMBDA acc, m : AfterMember(acc, m, node.n),
           <<DefineType(types, node.n, PlainType(node.n, "enum")), scopes>>,
           node.members)

\* members_to_members: one type for each name, in the order of the names, which
\* stands for any order that depends on nothing else.
MemberTypes(node) == SetToSeq({OfType(m.t) : m \in ToSet(node.members)})

\* The type that is given the members is the one define_type returned: when the
\* name was taken it is what had the name, a function for one.
EnumOf(node, members) ==
  \/ Stops(members) /\ Stop(Failed)
  \/ /\ ~Stops(members)
     /\ types' = SetEnumMembers(members[1], node.n, MemberTypes(node))
     /\ scopes' = Table!AddType(members[2], current, node.n)
     /\ UNCHANGED <<current, switch_context, stack, out>>

Enum(node) ==
  Visiting /\ stack = <<>> /\ EnumOf(node, AfterMembers(node))

-----------------------------------------------------------------------------
(* What the innermost handler does after its last child.                    *)

Finished == stack # <<>> /\ (Top.k \in SingleKinds => Top.kids >= 1)

\* Mutants: pop_scope goes back to the root; sema_switch clears the context at its
\* end, or leaves it as it is.
OuterIsRoot == Table!Root
ContextDropped == switch_context' = None
ContextKept == UNCHANGED switch_context

Outer == scopes[current].parent
ContextRestored == switch_context' = Top.ctx

Exit ==
  /\ out = "run" /\ Finished
  /\ UNCHANGED <<types, pos>>
  /\ CASE Top.k = "fn" ->
            /\ scopes' = Table!PopScope(
                 Table!SetExpectedReturn(scopes, current, None), current)
            /\ current' = Outer
            /\ stack' = Below
            /\ UNCHANGED <<switch_context, out>>
       [] Top.k = "block" ->
            /\ scopes' = Table!PopScope(scopes, current)
            /\ current' = Outer
            /\ stack' = Below
            /\ UNCHANGED <<switch_context, out>>
       [] Top.k = "switch" ->
            /\ ContextRestored
            /\ stack' = Below
            /\ UNCHANGED <<scopes, current, out>>
       [] Top.k \in {"case", "case_arrow"}
            /\ Top.ty # None /\ ~types[Top.ty.type].nominal ->
            /\ out' = "abort"
            /\ UNCHANGED <<scopes, current, switch_context, stack>>
       [] OTHER ->
            /\ stack' = Below
            /\ UNCHANGED <<scopes, current, switch_context, out>>

-----------------------------------------------------------------------------
Init ==
  /\ scopes = Table!InitialScopes
  /\ current = Table!Root
  /\ types = BuiltinMap
  /\ switch_context = None
  /\ stack = <<>>
  /\ pos = 0
  /\ out = "run"

Next ==
  \/ \E node \in FnNodes : Fn(node)
  \/ \E node \in ExternNodes : ExternFn(node)
  \/ \E node \in StructNodes : StructOrUnion(node)
  \/ \E node \in EnumNodes : Enum(node)
  \/ \E node \in SimpleNodes : Simple(node)
  \/ Block
  \/ \E e \in CondExprs : If(e)
  \/ \E e \in CondExprs : While(e)
  \/ \E params \in ArrowParams : Arrow(params)
  \/ Else
  \/ \E node \in ForNodes : For(node)
  \/ \E e \in SwitchExprs : Switch(e)
  \/ \E node \in CaseNodes : Case(node)
  \/ Exit

Spec == Init /\ [][Next]_vars

-----------------------------------------------------------------------------
TypeOK ==
  /\ scopes \in Seq(Table!Scope)
  /\ current \in 1..Len(scopes)
  /\ DOMAIN types = TypeNames
  /\ \A t \in TypeNames : types[t] = None \/ types[t] \in Type
  /\ switch_context \in TypeInstance \cup {None}
  /\ stack \in Seq(Frame) /\ Len(stack) <= MaxDepth
  /\ pos \in 0..MaxNodes
  /\ out \in {"run", "error", "abort"}

(***************************************************************************)
(* Action property.  However a handler nests and whatever its children do, *)
(* when it returns the current scope and the switch context are the ones   *)
(* it was entered with.  push_scope/pop_scope and switch_context_set are   *)
(* paired by hand in sema_block, sema_fn and sema_switch.                  *)
(***************************************************************************)
HandlersRestore ==
  [][out' = "run" /\ Len(stack') < Len(stack) =>
       current' = Top.scope /\ switch_context' = Top.ctx]_vars

(***************************************************************************)
(* Safety.  The return type a `return` is checked against is that of the   *)
(* function around it, at any depth of blocks, and between functions there *)
(* is none: no function's return type is left behind for the next.         *)
(***************************************************************************)
ExpectedReturnIsEnclosing ==
  out = "run" =>
    Table!ExpectedReturn(scopes, current) =
      IF stack = <<>> THEN None ELSE stack[1].ty

(***************************************************************************)
(* Safety.  The switch context a `case` is checked against is the type of  *)
(* the innermost switch around it, across functions, blocks and nested     *)
(* switches.                                                               *)
(***************************************************************************)
SwitchContextIsInnermost ==
  LET switches == {i \in 1..Len(stack) : stack[i].k = "switch"}
  IN out = "run" =>
       switch_context = IF switches = {} THEN None ELSE stack[Max(switches)].ty

(***************************************************************************)
(* Safety.  Every name that a program can reach has a type that is really  *)
(* there: not the inference placeholder, and one that Types holds and that *)
(* was in scope, so that no later handler asks a missing type for its      *)
(* members or its return type.                                             *)
(***************************************************************************)
NamesHaveKnownTypes ==
  \A s \in 1..Len(scopes) :
    /\ \A t \in scopes[s].types : types[t] # None
    /\ \A n \in Names :
         LET v == scopes[s].names[n]
         IN v # None => ~IsInferType(v.ty) /\ types[v.ty.type] # None

(***************************************************************************)
(* Action property.  Whatever is defined under a name that a type has, the *)
(* type stays: the values that have it hold a pointer into Types.  It      *)
(* keeps its classification and return type, and each parameter that a     *)
(* call was checked against keeps its place and type.  Parameters are not  *)
(* safe altogether: an enum with the name of a function puts its members   *)
(* behind them (set_enum_members), so that later calls need more           *)
(* arguments.  Nothing else adds any.                                      *)
(***************************************************************************)
DefinitionsStick ==
  [][\A t \in TypeNames : types[t] # None =>
       /\ types'[t] # None
       /\ types'[t].cls = types[t].cls
       /\ types'[t].ret = types[t].ret
       /\ IsPrefix(types[t].params, types'[t].params)
       /\ types'[t].params # types[t].params => \E node \in EnumNodes : node.n = t]_vars

(***************************************************************************)
(* Claimed by the assertions of SemaGen.cpp:653 and Type.cpp:62 and by the *)
(* unchecked reads of an optional in TypeInstance.cpp:61 and Types.cpp:142:*)
(* no program makes the semantic phase stop other than with an error.      *)
(***************************************************************************)
NeverAborts == out # "abort"
=============================================================================
