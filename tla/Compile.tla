------------------------------ MODULE Compile -------------------------------
(***************************************************************************)
(* The two phases after the parser as main.cpp runs them: the semantic     *)
(* phase (module Sema) checks a module and builds its IR, then the code    *)
(* generator (module Codegen) walks that IR.  Each phase keeps a symbol    *)
(* table of its own with rules of its own, and the IR carries names, not   *)
(* what the semantic phase resolved them to.                               *)
(*                                                                         *)
(* The IR is the sequence of its nodes in the order both phases visit      *)
(* them, with an item "end" where a compound statement ends.               *)
(***************************************************************************)
EXTENDS TypeRules, Integers, SequencesExt

CONSTANTS
  Names, StructNodes, EnumNodes, FnNodes, ExternNodes, SimpleNodes, CondExprs,
  ArrowParams, ForNodes, SwitchExprs, CaseNodes,  \* the programs: see Sema
  Hygienic,   \* TRUE: only programs whose declarations are Visible, see below
  MaxNodes, MaxDepth, UB

VARIABLES
  scopes, current, types, switch_context, sstack, spos, sout,        \* Sema
  bbs, ip, merge, switch, values, lltypes, gstack, gpos, used, gout, \* Codegen
  ir,    \* the IR built so far
  ends,  \* history: for each open handler, what the end of its node reads
  next   \* 0 in the semantic phase, then the item the code generator is at

semaVars == <<scopes, current, types, switch_context, sstack, spos, sout>>
codegenVars == <<bbs, ip, merge, switch, values, lltypes, gstack, gpos, used, gout>>
vars == <<semaVars, codegenVars, ir, ends, next>>

S == INSTANCE Sema WITH stack <- sstack, pos <- spos, out <- sout

C == INSTANCE Codegen WITH
  stack <- gstack, pos <- gpos, out <- gout, rules <- {}, RuleSets <- {{}},
  BuiltinTypes <- {"i8", "i16", "i32", "u8", "u16", "u32", "void"},
  FnNodes <- {}, ExternNodes <- {}, TypeNodes <- {}, SimpleNodes <- {},
  CondNodes <- {}, ArrowParams <- {}, ForNodes <- {}, SwitchNodes <- {},
  CaseNodes <- {}

-----------------------------------------------------------------------------
(* The IR: h is the handler, node what it is given, refs the names its      *)
(* expressions read, in order, with the declaration the semantic phase      *)
(* found for each.                                                          *)

Uses(e) ==
  CASE e.k \in {"num", "empty"} -> <<>>
    [] e.k = "binop" -> <<e.n, e.r>>
    [] e.k = "call" -> <<e.n>> \o e.args
    [] OTHER -> <<e.n>>

NodeUses(node) ==
  CASE node.k = "empty" -> <<>>
    [] node.k = "assign" -> <<node.n>> \o Uses(node.rhs)
    [] OTHER -> Uses(node.rhs)

\* The programs are those that Sema is about, with what the parser makes of a
\* `for` and a `case`: the step is an expression or an assignment, and only an
\* arrow that is not the default's has parameters.  What is read are names, and
\* std::nullopt is no SwitchInfo and no address.
ASSUME ProgramsAssumption ==
  /\ S!DeclarationsAssumption /\ S!StatementsAssumption
  /\ S!MarksAssumption /\ S!BoundsAssumption
  /\ \A node \in ForNodes :
       /\ node.end.k \in {"assign", "expr"}
       /\ {NodeUses(node.init), Uses(node.cond), NodeUses(node.end)} \subseteq Seq(STRING)
  /\ \A node \in CaseNodes :
       node.params # <<>> => node.arrow /\ node.label.k # "default"
  /\ None \notin C!SwitchInfo \cup C!Site

SiteOf(v) == IF v = None THEN None ELSE v.site

Refs(ss, uses) ==
  [i \in 1..Len(uses) |-> <<uses[i], SiteOf(S!ValueOf(ss, uses[i]))>>]

Item(h, node, refs) == [h |-> h, node |-> node, refs |-> refs, atEnd |-> <<>>]

Plain == [k |-> "plain"]

\* Sema2::Let with the storage type codegen_let allocates, and the others.
LetNode(node, ti) ==
  [k |-> "let", n |-> node.n, type |-> StorageType(types, ti).type,
   uses |-> Uses(node.rhs)]

LetType(ss, node) ==
  IF node.rhs.k = "empty" THEN node.decl
  ELSE NonInferred(node.decl, S!ExprType(ss, node.rhs))

Lowered(ss, node) ==
  IF node.k = "let" THEN LetNode(node, LetType(ss, node))
  ELSE [k |-> node.k, uses |-> NodeUses(node)]

\* codegen_is asserts that the member has a value and depends on an enum.
IsAsserts(e) ==
  /\ e.k = "is"
  /\ ~types[e.type.type].nominal \/ types[types[e.type.type].dep].cls # "enum"

CondItem(h, e) ==
  Item(h, [uses |-> Uses(e), aborts |-> IsAsserts(e)], Refs(scopes, Uses(e)))

\* codegen_switch takes the address of the condition (CGExpr::address).
SwitchItem(e) ==
  Item("switch", [uses |-> Uses(e), aborts |-> e.k \notin {"id", "deref"}],
       Refs(scopes, Uses(e)))

LoweredParams(params) ==
  [i \in 1..Len(params) |-> [n |-> params[i].n, type |-> params[i].decl.type]]

ForItem(node, inner) ==
  [h |-> "for",
   node |-> [init |-> Lowered(scopes, node.init), cond |-> Uses(node.cond),
             end |-> NodeUses(node.end)],
   refs |-> Refs(scopes, NodeUses(node.init)) \o Refs(inner, Uses(node.cond)),
   atEnd |-> Refs(inner, NodeUses(node.end))]

CaseItem(node) ==
  Item("case", [default |-> node.label.k = "default", arrow |-> node.arrow,
                params |-> LoweredParams(node.params)], <<>>)

FnItem(h, node) ==
  Item(h, [n |-> node.n, params |-> LoweredParams(node.params),
           ret |-> node.ret.type], <<>>)

\* codegen_enum enters the members that have fields, and the enum.
StructMembers(node) == {m \in ToSet(node.members) : m.is_struct}
TypeNamesOf(fields) == {d.type : d \in fields}

EnumItem(node) ==
  Item("type", [fields |-> UNION {TypeNamesOf(m.fields) : m \in StructMembers(node)},
                entered |-> {node.n} \cup {m.t : m \in StructMembers(node)}], <<>>)

StructItem(node) ==
  Item("type", [fields |-> TypeNamesOf(node.fields), entered |-> {node.n}], <<>>)

-----------------------------------------------------------------------------
(* The semantic phase.  A handler that fails leaves no IR.                  *)

Opens == Len(sstack') > Len(sstack)

Record(item) ==
  IF sout' # "run" THEN UNCHANGED <<ir, ends>>
  ELSE /\ ir' = Append(ir, item)
       /\ ends' = IF Opens THEN Append(ends, item.atEnd) ELSE ends

RecordEnd ==
  IF sout' # "run" THEN UNCHANGED <<ir, ends>>
  ELSE /\ ir' = Append(ir, Item("end", Plain, ends[Len(ends)]))
       /\ ends' = SubSeq(ends, 1, Len(ends) - 1)

\* The bound Hygienic.  A declaration is of a name that nothing visible has,
\* or it hides one of a scope further out and is directly in the body of a
\* function or in a block.  Parameters have names of their own.  A name that is
\* read in its own initializer or in the step of a `for` may not yet have a
\* value where sema_id finds a type instead: there it has.
Fresh(n) == S!ValueOf(scopes, n) = None

Hides(node) ==
  /\ sstack # <<>> /\ sstack[Len(sstack)].k \in {"fn", "block"}
  /\ scopes[current].names[node.n] = None

Unread(node) == node.n \notin ToSet(Uses(node.rhs))

Visible(node) ==
  Hygienic /\ node.k = "let" => Unread(node) /\ (Fresh(node.n) \/ Hides(node))

FreshHead(node) ==
  Hygienic =>
    /\ node.init.k = "let" => Unread(node.init) /\ Fresh(node.init.n)
    /\ \A n \in ToSet(NodeUses(node.end)) :
         ~Fresh(n) \/ (node.init.k = "let" /\ n = node.init.n)

Distinct(params) ==
  \A i, j \in 1..Len(params) : i # j => params[i].n # params[j].n
DistinctParams(params) == Hygienic => Distinct(params)
FreshParams(params) ==
  Hygienic => Distinct(params) /\ \A i \in 1..Len(params) : Fresh(params[i].n)

AnalyseDeclaration ==
  \/ \E node \in FnNodes :
       DistinctParams(node.params) /\ S!Fn(node) /\ Record(FnItem("fn", node))
  \/ \E node \in ExternNodes : S!ExternFn(node) /\ Record(FnItem("extern", node))
  \/ \E node \in StructNodes : S!StructOrUnion(node) /\ Record(StructItem(node))
  \/ \E node \in EnumNodes : S!Enum(node) /\ Record(EnumItem(node))

AnalyseStatement ==
  \/ \E node \in SimpleNodes :
       /\ Visible(node)
       /\ S!Simple(node)
       /\ Record(Item("simple", Lowered(scopes, node), Refs(scopes, NodeUses(node))))
  \/ S!Block /\ Record(Item("block", Plain, <<>>))
  \/ \E e \in CondExprs : S!If(e) /\ Record(CondItem("if", e))
  \/ \E params \in ArrowParams :
       /\ FreshParams(params)
       /\ S!Arrow(params)
       /\ Record(Item("arrow", LoweredParams(params), <<>>))
  \/ S!Else /\ Record(Item("else", Plain, <<>>))
  \/ \E e \in CondExprs : S!While(e) /\ Record(CondItem("while", e))
  \/ \E node \in ForNodes :
       /\ FreshHead(node)
       /\ S!For(node)
       /\ Record(ForItem(node, S!AfterSimple(scopes, node.init)))
  \/ \E e \in SwitchExprs : S!Switch(e) /\ Record(SwitchItem(e))
  \/ \E node \in CaseNodes :
       FreshParams(node.params) /\ S!Case(node) /\ Record(CaseItem(node))
  \/ S!Exit /\ RecordEnd

Analyse ==
  /\ next = 0
  /\ AnalyseDeclaration \/ AnalyseStatement
  /\ UNCHANGED <<codegenVars, next>>

\* main goes on to the code generator with the module the first phase returned.
HandOver ==
  /\ next = 0 /\ sout = "run" /\ sstack = <<>> /\ ir # <<>>
  /\ next' = 1
  /\ UNCHANGED <<semaVars, codegenVars, ir, ends>>

-----------------------------------------------------------------------------
(* The code generator.                                                      *)

Handle(item) ==
  CASE item.h = "fn"     -> C!Fn(item.node)
    [] item.h = "extern" -> C!ExternFn(item.node)
    [] item.h = "type"   -> C!TypeDecl(item.node)
    [] item.h = "simple" -> C!Simple(item.node)
    [] item.h = "block"  -> C!Block
    [] item.h = "if"     -> C!If(item.node)
    [] item.h = "arrow"  -> C!Arrow(item.node)
    [] item.h = "else"   -> C!Else
    [] item.h = "while"  -> C!While(item.node)
    [] item.h = "for"    -> C!For(item.node)
    [] item.h = "switch" -> C!Switch(item.node)
    [] item.h = "case"   -> C!Case(item.node)
    [] item.h = "end"    -> C!Exit

Generate ==
  /\ next \in 1..Len(ir)
  /\ Handle(ir[next])
  /\ next' = next + 1
  /\ UNCHANGED <<semaVars, ir, ends>>

Init == S!Init /\ C!Init /\ ir = <<>> /\ ends = <<>> /\ next = 0

Next == Analyse \/ HandOver \/ Generate

Spec == Init /\ [][Next]_vars

-----------------------------------------------------------------------------
(***************************************************************************)
(* Action property.  The two phases resolve names alike: whatever node the *)
(* code generator handles without reporting an error, each name in it is   *)
(* the address of the very declaration the semantic phase checked the name *)
(* against.  The parent-linked scopes with first-declaration-wins and the  *)
(* copied map with last-declaration-wins only agree for Hygienic programs. *)
(* Claimed for all programs by designv3.md:41, "during semantic analysis,  *)
(* I need to be able to look up variables the same way the VM is going to  *)
(* look up variables".                                                     *)
(***************************************************************************)
AgreesOrReports ==
  [][next > 0 /\ gout' = "run" => used' = ir[next].refs]_vars

(***************************************************************************)
(* Safety.  A case that the semantic phase let through finds a switch when *)
(* the code generator comes to it: the assertion of codegen_switch.cpp:68  *)
(* rests on Sema2::switch_context_ being set exactly where LLVMFnInfo's    *)
(* switch is.                                                              *)
(***************************************************************************)
CaseFindsSwitch ==
  next \in 1..Len(ir) /\ gout = "run" /\ ir[next].h = "case" => switch # None
=============================================================================
