------------------------------ MODULE Codegen -------------------------------
(***************************************************************************)
(* The code generator (codegen2/), statement by statement, as it walks the *)
(* IR of a module: which LLVM basic blocks it makes, where it attaches     *)
(* them, how it terminates them, and which address each name stands for.   *)
(*                                                                         *)
(* As in module Sema there is one action for what a handler does before it *)
(* recurses into a child statement and the C++ call stack is `stack`.  Any *)
(* node the semantic phase can hand over may come next.  An expression is  *)
(* the sequence of the names it reads, in the order codegen_id sees them.  *)
(***************************************************************************)
EXTENDS Integers, Sequences, FiniteSets, SequencesExt

CONSTANTS
  Names,        \* identifiers of values, functions included
  BuiltinTypes, \* the types establish_llvm_builtin_types enters
  TypeNames,    \* all type names
  FnNodes, ExternNodes, TypeNodes, SimpleNodes, CondNodes,  \* the nodes of the
  ArrowParams, ForNodes, SwitchNodes, CaseNodes,            \* IR, by handler
  RuleSets,     \* bound: the sets of rules, see Rules, that programs may keep
  MaxNodes,     \* bound: nodes of the module
  MaxDepth,     \* bound: nesting of statements
  None          \* std::nullopt

ASSUME BuiltinTypesAssumption == BuiltinTypes \subseteq TypeNames

\* The bound `rules`.  Each rule leaves out programs for which control flow
\* goes wrong: "cases", only cases are statements of a switch's block; "inner", a
\* case is nowhere else; "default", a default has no statements that branch;
\* "loops", the body of a `while` that is in a branch of an `if` is no `if`
\* when none of these has braces.
Rules == {"cases", "inner", "default", "loops"}

\* What the builders of Sema2.cpp put into a node.  A function's name is the
\* name of its type too.
Params == Seq([n : Names, type : TypeNames])

ASSUME DeclarationsAssumption ==
  /\ FnNodes \cup ExternNodes \subseteq
       [n : Names \cap TypeNames, params : Params, ret : TypeNames]
  /\ \A node \in TypeNodes : node.entered \subseteq TypeNames

ASSUME StatementsAssumption ==
  /\ ArrowParams \subseteq Params
  /\ \A node \in ForNodes : node.end \in Seq(STRING)
  /\ \A node \in CaseNodes : node.params \in Params /\ node.default \in BOOLEAN

ASSUME BoundsAssumption ==
  RuleSets \subseteq SUBSET Rules /\ MaxNodes \in Nat /\ MaxDepth \in Nat \ {0}

VARIABLES
  rules,   \* bound: the rules the program keeps
  bbs,     \* the basic blocks made for the function, in order of creation
  ip,      \* the block Builder inserts at
  merge,   \* LLVMFnInfo::merge_block_
  switch,  \* LLVMFnInfo::switch_info_
  values,  \* CG::values, the addresses names stand for
  lltypes, \* the keys of CG::types
  stack,   \* the handlers entered and not returned, innermost last
  pos,     \* nodes visited so far: the identity of a node
  used,    \* history: the lookups of the last step, <<name, address>>
  out      \* run, error (a CGError is on its way out) or abort

vars == <<rules, bbs, ip, merge, switch, values, lltypes, stack, pos, used, out>>

\* An address is known by the declaration it was made for: <<node, 0>>, or
\* <<node, i>> for the node's i-th parameter.
Site == Nat \X Nat
SwitchInfo == [merge : Nat, default : Nat, at : Nat, term : Nat]
Term == [k : {"br", "condbr", "switch", "ret"}, to : SUBSET Nat]
BB == [attached : Nat, terms : Seq(Term)]

ListKinds == {"fn", "block", "arrow", "case_arrow", "switch"}
SingleKinds == {"if", "else", "while", "for", "case"}

\* next is where code goes on after the statement, alt its other block: the
\* else branch, the condition or the default.  merge, switch and values are
\* those on entry: the copies codegen_block and codegen_switch put back, and
\* history elsewhere.  first, entry and terms are history: the number of the
\* first block the handler makes, ip on entry and how often that block was
\* terminated by then.
Frame == [k : ListKinds \cup SingleKinds, kids : 0..2,
          next : Nat, alt : Nat, own : BOOLEAN, default : BOOLEAN,
          end : Seq(STRING),
          merge : Nat \cup {None}, switch : SwitchInfo \cup {None},
          values : [Names -> Site \cup {None}], first : Nat, entry : Nat, terms : Nat]

Enter(k) == [k |-> k, kids |-> 0, next |-> 0, alt |-> 0, own |-> FALSE,
             default |-> FALSE, end |-> <<>>,
             merge |-> merge, switch |-> switch, values |-> values,
             first |-> Len(bbs) + 1, entry |-> ip,
             terms |-> IF ip = 0 THEN 0 ELSE Len(bbs[ip].terms)]

Top == stack[Len(stack)]
Below == SubSeq(stack, 1, Len(stack) - 1)

Begun == IF stack = <<>> \/ Top.k \in ListKinds THEN stack
         ELSE Append(Below, [Top EXCEPT !.kids = @ + 1])

StmtExpected == stack # <<>> /\ (Top.k \in ListKinds \/ Top.kids = 0)

Visiting ==
  out = "run" /\ pos < MaxNodes /\ pos' = pos + 1 /\ UNCHANGED rules

-----------------------------------------------------------------------------
(* LLVM, as far as the handlers use it: blocks are made attached to the     *)
(* function or not, the builder appends a terminator to the block it is at  *)
(* whether or not there already is one.                                     *)

Blocks(attached) ==
  [i \in 1..Len(attached) |-> [attached |-> attached[i], terms |-> <<>>]]

Terminated(bb, k, to) ==
  [bb EXCEPT !.terms = Append(@, [k |-> k, to |-> to])]

Br(bs, at, to) == [bs EXCEPT ![at] = Terminated(@, "br", {to})]
CondBr(bs, at, to) == [bs EXCEPT ![at] = Terminated(@, "condbr", to)]
Attach(bs, b) == [bs EXCEPT ![b].attached = @ + 1]

-----------------------------------------------------------------------------
(* Names and errors.                                                        *)

ValueOf(vals, n) == IF n \in Names THEN vals[n] ELSE None

Lookups(vals, uses) == [i \in 1..Len(uses) |-> <<uses[i], ValueOf(vals, uses[i])>>]

\* codegen_id: "Undeclared identifier!"
Undeclared(vals, uses) == \E i \in 1..Len(uses) : ValueOf(vals, uses[i]) = None

Stop(how) ==
  /\ out' = how
  /\ UNCHANGED <<bbs, ip, merge, switch, values, lltypes, stack, used>>

\* codegen_let enters the name before it generates the right-hand side.
LetValues(vals, node) ==
  IF node.k = "let" THEN [vals EXCEPT ![node.n] = <<pos, 0>>] ELSE vals

\* get_type: "Missing Type!"
Untyped(node) == node.k = "let" /\ node.type \notin lltypes

\* The expression statement, assignment, let or return fails.
Fails(vals, node) ==
  Untyped(node) \/ Undeclared(LetValues(vals, node), node.uses)

WithParams(vals, params) ==
  FoldLeftDomain(LAMBDA acc, i : [acc EXCEPT ![params[i].n] = <<pos, i>>],
                 vals, params)

-----------------------------------------------------------------------------
Keeps(rule, fact) == rule \in rules => fact

Structured == Rules \subseteq rules

InCases == Keeps("cases", Top.k # "switch")

-----------------------------------------------------------------------------
(* Statements without child statements.                                     *)

Simple(node) ==
  /\ Visiting /\ StmtExpected /\ InCases
  /\ \/ Fails(values, node) /\ Stop("error")
     \/ /\ ~Fails(values, node)
        /\ values' = LetValues(values, node)
        /\ used' = Lookups(values', node.uses)
        /\ bbs' = IF node.k = "return"
                  THEN [bbs EXCEPT ![ip] = Terminated(@, "ret", {})] ELSE bbs
        /\ stack' = Begun
        /\ UNCHANGED <<ip, merge, switch, lltypes, out>>

-----------------------------------------------------------------------------
(* Statements with children: what the handler does before the first.        *)

Entering == Visiting /\ Len(stack) < MaxDepth

Branching ==
  InCases /\ Keeps("default", \A i \in 1..Len(stack) : ~stack[i].default)
CasePlace == Keeps("inner", Top.k = "switch")
IfPlace == Keeps("loops", Top.k # "while" \/ merge = None)

\* Mutant: the merge block is not cleared for the statements of a block.
BlockShares ==
  /\ Entering /\ StmtExpected /\ InCases
  /\ used' = <<>>
  /\ stack' = Append(Begun, Enter("block"))
  /\ UNCHANGED <<bbs, ip, merge, switch, values, lltypes, out>>

\* codegen_block
Block ==
  /\ Entering /\ StmtExpected /\ InCases
  /\ merge' = None
  /\ used' = <<>>
  /\ stack' = Append(Begun, Enter("block"))
  /\ UNCHANGED <<bbs, ip, switch, values, lltypes, out>>

\* Mutant: the merge block is named but not made.
IfBlocksShared(own) == Blocks(<<1, 0>>)

IfBlocks(own) == Blocks(IF own THEN <<1, 0, 0>> ELSE <<1, 0>>)

\* codegen_if up to the then-branch.  The merge block of an enclosing `if`
\* that is still set is shared: that is how else-if chains get only one.
If(node) ==
  LET n == Len(bbs)
      own == merge = None
  IN /\ Entering /\ StmtExpected /\ Branching /\ IfPlace
     /\ \/ node.aborts /\ ~Undeclared(values, node.uses) /\ Stop("abort")
        \/ Undeclared(values, node.uses) /\ Stop("error")
        \/ /\ ~node.aborts /\ ~Undeclared(values, node.uses)
           /\ used' = Lookups(values, node.uses)
           /\ bbs' = CondBr(bbs, ip, {n + 1, n + 2}) \o IfBlocks(own)
           /\ ip' = n + 1
           /\ merge' = IF own THEN n + 3 ELSE merge
           /\ stack' = Append(Begun, [Enter("if") EXCEPT
                !.next = merge', !.alt = n + 2, !.own = own])
           /\ UNCHANGED <<switch, values, lltypes, out>>

\* cg_discriminations binds the parameters of an arrow; get_type(..).unwrap()
\* throws when there is no LLVM type.  What codegen_block puts back after the
\* arrow's statements has the parameters already.
Untypable(params) == \E i \in 1..Len(params) : params[i].type \notin lltypes

Inject(params, frame) ==
  /\ values' = WithParams(values, params)
  /\ used' = <<>>
  /\ stack' = Append(Begun, [frame EXCEPT !.values = values'])

Arrow(params) ==
  /\ Entering /\ stack # <<>> /\ Top.k = "if" /\ Top.kids = 0
  /\ \/ Untypable(params) /\ Stop("abort")
     \/ /\ ~Untypable(params)
        /\ Inject(params, Enter("arrow"))
        /\ merge' = None
        /\ UNCHANGED <<bbs, ip, switch, lltypes, out>>

\* Mutant: the else block is never given to the function.
ElseBegunLoose(bs, frame) == Br(bs, ip, frame.next)

\* The then-branch is done: it goes to the merge block and the else block is
\* attached.
ElseBegun(bs, frame) == Attach(Br(bs, ip, frame.next), frame.alt)

\* codegen_if between the branches, and codegen_else.
Else ==
  /\ Entering /\ stack # <<>> /\ Top.k = "if" /\ Top.kids = 1
  /\ bbs' = ElseBegun(bbs, Top)
  /\ ip' = Top.alt
  /\ used' = <<>>
  /\ stack' = Append(Begun, [Enter("else") EXCEPT !.entry = Top.alt,
                                                   !.terms = 0])
  /\ UNCHANGED <<merge, switch, values, lltypes, out>>

\* Mutant: both ways out of the condition lead to the body.
LoopBlocksEndless(bs, at) ==
  LET n == Len(bs)
  IN CondBr(Br(bs, at, n + 1) \o Blocks(<<1, 1, 0>>), n + 1, {n + 2})

\* The three blocks of a loop: condition, body, after.
LoopBlocks(bs, at) ==
  LET n == Len(bs)
  IN CondBr(Br(bs, at, n + 1) \o Blocks(<<1, 1, 0>>), n + 1, {n + 2, n + 3})

Loop(frame) ==
  /\ bbs' = LoopBlocks(bbs, ip)
  /\ ip' = Len(bbs) + 2
  /\ stack' = Append(Begun,
       [frame EXCEPT !.alt = Len(bbs) + 1, !.next = Len(bbs) + 3])

\* codegen_while
While(node) ==
  /\ Entering /\ StmtExpected /\ Branching
  /\ \/ node.aborts /\ ~Undeclared(values, node.uses) /\ Stop("abort")
     \/ Undeclared(values, node.uses) /\ Stop("error")
     \/ /\ ~node.aborts /\ ~Undeclared(values, node.uses)
        /\ used' = Lookups(values, node.uses)
        /\ Loop(Enter("while"))
        /\ UNCHANGED <<merge, switch, values, lltypes, out>>

\* The block lower_for puts around a `for`, and codegen_for.
HeadFails(node) ==
  \/ Fails(values, node.init)
  \/ Undeclared(LetValues(values, node.init), node.cond)

For(node) ==
  /\ Entering /\ StmtExpected /\ Branching
  /\ \/ HeadFails(node) /\ Stop("error")
     \/ /\ ~HeadFails(node)
        /\ values' = LetValues(values, node.init)
        /\ used' = Lookups(values', node.init.uses \o node.cond)
        /\ merge' = None
        /\ Loop([Enter("for") EXCEPT !.end = node.end])
        /\ UNCHANGED <<switch, lltypes, out>>

\* codegen_switch, and the codegen_block it calls, which saves the merge block
\* codegen_switch has just set and clears it.
Switch(node) ==
  LET n == Len(bbs)
  IN /\ Entering /\ StmtExpected /\ Branching
     /\ \/ node.aborts /\ ~Undeclared(values, node.uses) /\ Stop("abort")
        \/ Undeclared(values, node.uses) /\ Stop("error")
        \/ /\ ~node.aborts /\ ~Undeclared(values, node.uses)
           /\ used' = Lookups(values, node.uses)
           /\ bbs' = [bbs EXCEPT ![ip] = Terminated(@, "switch", {n + 2})]
                     \o Blocks(<<0, 0>>)
           /\ merge' = None
           /\ switch' = [merge |-> n + 1, default |-> n + 2,
                         at |-> ip, term |-> Len(bbs[ip].terms) + 1]
           /\ stack' = Append(Begun, [Enter("switch") EXCEPT
                !.next = n + 1, !.alt = n + 2])
           /\ UNCHANGED <<ip, values, lltypes, out>>

\* codegen_case up to its statement: SwitchInst::addCase and, for a case that
\* is not the default, a block of its own.
WithCase(bb, term, b) == [bb EXCEPT !.terms[term].to = @ \cup {b}]

AddCase(bs, b) == [bs EXCEPT ![switch.at] = WithCase(@, switch.term, b)]

CaseBlock(node) == IF node.default THEN switch.default ELSE Len(bbs) + 1

Case(node) ==
  /\ Entering /\ StmtExpected /\ CasePlace
  /\ \/ switch = None /\ Stop("abort")
     \/ switch # None /\ Untypable(node.params) /\ Stop("abort")
     \/ /\ switch # None /\ ~Untypable(node.params)
        /\ bbs' = AddCase(IF node.default THEN bbs ELSE bbs \o Blocks(<<1>>),
                          CaseBlock(node))
        /\ ip' = CaseBlock(node)
        /\ Inject(node.params,
             [Enter(IF node.arrow THEN "case_arrow" ELSE "case") EXCEPT
                !.next = switch.merge, !.default = node.default])
        /\ merge' = IF node.arrow THEN None ELSE merge
        /\ UNCHANGED <<switch, lltypes, out>>

-----------------------------------------------------------------------------
(* What a handler does after its last child.                                *)

Leaving(kinds) ==
  /\ out = "run" /\ stack # <<>> /\ Top.k \in kinds
  /\ Top.k \in ListKinds \/ Top.kids >= 1
  /\ stack' = Below
  /\ UNCHANGED <<rules, lltypes, pos>>

\* Mutants: the values are not put back; the merge block is not.
ExitBlockLeaks ==
  /\ Leaving({"fn", "block", "arrow"})
  /\ merge' = Top.merge
  /\ used' = <<>>
  /\ UNCHANGED <<bbs, ip, switch, values, out>>
ExitBlockForgets ==
  /\ Leaving({"fn", "block", "arrow"})
  /\ values' = Top.values
  /\ used' = <<>>
  /\ UNCHANGED <<bbs, ip, merge, switch, out>>

\* codegen_block; for a function it is codegen_function_body that puts the
\* values back, and its LLVMFnInfo is gone.
ExitBlock ==
  /\ Leaving({"fn", "block", "arrow"})
  /\ values' = Top.values
  /\ merge' = Top.merge
  /\ used' = <<>>
  /\ UNCHANGED <<bbs, ip, switch, out>>

ExitElse ==
  /\ Leaving({"else"})
  /\ used' = <<>>
  /\ UNCHANGED <<bbs, ip, merge, switch, values, out>>

\* codegen_if: without an else the else block is empty.  Only the handler that
\* made the merge block ends the branch, attaches it and goes on in it.
ExitIf ==
  LET at == IF Top.kids = 1 THEN Top.alt ELSE ip
      branches == IF Top.kids = 1 THEN ElseBegun(bbs, Top) ELSE bbs
  IN /\ Leaving({"if"})
     /\ bbs' = IF Top.own THEN Attach(Br(branches, at, Top.next), Top.next)
                          ELSE branches
     /\ ip' = IF Top.own THEN Top.next ELSE at
     /\ merge' = IF Top.own THEN None ELSE merge
     /\ used' = <<>>
     /\ UNCHANGED <<switch, values, out>>

\* Mutant: the body does not branch back to the condition.
LoopLeftOpen ==
  /\ bbs' = Attach(bbs, Top.next)
  /\ ip' = Top.next

LoopClosed ==
  /\ bbs' = Attach(Br(bbs, ip, Top.alt), Top.next)
  /\ ip' = Top.next

ExitWhile ==
  /\ Leaving({"while"})
  /\ LoopClosed
  /\ used' = <<>>
  /\ UNCHANGED <<merge, switch, values, out>>

\* codegen_for after the body: the end statement, then the block around it.
ExitFor ==
  \/ /\ out = "run" /\ stack # <<>> /\ Top.k = "for" /\ Top.kids >= 1
     /\ Undeclared(values, Top.end)
     /\ Stop("error")
     /\ UNCHANGED <<rules, pos>>
  \/ /\ Leaving({"for"})
     /\ ~Undeclared(values, Top.end)
     /\ LoopClosed
     /\ used' = Lookups(values, Top.end)
     /\ values' = Top.values
     /\ merge' = Top.merge
     /\ UNCHANGED <<switch, out>>

\* codegen_switch after its block.
ExitSwitch ==
  /\ Leaving({"switch"})
  /\ bbs' = Attach(Attach(Br(bbs, Top.alt, Top.next), Top.alt), Top.next)
  /\ ip' = Top.next
  /\ switch' = Top.switch
  /\ merge' = Top.merge
  /\ values' = Top.values
  /\ used' = <<>>
  /\ UNCHANGED out

\* Mutant: a default branches to the end of the switch too.
DefaultEndsToo(f) == Br(bbs, ip, f.next)

\* The default's block is ended by codegen_switch.
CaseEnded(f) == IF f.default THEN bbs ELSE Br(bbs, ip, f.next)

\* codegen_case, after the block around an arrow's statements.
ExitCase ==
  /\ Leaving({"case", "case_arrow"})
  /\ bbs' = CaseEnded(Top)
  /\ values' = IF Top.k = "case_arrow" THEN Top.values ELSE values
  /\ merge' = IF Top.k = "case_arrow" THEN Top.merge ELSE merge
  /\ used' = <<>>
  /\ UNCHANGED <<ip, switch, out>>

-----------------------------------------------------------------------------
(* Top level statements.                                                    *)

ProtoFails(node) == node.ret \notin lltypes \/ Untypable(node.params)

\* add_function
Added(node) ==
  [values EXCEPT ![node.n] = IF @ = None THEN <<pos, 0>> ELSE @]

\* named_args_info_inds has one index for each name: for the second parameter of
\* a name codegen_function_entry finds none, and asserts that it does.
Unnamed(params) ==
  \E i, j \in 1..Len(params) : i # j /\ params[i].n = params[j].n

\* codegen_function: prototype, entry block and arguments, and codegen_block.
Fn(node) ==
  /\ Visiting /\ stack = <<>>
  /\ \/ ProtoFails(node) /\ Stop("error")
     \/ ~ProtoFails(node) /\ Unnamed(node.params) /\ Stop("abort")
     \/ /\ ~ProtoFails(node) /\ ~Unnamed(node.params)
        /\ lltypes' = lltypes \cup {node.n}
        /\ values' = WithParams(Added(node), node.params)
        /\ bbs' = Blocks(<<1>>)
        /\ ip' = 1
        /\ merge' = None
        /\ switch' = None
        /\ used' = <<>>
        /\ stack' = <<[Enter("fn") EXCEPT
             !.merge = None, !.switch = None, !.values = Added(node),
             !.first = 1, !.entry = 1, !.terms = 0]>>
        /\ UNCHANGED out

ExternFn(node) ==
  /\ Visiting /\ stack = <<>>
  /\ \/ ProtoFails(node) /\ Stop("error")
     \/ /\ ~ProtoFails(node)
        /\ lltypes' = lltypes \cup {node.n}
        /\ values' = Added(node)
        /\ used' = <<>>
        /\ UNCHANGED <<bbs, ip, merge, switch, stack, out>>

\* codegen_struct and codegen_union; codegen_enum makes no type for a member
\* that is a name.  fields is the set of the types of all fields, entered the
\* set of the types that are entered.
TypeDecl(node) ==
  /\ Visiting /\ stack = <<>>
  /\ \/ ~(node.fields \subseteq lltypes) /\ Stop("error")
     \/ /\ node.fields \subseteq lltypes
        /\ lltypes' = lltypes \cup node.entered
        /\ used' = <<>>
        /\ UNCHANGED <<bbs, ip, merge, switch, values, stack, out>>

Init ==
  /\ rules \in RuleSets
  /\ bbs = <<>>
  /\ ip = 0
  /\ merge = None
  /\ switch = None
  /\ values = [n \in Names |-> None]
  /\ lltypes = BuiltinTypes
  /\ stack = <<>>
  /\ pos = 0
  /\ used = <<>>
  /\ out = "run"

Exit ==
  \/ ExitBlock
  \/ ExitElse
  \/ ExitIf
  \/ ExitWhile
  \/ ExitFor
  \/ ExitSwitch
  \/ ExitCase

Next ==
  \/ \E node \in FnNodes : Fn(node)
  \/ \E node \in ExternNodes : ExternFn(node)
  \/ \E node \in TypeNodes : TypeDecl(node)
  \/ \E node \in SimpleNodes : Simple(node)
  \/ Block
  \/ \E node \in CondNodes : If(node)
  \/ \E params \in ArrowParams : Arrow(params)
  \/ Else
  \/ \E node \in CondNodes : While(node)
  \/ \E node \in ForNodes : For(node)
  \/ \E node \in SwitchNodes : Switch(node)
  \/ \E node \in CaseNodes : Case(node)
  \/ Exit

Spec == Init /\ [][Next]_vars

-----------------------------------------------------------------------------
TypeOK ==
  /\ rules \subseteq Rules
  /\ bbs \in Seq(BB)
  /\ ip \in 0..Len(bbs)
  /\ merge \in 0..Len(bbs) \cup {None}
  /\ switch \in SwitchInfo \cup {None}
  /\ values \in [Names -> Site \cup {None}]
  /\ lltypes \subseteq TypeNames
  /\ stack \in Seq(Frame) /\ Len(stack) <= MaxDepth
  /\ pos \in 0..MaxNodes
  /\ out \in {"run", "error", "abort"}

(***************************************************************************)
(* Action property.  When a handler returns, the merge block and the       *)
(* switch of LLVMFnInfo are the ones it was entered with, whatever its     *)
(* children set or cleared, and the handlers that make a scope have put    *)
(* back the values.  codegen_if tells from an unset merge block that it    *)
(* must make its own: one left behind sends later branches astray.         *)
(***************************************************************************)
HandlersRestore ==
  [][out' = "run" /\ Len(stack') < Len(stack) =>
       /\ merge' = Top.merge
       /\ switch' = Top.switch
       /\ Top.k \in ListKinds \cup {"for"} => values' = Top.values]_vars

(***************************************************************************)
(* The blocks that open handlers have made and not come to yet.            *)
(***************************************************************************)
Pending(f) ==
  CASE f.k = "if" -> (IF f.kids < 2 THEN {f.alt} ELSE {})
                     \cup (IF f.own THEN {f.next} ELSE {})
    [] f.k \in {"while", "for"} -> {f.next}
    [] f.k = "switch" -> {f.next, f.alt}
    [] OTHER -> {}

AllPending == UNION {Pending(stack[i]) : i \in 1..Len(stack)}

(***************************************************************************)
(* Safety.  LLVM owns a block only once it is in the function's list: at   *)
(* every point each block has been attached at most once, and one that has *)
(* not been is the business of a handler that is still open.  So at the    *)
(* end of a function every block that can be branched to is in it.         *)
(***************************************************************************)
AttachedOnce ==
  out = "run" =>
    \A b \in 1..Len(bbs) :
      bbs[b].attached = IF b \in AllPending THEN 0 ELSE 1

(***************************************************************************)
(* Safety.  No handler walks away from a block without a terminator: the   *)
(* only blocks that have none are the one code is inserted at and those of *)
(* handlers still open.  Holds for structured programs: codegen_switch     *)
(* goes back to the default block to end it, wherever the default's        *)
(* statements have led, and codegen_case leaves the block it finds.        *)
(***************************************************************************)
OnlyInsertPointOpen ==
  Structured /\ out = "run" =>
    \A b \in 1..Len(bbs) :
      bbs[b].terms = <<>> => b = ip \/ b \in AllPending

(***************************************************************************)
(* The edges of the statement whose handler has frame f: its blocks are    *)
(* the ones made since, and its first instructions are in the block that   *)
(* was current, after the terminators that block had.                      *)
(***************************************************************************)
Targets(bb, from) == UNION {bb.terms[i].to : i \in from..Len(bb.terms)}

EdgesFrom(bs, f, b) ==
  IF b = f.entry THEN Targets(bs[b], f.terms + 1) ELSE Targets(bs[b], 1)

Region(bs, f) == {f.entry} \cup (f.first..Len(bs))

Reached(bs, f) ==
  LET step(S) == S \cup UNION {EdgesFrom(bs, f, b) : b \in S \cap Region(bs, f)}
      reach[i \in 0..Len(bs)] ==
        IF i = 0 THEN {f.entry} \cup (IF f.switch = None THEN {}
                                      ELSE bs[f.switch.at].terms[f.switch.term].to)
        ELSE step(reach[i - 1])
  IN reach[Len(bs)]

Leave(f) == (IF f.k \in {"if", "else"} /\ f.merge # None THEN {f.merge} ELSE {})
            \cup (IF f.switch = None THEN {} ELSE {f.switch.merge})

(***************************************************************************)
(* Action property.  A statement has one way out: when its handler returns *)
(* no block of the statement branches outside of it.  The exceptions are   *)
(* the ones the code means: an arm of an else-if chain goes to the chain's *)
(* merge block, a case to the end of its switch.  Holds for structured     *)
(* programs: codegen_while does not clear fn.merge_block_, so an `if`      *)
(* without braces in a loop without braces in an `if` leaves the loop.     *)
(***************************************************************************)
StatementsAreSingleExit ==
  [][Structured /\ out' = "run" /\ Len(stack') < Len(stack) =>
       \A b \in Region(bbs', Top) :
         EdgesFrom(bbs', Top, b) \subseteq Region(bbs', Top) \cup Leave(Top)]_vars

(***************************************************************************)
(* Action property.  The code after a statement is reached from the code   *)
(* before it: the insert point a handler leaves is one its own branches    *)
(* lead to (or the enclosing switch does, after a case).                   *)
(***************************************************************************)
CodeAfterIsReached ==
  [][Structured /\ out' = "run" /\ Len(stack') < Len(stack) =>
       ip' \in Reached(bbs', Top)]_vars

(***************************************************************************)
(* Safety.  Code that follows a terminator in its block is code after a    *)
(* `return`: no handler branches from a block that another has already     *)
(* left by a branch, so an arm or a loop body that ends with a return is   *)
(* all that puts a second terminator into a block (codegen_if branches to  *)
(* its merge block whatever the arm did).  Holds for structured programs.  *)
(***************************************************************************)
OnlyReturnsEndEarly ==
  Structured /\ out = "run" =>
    \A b \in 1..Len(bbs) : Len(bbs[b].terms) > 1 => bbs[b].terms[1].k = "ret"

(***************************************************************************)
(* Claimed by codegen_while.cpp:22, "Every block must end with a           *)
(* terminator instruction".                                                *)
(***************************************************************************)
EveryBlockTerminated ==
  stack = <<>> /\ out = "run" => \A b \in 1..Len(bbs) : bbs[b].terms # <<>>
=============================================================================
