----------------------------- MODULE SemaProofs -----------------------------
(***************************************************************************)
(* Proofs about the semantic walk, for every program and every bound.      *)
(*                                                                         *)
(* 1. A `case` is checked against the type of the innermost switch around  *)
(* it.  The property speaks of the context that is current.  What          *)
(* sema_switch puts back is the context its frame has on record, so the    *)
(* invariant ContextInv says of every open handler that the context on     *)
(* record is that of the innermost switch around that handler.             *)
(*                                                                         *)
(* 2. What the scope table and the types map hold is known, a `return` is  *)
(* checked against its own function, and every handler puts the table and  *)
(* the context back.  The invariant WalkInv joins the three structures:    *)
(* what a scope names is bound to a type the types map has, a parent has a *)
(* smaller index than its child, and the current scope is the innermost    *)
(* one that an open handler pushed.  The last is true only while the scope *)
(* vector has not been reallocated, so WalkInv speaks of walks that have   *)
(* visited fewer nodes than Sema2 reserves scopes (Sema2.cpp:11): a node   *)
(* pushes at most one scope.                                               *)
(*                                                                         *)
(* 3. Where each name that can be read was declared: the view from a       *)
(* scope.  For each handler a lemma says what it does to the views and to  *)
(* the stack of open handlers; CompileProofs compares that with the code   *)
(* generator.                                                              *)
(***************************************************************************)
EXTENDS Sema, IntegerProofs, SequenceTheorems, FiniteSetTheorems, TLAPS

IsFrame(f) == {"k", "kids", "ctx", "ty"} \subseteq DOMAIN f

\* c is the context inside the first n handlers: that of the last switch.
Governs(s, n, c) ==
  \/ c = None /\ \A j \in 1..n : s[j].k # "switch"
  \/ \E j \in 1..n : /\ s[j].k = "switch" /\ c = s[j].ty
                     /\ \A m \in 1..n : m > j => s[m].k # "switch"

Contexts(s, c) ==
  /\ \E S : s \in Seq(S)
  /\ \A i \in 1..Len(s) : IsFrame(s[i]) /\ Governs(s, i - 1, s[i].ctx)
  /\ Governs(s, Len(s), c)

ContextInv == Contexts(stack, switch_context)

-----------------------------------------------------------------------------
(* Lemmas on the C++ stack.                                                 *)

\* What Append does to a stack, the set its elements come from included.
LEMMA PushShape ==
  ASSUME NEW S, NEW s \in Seq(S), NEW f
  PROVE  /\ Append(s, f) \in Seq(S \cup {f})
         /\ Len(Append(s, f)) = Len(s) + 1
         /\ \A i \in 1..Len(s) : Append(s, f)[i] = s[i]
         /\ Append(s, f)[Len(s) + 1] = f
<1>1. s \in Seq(S \cup {f})
  OBVIOUS
<1>. QED  BY <1>1

\* What cutting a stack back to its first n elements keeps.
LEMMA PopShape ==
  ASSUME NEW S, NEW s \in Seq(S), Len(s) > 0
  PROVE  /\ SubSeq(s, 1, Len(s) - 1) \in Seq(S)
         /\ Len(SubSeq(s, 1, Len(s) - 1)) = Len(s) - 1
         /\ \A i \in 1..(Len(s) - 1) : SubSeq(s, 1, Len(s) - 1)[i] = s[i]
<1>1. Len(s) \in Nat
  OBVIOUS
<1>. DEFINE n == Len(s) - 1
<1>2. n \in Int /\ 1 \in Int /\ n >= 0
  BY <1>1
<1>3. \A i \in 1..n : s[i] \in S
  BY <1>1
<1>. HIDE DEF n
<1>4. /\ SubSeq(s, 1, n) \in Seq(S)
      /\ Len(SubSeq(s, 1, n)) = IF 1 <= n THEN n - 1 + 1 ELSE 0
      /\ \A i \in 1..(n - 1 + 1) : SubSeq(s, 1, n)[i] = s[1 + i - 1]
  BY <1>2, <1>3, SubSeqProperties
<1>5. n - 1 + 1 = n /\ (~(1 <= n) => n = 0) /\ \A i \in 1..n : 1 + i - 1 = i
  BY <1>2
<1>6. Len(SubSeq(s, 1, n)) = n /\ \A i \in 1..n : SubSeq(s, 1, n)[i] = s[i]
  BY <1>2, <1>4, <1>5
<1>. QED  BY <1>4, <1>6 DEF n

\* What is above the first n handlers does not matter to the context in them.
LEMMA GovernsBelow ==
  ASSUME NEW s, NEW t, NEW n \in Nat, \A i \in 1..n : t[i] = s[i],
         NEW c, Governs(s, n, c)
  PROVE  Governs(t, n, c)
  BY DEF Governs

\* A handler other than a switch's does not matter to it either.
LEMMA GovernsPast ==
  ASSUME NEW s, NEW n \in Nat, s[n + 1].k # "switch", NEW c
  PROVE  Governs(s, n, c) <=> Governs(s, n + 1, c)
<1>1. \A j \in 1..(n + 1) : j \in 1..n \/ j = n + 1
  OBVIOUS
<1>2. 1..n \subseteq 1..(n + 1)
  OBVIOUS
<1>. QED  BY <1>1, <1>2 DEF Governs

\* A handler is entered: its frame has the context that is current on record,
\* and that of a switch becomes current.
LEMMA PushContexts ==
  ASSUME NEW s, NEW c, Contexts(s, c), NEW f, IsFrame(f), Contexts(s, f.ctx),
         NEW c2, IF f.k = "switch" THEN c2 = f.ty ELSE c2 = c
  PROVE  Contexts(Append(s, f), c2)
<1>. DEFINE t == Append(s, f)
<1>1. PICK S : s \in Seq(S)
  BY DEF Contexts
<1>2. /\ t \in Seq(S \cup {f})
      /\ Len(t) = Len(s) + 1
      /\ \A i \in 1..Len(s) : t[i] = s[i]
      /\ t[Len(s) + 1] = f
  BY <1>1, PushShape
<1>3. Len(s) \in Nat
  BY <1>1
<1>. HIDE DEF t
<1>4. Governs(t, Len(s), c) /\ Governs(t, Len(s), f.ctx)
  BY <1>2, <1>3, GovernsBelow DEF Contexts
<1>5. ASSUME NEW i \in 1..Len(t)
      PROVE  IsFrame(t[i]) /\ Governs(t, i - 1, t[i].ctx)
  <2>1. CASE i \in 1..Len(s)
    <3>1. i - 1 \in Nat /\ \A j \in 1..(i - 1) : t[j] = s[j]
      BY <2>1, <1>2, <1>3
    <3>2. t[i] = s[i] /\ IsFrame(s[i]) /\ Governs(s, i - 1, s[i].ctx)
      BY <2>1, <1>2 DEF Contexts
    <3>. QED  BY <3>1, <3>2, GovernsBelow
  <2>2. CASE i \notin 1..Len(s)
    <3>1. i = Len(s) + 1 /\ i - 1 = Len(s)
      BY <2>2, <1>2, <1>3
    <3>. QED  BY <3>1, <1>2, <1>4
  <2>. QED  BY <2>1, <2>2
<1>6. Governs(t, Len(t), c2)
  <2>1. CASE f.k = "switch"
    <3>1. Len(t) \in 1..Len(t) /\ \A m \in 1..Len(t) : ~(m > Len(t))
      BY <1>2, <1>3
    <3>. QED  BY <2>1, <3>1, <1>2 DEF Governs
  <2>2. CASE f.k # "switch"
    BY <2>2, <1>2, <1>3, <1>4, GovernsPast
  <2>. QED  BY <2>1, <2>2
<1>. QED  BY <1>2, <1>5, <1>6 DEF Contexts, t

\* A handler returns: the context below is the one its frame has on record,
\* which is the current one unless the handler is a switch's.
LEMMA PopContexts ==
  ASSUME NEW s, NEW c, Contexts(s, c), s # <<>>,
         NEW c2, c2 = s[Len(s)].ctx \/ (c2 = c /\ s[Len(s)].k # "switch")
  PROVE  Contexts(SubSeq(s, 1, Len(s) - 1), c2)
<1>. DEFINE t == SubSeq(s, 1, Len(s) - 1)
<1>1. PICK S : s \in Seq(S)
  BY DEF Contexts
<1>2. Len(s) \in Nat /\ Len(s) > 0
  BY <1>1
<1>3. /\ t \in Seq(S)
      /\ Len(t) = Len(s) - 1
      /\ \A i \in 1..(Len(s) - 1) : t[i] = s[i]
  BY <1>1, <1>2, PopShape
<1>. HIDE DEF t
<1>4. ASSUME NEW i \in 1..Len(t)
      PROVE  IsFrame(t[i]) /\ Governs(t, i - 1, t[i].ctx)
  <2>1. i \in 1..Len(s) /\ i - 1 \in Nat /\ \A j \in 1..(i - 1) : t[j] = s[j]
    BY <1>2, <1>3
  <2>2. t[i] = s[i] /\ IsFrame(s[i]) /\ Governs(s, i - 1, s[i].ctx)
    BY <2>1, <1>3 DEF Contexts
  <2>. QED  BY <2>1, <2>2, GovernsBelow
<1>5. Governs(s, Len(s) - 1, c2)
  <2>1. CASE c2 = s[Len(s)].ctx
    BY <2>1, <1>2 DEF Contexts
  <2>2. CASE c2 = c /\ s[Len(s)].k # "switch"
    <3>. DEFINE n == Len(s) - 1
    <3>1. n \in Nat /\ n + 1 = Len(s)
      BY <1>2
    <3>2. Governs(s, n + 1, c)
      BY <3>1 DEF Contexts
    <3>. HIDE DEF n
    <3>3. Governs(s, n, c)
      BY <2>2, <3>1, <3>2, GovernsPast
    <3>. QED  BY <2>2, <3>3 DEF n
  <2>. QED  BY <2>1, <2>2
<1>6. Governs(t, Len(t), c2)
  <2>1. Len(t) \in Nat
    BY <1>2, <1>3
  <2>. QED  BY <2>1, <1>3, <1>5, GovernsBelow
<1>. QED  BY <1>3, <1>4, <1>6 DEF Contexts, t

\* A child more changes nothing a frame has on record.
LEMMA BegunContexts ==
  ASSUME ContextInv
  PROVE  Contexts(Begun, switch_context)
<1>1. CASE stack = <<>> \/ Top.k \in ListKinds
  BY <1>1 DEF Begun, ContextInv
<1>2. CASE ~(stack = <<>> \/ Top.k \in ListKinds)
  <2>. DEFINE f == [Top EXCEPT !.kids = @ + 1]
  <2>1. Len(stack) \in 1..Len(stack)
    BY <1>2 DEF ContextInv, Contexts
  <2>2. IsFrame(Top)
    BY <2>1 DEF ContextInv, Contexts, Top
  <2>3. IsFrame(f) /\ f.k = Top.k /\ f.ctx = Top.ctx
    BY <2>2 DEF IsFrame
  <2>4. Begun = Append(Below, f)
    BY <1>2 DEF Begun
  <2>5. Top.k # "switch"
    BY <1>2 DEF ListKinds
  <2>6. /\ Contexts(Below, Top.ctx)
        /\ Contexts(Below, switch_context)
    BY <1>2, <2>5, PopContexts DEF ContextInv, Below, Top
  <2>. HIDE DEF f
  <2>7. Contexts(Append(Below, f), switch_context)
    BY <2>3, <2>5, <2>6, PushContexts
  <2>. QED  BY <2>4, <2>7
<1>. QED  BY <1>1, <1>2

-----------------------------------------------------------------------------
(* Steps.                                                                   *)

\* A step that touches neither stack nor context keeps the invariant.
LEMMA StayContexts ==
  ASSUME ContextInv, stack' = stack, switch_context' = switch_context
  PROVE  ContextInv'
  BY DEF ContextInv

\* So does a handler that stops the walk.
LEMMA StopContexts ==
  ASSUME ContextInv, NEW r, Stop(r)
  PROVE  ContextInv'
  BY StayContexts DEF Stop

\* Opening a handler that is no switch.
LEMMA EnterContexts ==
  ASSUME ContextInv, NEW f, IsFrame(f), f.ctx = switch_context,
         stack' = Append(Begun, f),
         IF f.k = "switch" THEN switch_context' = f.ty
                           ELSE switch_context' = switch_context
  PROVE  ContextInv'
  BY BegunContexts, PushContexts DEF ContextInv

\* The frame that Begin pushes has every field the invariant reads.
LEMMA NewFrame ==
  ASSUME NEW k
  PROVE  /\ IsFrame(Enter(k)) /\ Enter(k).ctx = switch_context /\ Enter(k).k = k
         /\ \A d : /\ IsFrame([Enter(k) EXCEPT !.disc = d])
                   /\ [Enter(k) EXCEPT !.disc = d].ctx = switch_context
                   /\ [Enter(k) EXCEPT !.disc = d].k = k
         /\ \A t : /\ IsFrame([Enter(k) EXCEPT !.ty = t])
                   /\ [Enter(k) EXCEPT !.ty = t].ctx = switch_context
                   /\ [Enter(k) EXCEPT !.ty = t].k = k
                   /\ [Enter(k) EXCEPT !.ty = t].ty = t
  BY DEF Enter, IsFrame

\* A handler without children leaves the stack as it is.
LEMMA ContinueContexts ==
  ASSUME ContextInv, NEW r, NEW stk, Continue(r, stk),
         Contexts(stk, switch_context)
  PROVE  ContextInv'
  BY StopContexts DEF Continue, ContextInv

\* Begin pushes a frame that is no switch.
LEMMA BeginContexts ==
  ASSUME ContextInv, NEW f, IsFrame(f), f.ctx = switch_context, f.k # "switch",
         NEW r, Begin(f, r)
  PROVE  ContextInv'
<1>1. Contexts(Append(Begun, f), switch_context)
  BY BegunContexts, PushContexts
<1>. QED  BY <1>1, ContinueContexts DEF Begin

\* The statements: none of them changes the context.
LEMMA StatementContexts ==
  ASSUME ContextInv
  PROVE  /\ \A node : Simple(node) => ContextInv'
         /\ Block => ContextInv'
         /\ \A e : If(e) => ContextInv'
         /\ \A e : While(e) => ContextInv'
         /\ \A params : Arrow(params) => ContextInv'
         /\ Else => ContextInv'
         /\ \A node : For(node) => ContextInv'
<1>1. ASSUME NEW node, Simple(node) PROVE ContextInv'
  BY <1>1, BegunContexts, ContinueContexts DEF Simple
<1>2. ASSUME Block PROVE ContextInv'
  <2>1. stack' = Append(Begun, Enter("block")) /\ switch_context' = switch_context
    BY <1>2 DEF Block
  <2>. QED  BY <2>1, NewFrame, EnterContexts
<1>3. ASSUME NEW e, If(e) PROVE ContextInv'
  <2>. DEFINE f == [Enter("if") EXCEPT !.disc = Discriminations(e)]
  <2>1. IsFrame(f) /\ f.ctx = switch_context /\ f.k = "if"
    BY NewFrame
  <2>2. Begin(f, IfOn(ExprType(scopes, e)))
    BY <1>3 DEF If
  <2>. HIDE DEF f
  <2>. QED  BY <2>1, <2>2, BeginContexts
<1>4. ASSUME NEW e, While(e) PROVE ContextInv'
  BY <1>4, NewFrame, BeginContexts DEF While
<1>5. ASSUME NEW params, Arrow(params) PROVE ContextInv'
  BY <1>5, NewFrame, BeginContexts DEF Arrow
<1>6. ASSUME Else PROVE ContextInv'
  BY <1>6, NewFrame, BeginContexts DEF Else
<1>7. ASSUME NEW node, For(node) PROVE ContextInv'
  BY <1>7, NewFrame, BeginContexts DEF For
<1>. QED  BY <1>1, <1>2, <1>3, <1>4, <1>5, <1>6, <1>7

\* sema_switch records the context it found and installs its own.
LEMMA SwitchContexts ==
  ASSUME ContextInv, NEW e, Switch(e)
  PROVE  ContextInv'
<1>. DEFINE t == ExprType(scopes, e)
            f == [Enter("switch") EXCEPT !.ty = t]
<1>1. SwitchOn(t)
  BY DEF Switch
<1>. HIDE DEF t
<1>2. CASE \E r : Stop(r)
  BY <1>2, StopContexts
<1>3. CASE ~\E r : Stop(r)
  <2>1. stack' = Append(Begun, f) /\ switch_context' = t
    BY <1>1, <1>3 DEF SwitchOn
  <2>2. IsFrame(f) /\ f.ctx = switch_context /\ f.k = "switch" /\ f.ty = t
    BY NewFrame
  <2>. HIDE DEF f
  <2>. QED  BY <2>1, <2>2, EnterContexts
<1>. QED  BY <1>2, <1>3

\* sema_case: its frame is no switch either.
LEMMA CaseContexts ==
  ASSUME ContextInv, NEW node, Case(node)
  PROVE  ContextInv'
<1>1. PICK f, r : /\ \/ f = Enter("case")
                     \/ \E t : f = [Enter("case") EXCEPT !.ty = t]
                     \/ \E t : f = [Enter("case_arrow") EXCEPT !.ty = t]
                  /\ Begin(f, r)
  BY DEF Case, EnumCase
<1>2. IsFrame(f) /\ f.ctx = switch_context /\ f.k # "switch"
  BY <1>1 DEF Enter, IsFrame
<1>. QED  BY <1>1, <1>2, BeginContexts

\* The declarations: functions open a frame, the others none.
LEMMA DeclarationContexts ==
  ASSUME ContextInv
  PROVE  /\ \A node : Fn(node) => ContextInv'
         /\ \A node : ExternFn(node) => ContextInv'
         /\ \A node : StructOrUnion(node) => ContextInv'
         /\ \A node : Enum(node) => ContextInv'
<1>1. ASSUME NEW node, Fn(node) PROVE ContextInv'
  <2>1. CASE \E r : Stop(r)
    BY <2>1, StopContexts
  <2>2. CASE ~\E r : Stop(r)
    <3>1. PICK ret : /\ stack = <<>> /\ stack' = <<[Enter("fn") EXCEPT !.ty = ret]>>
                     /\ switch_context' = switch_context
      BY <1>1, <2>2 DEF Fn, Body
    <3>. DEFINE f == [Enter("fn") EXCEPT !.ty = ret]
    <3>2. IsFrame(f) /\ f.ctx = switch_context /\ f.k = "fn"
      BY NewFrame
    <3>. HIDE DEF f
    <3>3. stack' = Append(Begun, f)
      BY <3>1 DEF Begun, f
    <3>. QED  BY <3>1, <3>2, <3>3, EnterContexts
  <2>. QED  BY <2>1, <2>2
<1>2. ASSUME NEW node, ExternFn(node) PROVE ContextInv'
  BY <1>2, StopContexts, StayContexts DEF ExternFn
<1>3. ASSUME NEW node, StructOrUnion(node) PROVE ContextInv'
  BY <1>3, StopContexts, StayContexts DEF StructOrUnion
<1>4. ASSUME NEW node, Enum(node) PROVE ContextInv'
  BY <1>4, StopContexts, StayContexts DEF Enum, EnumOf
<1>. QED  BY <1>1, <1>2, <1>3, <1>4

\* A handler that ends puts back the context its frame has on record.
LEMMA ExitContexts ==
  ASSUME ContextInv, Exit
  PROVE  ContextInv'
<1>1. CASE out' # "run"
  <2>1. stack' = stack /\ switch_context' = switch_context
    BY <1>1 DEF Exit
  <2>. QED  BY <2>1, StayContexts
<1>2. CASE out' = "run"
  <2>1. /\ stack # <<>> /\ stack' = Below
        /\ \/ switch_context' = Top.ctx
           \/ switch_context' = switch_context /\ Top.k # "switch"
    BY <1>2 DEF Exit, Finished, ContextRestored
  <2>. QED  BY <2>1, PopContexts DEF ContextInv, Below, Top
<1>. QED  BY <1>1, <1>2

(***************************************************************************)
(* What an open handler has on record is the context of the innermost      *)
(* switch around it, and the current context that of the innermost switch. *)
(***************************************************************************)
THEOREM ContextsHold == Spec => []ContextInv
<1>1. Init => ContextInv
  <2>. SUFFICES ASSUME Init PROVE ContextInv
    OBVIOUS
  <2>1. stack = <<>> /\ stack \in Seq({}) /\ Len(stack) = 0 /\ switch_context = None
    BY DEF Init
  <2>. QED  BY <2>1 DEF ContextInv, Contexts, Governs
<1>2. ContextInv /\ [Next]_vars => ContextInv'
  <2>. SUFFICES ASSUME ContextInv, [Next]_vars PROVE ContextInv'
    OBVIOUS
  <2>1. CASE UNCHANGED vars
    BY <2>1, StayContexts DEF vars
  <2>2. CASE Next
    BY <2>2, StatementContexts, SwitchContexts, CaseContexts, DeclarationContexts,
       ExitContexts DEF Next
  <2>. QED  BY <2>1, <2>2
<1>. QED  BY <1>1, <1>2, PTL DEF Spec

(***************************************************************************)
(* Whatever program is analysed, the type a `case` is checked against is   *)
(* that of the innermost switch around it.                                 *)
(***************************************************************************)
THEOREM CaseSeesItsSwitch == Spec => []SwitchContextIsInnermost
<1>1. ContextInv => SwitchContextIsInnermost
  <2>. SUFFICES ASSUME ContextInv PROVE SwitchContextIsInnermost
    OBVIOUS
  <2>. DEFINE n == Len(stack)
              switches == {i \in 1..n : stack[i].k = "switch"}
  <2>1. Governs(stack, n, switch_context) /\ n \in Nat
    BY DEF ContextInv, Contexts
  <2>2. CASE switches = {}
    BY <2>1, <2>2 DEF Governs, SwitchContextIsInnermost
  <2>3. CASE switches # {}
    <3>1. PICK j \in switches : /\ switch_context = stack[j].ty
                                /\ \A m \in switches : j >= m
      BY <2>1, <2>3 DEF Governs
    <3>2. Max(switches) = j
      BY <3>1, <2>1 DEF Max
    <3>. QED  BY <2>3, <3>1, <3>2 DEF SwitchContextIsInnermost
  <2>. QED  BY <2>2, <2>3
<1>. QED  BY <1>1, ContextsHold, PTL

-----------------------------------------------------------------------------
(* The rest of the module is about the walk within the reserve: while it    *)
(* has visited fewer nodes than Sema2 reserves scopes, no scope has a freed *)
(* parent.                                                                  *)

TableP == INSTANCE ScopeOpsProofs WITH
  Values <- Declared, Returns <- TypeInstance, Builtins <- BuiltinTypes,
  Reserve <- 100

\* A type that a value can have: it is in Types and not the placeholder.
Bindable(tm, ti) == ti \in TypeInstance /\ ~IsInferType(ti) /\ tm[ti.type] # None

\* The types: a function's return type is known, a builtin is no enum.
TypesOK(tm) ==
  /\ tm \in [TypeNames -> Type \cup {None}]
  /\ \A t \in TypeNames : tm[t] # None /\ tm[t].cls = "function" =>
       tm[t].ret \in TypeInstance /\ tm[tm[t].ret.type] # None
  /\ \A t \in BuiltinTypes : tm[t] # None /\ tm[t].cls = "primitive"

\* One map keeps what the other says of the types it has.
Keeps(tm, tm2) ==
  \A t \in TypeNames : tm[t] # None =>
    /\ tm2[t] # None
    /\ tm2[t].cls = tm[t].cls
    /\ tm2[t].ret = tm[t].ret
    /\ tm2[t].params = tm[t].params

\* ... but for what it puts behind the parameters of u.
KeepsBut(tm, tm2, u) ==
  \A t \in TypeNames : tm[t] # None =>
    /\ tm2[t] # None
    /\ tm2[t].cls = tm[t].cls
    /\ tm2[t].ret = tm[t].ret
    /\ IsPrefix(tm[t].params, tm2[t].params)
    /\ tm2[t].params # tm[t].params => t = u

\* The table: the parents come before their children, and what a name or a type
\* name stands for is known.
ScopesOK(ss, tm) ==
  /\ ss \in Seq(Table!Scope)
  /\ \A s \in 1..Len(ss) :
       /\ ss[s].parent \in 0..s - 1
       /\ \A t \in ss[s].types : tm[t] # None
       /\ \A n \in Names : ss[s].names[n] # None => Bindable(tm, ss[s].names[n].ty)

\* The scopes are the same ones, whatever has been declared in them.
SameChain(ss, tt) ==
  /\ Len(tt) = Len(ss)
  /\ \A s \in 1..Len(ss) : /\ tt[s].parent = ss[s].parent
                           /\ tt[s].expected_return = ss[s].expected_return

\* The names stand for what they stood for.
SameNames(ss, tt) ==
  Len(tt) = Len(ss) /\ \A s \in 1..Len(ss) : tt[s].names = ss[s].names

\* What a statement leaves behind, or why it stopped.
Leaves(ss, tm, r) == Stops(r) \/ (ScopesOK(r, tm) /\ SameChain(ss, r))

\* The table's own assumptions, from those of this module.
LEMMA TableSound ==
  /\ TableP!ReserveAssumption /\ TableP!NoneAssumption
  /\ TableP!UBAssumption /\ TableP!BuiltinsAssumption
BY MarksAssumption DEF TableP!ReserveAssumption, TableP!NoneAssumption,
  TableP!UBAssumption, TableP!BuiltinsAssumption, TypeNames

\* The table that Sema uses is the one the lemmas are about.
LEMMA SameTable ==
  /\ Table!Scope = TableP!Scope
  /\ \A ss, c, n : Table!LookupValue(ss, c, n) = TableP!LookupValue(ss, c, n)
  /\ \A ss, c, t : Table!LookupType(ss, c, t) = TableP!LookupType(ss, c, t)
  /\ \A ss, c : Table!ExpectedReturn(ss, c) = TableP!ExpectedReturn(ss, c)
  /\ \A ss, c, n, v : Table!AddValue(ss, c, n, v) = TableP!AddValue(ss, c, n, v)
  /\ \A ss, c, t : Table!AddType(ss, c, t) = TableP!AddType(ss, c, t)
  /\ \A ss, c, r : Table!SetExpectedReturn(ss, c, r) = TableP!SetExpectedReturn(ss, c, r)
  /\ \A ss, c : Table!PopScope(ss, c) = TableP!PopScope(ss, c)
  /\ \A ss, c : Table!PushScope(ss, c) = TableP!PushScope(ss, c)
  /\ \A p : Table!NewScope(p) = TableP!NewScope(p)
<1>1. Table!Scope = TableP!Scope
  BY DEF Table!Scope, TableP!Scope, Table!Freed, TableP!Freed
<1>2. ASSUME NEW ss, NEW c, NEW n
      PROVE  Table!LookupValue(ss, c, n) = TableP!LookupValue(ss, c, n)
  BY DEF Table!LookupValue, TableP!LookupValue, Table!Freed, TableP!Freed,
    Table!NoParent, TableP!NoParent
<1>3. ASSUME NEW ss, NEW c, NEW t
      PROVE  Table!LookupType(ss, c, t) = TableP!LookupType(ss, c, t)
  BY DEF Table!LookupType, TableP!LookupType, Table!Freed, TableP!Freed,
    Table!NoParent, TableP!NoParent
<1>4. ASSUME NEW ss, NEW c
      PROVE  Table!ExpectedReturn(ss, c) = TableP!ExpectedReturn(ss, c)
  BY DEF Table!ExpectedReturn, TableP!ExpectedReturn, Table!Freed, TableP!Freed,
    Table!NoParent, TableP!NoParent
<1>5. ASSUME NEW ss, NEW c, NEW n, NEW v
      PROVE  Table!AddValue(ss, c, n, v) = TableP!AddValue(ss, c, n, v)
  BY DEF Table!AddValue, TableP!AddValue
<1>6. ASSUME NEW ss, NEW c, NEW t
      PROVE  Table!AddType(ss, c, t) = TableP!AddType(ss, c, t)
  BY DEF Table!AddType, TableP!AddType
<1>7. ASSUME NEW ss, NEW c, NEW r
      PROVE  Table!SetExpectedReturn(ss, c, r) = TableP!SetExpectedReturn(ss, c, r)
  BY DEF Table!SetExpectedReturn, TableP!SetExpectedReturn
<1>8. ASSUME NEW ss, NEW c
      PROVE  Table!PopScope(ss, c) = TableP!PopScope(ss, c)
  BY DEF Table!PopScope, TableP!PopScope
<1>9. ASSUME NEW ss, NEW c
      PROVE  Table!PushScope(ss, c) = TableP!PushScope(ss, c)
  BY DEF Table!PushScope, TableP!PushScope, Table!Relocated, TableP!Relocated,
    Table!NewScope, TableP!NewScope, Table!Dangles, TableP!Dangles,
    Table!Freed, TableP!Freed, Table!NoParent, TableP!NoParent
<1>10. ASSUME NEW p PROVE Table!NewScope(p) = TableP!NewScope(p)
  BY DEF Table!NewScope, TableP!NewScope
<1>. QED  BY <1>1, <1>2, <1>3, <1>4, <1>5, <1>6, <1>7, <1>8, <1>9, <1>10

\* A declaration whose type is known.
LEMMA DeclareLeaves ==
  ASSUME NEW ss, NEW tm, ScopesOK(ss, tm), NEW c \in 1..Len(ss), NEW n \in Names,
         NEW ti, Bindable(tm, ti), pos \in Nat, NEW i \in Nat
  PROVE  LET tt == Declare(ss, c, n, ti, i)
         IN /\ ScopesOK(tt, tm) /\ SameChain(ss, tt)
            /\ \A s \in 1..Len(ss) : s # c => tt[s] = ss[s]
            /\ \A m \in Names : tt[c].names[m] =
                 IF m = n /\ ss[c].names[m] = None THEN [ty |-> ti, site |-> <<pos, i>>]
                                                   ELSE ss[c].names[m]
<1>. DEFINE v == [ty |-> ti, site |-> <<pos, i>>]
            tt == Declare(ss, c, n, ti, i)
<1>1. v \in Declared /\ v.ty = ti
  BY DEF Declared, Bindable
<1>2. ss \in Seq(TableP!Scope)
  BY SameTable DEF ScopesOK
<1>3. tt = TableP!AddValue(ss, c, n, v)
  BY SameTable DEF Declare
<1>. HIDE DEF v, tt
<1>4. /\ TableP!Writes(ss, c, tt)
      /\ \A m \in Names : tt[c].names[m] =
           IF m = n /\ ss[c].names[m] = None THEN v ELSE ss[c].names[m]
      /\ tt[c].types = ss[c].types
      /\ tt[c].expected_return = ss[c].expected_return
  BY <1>1, <1>2, <1>3, TableSound, TableP!AddValueResult
<1>5. /\ tt \in Seq(Table!Scope) /\ Len(tt) = Len(ss)
      /\ \A s \in 1..Len(ss) : s # c => tt[s] = ss[s]
      /\ tt[c].parent = ss[c].parent
  BY <1>4, SameTable DEF TableP!Writes
<1>6. SameChain(ss, tt)
  BY <1>4, <1>5 DEF SameChain
<1>7. ASSUME NEW s \in 1..Len(tt)
      PROVE  /\ tt[s].parent \in 0..s - 1
             /\ \A t \in tt[s].types : tm[t] # None
             /\ \A m \in Names : tt[s].names[m] # None => Bindable(tm, tt[s].names[m].ty)
  <2>1. CASE s # c
    BY <2>1, <1>5 DEF ScopesOK
  <2>2. CASE s = c
    <3>1. \A m \in Names : ss[c].names[m] # None => Bindable(tm, ss[c].names[m].ty)
      BY DEF ScopesOK
    <3>2. \A m \in Names : tt[c].names[m] # None => Bindable(tm, tt[c].names[m].ty)
      BY <1>1, <1>4, <3>1
    <3>. QED  BY <2>2, <3>2, <1>4, <1>5 DEF ScopesOK
  <2>. QED  BY <2>1, <2>2
<1>8. ScopesOK(tt, tm)
  BY <1>5, <1>7 DEF ScopesOK
<1>. QED  BY <1>4, <1>5, <1>6, <1>8 DEF tt, v

\* A type name that stands for a known type.
LEMMA AddTypeLeaves ==
  ASSUME NEW ss, NEW tm, ScopesOK(ss, tm), NEW c \in 1..Len(ss), NEW t \in TypeNames,
         tm[t] # None
  PROVE  LET tt == Table!AddType(ss, c, t)
         IN ScopesOK(tt, tm) /\ SameChain(ss, tt) /\ SameNames(ss, tt)
<1>. DEFINE tt == Table!AddType(ss, c, t)
<1>2. ss \in Seq(TableP!Scope)
  BY SameTable DEF ScopesOK
<1>3. tt = TableP!AddType(ss, c, t)
  BY SameTable
<1>. HIDE DEF tt
<1>4. /\ TableP!Writes(ss, c, tt)
      /\ tt[c].names = ss[c].names
      /\ tt[c].types = ss[c].types \cup {t}
      /\ tt[c].expected_return = ss[c].expected_return
  BY <1>2, <1>3, TableSound, TableP!AddTypeResult
<1>5. /\ tt \in Seq(Table!Scope) /\ Len(tt) = Len(ss)
      /\ \A s \in 1..Len(ss) : s # c => tt[s] = ss[s]
      /\ tt[c].parent = ss[c].parent
  BY <1>4, SameTable DEF TableP!Writes
<1>6. SameChain(ss, tt)
  BY <1>4, <1>5 DEF SameChain
<1>7. \A s \in 1..Len(tt) :
        /\ tt[s].parent \in 0..s - 1
        /\ \A u \in tt[s].types : tm[u] # None
        /\ \A m \in Names : tt[s].names[m] # None => Bindable(tm, tt[s].names[m].ty)
  BY <1>4, <1>5 DEF ScopesOK
<1>8. ScopesOK(tt, tm)
  BY <1>5, <1>7 DEF ScopesOK
<1>9. SameNames(ss, tt)
  BY <1>4, <1>5 DEF SameNames
<1>. QED  BY <1>6, <1>8, <1>9 DEF tt

\* set_expected_return and pop_scope leave the names alone.
LEMMA ReturnLeaves ==
  ASSUME NEW ss, NEW tm, ScopesOK(ss, tm), NEW c \in 1..Len(ss),
         NEW r \in TypeInstance \cup {None}
  PROVE  LET tt == Table!SetExpectedReturn(ss, c, r)
         IN /\ ScopesOK(tt, tm)
            /\ Len(tt) = Len(ss)
            /\ \A s \in 1..Len(ss) : s # c => tt[s] = ss[s]
            /\ tt[c].parent = ss[c].parent
            /\ tt[c].expected_return = r
            /\ SameNames(ss, tt)
<1>. DEFINE tt == Table!SetExpectedReturn(ss, c, r)
<1>2. ss \in Seq(TableP!Scope)
  BY SameTable DEF ScopesOK
<1>3. tt = TableP!SetExpectedReturn(ss, c, r)
  BY SameTable
<1>. HIDE DEF tt
<1>4. /\ TableP!Writes(ss, c, tt)
      /\ tt[c].names = ss[c].names
      /\ tt[c].types = ss[c].types
      /\ tt[c].expected_return = r
  BY <1>2, <1>3, TableSound, TableP!SetReturnResult
<1>5. /\ tt \in Seq(Table!Scope) /\ Len(tt) = Len(ss)
      /\ \A s \in 1..Len(ss) : s # c => tt[s] = ss[s]
      /\ tt[c].parent = ss[c].parent
  BY <1>4, SameTable DEF TableP!Writes
<1>7. \A s \in 1..Len(tt) :
        /\ tt[s].parent \in 0..s - 1
        /\ \A u \in tt[s].types : tm[u] # None
        /\ \A m \in Names : tt[s].names[m] # None => Bindable(tm, tt[s].names[m].ty)
  BY <1>4, <1>5 DEF ScopesOK
<1>8. ScopesOK(tt, tm)
  BY <1>5, <1>7 DEF ScopesOK
<1>9. SameNames(ss, tt)
  BY <1>4, <1>5 DEF SameNames
<1>. QED  BY <1>4, <1>5, <1>8, <1>9 DEF tt

\* Popping a scope.
LEMMA PopLeaves ==
  ASSUME NEW ss, NEW tm, ScopesOK(ss, tm), NEW c \in 1..Len(ss)
  PROVE  LET tt == Table!PopScope(ss, c)
         IN ScopesOK(tt, tm) /\ SameChain(ss, tt) /\ SameNames(ss, tt)
<1>. DEFINE tt == Table!PopScope(ss, c)
<1>2. ss \in Seq(TableP!Scope)
  BY SameTable DEF ScopesOK
<1>3. tt = TableP!PopScope(ss, c)
  BY SameTable
<1>. HIDE DEF tt
<1>4. /\ TableP!Writes(ss, c, tt)
      /\ tt[c].names = ss[c].names
      /\ tt[c].types = ss[c].types
      /\ tt[c].expected_return = ss[c].expected_return
  BY <1>2, <1>3, TableSound, TableP!PopResult
<1>5. /\ tt \in Seq(Table!Scope) /\ Len(tt) = Len(ss)
      /\ \A s \in 1..Len(ss) : s # c => tt[s] = ss[s]
      /\ tt[c].parent = ss[c].parent
  BY <1>4, SameTable DEF TableP!Writes
<1>6. SameChain(ss, tt)
  BY <1>4, <1>5 DEF SameChain
<1>7. \A s \in 1..Len(tt) :
        /\ tt[s].parent \in 0..s - 1
        /\ \A u \in tt[s].types : tm[u] # None
        /\ \A m \in Names : tt[s].names[m] # None => Bindable(tm, tt[s].names[m].ty)
  BY <1>4, <1>5 DEF ScopesOK
<1>8. ScopesOK(tt, tm)
  BY <1>5, <1>7 DEF ScopesOK
<1>9. SameNames(ss, tt)
  BY <1>4, <1>5 DEF SameNames
<1>. QED  BY <1>6, <1>8, <1>9 DEF tt

\* A scope more, within the reserve.
LEMMA PushLeaves ==
  ASSUME NEW ss, NEW tm, ScopesOK(ss, tm), NEW c \in 1..Len(ss), Len(ss) < 100
  PROVE  LET tt == Table!PushScope(ss, c)
         IN /\ ScopesOK(tt, tm)
            /\ Len(tt) = Len(ss) + 1
            /\ \A s \in 1..Len(ss) : tt[s] = ss[s]
            /\ tt[Len(ss) + 1].parent = c
            /\ tt[Len(ss) + 1].expected_return = None
            /\ \A n \in Names : tt[Len(ss) + 1].names[n] = None
<1>. DEFINE tt == Table!PushScope(ss, c)
<1>1. ss \in Seq(TableP!Scope)
  BY SameTable DEF ScopesOK
<1>2. Len(ss) \in Nat /\ Len(ss) # 100 /\ c \in Nat
  <2>1. Len(ss) \in Nat
    BY <1>1
  <2>2. Len(ss) # 100
    <3>1. \A k \in Nat : k < 100 => k # 100
      OBVIOUS
    <3>. QED  BY <2>1, <3>1
  <2>3. c \in Nat
    BY <2>1
  <2>. QED  BY <2>1, <2>2, <2>3
<1>3. tt = TableP!PushScope(ss, c)
  BY SameTable
<1>. HIDE DEF tt
<1>4. /\ tt \in Seq(TableP!Scope)
      /\ Len(tt) = Len(ss) + 1
      /\ \A s \in 1..Len(ss) : tt[s] = ss[s]
      /\ tt[Len(ss) + 1] = TableP!NewScope(c)
  <2>1. c \in Nat \cup {TableP!Freed}
    BY <1>2
  <2>. DEFINE new == TableP!PushScope(ss, c)
  <2>2. /\ new \in Seq(TableP!Scope)
        /\ Len(new) = Len(ss) + 1
        /\ \A i \in 1..Len(ss) : Len(ss) # 100 => new[i] = ss[i]
        /\ Len(ss) # 100 => new[Len(ss) + 1] = TableP!NewScope(c)
    BY <1>1, <2>1, TableSound, TableP!PushResult
  <2>. HIDE DEF new
  <2>3. tt = new
    BY <1>3 DEF new
  <2>. QED  BY <1>2, <2>2, <2>3
<1>5. /\ tt[Len(ss) + 1].parent = c
      /\ tt[Len(ss) + 1].expected_return = None
      /\ tt[Len(ss) + 1].types = {}
      /\ \A n \in Names : tt[Len(ss) + 1].names[n] = None
  BY <1>4 DEF TableP!NewScope
<1>6. ASSUME NEW s \in 1..Len(tt)
      PROVE  /\ tt[s].parent \in 0..s - 1
             /\ \A u \in tt[s].types : tm[u] # None
             /\ \A m \in Names : tt[s].names[m] # None => Bindable(tm, tt[s].names[m].ty)
  <2>1. CASE s \in 1..Len(ss)
    BY <2>1, <1>4 DEF ScopesOK
  <2>2. CASE s = Len(ss) + 1
    BY <2>2, <1>2, <1>5
  <2>. QED  BY <2>1, <2>2, <1>2, <1>4
<1>7. ScopesOK(tt, tm)
  BY <1>4, <1>6, SameTable DEF ScopesOK
<1>. QED  BY <1>4, <1>5, <1>7 DEF tt

\* What is known stays known when Types grows.
LEMMA StillThere ==
  ASSUME NEW ss, NEW tm, ScopesOK(ss, tm), NEW tm2,
         \A t \in TypeNames : tm[t] # None => tm2[t] # None
  PROVE  ScopesOK(ss, tm2)
<1>1. \A s \in 1..Len(ss) : ss[s].types \subseteq TypeNames
  <2>1. \A s \in 1..Len(ss) : ss[s] \in Table!Scope
    BY DEF ScopesOK
  <2>. QED  BY <2>1 DEF Table!Scope
<1>2. \A ti : Bindable(tm, ti) => Bindable(tm2, ti)
  BY DEF Bindable, TypeInstance
<1>. QED  BY <1>1, <1>2 DEF ScopesOK

LEMMA StillKnown ==
  ASSUME NEW ss, NEW tm, ScopesOK(ss, tm), NEW tm2, Keeps(tm, tm2)
  PROVE  ScopesOK(ss, tm2)
BY StillThere DEF Keeps

\* Being the same chain of scopes is transitive...
LEMMA SameChainTrans ==
  ASSUME NEW ss, NEW tt, NEW uu, SameChain(ss, tt), SameChain(tt, uu)
  PROVE  SameChain(ss, uu)
BY DEF SameChain

LEMMA SameNamesTrans ==
  ASSUME NEW ss, NEW tt, NEW uu, SameNames(ss, tt), SameNames(tt, uu)
  PROVE  SameNames(ss, uu)
BY DEF SameNames

-----------------------------------------------------------------------------
(* Types.                                                                   *)

\* define_type adds a type or keeps the one there is.
LEMMA DefineTypeKeeps ==
  ASSUME NEW tm, TypesOK(tm), NEW t \in TypeNames, NEW type \in Type,
         type.cls = "function" => type.ret \in TypeInstance /\ tm[type.ret.type] # None
  PROVE  LET tm2 == DefineType(tm, t, type)
         IN TypesOK(tm2) /\ Keeps(tm, tm2) /\ tm2[t] # None
<1>. DEFINE tm2 == DefineType(tm, t, type)
<1>1. tm \in [TypeNames -> Type \cup {None}] /\ tm2 \in [TypeNames -> Type \cup {None}]
  BY DEF DefineType, TypesOK
<1>2. \A u \in TypeNames :
        tm2[u] = IF u = t /\ tm[u] = None THEN type ELSE tm[u]
  BY <1>1 DEF DefineType
<1>3. type # None
  BY MarksAssumption
<1>. HIDE DEF tm2
<1>4. Keeps(tm, tm2) /\ tm2[t] # None
  BY <1>2, <1>3 DEF Keeps
<1>5. ASSUME NEW u \in TypeNames, tm2[u] # None, tm2[u].cls = "function"
      PROVE  tm2[u].ret \in TypeInstance /\ tm2[tm2[u].ret.type] # None
  <2>1. tm2[u].ret \in TypeInstance /\ tm[tm2[u].ret.type] # None
    BY <1>2, <1>5 DEF TypesOK
  <2>2. tm2[u].ret.type \in TypeNames
    BY <2>1 DEF TypeInstance
  <2>. QED  BY <2>1, <2>2, <1>4 DEF Keeps
<1>7. \A u \in BuiltinTypes : tm2[u] # None /\ tm2[u].cls = "primitive"
  BY <1>4 DEF TypesOK, Keeps, TypeNames
<1>8. TypesOK(tm2)
  BY <1>1, <1>5, <1>7 DEF TypesOK
<1>. QED  BY <1>4, <1>8 DEF tm2

\* The types of an enum's members are finitely many: a sequence lists them.
LEMMA MemberTypesListed ==
  ASSUME NEW node \in EnumNodes
  PROVE  MemberTypes(node) \in Seq(TypeInstance)
<1>. DEFINE s == node.members
            S == {OfType(m.t) : m \in ToSet(s)}
            f == [i \in 1..Len(s) |-> OfType(s[i].t)]
            n == Cardinality(S)
            Members == [t : UserTypeNames, is_struct : BOOLEAN, fields : SUBSET TypeInstance]
<1>1. s \in Seq(Members) /\ Len(s) \in Nat /\ DOMAIN s = 1..Len(s)
  <2>1. node \in [n : UserTypeNames, members : Seq(Members)]
    BY DeclarationsAssumption
  <2>. HIDE DEF Members
  <2>2. s \in Seq(Members)
    BY <2>1
  <2>. HIDE DEF s
  <2>. QED  BY <2>2
<1>2. \A i \in 1..Len(s) : OfType(s[i].t) \in TypeInstance
  <2>1. ASSUME NEW i \in 1..Len(s) PROVE s[i].t \in TypeNames
    <3>1. s[i] \in Members
      <4>. HIDE DEF Members, s
      <4>. QED  BY <1>1, <2>1
    <3>. QED  BY <3>1 DEF TypeNames
  <2>. QED  BY <2>1 DEF OfType, TypeInstance
<1>3. S = {OfType(s[i].t) : i \in 1..Len(s)}
  BY <1>1 DEF ToSet
<1>4. f \in Surjection(1..Len(s), S)
  BY <1>3 DEF Surjection
<1>5. IsFiniteSet(1..Len(s))
  BY <1>1, FS_Interval
<1>. HIDE DEF f
<1>6. S \subseteq TypeInstance
  BY <1>2, <1>3
<1>. HIDE DEF S
<1>7. IsFiniteSet(S)
  BY <1>4, <1>5, FS_Surjection
<1>8. n \in Nat /\ \E g \in [1..n -> S] : IsInjective(g)
  BY <1>7, FS_CardinalityType DEF ExistsBijection, Bijection, Injection
<1>9. SetToSeq(S) \in [1..n -> S]
  BY <1>8 DEF SetToSeq
<1>10. SetToSeq(S) \in Seq(TypeInstance)
  BY <1>6, <1>8, <1>9
<1>. QED  BY <1>10 DEF MemberTypes, S

\* What is put behind a sequence leaves it a prefix.
LEMMA PrefixOfMore ==
  ASSUME NEW T, NEW s \in Seq(T), NEW u \in Seq(T)
  PROVE  s \o u \in Seq(T) /\ IsPrefix(s, s \o u) /\ IsPrefix(s, s)
<1>1. /\ Len(s) \in Nat /\ Len(u) \in Nat /\ s \o u \in Seq(T)
      /\ Len(s \o u) = Len(s) + Len(u)
      /\ \A i \in 1..Len(s) : (s \o u)[i] = s[i]
  OBVIOUS
<1>2. SubSeq(s, 1, Len(s)) = SubSeq(s \o u, 1, Len(s))
  BY <1>1
<1>. QED  BY <1>1, <1>2 DEF IsPrefix

\* set_enum_members adds to the parameters of the one type and changes nothing else.
LEMMA MembersAreAdded ==
  ASSUME NEW tm, TypesOK(tm), NEW t \in TypeNames, tm[t] # None,
         NEW members \in Seq(TypeInstance)
  PROVE  LET tm2 == SetEnumMembers(tm, t, members)
         IN TypesOK(tm2) /\ KeepsBut(tm, tm2, t)
<1>. DEFINE new == [tm[t] EXCEPT !.params = @ \o members]
            tm2 == SetEnumMembers(tm, t, members)
<1>1. tm \in [TypeNames -> Type \cup {None}] /\ tm[t] \in Type
  BY DEF TypesOK
<1>2. tm[t].params \in Seq(TypeInstance)
  BY <1>1 DEF Type
<1>3. /\ tm[t].params \o members \in Seq(TypeInstance)
      /\ IsPrefix(tm[t].params, tm[t].params \o members)
  BY <1>2, PrefixOfMore
<1>4. /\ new \in Type /\ new.cls = tm[t].cls /\ new.ret = tm[t].ret
      /\ new.params = tm[t].params \o members
  BY <1>1, <1>3 DEF Type
<1>5. \A u \in TypeNames : tm2[u] = IF u = t THEN new ELSE tm[u]
  BY <1>1 DEF SetEnumMembers
<1>6. new # None
  BY <1>4, MarksAssumption
<1>7. tm2 \in [TypeNames -> Type \cup {None}]
  <2>1. tm2 = [tm EXCEPT ![t] = new]
    BY <1>1 DEF SetEnumMembers
  <2>. HIDE DEF new, tm2
  <2>. QED  BY <1>1, <1>4, <2>1
<1>. HIDE DEF new, tm2
<1>8. KeepsBut(tm, tm2, t)
  <2>1. ASSUME NEW u \in TypeNames, tm[u] # None
        PROVE  IsPrefix(tm[u].params, tm[u].params)
    <3>1. tm[u].params \in Seq(TypeInstance)
      BY <1>1, <2>1 DEF Type
    <3>. QED  BY <3>1, PrefixOfMore
  <2>. QED  BY <1>3, <1>4, <1>5, <1>6, <2>1 DEF KeepsBut
<1>9. ASSUME NEW u \in TypeNames, tm2[u] # None, tm2[u].cls = "function"
      PROVE  tm2[u].ret \in TypeInstance /\ tm2[tm2[u].ret.type] # None
  <2>1. tm2[u].ret \in TypeInstance /\ tm[tm2[u].ret.type] # None
    BY <1>4, <1>5, <1>9 DEF TypesOK
  <2>2. tm2[u].ret.type \in TypeNames
    BY <2>1 DEF TypeInstance
  <2>. QED  BY <1>5, <1>6, <2>1, <2>2
<1>10. \A u \in BuiltinTypes : tm2[u] # None /\ tm2[u].cls = "primitive"
  BY <1>8 DEF TypesOK, KeepsBut, TypeNames
<1>. QED  BY <1>7, <1>8, <1>9, <1>10 DEF TypesOK, tm2

-----------------------------------------------------------------------------
(* Expressions and the statements without child statements.                 *)

Known(tm, ti) == ti \in TypeInstance /\ tm[ti.type] # None

\* A type name that is found stands for a type that is known.
LEMMA HasTypeKnown ==
  ASSUME NEW ss, NEW tm, ScopesOK(ss, tm), current \in 1..Len(ss), NEW t, HasType(ss, t)
  PROVE  t \in TypeNames /\ tm[t] # None
<1>1. ss \in Seq(TableP!Scope) /\ ss \in Seq(Table!Scope) /\ current \in 0..Len(ss)
  BY SameTable DEF ScopesOK
<1>2. \A s \in 1..Len(ss) : ss[s].parent \in 0..s - 1
  BY DEF ScopesOK
<1>3. TableP!LookupType(ss, current, t) # None
  BY SameTable DEF HasType
<1>4. PICK i \in 1..Len(ss) : t \in ss[i].types
  BY <1>1, <1>2, <1>3, TableSound, TableP!LookupFinds
<1>5. ss[i] \in Table!Scope
  BY <1>1
<1>. QED  BY <1>4, <1>5 DEF ScopesOK, Table!Scope

\* A value that is found has a type that is known.
LEMMA ValueKnown ==
  ASSUME NEW ss, NEW tm, ScopesOK(ss, tm), current \in 1..Len(ss), NEW n,
         ValueOf(ss, n) # None
  PROVE  Bindable(tm, ValueOf(ss, n).ty)
<1>1. ss \in Seq(TableP!Scope) /\ current \in 0..Len(ss)
  BY SameTable DEF ScopesOK
<1>2. \A s \in 1..Len(ss) : ss[s].parent \in 0..s - 1
  BY DEF ScopesOK
<1>3. n \in Names /\ ValueOf(ss, n) = TableP!LookupValue(ss, current, n)
  BY SameTable DEF ValueOf
<1>4. PICK i \in 1..Len(ss) : ValueOf(ss, n) = ss[i].names[n]
  BY <1>1, <1>2, <1>3, TableSound, TableP!LookupFinds
<1>. QED  BY <1>3, <1>4 DEF ScopesOK

\* sema_id: the type of a name that resolves.
LEMMA IdKnown ==
  ASSUME NEW ss, NEW tm, ScopesOK(ss, tm), current \in 1..Len(ss), NEW n
  PROVE  Stops(IdType(ss, n)) \/ Known(tm, IdType(ss, n))
<1>1. CASE ValueOf(ss, n) # None
  BY <1>1, ValueKnown DEF IdType, TypeOfId, Known, Bindable
<1>2. CASE ValueOf(ss, n) = None /\ n \in TypeNames /\ HasType(ss, n)
  <2>1. IdType(ss, n) = OfType(n)
    BY <1>2 DEF IdType, TypeOfId
  <2>2. tm[n] # None
    BY <1>2, HasTypeKnown
  <2>. QED  BY <1>2, <2>1, <2>2 DEF Known, OfType, TypeInstance
<1>3. CASE ValueOf(ss, n) = None /\ ~(n \in TypeNames /\ HasType(ss, n))
  BY <1>3 DEF IdType, TypeOfId, Stops
<1>. QED  BY <1>1, <1>2, <1>3

\* The types of literals and comparisons, which the root scope declares.
LEMMA BuiltinKnown ==
  ASSUME NEW tm, TypesOK(tm), NEW t \in BuiltinTypes
  PROVE  Known(tm, OfType(t))
BY DEF TypesOK, Known, OfType, TypeInstance, TypeNames

\* An expression has a type that is known, or it is an error.
LEMMA ExprKnown ==
  ASSUME NEW ss, ScopesOK(ss, types), current \in 1..Len(ss), TypesOK(types),
         NEW e, IsExpr(e)
  PROVE  Stops(ExprType(ss, e)) \/ Known(types, ExprType(ss, e))
<1>1. \A n : Stops(IdType(ss, n)) \/ Known(types, IdType(ss, n))
  BY IdKnown
<1>2. Known(types, OfType("i32")) /\ Known(types, VoidType) /\ Known(types, BoolType)
  <2>1. {"i32", "void", "bool"} \subseteq BuiltinTypes
    BY DEF BuiltinTypes, IntTypes
  <2>. QED  BY <2>1, BuiltinKnown DEF VoidType, BoolType
<1>3. CASE e.k = "num"
  BY <1>2, <1>3 DEF ExprType
<1>4. CASE e.k = "empty"
  BY <1>2, <1>4 DEF ExprType
<1>5. CASE e.k = "id"
  BY <1>1, <1>5 DEF ExprType
<1>6. CASE e.k = "binop"
  <2>1. ExprType(ss, e) = BinOpType(e.op, IdType(ss, e.n), IdType(ss, e.r))
    BY <1>6 DEF ExprType
  <2>. QED  BY <1>1, <1>2, <2>1 DEF BinOpType, Stops
<1>7. CASE e.k = "is"
  <2>1. ExprType(ss, e) = IsExprType(ss, IdType(ss, e.n), e.type)
    BY <1>7 DEF ExprType
  <2>. QED  BY <1>1, <1>2, <2>1 DEF IsExprType, Stops
<1>8. CASE e.k = "call"
  <2>. DEFINE t == IdType(ss, e.n)
  <2>1. ExprType(ss, e) = CallOf(ss, t, e.args)
    BY <1>8 DEF ExprType
  <2>2. Stops(t) \/ Known(types, t)
    BY <1>1
  <2>. HIDE DEF t
  <2>3. Known(types, t) /\ IsFunctionType(types, t) => Known(types, types[t.type].ret)
    BY DEF Known, IsFunctionType, HasClass, TypesOK, TypeInstance
  <2>. QED  BY <2>1, <2>2, <2>3 DEF CallOf, Stops
<1>9. CASE e.k = "addressof"
  <2>. DEFINE t == IdType(ss, e.n)
  <2>1. ExprType(ss, e) = AddressOfType(t)
    BY <1>9 DEF ExprType
  <2>2. Stops(t) \/ Known(types, t)
    BY <1>1
  <2>. HIDE DEF t
  <2>3. Known(types, t) => Known(types, PointerTo(t, 1))
    BY DEF Known, PointerTo, TypeInstance
  <2>. QED  BY <2>1, <2>2, <2>3 DEF AddressOfType, Stops
<1>10. CASE e.k = "deref"
  <2>. DEFINE t == IdType(ss, e.n)
  <2>1. ExprType(ss, e) = DerefType(t)
    BY <1>10 DEF ExprType
  <2>2. Stops(t) \/ Known(types, t)
    BY <1>1
  <2>. HIDE DEF t
  <2>3. Known(types, t) => Stops(PointerElementType(t)) \/ Known(types, PointerElementType(t))
    BY DEF Known, PointerElementType, IsPointerType, TypeInstance, Stops
  <2>. QED  BY <2>1, <2>2, <2>3 DEF DerefType, Stops
<1>. QED  BY <1>3, <1>4, <1>5, <1>6, <1>7, <1>8, <1>9, <1>10 DEF IsExpr

\* ... and reflexive.
LEMMA SameChainRefl ==
  ASSUME NEW ss
  PROVE  SameChain(ss, ss)
BY DEF SameChain

\* A declared type that is written out is known, or it is an error.
LEMMA DeclKnown ==
  ASSUME NEW ss, NEW tm, ScopesOK(ss, tm), current \in 1..Len(ss),
         NEW d \in TypeInstance, ~Stops(DeclType(ss, d))
  PROVE  IsInferType(d) \/ Bindable(tm, d)
<1>1. IsInferType(d) \/ HasType(ss, d.type)
  BY DEF DeclType, Stops
<1>2. HasType(ss, d.type) => tm[d.type] # None
  BY HasTypeKnown
<1>. QED  BY <1>1, <1>2 DEF Bindable

\* What a `let` declares has a type that is known and not left to inference.
LEMMA LetLeaves ==
  ASSUME NEW ss, ScopesOK(ss, types), current \in 1..Len(ss), TypesOK(types), pos \in Nat,
         NEW node, IsSimple(node), node.k = "let"
  PROVE  Leaves(ss, types, LetWith(ss, node, DeclType(ss, node.decl), ExprType(ss, node.rhs)))
<1>. DEFINE d == DeclType(ss, node.decl)
            r == ExprType(ss, node.rhs)
<1>1. node.n \in Names /\ node.decl \in TypeInstance /\ IsExpr(node.rhs)
  BY DEF IsSimple
<1>2. Stops(r) \/ Known(types, r)
  BY <1>1, ExprKnown
<1>3. ~Stops(d) => d = node.decl /\ (IsInferType(d) \/ Bindable(types, d))
  <2>1. ~Stops(d) => d = node.decl
    BY DEF DeclType, Stops
  <2>2. ~Stops(d) => IsInferType(node.decl) \/ Bindable(types, node.decl)
    BY <1>1, DeclKnown
  <2>. QED  BY <2>1, <2>2
<1>. HIDE DEF d, r
<1>4. \A ti : Bindable(types, ti) =>
        LET tt == Declare(ss, current, node.n, ti, 0)
        IN ScopesOK(tt, types) /\ SameChain(ss, tt)
  BY <1>1, DeclareLeaves
<1>5. ASSUME ~Stops(d), ~Stops(r),
             AssignableTo(d, r) \/ (NamesEnum(d) /\ EqualTypes(d, r))
      PROVE  Bindable(types, NonInferred(d, r))
  <2>1. CASE ~IsInferType(d)
    BY <1>3, <1>5, <2>1 DEF NonInferred
  <2>2. CASE IsInferType(d)
    <3>1. d.type \in BuiltinTypes
      BY <2>2 DEF IsInferType, InferType, OfType, BuiltinTypes
    <3>2. ~NamesEnum(d)
      BY <3>1 DEF NamesEnum, TypesOK
    <3>3. ~CompatibleInts(d, r)
      BY <2>2 DEF CompatibleInts, IsIntegerType, IsInferType, InferType, OfType, IntTypes
    <3>4. EqualTypes(d, r)
      BY <1>5, <3>2, <3>3 DEF AssignableTo
    <3>5. ~IsInferType(r)
      BY <2>2, <3>4 DEF EqualTypes, IsInferType
    <3>. QED  BY <1>2, <1>5, <2>2, <3>5 DEF NonInferred, Known, Bindable
  <2>. QED  BY <2>1, <2>2
<1>6. Leaves(ss, types, LetWith(ss, node, d, r))
  BY <1>3, <1>4, <1>5 DEF LetWith, Leaves, Stops
<1>. QED  BY <1>6 DEF d, r

\* An expression statement declares nothing.
LEMMA ExprLeaves ==
  ASSUME NEW ss, ScopesOK(ss, types), NEW e
  PROVE  Leaves(ss, types, AfterExpr(ss, e))
BY SameChainRefl DEF Leaves, AfterExpr

\* The statements without a body.
LEMMA SimpleLeaves ==
  ASSUME NEW ss, ScopesOK(ss, types), current \in 1..Len(ss), TypesOK(types), pos \in Nat,
         NEW node, IsSimple(node)
  PROVE  Leaves(ss, types, AfterSimple(ss, node))
<1>1. CASE Stops(ss)
  BY <1>1 DEF AfterSimple, Leaves
<1>2. CASE ~Stops(ss) /\ node.k = "let"
  BY <1>2, LetLeaves DEF AfterSimple
<1>3. CASE ~Stops(ss) /\ node.k = "assign"
  <2>1. AfterSimple(ss, node) = AssignTo(ss, IdType(ss, node.n), ExprType(ss, node.rhs))
    BY <1>3 DEF AfterSimple
  <2>. QED  BY <2>1, SameChainRefl DEF AssignTo, Leaves, Stops
<1>4. CASE ~Stops(ss) /\ node.k = "return"
  <2>1. AfterSimple(ss, node) =
          ReturnOf(ss, ExprType(ss, node.rhs), Table!ExpectedReturn(ss, current))
    BY <1>4 DEF AfterSimple
  <2>. QED  BY <2>1, SameChainRefl DEF ReturnOf, Leaves, Stops
<1>5. CASE ~Stops(ss) /\ node.k = "expr"
  <2>1. AfterSimple(ss, node) = AfterExpr(ss, node.rhs)
    BY <1>5 DEF AfterSimple
  <2>. QED  BY <2>1, ExprLeaves
<1>. QED  BY <1>1, <1>2, <1>3, <1>4, <1>5 DEF IsSimple

\* sema_for: what its initializer, condition and step leave in the table.
LEMMA ForLeaves ==
  ASSUME ScopesOK(scopes, types), current \in 1..Len(scopes), TypesOK(types), pos \in Nat,
         NEW node, IsSimple(node.init), IsExpr(node.cond), IsSimple(node.end)
  PROVE  Leaves(scopes, types, AfterForHead(node))
<1>. DEFINE s1 == AfterSimple(scopes, node.init)
            s2 == AfterExpr(s1, node.cond)
            s3 == AfterSimple(s2, node.end)
<1>1. AfterForHead(node) = s3
  BY DEF AfterForHead
<1>2. Leaves(scopes, types, s1)
  BY SimpleLeaves
<1>3. Leaves(scopes, types, s2)
  <2>. HIDE DEF s1
  <2>1. CASE Stops(s1)
    BY <2>1 DEF AfterExpr, Leaves
  <2>2. CASE ~Stops(s1)
    <3>1. ScopesOK(s1, types) /\ SameChain(scopes, s1)
      BY <1>2, <2>2 DEF Leaves
    <3>2. Leaves(s1, types, s2)
      BY <3>1, ExprLeaves
    <3>. QED  BY <3>1, <3>2, SameChainTrans DEF Leaves
  <2>. QED  BY <2>1, <2>2
<1>4. Leaves(scopes, types, s3)
  <2>. HIDE DEF s2
  <2>1. CASE Stops(s2)
    BY <2>1 DEF AfterSimple, Leaves
  <2>2. CASE ~Stops(s2)
    <3>1. ScopesOK(s2, types) /\ SameChain(scopes, s2)
      BY <1>3, <2>2 DEF Leaves
    <3>2. current \in 1..Len(s2)
      BY <3>1 DEF SameChain
    <3>3. Leaves(s2, types, s3)
      BY <3>1, <3>2, SimpleLeaves
    <3>. QED  BY <3>1, <3>3, SameChainTrans DEF Leaves
  <2>. QED  BY <2>1, <2>2
<1>. QED  BY <1>1, <1>4

\* The parameters that an arm binds, or the reason it stops.
LEMMA ArrowLeaves ==
  ASSUME ScopesOK(scopes, types), current \in 1..Len(scopes), pos \in Nat,
         NEW params \in Seq(ParamDecls), NEW expected
  PROVE  Leaves(scopes, types, AfterArrowParams(params, expected))
<1>1. CASE params = <<>>
  BY <1>1, SameChainRefl DEF AfterArrowParams, Leaves
<1>2. CASE params # <<>>
  <2>. DEFINE p == params[1]
  <2>1. p \in ParamDecls
    BY <1>2
  <2>2. p.n \in Names /\ p.decl \in TypeInstance /\ ~IsInferType(p.decl)
    BY <2>1 DEF ParamDecls
  <2>3. ~Stops(DeclType(scopes, p.decl)) => Bindable(types, p.decl)
    BY <2>2, DeclKnown
  <2>. HIDE DEF p
  <2>4. Bindable(types, p.decl) =>
          LET tt == Declare(scopes, current, p.n, p.decl, 1)
          IN ScopesOK(tt, types) /\ SameChain(scopes, tt)
    BY <2>2, DeclareLeaves
  <2>5. AfterArrowParams(params, expected) = Failed
        \/ (/\ ~Stops(DeclType(scopes, p.decl))
            /\ AfterArrowParams(params, expected) = Declare(scopes, current, p.n, p.decl, 1))
    BY <1>2 DEF AfterArrowParams, p
  <2>. QED  BY <2>3, <2>4, <2>5 DEF Leaves, Stops
<1>. QED  BY <1>1, <1>2

-----------------------------------------------------------------------------
(* Declarations.                                                            *)

\* Keeping what is known is transitive.
LEMMA KeepsTrans ==
  ASSUME NEW tm, NEW tm2, NEW tm3, Keeps(tm, tm2), Keeps(tm2, tm3)
  PROVE  Keeps(tm, tm3)
BY DEF Keeps

\* A prototype that does not fail defines the function's type, and every
\* parameter has a type that is known.
LEMMA ProtoTypes ==
  ASSUME ScopesOK(scopes, types), current \in 1..Len(scopes), TypesOK(types),
         NEW node \in FnNodes \cup ExternNodes, ~ProtoFails(node)
  PROVE  LET tm == TypesAfterProto(node)
         IN /\ TypesOK(tm) /\ Keeps(types, tm) /\ tm[node.n] # None
            /\ node.params \in Seq(ParamDecls)
            /\ \A i \in 1..Len(node.params) : Bindable(tm, node.params[i].decl)
            /\ node.n \in Names \cap TypeNames /\ ~IsInferType(OfType(node.n))
<1>. DEFINE n == Len(node.params)
            ps == [i \in 1..n |-> node.params[i].decl]
            type == FunctionType(node.n, node.ret, ps)
            tm == TypesAfterProto(node)
<1>1. /\ node.n \in Names \cap UserTypeNames /\ node.ret \in TypeInstance
      /\ node.params \in Seq(ParamDecls)
  BY DeclarationsAssumption
<1>2. \A i \in 1..n : node.params[i] \in ParamDecls
  BY <1>1
<1>3. \A i \in 1..n : node.params[i].decl \in TypeInstance /\ ~IsInferType(node.params[i].decl)
  BY <1>2 DEF ParamDecls
<1>4. n \in Nat /\ ps \in Seq(TypeInstance)
  BY <1>1, <1>3
<1>5. node.n \in TypeNames /\ node.n # InferType.type
  BY <1>1, MarksAssumption DEF TypeNames
<1>6. \A i \in 1..n : Bindable(types, node.params[i].decl)
  BY <1>3, DeclKnown DEF ProtoFails
<1>7. types[node.ret.type] # None
  <2>1. ~Stops(DeclType(scopes, node.ret))
    BY DEF ProtoFails
  <2>2. IsInferType(node.ret) \/ Bindable(types, node.ret)
    BY <1>1, <2>1, DeclKnown
  <2>3. InferType.type \in BuiltinTypes
    BY DEF InferType, OfType, BuiltinTypes
  <2>. QED  BY <2>2, <2>3 DEF IsInferType, Bindable, TypesOK
<1>8. tm = DefineType(types, node.n, type)
  BY DEF TypesAfterProto
<1>9. type \in Type /\ type.ret = node.ret
  <2>. HIDE DEF ps
  <2>. QED  BY <1>1, <1>4, <1>5 DEF FunctionType, Type, Classes
<1>. HIDE DEF type, tm
<1>10. TypesOK(tm) /\ Keeps(types, tm) /\ tm[node.n] # None
  BY <1>1, <1>5, <1>7, <1>8, <1>9, DefineTypeKeeps
<1>11. \A i \in 1..n : Bindable(tm, node.params[i].decl)
  BY <1>6, <1>10 DEF Bindable, Keeps, TypeInstance
<1>12. ~IsInferType(OfType(node.n))
  BY <1>5 DEF IsInferType, OfType
<1>. QED  BY <1>1, <1>5, <1>10, <1>11, <1>12 DEF tm

\* A prototype that is accepted declares the function it names.
LEMMA ProtoLeaves ==
  ASSUME NEW tm, TypesOK(tm), Keeps(types, tm), ScopesOK(scopes, types),
         current \in 1..Len(scopes), pos \in Nat,
         NEW node, node.n \in Names \cap TypeNames, tm[node.n] # None,
         ~IsInferType(OfType(node.n))
  PROVE  ScopesOK(ScopesAfterProto(node), tm) /\ SameChain(scopes, ScopesAfterProto(node))
<1>. DEFINE s1 == Table!AddType(scopes, current, node.n)
            s2 == Declare(s1, current, node.n, OfType(node.n), 0)
<1>1. ScopesOK(scopes, tm)
  BY StillKnown
<1>2. ScopesOK(s1, tm) /\ SameChain(scopes, s1)
  BY <1>1, AddTypeLeaves
<1>. HIDE DEF s1
<1>3. current \in 1..Len(s1)
  BY <1>2 DEF SameChain
<1>4. Bindable(tm, OfType(node.n))
  BY DEF Bindable, OfType, TypeInstance
<1>5. ScopesOK(s2, tm) /\ SameChain(s1, s2)
  BY <1>2, <1>3, <1>4, DeclareLeaves
<1>6. SameChain(scopes, s2)
  BY <1>2, <1>5, SameChainTrans
<1>. QED  BY <1>5, <1>6 DEF ScopesAfterProto, s1

AllBindable(tm, params) == \A i \in 1..Len(params) : Bindable(tm, params[i].decl)

\* sema_fn declares the parameters one after the other in the function's scope:
\* it[s] is the table once those with an index in s are declared.
Iterates(it, ss, tm, c, params) ==
  /\ WithParams(ss, c, params) = it[1..Len(params)]
  /\ it[{}] = ss
  /\ \A s \in SUBSET (1..Len(params)) :
       /\ ScopesOK(it[s], tm) /\ SameChain(ss, it[s])
       /\ s # {} =>
            it[s] = Declare(it[s \ {Max(s)}], c, params[Max(s)].n,
                            params[Max(s)].decl, Max(s))

LEMMA ParamsIterate ==
  ASSUME NEW ss, NEW tm, ScopesOK(ss, tm), NEW c \in 1..Len(ss), pos \in Nat,
         NEW params \in Seq(ParamDecls), AllBindable(tm, params)
  PROVE  \E it : Iterates(it, ss, tm, c, params)
<1>. DEFINE n == Len(params)
            idx == [i \in DOMAIN params |-> i]
            S == {tt \in Seq(Table!Scope) : ScopesOK(tt, tm) /\ SameChain(ss, tt)}
            Op(a, i) == Declare(a, c, params[i].n, params[i].decl, i)
            step == [x \in S \X (1..n) |-> Op(x[1], x[2])]
            FoldStep(f, s) == IF s = {} THEN ss ELSE Op(f[s \ {Max(s)}], idx[Max(s)])
            iter == CHOOSE f : f = [s \in SUBSET DOMAIN idx |-> FoldStep(f, s)]
<1>1. n \in Nat /\ DOMAIN params = 1..n /\ DOMAIN idx = 1..n /\ \A i \in 1..n : params[i] \in ParamDecls
  OBVIOUS
<1>2. ss \in S
  BY SameChainRefl DEF ScopesOK
<1>3. ASSUME NEW a \in S, NEW i \in 1..n
      PROVE  Op(a, i) \in S
  <2>1. ScopesOK(a, tm) /\ SameChain(ss, a) /\ c \in 1..Len(a)
    BY <1>3 DEF SameChain
  <2>2. i \in Nat /\ params[i].n \in Names /\ Bindable(tm, params[i].decl)
    BY <1>1 DEF ParamDecls, AllBindable
  <2>3. ScopesOK(Op(a, i), tm) /\ SameChain(a, Op(a, i))
    BY <2>1, <2>2, DeclareLeaves
  <2>4. SameChain(ss, Op(a, i)) /\ Op(a, i) \in Seq(Table!Scope)
    BY <2>1, <2>3, SameChainTrans DEF ScopesOK
  <2>. QED  BY <2>3, <2>4
<1>4. \A a \in S, i \in 1..n : step[<<a, i>>] = Op(a, i)
  OBVIOUS
<1>5. WithParams(ss, c, params) = iter[DOMAIN idx]
  BY DEF WithParams, FoldLeftDomain, FoldLeft, MapThenFoldSet
<1>6. \A s \in SUBSET (1..n) : s # {} => Max(s) \in 1..n /\ idx[Max(s)] = Max(s)
  BY <1>1, MaxOfIndices
<1>7. \A s : s \in SUBSET (1..n) => s \ {Max(s)} \in SUBSET (1..n)
  OBVIOUS
<1>. HIDE DEF S, Op, step, n, idx
<1>8. \E f : f = [s \in SUBSET DOMAIN idx |-> FoldStep(f, s)]
  <2>1. PICK f : IsFold(f, n, ss, step)
    BY <1>1, FoldExists
  <2>2. \A s \in SUBSET (1..n) :
          f[s] = IF s = {} THEN ss ELSE step[<<f[s \ {Max(s)}], Max(s)>>]
    BY <2>1 DEF IsFold
  <2>3. \A s \in SUBSET (1..n) : f[s] \in S
    <3>1. f[{}] \in S
      BY <1>2, <2>2
    <3>2. ASSUME NEW s \in SUBSET (1..n), s # {}, f[s \ {Max(s)}] \in S PROVE f[s] \in S
      <4>1. f[s] = step[<<f[s \ {Max(s)}], Max(s)>>] /\ Max(s) \in 1..n
        BY <1>6, <2>2, <3>2
      <4>2. f[s] = Op(f[s \ {Max(s)}], Max(s))
        BY <1>4, <3>2, <4>1
      <4>. QED  BY <1>3, <3>2, <4>1, <4>2
    <3>. QED  BY <1>1, <3>1, <3>2, FoldInduct
  <2>4. \A s \in SUBSET (1..n) : f[s] = FoldStep(f, s)
    BY <1>4, <1>6, <1>7, <2>2, <2>3
  <2>5. f = [s \in SUBSET (1..n) |-> f[s]]
    BY <2>1 DEF IsFold
  <2>. HIDE DEF FoldStep
  <2>6. f = [s \in SUBSET DOMAIN idx |-> FoldStep(f, s)]
    BY <1>1, <2>4, <2>5
  <2>. QED  BY <2>6
<1>9. iter = [s \in SUBSET DOMAIN idx |-> FoldStep(iter, s)]
  <2>. HIDE DEF FoldStep
  <2>. QED  BY <1>8
<1>. HIDE DEF iter
<1>10. \A s \in SUBSET (1..n) : iter[s] = FoldStep(iter, s)
  <2>. HIDE DEF FoldStep
  <2>. QED  BY <1>1, <1>9
<1>11. \A s \in SUBSET (1..n) : iter[s] \in S
  <2>1. iter[{}] \in S
    BY <1>2, <1>10
  <2>2. \A s \in SUBSET (1..n) : s # {} /\ iter[s \ {Max(s)}] \in S => iter[s] \in S
    BY <1>3, <1>6, <1>10
  <2>. QED  BY <1>1, <2>1, <2>2, FoldInduct
<1>12. WithParams(ss, c, params) = iter[1..n] /\ iter[{}] = ss
  BY <1>1, <1>5, <1>10
<1>13. \A s \in SUBSET (1..n) :
         /\ ScopesOK(iter[s], tm) /\ SameChain(ss, iter[s])
         /\ s # {} => iter[s] = Op(iter[s \ {Max(s)}], Max(s))
  BY <1>6, <1>10, <1>11 DEF S
<1>. QED  BY <1>12, <1>13 DEF Op, n, Iterates

LEMMA ParamsLeave ==
  ASSUME NEW ss, NEW tm, ScopesOK(ss, tm), NEW c \in 1..Len(ss), pos \in Nat,
         NEW params \in Seq(ParamDecls), AllBindable(tm, params)
  PROVE  LET tt == WithParams(ss, c, params)
         IN ScopesOK(tt, tm) /\ SameChain(ss, tt)
<1>1. PICK it : Iterates(it, ss, tm, c, params)
  BY ParamsIterate
<1>2. 1..Len(params) \in SUBSET (1..Len(params))
  OBVIOUS
<1>. QED  BY <1>1, <1>2 DEF Iterates

\* sema_enum_member defines the member's type and adds its name, or it fails.
LEMMA MemberStep ==
  ASSUME NEW tm, TypesOK(tm), NEW ss, ScopesOK(ss, tm), current \in 1..Len(ss),
         NEW m \in [t : UserTypeNames, is_struct : BOOLEAN, fields : SUBSET TypeInstance],
         NEW enum \in UserTypeNames
  PROVE  LET r == AfterMember(<<tm, ss>>, m, enum)
         IN \/ Stops(r) /\ r \in {Failed, <<tm, ss>>}
            \/ /\ r = <<r[1], r[2]>>
               /\ TypesOK(r[1]) /\ Keeps(tm, r[1])
               /\ ScopesOK(r[2], r[1]) /\ SameChain(ss, r[2]) /\ SameNames(ss, r[2])
<1>. DEFINE cls == IF m.is_struct THEN "struct" ELSE "primitive"
            defined == DefineType(tm, m.t, EnumMember(m.t, cls, enum))
            dependent == [defined EXCEPT ![m.t].dep = enum]
            tm2 == IF m.is_struct THEN defined ELSE dependent
            r == AfterMember(<<tm, ss>>, m, enum)
<1>1. m.t \in TypeNames /\ enum \in TypeNames
  BY DEF TypeNames
<1>2. /\ EnumMember(m.t, cls, enum) \in Type
      /\ EnumMember(m.t, cls, enum).cls # "function"
  BY <1>1 DEF EnumMember, Type, Classes
<1>3. TypesOK(defined) /\ Keeps(tm, defined) /\ defined[m.t] # None
  <2>. HIDE DEF cls
  <2>. QED  BY <1>1, <1>2, DefineTypeKeeps
<1>. HIDE DEF defined
<1>4. TypesOK(dependent) /\ Keeps(defined, dependent)
  <2>. DEFINE old == defined[m.t]
              new == [old EXCEPT !.dep = enum]
  <2>1. old \in Type /\ defined \in [TypeNames -> Type \cup {None}]
    BY <1>1, <1>3 DEF TypesOK
  <2>2. new \in Type /\ new.cls = old.cls /\ new.ret = old.ret /\ new.params = old.params
    BY <1>1, <2>1 DEF Type
  <2>3. new # None
    BY <2>2, MarksAssumption
  <2>4. dependent = [defined EXCEPT ![m.t] = new]
    OBVIOUS
  <2>. HIDE DEF new, dependent
  <2>5. /\ dependent \in [TypeNames -> Type \cup {None}]
        /\ dependent[m.t] = new
        /\ \A t \in TypeNames : t # m.t => dependent[t] = defined[t]
    BY <1>1, <2>1, <2>2, <2>4
  <2>. HIDE DEF old
  <2>6. Keeps(defined, dependent)
    BY <2>2, <2>3, <2>5 DEF Keeps, old
  <2>7. ASSUME NEW t \in TypeNames, dependent[t] # None, dependent[t].cls = "function"
        PROVE  dependent[t].ret \in TypeInstance /\ dependent[dependent[t].ret.type] # None
    <3>1. defined[t] # None /\ defined[t].cls = "function" /\ dependent[t].ret = defined[t].ret
      BY <1>3, <2>2, <2>5, <2>7 DEF old
    <3>2. defined[t].ret \in TypeInstance /\ defined[defined[t].ret.type] # None
      BY <1>3, <3>1 DEF TypesOK
    <3>3. defined[t].ret.type \in TypeNames
      BY <3>2 DEF TypeInstance
    <3>. QED  BY <2>6, <3>1, <3>2, <3>3 DEF Keeps
  <2>8. \A t \in BuiltinTypes : dependent[t] # None /\ dependent[t].cls = "primitive"
    BY <1>3, <2>6 DEF TypesOK, Keeps, TypeNames
  <2>. QED  BY <2>5, <2>6, <2>7, <2>8 DEF TypesOK
<1>5. TypesOK(tm2) /\ Keeps(tm, tm2) /\ tm2[m.t] # None
  <2>1. Keeps(tm, dependent) /\ dependent[m.t] # None
    BY <1>1, <1>3, <1>4, KeepsTrans DEF Keeps
  <2>. HIDE DEF dependent
  <2>. QED  BY <1>3, <1>4, <2>1
<1>. HIDE DEF dependent
<1>6. r = (IF Stops(<<tm, ss>>) THEN <<tm, ss>>
           ELSE IF \E f \in m.fields : Stops(DeclType(ss, f)) THEN Failed
           ELSE << tm2, Table!AddType(ss, current, m.t) >>)
  BY DEF AfterMember, defined, dependent
<1>. HIDE DEF tm2, r
<1>7. /\ ScopesOK(Table!AddType(ss, current, m.t), tm2)
      /\ SameChain(ss, Table!AddType(ss, current, m.t))
      /\ SameNames(ss, Table!AddType(ss, current, m.t))
  BY <1>1, <1>5, StillKnown, AddTypeLeaves
<1>8. CASE Stops(<<tm, ss>>)
  BY <1>6, <1>8 DEF r
<1>9. CASE ~Stops(<<tm, ss>>) /\ \E f \in m.fields : Stops(DeclType(ss, f))
  BY <1>6, <1>9 DEF r, Stops
<1>10. CASE ~Stops(<<tm, ss>>) /\ ~\E f \in m.fields : Stops(DeclType(ss, f))
  <2>1. r = <<tm2, Table!AddType(ss, current, m.t)>>
    BY <1>6, <1>10
  <2>. QED  BY <1>5, <1>7, <2>1 DEF r
<1>. QED  BY <1>8, <1>9, <1>10

\* The enum's members, one after the other.
LEMMA MembersLeave ==
  ASSUME TypesOK(types), ScopesOK(scopes, types), current \in 1..Len(scopes),
         NEW node \in EnumNodes
  PROVE  LET r == AfterMembers(node)
         IN \/ Stops(r)
            \/ /\ TypesOK(r[1]) /\ Keeps(types, r[1]) /\ r[1][node.n] # None
               /\ ScopesOK(r[2], r[1]) /\ SameChain(scopes, r[2]) /\ SameNames(scopes, r[2])
<1>. DEFINE members == node.members
            n == Len(members)
            base == <<DefineType(types, node.n, PlainType(node.n, "enum")), scopes>>
            Fine(a) == /\ TypesOK(a[1]) /\ Keeps(types, a[1]) /\ a[1][node.n] # None
                       /\ ScopesOK(a[2], a[1]) /\ SameChain(scopes, a[2])
                       /\ SameNames(scopes, a[2])
            All == [TypeNames -> Type \cup {None}] \X Seq(Table!Scope)
            S == {Failed} \cup {a \in All : Fine(a)}
            Op(a, i) == AfterMember(a, members[i], node.n)
            step == [x \in S \X (1..n) |-> Op(x[1], x[2])]
            FoldStep(f, s) == IF s = {} THEN base ELSE Op(f[s \ {Max(s)}], Max(s))
            iter == CHOOSE f : f = [s \in SUBSET DOMAIN members |-> FoldStep(f, s)]
<1>1. /\ node.n \in UserTypeNames
      /\ members \in Seq([t : UserTypeNames, is_struct : BOOLEAN, fields : SUBSET TypeInstance])
  BY DeclarationsAssumption
<1>2. /\ n \in Nat /\ DOMAIN members = 1..n
      /\ \A i \in 1..n : members[i] \in
           [t : UserTypeNames, is_struct : BOOLEAN, fields : SUBSET TypeInstance]
  <2>. DEFINE M == [t : UserTypeNames, is_struct : BOOLEAN, fields : SUBSET TypeInstance]
  <2>1. members \in Seq(M)
    BY <1>1
  <2>. HIDE DEF M, members
  <2>2. n \in Nat /\ DOMAIN members = 1..n /\ \A i \in 1..n : members[i] \in M
    BY <2>1
  <2>. QED  BY <2>2 DEF M
<1>3. base \in S
  <2>. DEFINE type == PlainType(node.n, "enum")
              tm == DefineType(types, node.n, type)
  <2>1. type \in Type /\ type.cls # "function" /\ node.n \in TypeNames
    BY <1>1 DEF PlainType, Type, Classes, TypeNames
  <2>. HIDE DEF type
  <2>2. TypesOK(tm) /\ Keeps(types, tm) /\ tm[node.n] # None
    BY <2>1, DefineTypeKeeps
  <2>. HIDE DEF tm
  <2>3. ScopesOK(scopes, tm) /\ SameChain(scopes, scopes) /\ SameNames(scopes, scopes)
    BY <2>2, StillKnown, SameChainRefl DEF SameNames
  <2>4. <<tm, scopes>> \in All
    BY <2>2, <2>3 DEF TypesOK, ScopesOK
  <2>5. Fine(<<tm, scopes>>)
    BY <2>2, <2>3
  <2>6. base = <<tm, scopes>>
    BY DEF tm, type
  <2>. HIDE DEF Fine, All
  <2>. QED  BY <2>4, <2>5, <2>6
<1>4. ASSUME NEW a \in S, NEW i \in 1..n
      PROVE  Op(a, i) \in S
  <2>1. CASE a = Failed
    BY <2>1 DEF AfterMember, Stops
  <2>2. CASE a # Failed
    <3>. DEFINE tm == a[1]
                ss == a[2]
                r == Op(a, i)
    <3>1. a \in All /\ Fine(a)
      <4>. HIDE DEF All, Fine
      <4>. QED  BY <2>2
    <3>2. a = <<tm, ss>>
      BY <3>1
    <3>3. current \in 1..Len(ss)
      BY <3>1 DEF SameChain
    <3>4. \/ r \in {Failed, a}
          \/ /\ r = <<r[1], r[2]>>
             /\ TypesOK(r[1]) /\ Keeps(tm, r[1])
             /\ ScopesOK(r[2], r[1]) /\ SameChain(ss, r[2]) /\ SameNames(ss, r[2])
      <4>. HIDE DEF tm, ss
      <4>1. TypesOK(tm) /\ ScopesOK(ss, tm)
        BY <3>1 DEF tm, ss
      <4>. DEFINE q == AfterMember(<<tm, ss>>, members[i], node.n)
      <4>2. \/ Stops(q) /\ q \in {Failed, <<tm, ss>>}
            \/ /\ q = <<q[1], q[2]>>
               /\ TypesOK(q[1]) /\ Keeps(tm, q[1])
               /\ ScopesOK(q[2], q[1]) /\ SameChain(ss, q[2]) /\ SameNames(ss, q[2])
        <5>. HIDE DEF members, n
        <5>. QED  BY <1>1, <1>2, <3>3, <4>1, MemberStep
      <4>3. q = r
        BY <3>2
      <4>. HIDE DEF q, r
      <4>. QED  BY <3>2, <4>2, <4>3
    <3>. HIDE DEF r
    <3>5. CASE r \in {Failed, a}
      <4>. HIDE DEF S
      <4>1. Failed \in S
        BY DEF S
      <4>. QED  BY <3>5, <4>1 DEF r
    <3>6. CASE r \notin {Failed, a}
      <4>1. Keeps(types, r[1]) /\ r[1][node.n] # None
        <5>1. node.n \in TypeNames
          BY <1>1 DEF TypeNames
        <5>. QED  BY <3>1, <3>4, <3>6, <5>1, KeepsTrans DEF Keeps
      <4>2. SameChain(scopes, r[2]) /\ SameNames(scopes, r[2])
        BY <3>1, <3>4, <3>6, SameChainTrans, SameNamesTrans
      <4>3. r \in All /\ Fine(r)
        BY <3>4, <3>6, <4>1, <4>2 DEF TypesOK, ScopesOK
      <4>. HIDE DEF All, Fine
      <4>. QED  BY <4>3 DEF r
    <3>. QED  BY <3>5, <3>6
  <2>. QED  BY <2>1, <2>2
<1>5. \A a \in S, i \in 1..n : step[<<a, i>>] = Op(a, i)
  <2>. HIDE DEF S, Op
  <2>. QED  OBVIOUS
<1>6. AfterMembers(node) = iter[DOMAIN members]
  BY DEF AfterMembers, FoldLeft, MapThenFoldSet
<1>7. \A s \in SUBSET (1..n) : s # {} => Max(s) \in 1..n
  BY <1>2, MaxOfIndices
<1>8. \A s : s \in SUBSET (1..n) => s \ {Max(s)} \in SUBSET (1..n)
  OBVIOUS
<1>. HIDE DEF base, S, Op, step, n, members
<1>9. \E f : f = [s \in SUBSET DOMAIN members |-> FoldStep(f, s)]
  <2>1. PICK f : IsFold(f, n, base, step)
    BY <1>2, FoldExists
  <2>2. \A s \in SUBSET (1..n) :
          f[s] = IF s = {} THEN base ELSE step[<<f[s \ {Max(s)}], Max(s)>>]
    BY <2>1 DEF IsFold
  <2>3. \A s \in SUBSET (1..n) : f[s] \in S
    <3>1. f[{}] \in S
      BY <1>3, <2>2
    <3>2. ASSUME NEW s \in SUBSET (1..n), s # {}, f[s \ {Max(s)}] \in S PROVE f[s] \in S
      <4>1. f[s] = step[<<f[s \ {Max(s)}], Max(s)>>] /\ Max(s) \in 1..n
        BY <1>7, <2>2, <3>2
      <4>2. f[s] = Op(f[s \ {Max(s)}], Max(s))
        BY <1>5, <3>2, <4>1
      <4>. QED  BY <1>4, <3>2, <4>1, <4>2
    <3>. QED  BY <1>2, <3>1, <3>2, FoldInduct
  <2>4. \A s \in SUBSET (1..n) : f[s] = FoldStep(f, s)
    BY <1>5, <1>7, <1>8, <2>2, <2>3
  <2>5. f = [s \in SUBSET (1..n) |-> f[s]]
    BY <2>1 DEF IsFold
  <2>. HIDE DEF FoldStep
  <2>6. f = [s \in SUBSET DOMAIN members |-> FoldStep(f, s)]
    BY <1>2, <2>4, <2>5
  <2>. QED  BY <2>6
<1>10. iter = [s \in SUBSET DOMAIN members |-> FoldStep(iter, s)]
  <2>. HIDE DEF FoldStep
  <2>. QED  BY <1>9
<1>. HIDE DEF iter
<1>11. \A s \in SUBSET (1..n) : iter[s] = FoldStep(iter, s)
  <2>. HIDE DEF FoldStep
  <2>. QED  BY <1>2, <1>10
<1>12. \A s \in SUBSET (1..n) : iter[s] \in S
  <2>1. iter[{}] \in S
    BY <1>3, <1>11
  <2>2. \A s \in SUBSET (1..n) : s # {} /\ iter[s \ {Max(s)}] \in S => iter[s] \in S
    BY <1>4, <1>7, <1>11
  <2>. QED  BY <1>2, <2>1, <2>2, FoldInduct
<1>13. AfterMembers(node) \in S
  BY <1>2, <1>6, <1>12
<1>. QED  BY <1>13 DEF S, Stops

-----------------------------------------------------------------------------
(* The scopes that the open handlers are in.                                *)

\* The scope that is current inside the first i handlers.
Inside(s, c, i) == IF i = Len(s) THEN c ELSE s[i + 1].scope

\* Handler i, f, works in scope n: one that it has opened, or its caller's.
Layer(f, i, n, ss) ==
  /\ n \in 1..Len(ss)
  /\ f.k = "fn" <=> i = 1
  /\ f.k \in {"fn", "block"} => ss[n].parent = f.scope
  /\ f.k = "fn" => f.ty # None /\ ss[n].expected_return = f.ty
  /\ f.k = "block" => ss[n].expected_return = None
  /\ f.k \notin {"fn", "block"} => n = f.scope

Nested(s, c, ss) ==
  /\ c \in 1..Len(ss)
  /\ ss[1].expected_return = None
  /\ Inside(s, c, 0) = 1
  /\ \A i \in 1..Len(s) : Layer(s[i], i, Inside(s, c, i), ss)

GoodAt(ss, c, tm, sw, stk, p) ==
  /\ Len(ss) <= p + 1
  /\ TypesOK(tm)
  /\ ScopesOK(ss, tm)
  /\ sw \in TypeInstance \cup {None}
  /\ stk \in Seq(Frame) /\ Len(stk) <= MaxDepth
  /\ Nested(stk, c, ss)

Good == GoodAt(scopes, current, types, switch_context, stack, pos)

\* The table has grown and its scopes hang together as before.
Grows(ss, tt) ==
  /\ Len(ss) <= Len(tt)
  /\ \A s \in 1..Len(ss) : /\ tt[s].parent = ss[s].parent
                           /\ tt[s].expected_return = ss[s].expected_return

\* A table that grows keeps the open handlers nested in it.
LEMMA NestedGrows ==
  ASSUME NEW s \in Seq(Frame), NEW c, NEW ss, NEW tm, NEW tm2, ScopesOK(ss, tm),
         Nested(s, c, ss), NEW tt, ScopesOK(tt, tm2), Grows(ss, tt)
  PROVE  Nested(s, c, tt)
<1>1. Len(ss) \in Nat /\ Len(tt) \in Nat /\ 1..Len(ss) \subseteq 1..Len(tt) /\ 1 \in 1..Len(ss)
  <2>1. Len(ss) \in Nat /\ Len(tt) \in Nat
    BY DEF ScopesOK
  <2>. QED  BY <2>1 DEF Grows, Nested
<1>2. \A f, i, n : Layer(f, i, n, ss) => Layer(f, i, n, tt)
  BY <1>1 DEF Layer, Grows
<1>. QED  BY <1>1, <1>2 DEF Nested, Grows

\* Only the kind, the scope and the type of a frame matter.
LEMMA NestedSame ==
  ASSUME NEW s \in Seq(Frame), NEW t \in Seq(Frame), Len(t) = Len(s),
         \A i \in 1..Len(s) : t[i].k = s[i].k /\ t[i].scope = s[i].scope /\ t[i].ty = s[i].ty,
         NEW c, NEW ss, Nested(s, c, ss)
  PROVE  Nested(t, c, ss)
<1>1. Len(s) \in Nat
  OBVIOUS
<1>2. \A i \in 0..Len(s) : Inside(t, c, i) = Inside(s, c, i)
  BY <1>1 DEF Inside
<1>3. \A i \in 1..Len(s) : \A n : Layer(s[i], i, n, ss) => Layer(t[i], i, n, ss)
  BY DEF Layer
<1>4. 0 \in 0..Len(s) /\ \A i \in 1..Len(s) : i \in 0..Len(s)
  BY <1>1
<1>. QED  BY <1>2, <1>3, <1>4 DEF Nested

\* A handler that opens one scope.
LEMMA PushNested ==
  ASSUME NEW s \in Seq(Frame), NEW c, NEW ss, Nested(s, c, ss),
         NEW f \in Frame, f.scope = c, NEW c2, Layer(f, Len(s) + 1, c2, ss)
  PROVE  Nested(Append(s, f), c2, ss)
<1>. DEFINE t == Append(s, f)
            n == Len(s)
<1>1. /\ n \in Nat /\ Len(t) = n + 1 /\ t[n + 1] = f
      /\ \A i \in 1..n : t[i] = s[i]
  OBVIOUS
<1>. HIDE DEF t
<1>2. \A i \in 0..n : Inside(t, c2, i) = Inside(s, c, i)
  <2>. TAKE i \in 0..n
  <2>1. Inside(t, c2, i) = t[i + 1].scope
    BY <1>1 DEF Inside
  <2>2. CASE i = n
    BY <2>1, <2>2, <1>1 DEF Inside
  <2>3. CASE i # n
    <3>1. i + 1 \in 1..n
      BY <2>3, <1>1
    <3>. QED  BY <2>1, <2>3, <3>1, <1>1 DEF Inside
  <2>. QED  BY <2>2, <2>3
<1>3. Inside(t, c2, n + 1) = c2
  BY <1>1 DEF Inside
<1>4. ASSUME NEW i \in 1..n + 1
      PROVE  Layer(t[i], i, Inside(t, c2, i), ss)
  <2>1. CASE i = n + 1
    BY <2>1, <1>1, <1>3
  <2>2. CASE i # n + 1
    <3>1. i \in 1..n /\ i \in 0..n
      BY <2>2, <1>1
    <3>2. Layer(s[i], i, Inside(s, c, i), ss)
      BY <3>1 DEF Nested
    <3>. QED  BY <3>1, <3>2, <1>1, <1>2
  <2>. QED  BY <2>1, <2>2
<1>5. Inside(t, c2, 0) = 1
  <2>1. 0 \in 0..n
    BY <1>1
  <2>. QED  BY <2>1, <1>2 DEF Nested
<1>6. c2 \in 1..Len(ss) /\ ss[1].expected_return = None
  BY DEF Layer, Nested
<1>7. Nested(t, c2, ss)
  BY <1>1, <1>4, <1>5, <1>6 DEF Nested
<1>. QED  BY <1>7 DEF t

\* A handler that ends hands its parent the scope it found.
LEMMA PopNested ==
  ASSUME NEW s \in Seq(Frame), Len(s) > 0, NEW c, NEW ss, Len(ss) \in Nat, Nested(s, c, ss)
  PROVE  Nested(SubSeq(s, 1, Len(s) - 1), s[Len(s)].scope, ss)
<1>. DEFINE t == SubSeq(s, 1, Len(s) - 1)
            n == Len(s)
            c2 == s[n].scope
<1>1. /\ t \in Seq(Frame) /\ Len(t) = n - 1 /\ n \in Nat
      /\ \A i \in 1..n - 1 : t[i] = s[i]
  BY PopShape
<1>. HIDE DEF t
<1>2. \A i \in 0..n - 1 : Inside(t, c2, i) = Inside(s, c, i)
  <2>. TAKE i \in 0..n - 1
  <2>1. Inside(s, c, i) = s[i + 1].scope
    BY <1>1 DEF Inside
  <2>2. CASE i = n - 1
    BY <2>1, <2>2, <1>1 DEF Inside
  <2>3. CASE i # n - 1
    <3>1. i + 1 \in 1..n - 1
      BY <2>3, <1>1
    <3>. QED  BY <2>1, <2>3, <3>1, <1>1 DEF Inside
  <2>. QED  BY <2>2, <2>3
<1>3. ASSUME NEW i \in 1..n - 1
      PROVE  Layer(t[i], i, Inside(t, c2, i), ss)
  <2>1. i \in 0..n - 1 /\ i \in 1..n
    BY <1>1
  <2>2. Layer(s[i], i, Inside(s, c, i), ss)
    BY <2>1 DEF Nested
  <2>. QED  BY <2>1, <2>2, <1>1, <1>2
<1>4. Inside(t, c2, 0) = 1
  <2>1. 0 \in 0..n - 1
    BY <1>1
  <2>. QED  BY <2>1, <1>2 DEF Nested
<1>5. c2 \in 1..Len(ss)
  <2>1. c2 = Inside(t, c2, n - 1)
    BY <1>1 DEF Inside
  <2>2. CASE n = 1
    BY <2>1, <2>2, <1>4 DEF Nested
  <2>3. CASE n # 1
    <3>1. n - 1 \in 1..n - 1
      BY <2>3, <1>1
    <3>. QED  BY <2>1, <3>1, <1>3 DEF Layer
  <2>. QED  BY <2>2, <2>3
<1>6. Nested(t, c2, ss)
  BY <1>1, <1>3, <1>4, <1>5 DEF Nested
<1>. QED  BY <1>6 DEF t

\* A handler that may begin a child.
MayBegin == stack = <<>> \/ Top.k \in ListKinds \/ Top.kids <= 1

\* Counting the child that is met leaves the nesting as it is.
LEMMA BegunNested ==
  ASSUME Good, MayBegin
  PROVE  Begun \in Seq(Frame) /\ Len(Begun) = Len(stack) /\ Nested(Begun, current, scopes)
<1>0. stack \in Seq(Frame) /\ Nested(stack, current, scopes)
  BY DEF Good, GoodAt
<1>1. CASE stack = <<>> \/ Top.k \in ListKinds
  BY <1>0, <1>1 DEF Begun
<1>2. CASE ~(stack = <<>> \/ Top.k \in ListKinds)
  <2>. DEFINE f == [Top EXCEPT !.kids = @ + 1]
              n == Len(stack)
  <2>1. n \in Nat /\ n > 0
    BY <1>0, <1>2
  <2>2. Top \in Frame
    BY <1>0, <2>1 DEF Top
  <2>3. Top.kids \in 0..1
    BY <1>2, <2>2 DEF MayBegin, Frame
  <2>4. f \in Frame /\ f.k = Top.k /\ f.scope = Top.scope /\ f.ty = Top.ty
    BY <2>2, <2>3 DEF Frame
  <2>5. /\ Below \in Seq(Frame) /\ Len(Below) = n - 1
        /\ \A i \in 1..n - 1 : Below[i] = stack[i]
    BY <1>0, <2>1, PopShape DEF Below
  <2>6. Begun = Append(Below, f)
    BY <1>2 DEF Begun
  <2>. HIDE DEF f
  <2>7. /\ Begun \in Seq(Frame) /\ Len(Begun) = n
        /\ Begun[n] = f /\ \A i \in 1..n - 1 : Begun[i] = stack[i]
    BY <2>1, <2>4, <2>5, <2>6
  <2>8. \A i \in 1..n : /\ Begun[i].k = stack[i].k /\ Begun[i].scope = stack[i].scope
                        /\ Begun[i].ty = stack[i].ty
    <3>. TAKE i \in 1..n
    <3>1. i \in 1..n - 1 \/ i = n
      BY <2>1
    <3>. QED  BY <3>1, <2>4, <2>7 DEF Top
  <2>. QED  BY <1>0, <2>7, <2>8, NestedSame
<1>. QED  BY <1>1, <1>2

-----------------------------------------------------------------------------
(* Steps.                                                                   *)

\* A table with the same chain is nested the same way.
LEMMA SameChainGrows ==
  ASSUME NEW ss, NEW tm, ScopesOK(ss, tm), NEW tt, SameChain(ss, tt)
  PROVE  Grows(ss, tt)
BY DEF ScopesOK, SameChain, Grows

\* What Good says, conjunct by conjunct.
LEMMA GoodFacts ==
  ASSUME Good
  PROVE  /\ ScopesOK(scopes, types) /\ TypesOK(types)
         /\ current \in 1..Len(scopes) /\ Len(scopes) \in Nat /\ Len(scopes) <= pos + 1
         /\ switch_context \in TypeInstance \cup {None}
         /\ stack \in Seq(Frame) /\ Len(stack) \in Nat /\ Len(stack) <= MaxDepth
         /\ Nested(stack, current, scopes)
BY DEF Good, GoodAt, Nested, ScopesOK

\* A step that leaves the five structures alone.
LEMMA StayGood ==
  ASSUME Good, UNCHANGED <<scopes, current, types, switch_context, stack>>,
         pos \in Nat, pos' \in {pos, pos + 1}
  PROVE  Good'
<1>1. Len(scopes) \in Nat /\ Len(scopes) <= pos + 1 /\ pos <= pos'
  BY GoodFacts
<1>2. Len(scopes) <= pos' + 1
  BY <1>1
<1>. QED  BY <1>2 DEF Good, GoodAt

\* A statement leaves its scopes, and the handlers stk are open.
LEMMA ContinueGood ==
  ASSUME Good, pos \in Nat, pos' = pos + 1, NEW r, Leaves(scopes, types, r),
         NEW stk \in Seq(Frame), Len(stk) <= MaxDepth, Nested(stk, current, scopes),
         Continue(r, stk)
  PROVE  Good'
<1>1. CASE Stop(r)
  BY <1>1, StayGood DEF Stop
<1>2. CASE ~Stop(r)
  <2>1. /\ scopes' = r /\ stack' = stk /\ ScopesOK(r, types) /\ SameChain(scopes, r)
        /\ UNCHANGED <<current, types, switch_context>>
    BY <1>2 DEF Continue, Leaves
  <2>2. Nested(stk, current, r)
    BY <2>1, GoodFacts, SameChainGrows, NestedGrows
  <2>3. Len(scopes') <= pos' + 1
    <3>1. Len(r) = Len(scopes) /\ Len(scopes) \in Nat /\ Len(scopes) <= pos + 1
      BY <2>1, GoodFacts DEF SameChain
    <3>. QED  BY <2>1, <3>1
  <2>. QED  BY <2>1, <2>2, <2>3, GoodFacts DEF Good, GoodAt
<1>. QED  BY <1>1, <1>2

\* A handler of a compound statement is entered and opens no scope.
LEMMA OpenedNested ==
  ASSUME Good, MayBegin, stack # <<>>, Len(stack) < MaxDepth,
         NEW f \in Frame, f.scope = current, f.k \notin {"fn", "block"}
  PROVE  /\ Append(Begun, f) \in Seq(Frame)
         /\ Len(Append(Begun, f)) <= MaxDepth
         /\ Nested(Append(Begun, f), current, scopes)
<1>1. Begun \in Seq(Frame) /\ Len(Begun) = Len(stack) /\ Nested(Begun, current, scopes)
  BY BegunNested
<1>2. Len(stack) \in Nat /\ Len(stack) + 1 # 1 /\ Len(stack) + 1 <= MaxDepth
  BY GoodFacts, BoundsAssumption
<1>3. Layer(f, Len(Begun) + 1, current, scopes)
  BY <1>1, <1>2, GoodFacts DEF Layer
<1>4. Nested(Append(Begun, f), current, scopes)
  BY <1>1, <1>3, PushNested
<1>. QED  BY <1>1, <1>2, <1>4

\* A handler with children, the action: it stops, or it opens a frame.
LEMMA BeginGood ==
  ASSUME Good, MayBegin, stack # <<>>, pos \in Nat,
         NEW f \in Frame, f.scope = current, f.k \notin {"fn", "block"},
         NEW r, Leaves(scopes, types, r), Begin(f, r)
  PROVE  Good'
BY OpenedNested, ContinueGood DEF Begin, Visiting

\* What a handler that is entered records on the stack.
LEMMA FrameShape ==
  ASSUME Good, NEW k \in ListKinds \cup SingleKinds
  PROVE  /\ Enter(k) \in Frame /\ Enter(k).scope = current /\ Enter(k).k = k
         /\ \A d \in Seq(TypeInstance) \cup {None} :
              /\ [Enter(k) EXCEPT !.disc = d] \in Frame
              /\ [Enter(k) EXCEPT !.disc = d].scope = current
              /\ [Enter(k) EXCEPT !.disc = d].k = k
         /\ \A t \in TypeInstance :
              /\ [Enter(k) EXCEPT !.ty = t] \in Frame
              /\ [Enter(k) EXCEPT !.ty = t].scope = current
              /\ [Enter(k) EXCEPT !.ty = t].k = k
              /\ [Enter(k) EXCEPT !.ty = t].ty = t
<1>1. current \in Nat /\ switch_context \in TypeInstance \cup {None}
  BY GoodFacts
<1>. QED  BY <1>1 DEF Enter, Frame

\* Where a statement or a single child is expected, a handler may begin.
LEMMA MayBeginAt ==
  /\ StmtExpected => MayBegin /\ stack # <<>>
  /\ \A i \in {0, 1} : stack # <<>> /\ Top.kids = i => MayBegin
BY DEF StmtExpected, MayBegin

\* Doing nothing leaves a sound table...
LEMMA SameLeaves == \A ss, tm : ScopesOK(ss, tm) => Leaves(ss, tm, ss)
BY SameChainRefl DEF Leaves

\* ... and so does an error, which stops the walk.
LEMMA FailedLeaves == \A ss, tm : Leaves(ss, tm, Failed)
BY DEF Leaves, Stops

\* One step of each handler, from here on.
LEMMA SimpleGood ==
  ASSUME Good, pos \in Nat, NEW node \in SimpleNodes, Simple(node)
  PROVE  Good'
<1>1. Leaves(scopes, types, AfterSimple(scopes, node))
  BY StatementsAssumption, GoodFacts, SimpleLeaves
<1>2. Begun \in Seq(Frame) /\ Len(Begun) = Len(stack) /\ Nested(Begun, current, scopes)
  BY MayBeginAt, BegunNested DEF Simple
<1>. QED  BY <1>1, <1>2, GoodFacts, ContinueGood DEF Simple, Visiting

\* sema_block.
LEMMA BlockGood ==
  ASSUME Good, pos \in Nat, pos' < 100, Block
  PROVE  Good'
<1>. DEFINE f == Enter("block")
            tt == Table!PushScope(scopes, current)
            n == Len(scopes) + 1
<1>1. /\ scopes' = tt /\ current' = n /\ stack' = Append(Begun, f) /\ pos' = pos + 1
      /\ UNCHANGED <<types, switch_context>> /\ Len(stack) < MaxDepth
      /\ MayBegin /\ stack # <<>>
  BY MayBeginAt DEF Block, Visiting
<1>2. Len(scopes) \in Nat /\ Len(scopes) < 100 /\ n <= pos' + 1
  BY <1>1, GoodFacts
<1>3. f \in Frame /\ f.scope = current /\ f.k = "block"
  BY FrameShape DEF ListKinds
<1>4. /\ ScopesOK(tt, types) /\ Len(tt) = n
      /\ \A s \in 1..Len(scopes) : tt[s] = scopes[s]
      /\ tt[n].parent = current /\ tt[n].expected_return = None
  BY <1>2, GoodFacts, PushLeaves
<1>5. Begun \in Seq(Frame) /\ Len(Begun) = Len(stack) /\ Nested(Begun, current, scopes)
  BY <1>1, BegunNested
<1>. HIDE DEF f, tt
<1>6. Grows(scopes, tt)
  BY <1>2, <1>4 DEF Grows
<1>7. Nested(Begun, current, tt)
  BY <1>4, <1>5, <1>6, GoodFacts, NestedGrows
<1>8. Len(stack) \in Nat /\ Len(stack) + 1 # 1 /\ Len(stack) + 1 <= MaxDepth
  BY <1>1, GoodFacts, BoundsAssumption
<1>9. Layer(f, Len(Begun) + 1, n, tt)
  <2>1. n \in 1..Len(tt)
    BY <1>2, <1>4
  <2>. QED  BY <1>3, <1>4, <1>5, <1>8, <2>1 DEF Layer
<1>10. Nested(Append(Begun, f), n, tt)
  BY <1>3, <1>5, <1>7, <1>9, PushNested
<1>11. Append(Begun, f) \in Seq(Frame) /\ Len(Append(Begun, f)) <= MaxDepth
  BY <1>3, <1>5, <1>8
<1>. QED  BY <1>1, <1>2, <1>4, <1>10, <1>11, GoodFacts DEF Good, GoodAt

\* sema_if.
LEMMA IfGood ==
  ASSUME Good, pos \in Nat, NEW e \in CondExprs, If(e)
  PROVE  Good'
<1>. DEFINE f == [Enter("if") EXCEPT !.disc = Discriminations(e)]
            r == IfOn(ExprType(scopes, e))
<1>1. Discriminations(e) \in Seq(TypeInstance) \cup {None}
  BY StatementsAssumption DEF Discriminations, IsExpr
<1>2. f \in Frame /\ f.scope = current /\ f.k = "if"
  BY <1>1, FrameShape DEF SingleKinds
<1>3. Leaves(scopes, types, r)
  BY GoodFacts, SameLeaves, FailedLeaves DEF IfOn, Leaves
<1>4. Begin(f, r) /\ MayBegin /\ stack # <<>>
  BY MayBeginAt DEF If
<1>. HIDE DEF f, r
<1>. QED  BY <1>2, <1>3, <1>4, BeginGood

\* sema_while.
LEMMA WhileGood ==
  ASSUME Good, pos \in Nat, NEW e \in CondExprs, While(e)
  PROVE  Good'
<1>1. Enter("while") \in Frame /\ Enter("while").scope = current /\ Enter("while").k = "while"
  BY FrameShape DEF SingleKinds
<1>2. Leaves(scopes, types, AfterExpr(scopes, e))
  BY GoodFacts, ExprLeaves
<1>3. Begin(Enter("while"), AfterExpr(scopes, e)) /\ MayBegin /\ stack # <<>>
  BY MayBeginAt DEF While
<1>. QED  BY <1>1, <1>2, <1>3, BeginGood

\* An arm of a case, its parameters bound from the discriminator.
LEMMA ArrowGood ==
  ASSUME Good, pos \in Nat, NEW params \in ArrowParams, Arrow(params)
  PROVE  Good'
<1>. DEFINE r == AfterArrowParams(params, IF Top.disc = None THEN <<>> ELSE Top.disc)
<1>1. Enter("arrow") \in Frame /\ Enter("arrow").scope = current /\ Enter("arrow").k = "arrow"
  BY FrameShape DEF ListKinds
<1>2. Leaves(scopes, types, r)
  BY StatementsAssumption, GoodFacts, ArrowLeaves
<1>3. Begin(Enter("arrow"), r) /\ MayBegin /\ stack # <<>>
  BY MayBeginAt DEF Arrow
<1>. HIDE DEF r
<1>. QED  BY <1>1, <1>2, <1>3, BeginGood

\* The else branch.
LEMMA ElseGood ==
  ASSUME Good, pos \in Nat, Else
  PROVE  Good'
<1>1. Enter("else") \in Frame /\ Enter("else").scope = current /\ Enter("else").k = "else"
  BY FrameShape DEF SingleKinds
<1>2. Leaves(scopes, types, scopes)
  BY GoodFacts, SameLeaves
<1>3. Begin(Enter("else"), scopes) /\ MayBegin /\ stack # <<>>
  BY MayBeginAt DEF Else
<1>. QED  BY <1>1, <1>2, <1>3, BeginGood

\* sema_for.
LEMMA ForGood ==
  ASSUME Good, pos \in Nat, NEW node \in ForNodes, For(node)
  PROVE  Good'
<1>1. Enter("for") \in Frame /\ Enter("for").scope = current /\ Enter("for").k = "for"
  BY FrameShape DEF SingleKinds
<1>2. Leaves(scopes, types, AfterForHead(node))
  BY StatementsAssumption, GoodFacts, ForLeaves
<1>3. Begin(Enter("for"), AfterForHead(node)) /\ MayBegin /\ stack # <<>>
  BY MayBeginAt DEF For
<1>. QED  BY <1>1, <1>2, <1>3, BeginGood

\* sema_switch.
LEMMA SwitchGood ==
  ASSUME Good, pos \in Nat, NEW e \in SwitchExprs, Switch(e)
  PROVE  Good'
<1>. DEFINE t == ExprType(scopes, e)
            f == [Enter("switch") EXCEPT !.ty = t]
<1>1. SwitchOn(t) /\ MayBegin /\ stack # <<>> /\ Len(stack) < MaxDepth /\ pos' = pos + 1
  BY MayBeginAt DEF Switch, Visiting
<1>2. Stops(t) \/ Known(types, t)
  BY StatementsAssumption, GoodFacts, ExprKnown
<1>. HIDE DEF t
<1>3. CASE \E r : Stop(r)
  BY <1>1, <1>3, StayGood DEF Stop
<1>4. CASE ~\E r : Stop(r)
  <2>1. /\ ~Stops(t) /\ switch_context' = t /\ stack' = Append(Begun, f)
        /\ UNCHANGED <<scopes, current, types>>
    BY <1>1, <1>4 DEF SwitchOn
  <2>2. t \in TypeInstance
    BY <1>2, <2>1 DEF Known
  <2>3. f \in Frame /\ f.scope = current /\ f.k = "switch"
    BY <2>2, FrameShape DEF ListKinds
  <2>. HIDE DEF f
  <2>4. /\ Append(Begun, f) \in Seq(Frame)
        /\ Len(Append(Begun, f)) <= MaxDepth
        /\ Nested(Append(Begun, f), current, scopes)
    BY <1>1, <2>3, OpenedNested
  <2>5. Len(scopes) <= pos' + 1
    BY <1>1, GoodFacts
  <2>. QED  BY <2>1, <2>2, <2>4, <2>5, GoodFacts DEF Good, GoodAt
<1>. QED  BY <1>3, <1>4

\* sema_case.
LEMMA CaseGood ==
  ASSUME Good, pos \in Nat, NEW node \in CaseNodes, Case(node)
  PROVE  Good'
<1>1. MayBegin /\ stack # <<>>
  BY MayBeginAt DEF Case
<1>2. /\ Enter("case") \in Frame /\ Enter("case").scope = current /\ Enter("case").k = "case"
      /\ \A t \in TypeInstance, k \in {"case", "case_arrow"} :
           /\ [Enter(k) EXCEPT !.ty = t] \in Frame
           /\ [Enter(k) EXCEPT !.ty = t].scope = current
           /\ [Enter(k) EXCEPT !.ty = t].k = k
  BY FrameShape DEF ListKinds, SingleKinds
<1>3. Leaves(scopes, types, scopes) /\ Leaves(scopes, types, Failed)
  BY GoodFacts, SameLeaves, FailedLeaves
<1>4. CASE EnumCase(node)
  <2>1. CASE node.label.k # "id" \/ ~HasType(scopes, node.label.n)
    <3>1. Begin(Enter("case"), Failed)
      BY <1>4, <2>1 DEF EnumCase
    <3>. QED  BY <1>1, <1>2, <1>3, <3>1, BeginGood
  <2>2. CASE ~(node.label.k # "id" \/ ~HasType(scopes, node.label.n))
    <3>. DEFINE type == OfType(node.label.n)
                f == [Enter("case") EXCEPT !.ty = type]
                g == [Enter("case_arrow") EXCEPT !.ty = type]
                r == IF Len(node.params) # 1 THEN Failed
                     ELSE AfterArrowParams(node.params, <<type>>)
    <3>1. node.label.n \in TypeNames
      BY <2>2, GoodFacts, HasTypeKnown
    <3>2. type \in TypeInstance
      BY <3>1 DEF OfType, TypeInstance
    <3>3. Begin(f, scopes) \/ Begin(g, r)
      BY <1>4, <2>2 DEF EnumCase
    <3>4. Leaves(scopes, types, r)
      BY <1>3, StatementsAssumption, GoodFacts, ArrowLeaves
    <3>. HIDE DEF type, r
    <3>5. f \in Frame /\ f.scope = current /\ f.k = "case"
      BY <1>2, <3>2
    <3>6. g \in Frame /\ g.scope = current /\ g.k = "case_arrow"
      BY <1>2, <3>2
    <3>. HIDE DEF f, g
    <3>7. CASE Begin(f, scopes)
      BY <1>1, <1>3, <3>5, <3>7, BeginGood
    <3>8. CASE Begin(g, r)
      BY <1>1, <3>4, <3>6, <3>8, BeginGood
    <3>. QED  BY <3>3, <3>7, <3>8
  <2>. QED  BY <2>1, <2>2
<1>5. CASE ~EnumCase(node)
  <2>1. \E r \in {Failed, scopes} : Begin(Enter("case"), r)
    BY <1>5 DEF Case
  <2>. QED  BY <1>1, <1>2, <1>3, <2>1, BeginGood
<1>. QED  BY <1>4, <1>5

\* With no handler open the current scope is the root.
LEMMA TopLevel ==
  ASSUME Good, stack = <<>>
  PROVE  current = 1 /\ 1 \in 1..Len(scopes) /\ scopes[1].expected_return = None
BY GoodFacts DEF Nested, Inside

\* sema_fn.
LEMMA FnGood ==
  ASSUME Good, pos \in Nat, pos' < 100, NEW node \in FnNodes, Fn(node)
  PROVE  Good'
<1>. DEFINE tm == TypesAfterProto(node)
            ret == tm[node.n].ret
            c == Len(scopes) + 1
            s1 == ScopesAfterProto(node)
            s2 == Table!PushScope(s1, current)
            s3 == WithParams(s2, c, node.params)
            s4 == Table!SetExpectedReturn(s3, c, ret)
            f == [Enter("fn") EXCEPT !.ty = ret]
<1>1. pos' = pos + 1 /\ stack = <<>>
  BY DEF Fn, Visiting
<1>2. CASE \E r : Stop(r)
  BY <1>1, <1>2, StayGood DEF Stop
<1>3. CASE ~\E r : Stop(r)
  <2>1. /\ ~ProtoFails(node) /\ ret # None
        /\ types' = tm /\ scopes' = s4 /\ current' = c /\ stack' = <<f>>
        /\ switch_context' = switch_context
    BY <1>3 DEF Fn, Body
  <2>2. /\ TypesOK(tm) /\ Keeps(types, tm) /\ tm[node.n] # None
        /\ node.params \in Seq(ParamDecls)
        /\ \A i \in 1..Len(node.params) : Bindable(tm, node.params[i].decl)
        /\ node.n \in Names \cap TypeNames /\ ~IsInferType(OfType(node.n))
    BY <2>1, GoodFacts, ProtoTypes
  <2>. HIDE DEF tm
  <2>3. ret \in TypeInstance
    <3>1. tm[node.n] \in Type
      BY <2>2 DEF TypesOK
    <3>. QED  BY <2>1, <3>1 DEF Type
  <2>. HIDE DEF ret
  <2>4. ScopesOK(s1, tm) /\ SameChain(scopes, s1)
    BY <2>2, GoodFacts, ProtoLeaves
  <2>. HIDE DEF s1
  <2>5. Len(scopes) \in Nat /\ Len(s1) = Len(scopes) /\ Len(s1) < 100 /\ current \in 1..Len(s1)
        /\ c = Len(s1) + 1
    BY <1>1, <2>4, GoodFacts DEF SameChain
  <2>6. /\ ScopesOK(s2, tm) /\ Len(s2) = c
        /\ \A s \in 1..Len(s1) : s2[s] = s1[s]
        /\ s2[c].parent = current /\ s2[c].expected_return = None
    BY <2>4, <2>5, PushLeaves
  <2>. HIDE DEF s2
  <2>7. c \in 1..Len(s2)
    BY <2>5, <2>6
  <2>8. ScopesOK(s3, tm) /\ SameChain(s2, s3)
    <3>. HIDE DEF c
    <3>. QED  BY <2>2, <2>6, <2>7, ParamsLeave DEF AllBindable
  <2>. HIDE DEF s3
  <2>9. Len(s3) = c /\ c \in 1..Len(s3)
    BY <2>6, <2>7, <2>8 DEF SameChain
  <2>10. /\ ScopesOK(s4, tm) /\ Len(s4) = Len(s3)
         /\ \A s \in 1..Len(s3) : s # c => s4[s] = s3[s]
         /\ s4[c].parent = s3[c].parent
         /\ s4[c].expected_return = ret
    <3>. HIDE DEF c
    <3>. QED  BY <2>3, <2>8, <2>9, ReturnLeaves
  <2>. HIDE DEF s4
  <2>11. s4[c].parent = current
    BY <2>6, <2>7, <2>8, <2>10 DEF SameChain
  <2>12. current = 1 /\ 1 \in 1..Len(scopes) /\ scopes[1].expected_return = None
    BY <1>1, TopLevel
  <2>13. s4[1].expected_return = None
    <3>1. s1[1].expected_return = None /\ 1 \in 1..Len(s1)
      BY <2>4, <2>5, <2>12 DEF SameChain
    <3>2. s2[1].expected_return = None /\ 1 \in 1..Len(s2)
      BY <2>5, <2>6, <3>1
    <3>3. s3[1].expected_return = None /\ 1 \in 1..Len(s3)
      BY <2>8, <3>2 DEF SameChain
    <3>4. 1 # c
      BY <2>5, <2>12
    <3>. QED  BY <2>10, <3>3, <3>4
  <2>14. f \in Frame /\ f.scope = current /\ f.k = "fn" /\ f.ty = ret
    BY <2>3, FrameShape DEF ListKinds
  <2>. HIDE DEF f
  <2>15. <<f>> \in Seq(Frame) /\ Len(<<f>>) = 1 /\ <<f>>[1] = f
    BY <2>14
  <2>16. Layer(f, 1, c, s4)
    BY <2>1, <2>9, <2>10, <2>11, <2>14 DEF Layer
  <2>17. Inside(<<f>>, c, 0) = 1 /\ Inside(<<f>>, c, 1) = c
    BY <2>12, <2>14, <2>15 DEF Inside
  <2>18. Nested(<<f>>, c, s4)
    <3>1. c \in 1..Len(s4)
      BY <2>9, <2>10
    <3>2. \A i \in 1..Len(<<f>>) : i = 1
      BY <2>15
    <3>. HIDE DEF c
    <3>. QED  BY <2>13, <2>15, <2>16, <2>17, <3>1, <3>2 DEF Nested
  <2>19. Len(scopes') <= pos' + 1
    <3>1. Len(s4) = Len(scopes) + 1
      BY <2>9, <2>10
    <3>. QED  BY <1>1, <2>1, <3>1, GoodFacts
  <2>20. 1 <= MaxDepth
    BY BoundsAssumption
  <2>. QED  BY <2>1, <2>2, <2>10, <2>15, <2>18, <2>19, <2>20, GoodFacts DEF Good, GoodAt
<1>. QED  BY <1>2, <1>3

\* A declaration that opens no handler.
LEMMA DeclarationGood ==
  ASSUME Good, pos \in Nat, pos' = pos + 1, UNCHANGED <<current, switch_context, stack>>,
         TypesOK(types'), ScopesOK(scopes', types'), SameChain(scopes, scopes')
  PROVE  Good'
<1>1. Nested(stack, current, scopes')
  BY GoodFacts, SameChainGrows, NestedGrows
<1>2. Len(scopes') <= pos' + 1
  <2>1. Len(scopes') = Len(scopes)
    BY DEF SameChain
  <2>. QED  BY <2>1, GoodFacts
<1>. QED  BY <1>1, <1>2, GoodFacts DEF Good, GoodAt

\* sema_extern_fn.
LEMMA ExternGood ==
  ASSUME Good, pos \in Nat, NEW node \in ExternNodes, ExternFn(node)
  PROVE  Good'
<1>1. pos' = pos + 1
  BY DEF ExternFn, Visiting
<1>2. CASE \E r : Stop(r)
  BY <1>1, <1>2, StayGood DEF Stop
<1>3. CASE ~\E r : Stop(r)
  <2>. DEFINE tm == TypesAfterProto(node)
  <2>1. /\ ~ProtoFails(node)
        /\ types' = tm /\ scopes' = ScopesAfterProto(node)
        /\ UNCHANGED <<current, switch_context, stack>>
    BY <1>3 DEF ExternFn
  <2>2. /\ TypesOK(tm) /\ Keeps(types, tm) /\ tm[node.n] # None
        /\ node.n \in Names \cap TypeNames /\ ~IsInferType(OfType(node.n))
    BY <2>1, GoodFacts, ProtoTypes
  <2>. HIDE DEF tm
  <2>3. ScopesOK(ScopesAfterProto(node), tm) /\ SameChain(scopes, ScopesAfterProto(node))
    BY <2>2, GoodFacts, ProtoLeaves
  <2>. QED  BY <1>1, <2>1, <2>2, <2>3, DeclarationGood
<1>. QED  BY <1>2, <1>3

\* sema_struct and sema_union.
LEMMA StructGood ==
  ASSUME Good, pos \in Nat, NEW node \in StructNodes, StructOrUnion(node)
  PROVE  Good' /\ Keeps(types, types')
<1>1. pos' = pos + 1
  BY DEF StructOrUnion, Visiting
<1>2. CASE \E r : Stop(r)
  BY <1>1, <1>2, StayGood DEF Stop, Keeps
<1>3. CASE ~\E r : Stop(r)
  <2>. DEFINE type == PlainType(node.n, node.k)
              tm == DefineType(types, node.n, type)
  <2>1. /\ types' = tm /\ scopes' = Table!AddType(scopes, current, node.n)
        /\ UNCHANGED <<current, switch_context, stack>>
    BY <1>3 DEF StructOrUnion
  <2>2. node.n \in TypeNames /\ type \in Type /\ type.cls # "function"
    BY DeclarationsAssumption DEF PlainType, Type, Classes, TypeNames
  <2>. HIDE DEF type
  <2>3. TypesOK(tm) /\ Keeps(types, tm) /\ tm[node.n] # None
    BY <2>2, GoodFacts, DefineTypeKeeps
  <2>. HIDE DEF tm
  <2>4. ScopesOK(scopes, tm)
    BY <2>3, GoodFacts, StillKnown
  <2>5. /\ ScopesOK(Table!AddType(scopes, current, node.n), tm)
        /\ SameChain(scopes, Table!AddType(scopes, current, node.n))
    BY <2>2, <2>3, <2>4, GoodFacts, AddTypeLeaves
  <2>. QED  BY <1>1, <2>1, <2>3, <2>5, DeclarationGood
<1>. QED  BY <1>2, <1>3

\* sema_enum.
LEMMA EnumTypes ==
  ASSUME Good, NEW node \in EnumNodes, ~Stops(AfterMembers(node))
  PROVE  LET m == AfterMembers(node)
             tm == SetEnumMembers(m[1], node.n, MemberTypes(node))
         IN /\ TypesOK(tm) /\ KeepsBut(types, tm, node.n) /\ tm[node.n] # None
            /\ ScopesOK(m[2], tm) /\ SameChain(scopes, m[2]) /\ SameNames(scopes, m[2])
<1>. DEFINE m == AfterMembers(node)
            tm == SetEnumMembers(m[1], node.n, MemberTypes(node))
<1>1. /\ TypesOK(m[1]) /\ Keeps(types, m[1]) /\ m[1][node.n] # None
      /\ ScopesOK(m[2], m[1]) /\ SameChain(scopes, m[2]) /\ SameNames(scopes, m[2])
  BY GoodFacts, MembersLeave
<1>2. node.n \in TypeNames
  BY DeclarationsAssumption DEF TypeNames
<1>3. TypesOK(tm) /\ KeepsBut(m[1], tm, node.n)
  BY <1>1, <1>2, MemberTypesListed, MembersAreAdded
<1>. HIDE DEF m, tm
<1>4. KeepsBut(types, tm, node.n) /\ tm[node.n] # None
  BY <1>1, <1>2, <1>3 DEF Keeps, KeepsBut
<1>5. ScopesOK(m[2], tm)
  BY <1>1, <1>3, StillThere DEF KeepsBut
<1>. QED  BY <1>1, <1>3, <1>4, <1>5 DEF m, tm

LEMMA EnumGood ==
  ASSUME Good, pos \in Nat, NEW node \in EnumNodes, Enum(node)
  PROVE  Good' /\ (Keeps(types, types') \/ KeepsBut(types, types', node.n))
<1>. DEFINE m == AfterMembers(node)
            tm == SetEnumMembers(m[1], node.n, MemberTypes(node))
<1>1. pos' = pos + 1 /\ EnumOf(node, m)
  BY DEF Enum, Visiting
<1>2. CASE \E r : Stop(r)
  BY <1>1, <1>2, StayGood DEF Stop, Keeps
<1>3. CASE ~\E r : Stop(r)
  <2>1. /\ ~Stops(m)
        /\ types' = tm /\ scopes' = Table!AddType(m[2], current, node.n)
        /\ UNCHANGED <<current, switch_context, stack>>
    BY <1>1, <1>3 DEF EnumOf
  <2>2. /\ TypesOK(tm) /\ KeepsBut(types, tm, node.n) /\ tm[node.n] # None
        /\ ScopesOK(m[2], tm) /\ SameChain(scopes, m[2])
    BY <2>1, EnumTypes
  <2>. HIDE DEF m, tm
  <2>3. current \in 1..Len(m[2])
    BY <2>2, GoodFacts DEF SameChain
  <2>4. node.n \in TypeNames
    BY DeclarationsAssumption DEF TypeNames
  <2>5. /\ ScopesOK(Table!AddType(m[2], current, node.n), tm)
        /\ SameChain(m[2], Table!AddType(m[2], current, node.n))
    BY <2>2, <2>3, <2>4, AddTypeLeaves
  <2>6. SameChain(scopes, Table!AddType(m[2], current, node.n))
    BY <2>2, <2>5, SameChainTrans
  <2>. QED  BY <1>1, <2>1, <2>2, <2>5, <2>6, DeclarationGood
<1>. QED  BY <1>2, <1>3

\* The end of a handler.
LEMMA ExitGood ==
  ASSUME Good, pos \in Nat, Exit
  PROVE  /\ Good'
         /\ out' = "run" => stack # <<>> /\ stack' = Below /\ current' = Top.scope
<1>. DEFINE n == Len(stack)
<1>1. /\ pos' = pos /\ types' = types /\ stack # <<>>
  BY DEF Exit, Finished
<1>2. n \in Nat /\ n > 0 /\ n \in 1..n /\ Top = stack[n] /\ Top \in Frame
  <2>1. stack \in Seq(Frame)
    BY GoodFacts
  <2>2. n \in Nat /\ n > 0
    BY <1>1, <2>1
  <2>. QED  BY <2>1, <2>2 DEF Top
<1>3. Layer(Top, n, current, scopes)
  <2>1. Inside(stack, current, n) = current
    BY DEF Inside
  <2>. QED  BY <1>2, <2>1, GoodFacts DEF Nested
<1>4. CASE out' # "run"
  <2>1. UNCHANGED <<scopes, current, types, switch_context, stack>>
    BY <1>4 DEF Exit
  <2>. QED  BY <1>1, <1>4, <2>1, StayGood
<1>5. CASE out' = "run" /\ Top.k = "fn"
  <2>. DEFINE s1 == Table!SetExpectedReturn(scopes, current, None)
              s2 == Table!PopScope(s1, current)
  <2>1. scopes' = s2 /\ current' = scopes[current].parent /\ stack' = Below
        /\ switch_context' = switch_context
    BY <1>5 DEF Exit, Outer
  <2>2. /\ ScopesOK(s1, types) /\ Len(s1) = Len(scopes)
        /\ \A s \in 1..Len(scopes) : s # current => s1[s] = scopes[s]
        /\ s1[current].parent = scopes[current].parent
        /\ s1[current].expected_return = None
    <3>1. None \in TypeInstance \cup {None}
      OBVIOUS
    <3>2. ScopesOK(scopes, types) /\ current \in 1..Len(scopes)
      BY GoodFacts
    <3>. QED  BY <3>1, <3>2, ReturnLeaves
  <2>. HIDE DEF s1
  <2>3. ScopesOK(s2, types) /\ SameChain(s1, s2)
    BY <2>2, GoodFacts, PopLeaves
  <2>. HIDE DEF s2
  <2>4. n = 1 /\ scopes[current].parent = Top.scope
    BY <1>3, <1>5 DEF Layer
  <2>5. Top.scope = 1
    BY <1>2, <2>4, GoodFacts DEF Nested, Inside
  <2>6. Below = <<>>
    <3>1. stack \in Seq(Frame) /\ Len(stack) > 0
      BY <1>2, GoodFacts
    <3>2. Below \in Seq(Frame) /\ Len(Below) = n - 1
      BY <3>1, PopShape DEF Below
    <3>. QED  BY <2>4, <3>2
  <2>7. 1 \in 1..Len(scopes) /\ scopes[1].expected_return = None
    BY GoodFacts DEF Nested
  <2>8. 1 \in 1..Len(s2) /\ s2[1].expected_return = None
    BY <2>2, <2>3, <2>7 DEF SameChain
  <2>9. Nested(<<>>, 1, s2)
    BY <2>8 DEF Nested, Inside
  <2>10. Len(scopes') <= pos' + 1
    BY <1>1, <2>1, <2>2, <2>3, GoodFacts DEF SameChain
  <2>11. Below \in Seq(Frame) /\ Len(Below) <= MaxDepth
    BY <2>6, BoundsAssumption
  <2>12. GoodAt(s2, 1, types, switch_context, Below, pos')
    BY <2>1, <2>3, <2>6, <2>9, <2>10, <2>11, GoodFacts DEF GoodAt
  <2>13. current' = 1
    BY <2>1, <2>4, <2>5
  <2>. QED  BY <1>1, <2>1, <2>5, <2>12, <2>13 DEF Good
<1>6. CASE out' = "run" /\ Top.k # "fn"
  <2>1. /\ \/ scopes' = Table!PopScope(scopes, current) /\ current' = scopes[current].parent
              /\ Top.k = "block"
           \/ scopes' = scopes /\ current' = current /\ Top.k # "block"
        /\ stack' = Below
        /\ switch_context' \in {switch_context, Top.ctx}
    BY <1>6 DEF Exit, Outer, ContextRestored
  <2>2. current' = Top.scope
    BY <1>3, <1>6, <2>1 DEF Layer
  <2>3. ScopesOK(scopes', types) /\ SameChain(scopes, scopes')
    BY <2>1, GoodFacts, PopLeaves, SameChainRefl
  <2>4. Nested(stack, current, scopes')
    BY <2>3, GoodFacts, SameChainGrows, NestedGrows
  <2>5. Len(scopes') = Len(scopes) /\ Len(scopes') \in Nat /\ Len(scopes') <= pos' + 1
    BY <1>1, <2>3, GoodFacts DEF SameChain
  <2>6. stack \in Seq(Frame) /\ Len(stack) > 0 /\ Len(stack) <= MaxDepth
    BY <1>2, GoodFacts
  <2>7. Nested(Below, Top.scope, scopes')
    BY <2>4, <2>5, <2>6, PopNested DEF Below, Top
  <2>8. Below \in Seq(Frame) /\ Len(Below) <= MaxDepth
    <3>1. Below \in Seq(Frame) /\ Len(Below) = n - 1
      BY <2>6, PopShape DEF Below
    <3>. QED  BY <1>2, <2>6, <3>1, BoundsAssumption
  <2>9. switch_context' \in TypeInstance \cup {None}
    BY <1>2, <2>1, GoodFacts DEF Frame
  <2>. QED  BY <1>1, <2>1, <2>2, <2>3, <2>5, <2>7, <2>8, <2>9, GoodFacts DEF Good, GoodAt
<1>. QED  BY <1>1, <1>4, <1>5, <1>6

\* What the proof says of every walk: its bounds, and that it is good within the
\* reserve.
WalkInv ==
  /\ pos \in 0..MaxNodes /\ out \in {"run", "error", "abort"}
  /\ pos < 100 => Good

\* The constructor: a root scope, and in it the builtin types.
LEMMA InitWalk == Init => WalkInv
<1>. SUFFICES ASSUME Init PROVE WalkInv
  OBVIOUS
<1>1. /\ scopes = Table!InitialScopes /\ current = 1 /\ types = BuiltinMap
      /\ switch_context = None /\ stack = <<>> /\ pos = 0 /\ out = "run"
  BY DEF Init, Table!Root
<1>. DEFINE root == [Table!NewScope(Table!NoParent) EXCEPT !.types = BuiltinTypes]
<1>2. /\ root \in Table!Scope /\ root.parent = 0 /\ root.types = BuiltinTypes
      /\ root.expected_return = None /\ \A n \in Names : root.names[n] = None
  BY DEF Table!NewScope, Table!NoParent, Table!Scope, TypeNames
<1>3. scopes = <<root>>
  BY <1>1 DEF Table!InitialScopes
<1>. HIDE DEF root
<1>4. scopes \in Seq(Table!Scope) /\ Len(scopes) = 1 /\ scopes[1] = root
  BY <1>2, <1>3
<1>5. /\ types \in [TypeNames -> Type \cup {None}]
      /\ \A t \in TypeNames : types[t] # None => types[t] = PlainType(t, "primitive")
      /\ \A t \in BuiltinTypes : types[t] = PlainType(t, "primitive")
                                 /\ PlainType(t, "primitive") \in Type
  <2>1. \A t \in TypeNames : PlainType(t, "primitive") \in Type
    BY DEF PlainType, Type, Classes
  <2>2. BuiltinTypes \subseteq TypeNames
    BY DEF TypeNames
  <2>3. types = [t \in TypeNames |-> IF t \in BuiltinTypes THEN PlainType(t, "primitive") ELSE None]
    BY <1>1 DEF BuiltinMap
  <2>. QED  BY <2>1, <2>2, <2>3
<1>6. TypesOK(types)
  <2>1. \A t : PlainType(t, "primitive").cls = "primitive"
    BY DEF PlainType
  <2>. QED  BY <1>5, <2>1, MarksAssumption DEF TypesOK
<1>7. ScopesOK(scopes, types)
  <2>1. \A s \in 1..Len(scopes) : s = 1 /\ scopes[s] = root
    BY <1>4
  <2>2. \A t \in root.types : types[t] # None
    BY <1>2, <1>6 DEF TypesOK
  <2>. QED  BY <1>2, <1>4, <2>1, <2>2 DEF ScopesOK
<1>8. Nested(stack, current, scopes)
  BY <1>1, <1>2, <1>4 DEF Nested, Inside
<1>9. Good
  BY <1>1, <1>4, <1>6, <1>7, <1>8, BoundsAssumption DEF Good, GoodAt
<1>. QED  BY <1>1, <1>9, BoundsAssumption DEF WalkInv

\* Every step visits a node or returns from a handler, and says so when it stops.
LEMMA StepCounts ==
  ASSUME Next
  PROVE  /\ (pos < MaxNodes /\ pos' = pos + 1) \/ pos' = pos
         /\ out' \in {out, "error", "abort"}
<1>1. ASSUME NEW r, NEW stk, Continue(r, stk)
      PROVE  out' \in {out, "error", "abort"}
  BY <1>1 DEF Continue, Stop
<1>2. ASSUME NEW f, NEW r, Begin(f, r)
      PROVE  /\ pos < MaxNodes /\ pos' = pos + 1
             /\ out' \in {out, "error", "abort"}
  BY <1>1, <1>2 DEF Begin, Visiting
<1>3. ASSUME NEW node, Fn(node) \/ ExternFn(node) \/ StructOrUnion(node) \/ Enum(node)
      PROVE  /\ pos < MaxNodes /\ pos' = pos + 1
             /\ out' \in {out, "error", "abort"}
  BY <1>3 DEF Fn, Body, ExternFn, StructOrUnion, Enum, EnumOf, Visiting, Stop
<1>4. ASSUME NEW node, Simple(node)
      PROVE  /\ pos < MaxNodes /\ pos' = pos + 1
             /\ out' \in {out, "error", "abort"}
  BY <1>1, <1>4 DEF Simple, Visiting
<1>5. ASSUME Block
      PROVE  /\ pos < MaxNodes /\ pos' = pos + 1
             /\ out' \in {out, "error", "abort"}
  BY <1>5 DEF Block, Visiting
<1>6. ASSUME NEW e, If(e) \/ While(e) \/ Arrow(e) \/ Else \/ For(e)
      PROVE  /\ pos < MaxNodes /\ pos' = pos + 1
             /\ out' \in {out, "error", "abort"}
  BY <1>2, <1>6 DEF If, While, Arrow, Else, For
<1>7. ASSUME NEW e, Switch(e)
      PROVE  /\ pos < MaxNodes /\ pos' = pos + 1
             /\ out' \in {out, "error", "abort"}
  BY <1>7 DEF Switch, SwitchOn, Stop, Visiting
<1>8. ASSUME NEW node, Case(node)
      PROVE  /\ pos < MaxNodes /\ pos' = pos + 1
             /\ out' \in {out, "error", "abort"}
  <2>1. \E f, r : Begin(f, r)
    BY <1>8 DEF Case, EnumCase
  <2>. QED  BY <1>2, <2>1
<1>9. ASSUME Exit
      PROVE  pos' = pos /\ out' \in {out, "error", "abort"}
  BY <1>9 DEF Exit
<1>. QED  BY <1>3, <1>4, <1>5, <1>6, <1>7, <1>8, <1>9 DEF Next

\* Every step preserves Good.
LEMMA StepGood ==
  ASSUME Good, pos \in Nat, pos' < 100, Next
  PROVE  Good'
BY FnGood, ExternGood, StructGood, EnumGood, SimpleGood, BlockGood, IfGood, WhileGood,
  ArrowGood, ElseGood, ForGood, SwitchGood, CaseGood, ExitGood DEF Next

LEMMA WalkStep == WalkInv /\ [Next]_vars => WalkInv'
<1>. SUFFICES ASSUME WalkInv, [Next]_vars PROVE WalkInv'
  OBVIOUS
<1>1. CASE UNCHANGED vars
  BY <1>1 DEF vars, WalkInv, Good
<1>2. CASE Next
  <2>1. pos \in Nat /\ pos' \in 0..MaxNodes /\ pos <= pos'
        /\ out' \in {"run", "error", "abort"}
    BY <1>2, StepCounts, BoundsAssumption DEF WalkInv
  <2>2. pos' < 100 => Good
    BY <2>1 DEF WalkInv
  <2>3. pos' < 100 => Good'
    BY <1>2, <2>1, <2>2, StepGood
  <2>. QED  BY <2>1, <2>3 DEF WalkInv
<1>. QED  BY <1>1, <1>2

(***************************************************************************)
(* Within the reserve every walk is good: the table's types hold together, *)
(* and the scopes of the open handlers are nested as the handlers are.     *)
(***************************************************************************)
THEOREM WalksAreGood == Spec => []WalkInv
<1>. QED  BY WalkStep, InitWalk, PTL DEF Spec

(***************************************************************************)
(* While the walk is within the reserve of the table, every variable of    *)
(* the semantic phase has its type: current_scope points into the table.   *)
(***************************************************************************)
THEOREM SemaTypes == Spec => [](pos < 100 => TypeOK)
<1>1. WalkInv => (pos < 100 => TypeOK)
  BY GoodFacts DEF WalkInv, TypeOK, ScopesOK, TypesOK
<1>. QED  BY <1>1, WalksAreGood, PTL

(***************************************************************************)
(* While the walk is within the reserve, every name that a program can     *)
(* reach has a type that Types holds, and none is left to inference.       *)
(***************************************************************************)
THEOREM ReachableNamesAreKnown == Spec => [](pos < 100 => NamesHaveKnownTypes)
<1>1. WalkInv => (pos < 100 => NamesHaveKnownTypes)
  BY GoodFacts DEF WalkInv, NamesHaveKnownTypes, ScopesOK, Bindable
<1>. QED  BY <1>1, WalksAreGood, PTL

\* The return type that is found from inside any of the open handlers.
LEMMA EnclosingReturn ==
  ASSUME Good
  PROVE  /\ stack = <<>> => Table!ExpectedReturn(scopes, current) = None
         /\ \A i \in 1..Len(stack) :
              Table!ExpectedReturn(scopes, Inside(stack, current, i)) = stack[1].ty
<1>. DEFINE In(i) == Inside(stack, current, i)
            ER(s) == Table!ExpectedReturn(scopes, s)
            T == {i \in 1..Len(stack) : ER(In(i)) # stack[1].ty}
<1>1. scopes \in Seq(TableP!Scope) /\ TableP!Descending(scopes) /\ Len(stack) \in Nat
      /\ \A s \in 1..Len(scopes) : scopes[s].parent \in 0..s - 1
  BY GoodFacts, SameTable DEF ScopesOK, TableP!Descending, TableP!Freed
<1>2. /\ ER(0) = None
      /\ \A s \in 1..Len(scopes) :
           ER(s) = IF scopes[s].expected_return # None THEN scopes[s].expected_return
                   ELSE ER(scopes[s].parent)
  BY <1>1, TableSound, SameTable, TableP!ReturnWalk DEF TableP!NoParent
<1>. HIDE DEF ER
<1>3. stack = <<>> => ER(current) = None
  <2>. SUFFICES ASSUME stack = <<>> PROVE ER(current) = None
    OBVIOUS
  <2>1. current = 1 /\ 1 \in 1..Len(scopes) /\ scopes[1].expected_return = None
    BY TopLevel
  <2>2. scopes[1].parent = 0
    BY <1>1, <2>1
  <2>. QED  BY <1>2, <2>1, <2>2
<1>4. \A i \in 1..Len(stack) : Layer(stack[i], i, In(i), scopes)
  BY GoodFacts DEF Nested
<1>5. \A i \in 1..Len(stack) : In(i - 1) = stack[i].scope
  BY <1>1 DEF Inside
<1>. HIDE DEF In
<1>6. CASE T = {}
  BY <1>3, <1>6 DEF ER, In
<1>7. CASE T # {}
  <2>1. T \in SUBSET Nat
    OBVIOUS
  <2>2. PICK m \in T : \A y \in T : m <= y
    <3>. HIDE DEF T
    <3>. QED  BY <1>7, <2>1, LeastNat
  <2>3. m \in 1..Len(stack) /\ ER(In(m)) # stack[1].ty
    BY <2>2
  <2>4. m # 1
    <3>1. m = 1 => ER(In(m)) = stack[1].ty
      BY <1>2, <1>4, <2>3 DEF Layer
    <3>. QED  BY <2>3, <3>1
  <2>5. m - 1 \in 1..Len(stack) /\ m - 1 \notin T
    <3>1. m - 1 \in 1..Len(stack) /\ m \in Nat /\ ~(m <= m - 1)
      BY <2>3, <2>4, <1>1
    <3>. HIDE DEF T
    <3>. QED  BY <2>2, <3>1
  <2>6. ER(In(m - 1)) = stack[1].ty /\ In(m - 1) = stack[m].scope
    BY <1>5, <2>3, <2>5
  <2>7. ER(In(m)) = ER(stack[m].scope)
    BY <1>2, <1>4, <2>3, <2>4 DEF Layer
  <2>. QED  BY <2>3, <2>6, <2>7
<1>. QED  BY <1>6, <1>7

(***************************************************************************)
(* While the walk is within the reserve, the return type that a `return`   *)
(* is checked against is that of the function around it.                   *)
(***************************************************************************)
THEOREM ReturnsSeeTheirFunction == Spec => [](pos < 100 => ExpectedReturnIsEnclosing)
<1>1. WalkInv => (pos < 100 => ExpectedReturnIsEnclosing)
  <2>. SUFFICES ASSUME Good PROVE ExpectedReturnIsEnclosing
    BY DEF WalkInv
  <2>1. CASE stack = <<>>
    BY <2>1, EnclosingReturn DEF ExpectedReturnIsEnclosing
  <2>2. CASE stack # <<>>
    <3>1. Len(stack) \in 1..Len(stack)
      BY <2>2, GoodFacts
    <3>2. Inside(stack, current, Len(stack)) = current
      BY DEF Inside
    <3>. QED  BY <2>2, <3>1, <3>2, EnclosingReturn DEF ExpectedReturnIsEnclosing
  <2>. QED  BY <2>1, <2>2
<1>. QED  BY <1>1, WalksAreGood, PTL

-----------------------------------------------------------------------------
(* What a step may not do.                                                  *)

\* Two contexts that the same handlers have are one.
LEMMA GovernsOnce ==
  ASSUME NEW s, NEW n \in Nat, NEW c, NEW d, Governs(s, n, c), Governs(s, n, d)
  PROVE  c = d
<1>1. CASE \A j \in 1..n : s[j].k # "switch"
  BY <1>1 DEF Governs
<1>2. CASE ~\A j \in 1..n : s[j].k # "switch"
  <2>1. PICK i \in 1..n : /\ s[i].k = "switch" /\ c = s[i].ty
                          /\ \A m \in 1..n : m > i => s[m].k # "switch"
    BY <1>2 DEF Governs
  <2>2. PICK j \in 1..n : /\ s[j].k = "switch" /\ d = s[j].ty
                          /\ \A m \in 1..n : m > j => s[m].k # "switch"
    BY <1>2 DEF Governs
  <2>3. i = j
    BY <2>1, <2>2
  <2>. QED  BY <2>1, <2>2, <2>3
<1>. QED  BY <1>1, <1>2

\* Only a handler that returns makes the stack shorter.
LEMMA OnlyExitPops ==
  ASSUME Good, Good', pos \in Nat, Next, Len(stack') < Len(stack)
  PROVE  Exit
<1>1. Len(stack) \in Nat /\ Len(stack') \in Nat /\ stack \in Seq(Frame) /\ stack' \in Seq(Frame)
  BY DEF Good, GoodAt
<1>2. stack # <<>> /\ stack' # stack
  BY <1>1
<1>3. MayBegin => Begun \in Seq(Frame) /\ Len(Begun) = Len(stack)
  BY BegunNested
<1>4. MayBegin => stack' # Begun /\ \A f : stack' # Append(Begun, f)
  BY <1>1, <1>3
<1>5. ASSUME NEW f, NEW r, Begin(f, r), MayBegin
      PROVE  FALSE
  BY <1>2, <1>4, <1>5 DEF Begin, Continue, Stop
<1>6. ASSUME NEW node, Fn(node) \/ ExternFn(node) \/ StructOrUnion(node) \/ Enum(node)
      PROVE  FALSE
  BY <1>2, <1>6 DEF Fn, ExternFn, StructOrUnion, Enum
<1>7. ASSUME NEW node, Simple(node)
      PROVE  FALSE
  BY <1>2, <1>4, <1>7, MayBeginAt DEF Simple, Continue, Stop
<1>8. ASSUME Block
      PROVE  FALSE
  BY <1>4, <1>8, MayBeginAt DEF Block
<1>9. ASSUME NEW e, If(e) \/ While(e) \/ Arrow(e) \/ Else \/ For(e)
      PROVE  FALSE
  BY <1>5, <1>9, MayBeginAt DEF If, While, Arrow, Else, For
<1>10. ASSUME NEW e, Switch(e)
       PROVE  FALSE
  BY <1>2, <1>4, <1>10, MayBeginAt DEF Switch, SwitchOn, Stop
<1>11. ASSUME NEW node, Case(node)
       PROVE  FALSE
  <2>1. \E f, r : Begin(f, r)
    BY <1>11 DEF Case, EnumCase
  <2>. QED  BY <1>5, <1>11, <2>1, MayBeginAt DEF Case
<1>. QED  BY <1>6, <1>7, <1>8, <1>9, <1>10, <1>11 DEF Next

\* A handler that returns puts back the context it was entered with.
LEMMA ExitRestoresContext ==
  ASSUME Good, ContextInv, Exit, out' = "run"
  PROVE  switch_context' = Top.ctx
<1>1. CASE Top.k = "switch"
  BY <1>1 DEF Exit, ContextRestored
<1>2. CASE Top.k # "switch"
  <2>. DEFINE n == Len(stack) - 1
  <2>1. switch_context' = switch_context /\ stack # <<>>
    BY <1>2 DEF Exit, Finished
  <2>2. n \in Nat /\ n + 1 = Len(stack) /\ n + 1 \in 1..Len(stack)
    <3>1. stack \in Seq(Frame)
      BY GoodFacts
    <3>. QED  BY <2>1, <3>1
  <2>3. Governs(stack, n + 1 - 1, Top.ctx) /\ Governs(stack, n + 1, switch_context)
    BY <2>2 DEF ContextInv, Contexts, Top
  <2>4. stack[n + 1].k # "switch" /\ n + 1 - 1 = n
    BY <1>2, <2>2 DEF Top
  <2>. HIDE DEF n
  <2>5. Governs(stack, n, switch_context)
    BY <2>2, <2>3, <2>4, GovernsPast
  <2>. QED  BY <2>1, <2>2, <2>3, <2>4, <2>5, GovernsOnce
<1>. QED  BY <1>1, <1>2

(***************************************************************************)
(* In a program that fits into the reserve a handler that returns leaves   *)
(* the current scope and the switch context as it found them.              *)
(***************************************************************************)
THEOREM HandlersPutBack == MaxNodes < 100 => (Spec => HandlersRestore)
<1>. SUFFICES ASSUME MaxNodes < 100 PROVE Spec => HandlersRestore
  OBVIOUS
<1>1. WalkInv => Good /\ pos \in Nat
  BY BoundsAssumption DEF WalkInv
<1>2. WalkInv' => Good'
  BY BoundsAssumption DEF WalkInv
<1>3. ASSUME WalkInv, WalkInv', ContextInv, [Next]_vars
      PROVE  [out' = "run" /\ Len(stack') < Len(stack) =>
                current' = Top.scope /\ switch_context' = Top.ctx]_vars
  <2>1. CASE UNCHANGED vars
    BY <2>1
  <2>2. CASE Next
    <3>. SUFFICES ASSUME out' = "run", Len(stack') < Len(stack)
                  PROVE  current' = Top.scope /\ switch_context' = Top.ctx
      OBVIOUS
    <3>1. Exit
      BY <1>1, <1>2, <1>3, <2>2, OnlyExitPops
    <3>. QED  BY <1>1, <1>3, <3>1, ExitGood, ExitRestoresContext
  <2>. QED  BY <1>3, <2>1, <2>2
<1>. QED  BY <1>3, WalksAreGood, ContextsHold, PTL DEF Spec, HandlersRestore

\* No step forgets or redefines a type, and only an enum of its name adds to one.
LEMMA StepKeepsTypes ==
  ASSUME Good, pos \in Nat, Next
  PROVE  Keeps(types, types') \/ \E node \in EnumNodes : KeepsBut(types, types', node.n)
<1>1. types' = types => Keeps(types, types')
  BY DEF Keeps
<1>2. ASSUME NEW r, Stop(r)
      PROVE  types' = types
  BY <1>2 DEF Stop
<1>3. ASSUME NEW node \in FnNodes, Fn(node)
      PROVE  Keeps(types, types')
  <2>1. CASE types' = types
    BY <1>1, <2>1
  <2>2. CASE types' # types
    <3>1. ~ProtoFails(node) /\ types' = TypesAfterProto(node)
      BY <1>2, <1>3, <2>2 DEF Fn, Body
    <3>. QED  BY <3>1, GoodFacts, ProtoTypes
  <2>. QED  BY <2>1, <2>2
<1>4. ASSUME NEW node \in ExternNodes, ExternFn(node)
      PROVE  Keeps(types, types')
  <2>1. CASE types' = types
    BY <1>1, <2>1
  <2>2. CASE types' # types
    <3>1. ~ProtoFails(node) /\ types' = TypesAfterProto(node)
      BY <1>2, <1>4, <2>2 DEF ExternFn
    <3>. QED  BY <3>1, GoodFacts, ProtoTypes
  <2>. QED  BY <2>1, <2>2
<1>5. ASSUME NEW f, NEW r, Begin(f, r)
      PROVE  types' = types
  BY <1>5 DEF Begin, Continue, Stop
<1>6. ASSUME NEW node, Simple(node) \/ Block
      PROVE  types' = types
  BY <1>6 DEF Simple, Continue, Stop, Block
<1>7. ASSUME NEW e, If(e) \/ While(e) \/ Arrow(e) \/ Else \/ For(e)
      PROVE  types' = types
  BY <1>5, <1>7 DEF If, While, Arrow, Else, For
<1>8. ASSUME NEW e, Switch(e)
      PROVE  types' = types
  BY <1>8 DEF Switch, SwitchOn, Stop
<1>9. ASSUME NEW node, Case(node)
      PROVE  types' = types
  <2>1. \E f, r : Begin(f, r)
    BY <1>9 DEF Case, EnumCase
  <2>. QED  BY <1>5, <2>1
<1>10. Exit => types' = types
  BY DEF Exit
<1>. QED  BY <1>1, <1>3, <1>4, <1>6, <1>7, <1>8, <1>9, <1>10, StructGood, EnumGood DEF Next

(***************************************************************************)
(* In a program that fits into the reserve a type that has been defined    *)
(* keeps its classification and return type, each of its parameters keeps  *)
(* its place and type, and only an enum with its name adds others.         *)
(***************************************************************************)
THEOREM TypesAreKept == MaxNodes < 100 => (Spec => DefinitionsStick)
<1>. SUFFICES ASSUME MaxNodes < 100 PROVE Spec => DefinitionsStick
  OBVIOUS
<1>1. WalkInv => Good /\ pos \in Nat
  BY BoundsAssumption DEF WalkInv
<1>2. ASSUME Good
      PROVE  \A t \in TypeNames : types[t] # None =>
               IsPrefix(types[t].params, types[t].params)
  <2>1. ASSUME NEW t \in TypeNames, types[t] # None
        PROVE  types[t].params \in Seq(TypeInstance)
    BY <1>2, <2>1, GoodFacts DEF TypesOK, Type
  <2>. QED  BY <2>1, PrefixOfMore
<1>3. ASSUME WalkInv, [Next]_vars
      PROVE  [\A t \in TypeNames : types[t] # None =>
                /\ types'[t] # None
                /\ types'[t].cls = types[t].cls
                /\ types'[t].ret = types[t].ret
                /\ IsPrefix(types[t].params, types'[t].params)
                /\ types'[t].params # types[t].params =>
                     \E node \in EnumNodes : node.n = t]_vars
  <2>1. CASE UNCHANGED vars
    BY <2>1
  <2>2. CASE Next
    <3>1. CASE Keeps(types, types')
      BY <1>1, <1>2, <1>3, <3>1 DEF Keeps
    <3>2. CASE \E node \in EnumNodes : KeepsBut(types, types', node.n)
      BY <3>2 DEF KeepsBut
    <3>. QED  BY <1>1, <1>3, <2>2, <3>1, <3>2, StepKeepsTypes
  <2>. QED  BY <1>3, <2>1, <2>2
<1>. QED  BY <1>3, WalksAreGood, PTL DEF Spec, DefinitionsStick

-----------------------------------------------------------------------------
(* Where the names that can be read were declared.                          *)

\* The declaration that a lookup of n from scope s finds, and the view that
\* there is from s, a scope or what is around the root.
DeclaredAt(v) == IF v = None THEN None ELSE v.site
Where(ss, s, n) == DeclaredAt(Table!LookupValue(ss, s, n))
View(ss, s) == [n \in Names |-> Where(ss, s, n)]

SameViews(ss, tt, k) == \A s \in 0..k : View(tt, s) = View(ss, s)

\* n is declared in scope c, as what the node being visited declares i-th.
Declares(ss, tt, c, n, i) ==
  /\ SameViews(ss, tt, c - 1)
  /\ View(tt, c) =
       [View(ss, c) EXCEPT ![n] = IF ss[c].names[n] = None THEN <<pos, i>> ELSE @]

\* What a scope's names are in a table is what its own map or its parent says.
LEMMA ViewWalk ==
  ASSUME NEW ss, NEW tm, ScopesOK(ss, tm), NEW n \in Names
  PROVE  /\ View(ss, 0)[n] = None
         /\ \A s \in 1..Len(ss) :
              /\ ss[s].parent \in 0..s - 1
              /\ ss[s].names[n] # None => ss[s].names[n] \in Declared
              /\ View(ss, s)[n] = IF ss[s].names[n] # None THEN ss[s].names[n].site
                                  ELSE View(ss, ss[s].parent)[n]
<1>1. ss \in Seq(TableP!Scope) /\ Len(ss) \in Nat /\ \A s \in 1..Len(ss) : ss[s].parent \in 0..s - 1
  BY SameTable DEF ScopesOK
<1>2. TableP!Descending(ss)
  BY <1>1 DEF TableP!Descending, TableP!Freed
<1>3. /\ TableP!LookupValue(ss, 0, n) = None
      /\ \A s \in 1..Len(ss) :
           TableP!LookupValue(ss, s, n) =
             IF ss[s].names[n] # None THEN ss[s].names[n]
             ELSE TableP!LookupValue(ss, ss[s].parent, n)
  BY <1>1, <1>2, TableSound, TableP!ValueWalk DEF TableP!NoParent
<1>4. \A s : View(ss, s)[n] = DeclaredAt(TableP!LookupValue(ss, s, n))
  BY SameTable DEF View, Where
<1>5. \A s \in 1..Len(ss) : ss[s].names[n] # None => ss[s].names[n] \in Declared
  <2>1. \A s \in 1..Len(ss) : ss[s] \in Table!Scope
    BY DEF ScopesOK
  <2>. QED  BY <2>1 DEF Table!Scope
<1>. QED  BY <1>1, <1>3, <1>4, <1>5 DEF DeclaredAt

\* Scopes that have the same names and parents have the same views.
LEMMA ViewsAgree ==
  ASSUME NEW ss, NEW tm, ScopesOK(ss, tm), NEW tt, NEW tm2, ScopesOK(tt, tm2),
         NEW k \in Nat, k <= Len(ss), k <= Len(tt),
         \A i \in 1..k : tt[i].parent = ss[i].parent /\ tt[i].names = ss[i].names
  PROVE  SameViews(ss, tt, k)
<1>1. /\ ss \in Seq(TableP!Scope) /\ tt \in Seq(TableP!Scope)
      /\ TableP!Descending(ss) /\ TableP!Descending(tt)
  BY SameTable DEF ScopesOK, TableP!Descending, TableP!Freed
<1>2. \A n : \A s \in -1..k : TableP!LookupValue(tt, s, n) = TableP!LookupValue(ss, s, n)
  <2>1. ASSUME NEW n
        PROVE  \A s \in -1..k : TableP!LookupValue(tt, s, n) = TableP!LookupValue(ss, s, n)
    BY <1>1, TableSound, TableP!SameBelow DEF TableP!Freed
  <2>. QED  BY <2>1
<1>3. 0..k \subseteq -1..k
  OBVIOUS
<1>. QED  BY <1>2, <1>3, SameTable DEF SameViews, View, Where

\* A table whose names are the same has the same views.
LEMMA NamesAgree ==
  ASSUME NEW ss, NEW tm, ScopesOK(ss, tm), NEW tt, NEW tm2, ScopesOK(tt, tm2),
         SameNames(ss, tt), \A s \in 1..Len(ss) : tt[s].parent = ss[s].parent
  PROVE  SameViews(ss, tt, Len(ss))
<1>1. Len(ss) \in Nat /\ Len(tt) = Len(ss) /\ Len(ss) <= Len(ss)
  BY DEF ScopesOK, SameNames
<1>. QED  BY <1>1, ViewsAgree DEF SameNames

LEMMA SameViewsTrans ==
  ASSUME NEW ss, NEW tt, NEW uu, NEW k, SameViews(ss, tt, k), SameViews(tt, uu, k)
  PROVE  SameViews(ss, uu, k)
BY DEF SameViews

LEMMA FewerViews ==
  ASSUME NEW ss, NEW tt, NEW k \in Int, NEW j \in Int, j <= k, SameViews(ss, tt, k)
  PROVE  SameViews(ss, tt, j)
BY DEF SameViews

\* Declaring a name.
LEMMA DeclareViews ==
  ASSUME NEW ss, NEW tm, ScopesOK(ss, tm), NEW c \in 1..Len(ss), NEW n \in Names,
         NEW ti, Bindable(tm, ti), pos \in Nat, NEW i \in Nat
  PROVE  Declares(ss, Declare(ss, c, n, ti, i), c, n, i)
<1>. DEFINE tt == Declare(ss, c, n, ti, i)
            v == [ty |-> ti, site |-> <<pos, i>>]
<1>1. /\ ScopesOK(tt, tm) /\ SameChain(ss, tt)
      /\ \A s \in 1..Len(ss) : s # c => tt[s] = ss[s]
      /\ \A m \in Names : tt[c].names[m] =
           IF m = n /\ ss[c].names[m] = None THEN v ELSE ss[c].names[m]
  BY DeclareLeaves
<1>. HIDE DEF tt
<1>2. c - 1 \in Nat /\ Len(ss) \in Nat /\ c \in Nat
  BY DEF ScopesOK
<1>3. Len(tt) = Len(ss) /\ tt[c].parent = ss[c].parent
  BY <1>1 DEF SameChain
<1>4. SameViews(ss, tt, c - 1)
  <2>1. \A s \in 1..(c - 1) : s # c /\ s \in 1..Len(ss)
    BY <1>2
  <2>2. c - 1 <= Len(ss) /\ c - 1 <= Len(tt)
    BY <1>2, <1>3
  <2>. QED  BY <1>1, <1>2, <2>1, <2>2, ViewsAgree
<1>5. v # None
  BY MarksAssumption DEF Declared, Bindable
<1>6. v.site = <<pos, i>>
  OBVIOUS
<1>. HIDE DEF v
<1>7. ASSUME NEW m \in Names
      PROVE  View(tt, c)[m] = IF m = n /\ ss[c].names[n] = None THEN <<pos, i>>
                                                               ELSE View(ss, c)[m]
  <2>1. /\ View(ss, c)[m] = IF ss[c].names[m] # None THEN ss[c].names[m].site
                            ELSE View(ss, ss[c].parent)[m]
        /\ View(tt, c)[m] = IF tt[c].names[m] # None THEN tt[c].names[m].site
                            ELSE View(tt, tt[c].parent)[m]
        /\ ss[c].parent \in 0..c - 1
    BY <1>1, <1>3, ViewWalk
  <2>2. View(tt, ss[c].parent) = View(ss, ss[c].parent)
    BY <1>4, <2>1 DEF SameViews
  <2>. QED  BY <1>1, <1>3, <1>5, <1>6, <2>1, <2>2
<1>8. View(tt, c) = [View(ss, c) EXCEPT ![n] = IF ss[c].names[n] = None THEN <<pos, i>> ELSE @]
  <2>1. /\ View(tt, c) = [m \in Names |-> View(tt, c)[m]]
        /\ View(ss, c) = [m \in Names |-> View(ss, c)[m]]
    BY DEF View
  <2>. QED  BY <1>7, <2>1
<1>. QED  BY <1>4, <1>8 DEF Declares, tt

\* A scope that is opened shows what the scope around it shows.
LEMMA PushViews ==
  ASSUME NEW ss, NEW tm, ScopesOK(ss, tm), NEW c \in 1..Len(ss), Len(ss) < 100
  PROVE  LET tt == Table!PushScope(ss, c)
         IN SameViews(ss, tt, Len(ss)) /\ View(tt, Len(ss) + 1) = View(ss, c)
<1>. DEFINE tt == Table!PushScope(ss, c)
            d == Len(ss) + 1
<1>1. /\ ScopesOK(tt, tm) /\ Len(tt) = d
      /\ \A s \in 1..Len(ss) : tt[s] = ss[s]
      /\ tt[d].parent = c
      /\ \A n \in Names : tt[d].names[n] = None
  BY PushLeaves
<1>. HIDE DEF tt
<1>2. Len(ss) \in Nat /\ Len(ss) <= Len(ss) /\ Len(ss) <= Len(tt) /\ d \in 1..Len(tt)
  BY <1>1 DEF ScopesOK
<1>3. SameViews(ss, tt, Len(ss))
  BY <1>1, <1>2, ViewsAgree
<1>4. View(tt, c) = View(ss, c)
  <2>1. c \in 0..Len(ss)
    BY <1>2
  <2>. QED  BY <1>3, <2>1 DEF SameViews
<1>5. \A n \in Names : View(tt, d)[n] = View(tt, c)[n]
  <2>. HIDE DEF d
  <2>. QED  BY <1>1, <1>2, ViewWalk
<1>6. View(tt, d) = View(tt, c)
  BY <1>5 DEF View
<1>. QED  BY <1>3, <1>4, <1>6 DEF tt

\* The parameters of a node are declared in scope c, which has no names of theirs.
Bounds(ss, tt, c, params) ==
  /\ SameViews(ss, tt, c - 1)
  /\ \A m \in Names :
       /\ \A i \in 1..Len(params) : params[i].n = m => View(tt, c)[m] = <<pos, i>>
       /\ (\A i \in 1..Len(params) : params[i].n # m) => View(tt, c)[m] = View(ss, c)[m]

OwnNames(params) == \A i, j \in 1..Len(params) : i # j => params[i].n # params[j].n

\* sema_fn: parameters with names of their own, in the new scope of the function.
LEMMA ParamViews ==
  ASSUME NEW ss, NEW tm, ScopesOK(ss, tm), NEW c \in 1..Len(ss), pos \in Nat,
         NEW params \in Seq(ParamDecls), AllBindable(tm, params),
         OwnNames(params), \A m \in Names : ss[c].names[m] = None
  PROVE  Bounds(ss, WithParams(ss, c, params), c, params)
<1>. DEFINE n == Len(params)
            tt == WithParams(ss, c, params)
            Holds(f, s) ==
              /\ \A r \in 1..Len(ss) : r # c => f[r] = ss[r]
              /\ \A m \in Names :
                   /\ \A i \in s : params[i].n = m =>
                        f[c].names[m] # None /\ f[c].names[m].site = <<pos, i>>
                   /\ (\A i \in s : params[i].n # m) => f[c].names[m] = None
<1>0. PICK it : Iterates(it, ss, tm, c, params)
  BY ParamsIterate
<1>1. /\ tt = it[1..n]
      /\ it[{}] = ss
      /\ \A s \in SUBSET (1..n) :
           /\ ScopesOK(it[s], tm) /\ SameChain(ss, it[s])
           /\ s # {} =>
                it[s] = Declare(it[s \ {Max(s)}], c, params[Max(s)].n,
                                params[Max(s)].decl, Max(s))
  BY <1>0 DEF Iterates
<1>2. n \in Nat /\ \A i \in 1..n : i \in Nat /\ params[i].n \in Names /\ Bindable(tm, params[i].decl)
  <2>1. \A i \in 1..n : params[i] \in ParamDecls
    OBVIOUS
  <2>. QED  BY <2>1 DEF ParamDecls, AllBindable
<1>. HIDE DEF n, tt
<1>. DEFINE good == [s \in SUBSET (1..n) |-> Holds(it[s], s)]
            yes == {TRUE}
<1>3. Holds(it[{}], {})
  BY <1>1
<1>4. ASSUME NEW s \in SUBSET (1..n), s # {}, Holds(it[s \ {Max(s)}], s \ {Max(s)})
      PROVE  Holds(it[s], s)
  <2>. DEFINE k == Max(s)
              b == s \ {k}
              f == it[b]
              v == [ty |-> params[k].decl, site |-> <<pos, k>>]
  <2>1. k \in s /\ k \in 1..n
    BY <1>2, <1>4, MaxOfIndices
  <2>2. b \in SUBSET (1..n)
    OBVIOUS
  <2>3. ScopesOK(f, tm) /\ SameChain(ss, f) /\ it[s] = Declare(f, c, params[k].n, params[k].decl, k)
    BY <1>1, <1>4, <2>2
  <2>4. Holds(f, b)
    BY <1>4
  <2>5. \A i \in s : i = k \/ i \in b
    OBVIOUS
  <2>6. v # None /\ v.site = <<pos, k>>
    BY <1>2, <2>1, MarksAssumption DEF Declared, Bindable
  <2>. HIDE DEF k, f, b
  <2>7. c \in 1..Len(f) /\ Len(f) = Len(ss)
    BY <2>3 DEF SameChain
  <2>8. /\ \A r \in 1..Len(ss) : r # c => it[s][r] = f[r]
        /\ \A m \in Names : it[s][c].names[m] =
             IF m = params[k].n /\ f[c].names[m] = None THEN v ELSE f[c].names[m]
    BY <1>2, <2>1, <2>3, <2>7, DeclareLeaves
  <2>. HIDE DEF v
  <2>9. \A i \in b : params[i].n # params[k].n /\ i \in s
    BY <2>1 DEF n, b, OwnNames
  <2>10. f[c].names[params[k].n] = None
    BY <1>2, <2>1, <2>4, <2>9
  <2>11. \A r \in 1..Len(ss) : r # c => it[s][r] = ss[r]
    BY <2>4, <2>8
  <2>12. ASSUME NEW m \in Names
         PROVE  /\ \A i \in s : params[i].n = m =>
                     it[s][c].names[m] # None /\ it[s][c].names[m].site = <<pos, i>>
                /\ (\A i \in s : params[i].n # m) => it[s][c].names[m] = None
    <3>1. /\ \A i \in b : params[i].n = m =>
                f[c].names[m] # None /\ f[c].names[m].site = <<pos, i>>
          /\ (\A i \in b : params[i].n # m) => f[c].names[m] = None
      BY <2>4
    <3>2. it[s][c].names[m] = IF m = params[k].n /\ f[c].names[m] = None THEN v ELSE f[c].names[m]
      BY <2>8
    <3>. QED  BY <2>1, <2>5, <2>6, <2>9, <2>10, <3>1, <3>2
  <2>. QED  BY <2>11, <2>12
<1>. HIDE DEF Holds
<1>5. \A s \in SUBSET (1..n) : good[s] = TRUE <=> Holds(it[s], s)
  OBVIOUS
<1>6. good[{}] \in yes
  BY <1>3, <1>5
<1>7. \A s \in SUBSET (1..n) : s # {} /\ good[s \ {Max(s)}] \in yes => good[s] \in yes
  <2>1. \A s \in SUBSET (1..n) : s \ {Max(s)} \in SUBSET (1..n)
    OBVIOUS
  <2>. HIDE DEF good
  <2>. QED  BY <1>4, <1>5, <2>1
<1>. HIDE DEF good, yes
<1>8. \A s \in SUBSET (1..n) : good[s] \in yes
  BY <1>2, <1>6, <1>7, FoldInduct
<1>9. Holds(tt, 1..n) /\ ScopesOK(tt, tm) /\ SameChain(ss, tt)
  <2>1. 1..n \in SUBSET (1..n)
    OBVIOUS
  <2>. USE DEF yes
  <2>. QED  BY <1>1, <1>5, <1>8, <2>1
<1>10. /\ Len(tt) = Len(ss) /\ Len(ss) \in Nat /\ c - 1 \in Nat /\ c - 1 <= Len(ss)
       /\ c \in 1..Len(tt) /\ tt[c].parent = ss[c].parent /\ ss[c].parent \in 0..c - 1
       /\ \A i \in 1..(c - 1) : i \in 1..Len(ss) /\ i # c
  <2>1. Len(ss) \in Nat /\ ss[c].parent \in 0..c - 1
    BY DEF ScopesOK
  <2>2. Len(tt) = Len(ss) /\ tt[c].parent = ss[c].parent
    BY <1>9 DEF SameChain
  <2>. QED  BY <2>1, <2>2
<1>11. SameViews(ss, tt, c - 1)
  BY <1>9, <1>10, ViewsAgree DEF Holds
<1>12. ASSUME NEW m \in Names
       PROVE  /\ View(tt, c)[m] = IF tt[c].names[m] # None THEN tt[c].names[m].site
                                  ELSE View(ss, c)[m]
  <2>1. View(tt, ss[c].parent) = View(ss, ss[c].parent)
    BY <1>10, <1>11 DEF SameViews
  <2>2. View(ss, c)[m] = View(ss, ss[c].parent)[m]
    BY ViewWalk
  <2>. QED  BY <1>9, <1>10, <2>1, <2>2, ViewWalk
<1>. QED  BY <1>9, <1>11, <1>12 DEF Bounds, Holds, n, tt

\* A name that is not found has no declaration, one that is found has one.
LEMMA UnseenName ==
  ASSUME NEW ss, NEW tm, ScopesOK(ss, tm), current \in 1..Len(ss), NEW n \in Names
  PROVE  /\ ValueOf(ss, n) = None =>
              View(ss, current)[n] = None /\ ss[current].names[n] = None
         /\ ValueOf(ss, n) # None => View(ss, current)[n] \in Nat \X Nat
<1>1. View(ss, current)[n] = DeclaredAt(ValueOf(ss, n))
  BY DEF View, Where, ValueOf
<1>2. ss \in Seq(TableP!Scope) /\ Len(ss) \in Nat /\ \A s \in 1..Len(ss) : ss[s].parent \in 0..s - 1
  BY SameTable DEF ScopesOK
<1>3. ValueOf(ss, n) = TableP!LookupValue(ss, current, n)
  BY SameTable DEF ValueOf
<1>4. ValueOf(ss, n) = None => ss[current].names[n] = None
  <2>1. TableP!Descending(ss)
    BY <1>2 DEF TableP!Descending, TableP!Freed
  <2>. QED  BY <1>2, <1>3, <2>1, TableSound, TableP!ValueWalk
<1>5. ASSUME ValueOf(ss, n) # None
      PROVE  ValueOf(ss, n) \in Declared
  <2>1. current \in 0..Len(ss)
    BY <1>2
  <2>2. PICK i \in 1..Len(ss) : ValueOf(ss, n) = ss[i].names[n]
    BY <1>2, <1>3, <1>5, <2>1, TableSound, TableP!LookupFinds
  <2>. QED  BY <1>5, <2>2, ViewWalk
<1>. QED  BY <1>1, <1>4, <1>5 DEF DeclaredAt, Declared

\* A declaration of a name that the scope does not have yet.
LEMMA FreshViews ==
  ASSUME NEW ss, NEW tt, NEW c, NEW n, NEW i, Declares(ss, tt, c, n, i),
         ss[c].names[n] = None
  PROVE  View(tt, c) = [View(ss, c) EXCEPT ![n] = <<pos, i>>]
BY DEF Declares

\* The parameter of an arm.
LEMMA ArrowViews ==
  ASSUME ScopesOK(scopes, types), current \in 1..Len(scopes), pos \in Nat,
         NEW params \in Seq(ParamDecls), NEW expected,
         Len(expected) \in 0..1, ~Stops(AfterArrowParams(params, expected)),
         \A i \in 1..Len(params) : ValueOf(scopes, params[i].n) = None
  PROVE  Bounds(scopes, AfterArrowParams(params, expected), current, params)
<1>. DEFINE p == params[1]
            tt == AfterArrowParams(params, expected)
<1>1. CASE params = <<>>
  <2>1. tt = scopes /\ Len(params) = 0 /\ \A i \in 1..0 : FALSE
    BY <1>1 DEF AfterArrowParams
  <2>. QED  BY <2>1 DEF Bounds, SameViews
<1>2. CASE params # <<>>
  <2>1. Len(params) <= Len(expected) /\ Len(params) \in Nat /\ Len(params) # 0
    BY <1>2 DEF AfterArrowParams, Stops
  <2>. DEFINE n == Len(params)
              w == Len(expected)
  <2>0. n \in Nat /\ w \in 0..1 /\ n <= w /\ n # 0
    BY <2>1
  <2>. HIDE DEF n, w
  <2>12. n = 1
    BY <2>0
  <2>2. Len(params) = 1 /\ 1 \in 1..1 /\ \A i \in 1..1 : i = 1
    BY <2>12 DEF n
  <2>3. p \in ParamDecls
    <3>1. \A i \in 1..Len(params) : params[i] \in ParamDecls
      OBVIOUS
    <3>. QED  BY <2>2, <3>1
  <2>4. p.n \in Names /\ p.decl \in TypeInstance /\ ~IsInferType(p.decl)
    BY <2>3 DEF ParamDecls
  <2>5. ~Stops(DeclType(scopes, p.decl)) /\ tt = Declare(scopes, current, p.n, p.decl, 1)
    BY <1>2 DEF AfterArrowParams, Stops
  <2>6. ValueOf(scopes, p.n) = None
    BY <2>2
  <2>. HIDE DEF p, tt
  <2>7. Bindable(types, p.decl)
    BY <2>4, <2>5, DeclKnown
  <2>8. scopes[current].names[p.n] = None
    BY <2>4, <2>6, UnseenName
  <2>9. Declares(scopes, tt, current, p.n, 1)
    BY <2>4, <2>5, <2>7, DeclareViews
  <2>10. View(tt, current) = [View(scopes, current) EXCEPT ![p.n] = <<pos, 1>>]
    BY <2>4, <2>8, <2>9, FreshViews
  <2>11. \A m \in Names : View(tt, current)[m] =
           IF m = p.n THEN <<pos, 1>> ELSE View(scopes, current)[m]
    BY <2>4, <2>10 DEF View
  <2>13. Bounds(scopes, tt, current, params)
    BY <2>2, <2>9, <2>11 DEF Bounds, Declares, p
  <2>. QED  BY <2>13 DEF tt
<1>. QED  BY <1>1, <1>2

\* What a statement without a body declares.
LetViews(ss, tt, c, node) ==
  IF node.k = "let" THEN Declares(ss, tt, c, node.n, 0) ELSE SameViews(ss, tt, c)

LEMMA SimpleViews ==
  ASSUME NEW ss, ScopesOK(ss, types), current \in 1..Len(ss), TypesOK(types), pos \in Nat,
         NEW node, IsSimple(node), ~Stops(ss), ~Stops(AfterSimple(ss, node))
  PROVE  /\ LetViews(ss, AfterSimple(ss, node), current, node)
         /\ node.k # "let" => AfterSimple(ss, node) = ss
<1>. DEFINE d == DeclType(ss, node.decl)
            r == ExprType(ss, node.rhs)
            tt == AfterSimple(ss, node)
<1>1. CASE node.k = "let"
  <2>1. tt = LetWith(ss, node, d, r)
    BY <1>1 DEF AfterSimple
  <2>2. ~Stops(d) /\ ~Stops(r) /\ ~Stops(tt)
    BY <2>1 DEF LetWith
  <2>3. node.n \in Names /\ node.decl \in TypeInstance /\ IsExpr(node.rhs)
    BY <1>1 DEF IsSimple
  <2>4. Known(types, r)
    BY <2>2, <2>3, ExprKnown
  <2>5. d = node.decl
    BY <2>2 DEF DeclType, Stops
  <2>6. IsInferType(d) \/ Bindable(types, d)
    BY <2>2, <2>3, <2>5, DeclKnown
  <2>. HIDE DEF d, r, tt
  <2>7. \E ti : Bindable(types, ti) /\ tt = Declare(ss, current, node.n, ti, 0)
    <3>1. CASE node.rhs.k = "empty"
      <4>1. ~IsInferType(d) /\ tt = Declare(ss, current, node.n, d, 0)
        BY <2>1, <2>2, <3>1 DEF LetWith, Stops
      <4>. QED  BY <2>6, <4>1
    <3>2. CASE node.rhs.k # "empty"
      <4>1. /\ AssignableTo(d, r) \/ (NamesEnum(d) /\ EqualTypes(d, r))
            /\ tt = Declare(ss, current, node.n, NonInferred(d, r), 0)
        BY <2>1, <2>2, <3>2 DEF LetWith, Stops
      <4>2. CASE ~IsInferType(d)
        BY <2>6, <4>1, <4>2 DEF NonInferred
      <4>3. CASE IsInferType(d)
        <5>1. d.type \in BuiltinTypes
          BY <4>3 DEF IsInferType, InferType, OfType, BuiltinTypes
        <5>2. ~NamesEnum(d)
          BY <5>1 DEF NamesEnum, TypesOK
        <5>3. ~CompatibleInts(d, r)
          BY <4>3 DEF CompatibleInts, IsIntegerType, IsInferType, InferType, OfType, IntTypes
        <5>4. EqualTypes(d, r)
          BY <4>1, <5>2, <5>3 DEF AssignableTo
        <5>5. ~IsInferType(r)
          BY <4>3, <5>4 DEF EqualTypes, IsInferType
        <5>. QED  BY <2>4, <4>1, <4>3, <5>5 DEF NonInferred, Known, Bindable
      <4>. QED  BY <4>2, <4>3
    <3>. QED  BY <3>1, <3>2
  <2>8. Declares(ss, tt, current, node.n, 0)
    BY <2>3, <2>7, DeclareViews
  <2>. QED  BY <1>1, <2>8 DEF LetViews, tt
<1>2. CASE node.k # "let"
  <2>1. node.k \in {"assign", "return", "expr"}
    BY <1>2 DEF IsSimple
  <2>2. tt \in {AssignTo(ss, IdType(ss, node.n), r),
                ReturnOf(ss, r, Table!ExpectedReturn(ss, current)),
                AfterExpr(ss, node.rhs)}
    BY <2>1 DEF AfterSimple
  <2>3. tt = ss
    BY <2>2 DEF AssignTo, ReturnOf, AfterExpr, Stops
  <2>. QED  BY <1>2, <2>3 DEF LetViews, SameViews
<1>. QED  BY <1>1, <1>2

\* The condition and the step of a `for` declare nothing.
LEMMA HeadViews ==
  ASSUME NEW node, node.end.k \in {"assign", "expr"}, ~Stops(AfterForHead(node))
  PROVE  /\ AfterForHead(node) = AfterSimple(scopes, node.init)
         /\ ~Stops(AfterSimple(scopes, node.init))
<1>. DEFINE s1 == AfterSimple(scopes, node.init)
            s2 == AfterExpr(s1, node.cond)
            s3 == AfterSimple(s2, node.end)
<1>1. AfterForHead(node) = s3
  BY DEF AfterForHead
<1>. HIDE DEF s1
<1>2. ~Stops(s2) => ~Stops(s1) /\ s2 = s1
  BY DEF AfterExpr
<1>. HIDE DEF s2
<1>3. ~Stops(s2)
  BY <1>1 DEF AfterSimple
<1>4. s3 \in {AssignTo(s2, IdType(s2, node.end.n), ExprType(s2, node.end.rhs)),
              AfterExpr(s2, node.end.rhs)}
  BY <1>3 DEF AfterSimple
<1>5. s3 = s2
  BY <1>1, <1>4 DEF AssignTo, AfterExpr, Stops
<1>. QED  BY <1>1, <1>2, <1>3, <1>5 DEF s1

\* The scope a function or a block was entered from is further out than the one
\* that is current.
LEMMA OuterBelow ==
  ASSUME NEW s \in Seq(Frame), NEW c, NEW ss, NEW tm, ScopesOK(ss, tm), Nested(s, c, ss),
         NEW i \in 1..Len(s), s[i].k \in {"fn", "block"}
  PROVE  s[i].scope \in 1..c - 1
<1>. DEFINE n == Len(s)
            In(j) == Inside(s, c, j)
            T == {j \in i..n : ~(In(i) <= In(j))}
<1>1. n \in Nat /\ i \in 1..n
  OBVIOUS
<1>2. \A j \in 1..n : Layer(s[j], j, In(j), ss)
  BY DEF Nested
<1>3. \A j \in 1..n : In(j - 1) = s[j].scope
  <2>1. ASSUME NEW j \in 1..n PROVE In(j - 1) = s[j].scope
    <3>1. j - 1 # n /\ (j - 1) + 1 = j
      BY <1>1
    <3>. QED  BY <3>1 DEF Inside
  <2>. QED  BY <2>1
<1>4. In(n) = c /\ In(0) = 1 /\ c \in 1..Len(ss) /\ Len(ss) \in Nat
  BY DEF Inside, Nested, ScopesOK
<1>. HIDE DEF n, In
<1>5. \A j \in 1..n : In(j) \in 1..Len(ss)
  BY <1>2 DEF Layer
<1>6. ASSUME NEW j \in 1..n
      PROVE  /\ In(j - 1) <= In(j)
             /\ s[j].k \in {"fn", "block"} => In(j - 1) < In(j)
  <2>1. Layer(s[j], j, In(j), ss) /\ In(j) \in 1..Len(ss) /\ In(j - 1) = s[j].scope
    BY <1>2, <1>3, <1>5
  <2>2. CASE s[j].k \in {"fn", "block"}
    <3>1. ss[In(j)].parent = In(j - 1)
      BY <2>1, <2>2 DEF Layer
    <3>2. ss[In(j)].parent \in 0..In(j) - 1
      BY <2>1 DEF ScopesOK
    <3>. QED  BY <1>4, <2>1, <3>1, <3>2
  <2>3. CASE s[j].k \notin {"fn", "block"}
    BY <1>4, <2>1, <2>3 DEF Layer
  <2>. QED  BY <2>2, <2>3
<1>7. T = {}
  <2>. SUFFICES ASSUME T # {} PROVE FALSE
    OBVIOUS
  <2>1. T \in SUBSET Nat
    BY <1>1
  <2>2. PICK j \in T : \A k \in T : j <= k
    <3>. HIDE DEF T
    <3>. QED  BY <2>1, LeastNat
  <2>3. j \in i..n /\ ~(In(i) <= In(j)) /\ j \in Nat
    BY <1>1, <2>2
  <2>4. j # i
    BY <1>5, <2>3
  <2>5. j - 1 \in i..n /\ ~(j <= j - 1) /\ j \in 1..n /\ j - 1 \in 1..n
    BY <1>1, <2>3, <2>4
  <2>6. In(i) <= In(j - 1)
    BY <2>2, <2>5
  <2>7. In(j - 1) <= In(j) /\ In(i) \in Nat /\ In(j) \in Nat /\ In(j - 1) \in Nat
    BY <1>1, <1>4, <1>5, <1>6, <2>5
  <2>. QED  BY <2>3, <2>6, <2>7
<1>8. In(i) <= c
  <2>1. n \in i..n
    BY <1>1
  <2>2. n \notin T
    BY <1>7
  <2>. QED  BY <1>4, <2>1, <2>2
<1>9. In(i - 1) < In(i) /\ In(i - 1) = s[i].scope
  BY <1>1, <1>3, <1>6 DEF n
<1>10. In(i - 1) >= 1 /\ In(i - 1) \in Nat
  <2>1. CASE i = 1
    BY <1>4, <2>1
  <2>2. CASE i # 1
    <3>1. i - 1 \in 1..n
      BY <1>1, <2>2
    <3>. QED  BY <1>4, <1>5, <3>1
  <2>. QED  BY <2>1, <2>2
<1>11. In(i) \in Nat
  BY <1>1, <1>4, <1>5
<1>. QED  BY <1>4, <1>8, <1>9, <1>10, <1>11

-----------------------------------------------------------------------------
(* What each handler does to the views and to the open handlers.            *)

\* As far as names go the same handlers are open.
SameFrames(s, t) ==
  /\ Len(t) = Len(s)
  /\ \A i \in 1..Len(s) : t[i].k = s[i].k /\ t[i].scope = s[i].scope /\ t[i].disc = s[i].disc

LEMMA BegunFrames ==
  ASSUME Good, MayBegin
  PROVE  Begun \in Seq(Frame) /\ SameFrames(stack, Begun)
<1>0. stack \in Seq(Frame) /\ Nested(stack, current, scopes) /\ Begun \in Seq(Frame)
  BY BegunNested DEF Good, GoodAt
<1>1. CASE stack = <<>> \/ Top.k \in ListKinds
  BY <1>0, <1>1 DEF Begun, SameFrames
<1>2. CASE ~(stack = <<>> \/ Top.k \in ListKinds)
  <2>. DEFINE f == [Top EXCEPT !.kids = @ + 1]
              n == Len(stack)
  <2>1. n \in Nat /\ n > 0
    BY <1>0, <1>2
  <2>2. Top \in Frame
    BY <1>0, <2>1 DEF Top
  <2>4. f.k = Top.k /\ f.scope = Top.scope /\ f.disc = Top.disc
    BY <2>2 DEF Frame
  <2>5. /\ Below \in Seq(Frame) /\ Len(Below) = n - 1
        /\ \A i \in 1..n - 1 : Below[i] = stack[i]
    BY <1>0, <2>1, PopShape DEF Below
  <2>6. Begun = Append(Below, f)
    BY <1>2 DEF Begun
  <2>. HIDE DEF f
  <2>7. /\ Len(Begun) = n
        /\ Begun[n] = f /\ \A i \in 1..n - 1 : Begun[i] = stack[i]
    BY <2>1, <2>4, <2>5, <2>6
  <2>8. \A i \in 1..n : /\ Begun[i].k = stack[i].k /\ Begun[i].scope = stack[i].scope
                        /\ Begun[i].disc = stack[i].disc
    <3>. TAKE i \in 1..n
    <3>1. i \in 1..n - 1 \/ i = n
      BY <2>1
    <3>. QED  BY <3>1, <2>4, <2>7 DEF Top
  <2>. QED  BY <1>0, <2>7, <2>8 DEF SameFrames
<1>. QED  BY <1>1, <1>2

\* A handler of kind k is entered from where the walk is.
Enters(k, disc) ==
  \E f : /\ f \in Frame /\ f.k = k /\ f.scope = current /\ f.disc = disc
         /\ stack' = Append(Begun, f)

LEMMA EnterIs ==
  ASSUME Good, NEW k \in ListKinds \cup SingleKinds
  PROVE  /\ Enter(k) \in Frame /\ Enter(k).scope = current /\ Enter(k).k = k
         /\ Enter(k).disc = None
         /\ \A t \in TypeInstance :
              /\ [Enter(k) EXCEPT !.ty = t] \in Frame
              /\ [Enter(k) EXCEPT !.ty = t].scope = current
              /\ [Enter(k) EXCEPT !.ty = t].k = k
              /\ [Enter(k) EXCEPT !.ty = t].disc = None
<1>1. current \in Nat /\ switch_context \in TypeInstance \cup {None}
  BY GoodFacts
<1>. QED  BY <1>1 DEF Enter, Frame

\* A handler that goes on, by Begin.
LEMMA BeginGoes ==
  ASSUME NEW f, NEW r, Begin(f, r), out' = "run"
  PROVE  /\ pos' = pos + 1 /\ current' = current /\ types' = types
         /\ ~Stops(r) /\ scopes' = r /\ stack' = Append(Begun, f)
BY DEF Begin, Visiting, Continue, Stop

LEMMA SimpleShows ==
  ASSUME Good, pos \in Nat, NEW node \in SimpleNodes, Simple(node), out' = "run"
  PROVE  /\ pos' = pos + 1 /\ current' = current /\ stack' = Begun /\ MayBegin
         /\ stack # <<>>
         /\ LetViews(scopes, scopes', current, node)
<1>1. /\ pos' = pos + 1 /\ current' = current /\ stack' = Begun /\ MayBegin /\ stack # <<>>
      /\ ~Stops(AfterSimple(scopes, node)) /\ scopes' = AfterSimple(scopes, node)
  BY MayBeginAt DEF Simple, Visiting, Continue, Stop
<1>2. ~Stops(scopes)
  BY <1>1 DEF AfterSimple
<1>. QED  BY <1>1, <1>2, StatementsAssumption, GoodFacts, SimpleViews

LEMMA BlockShows ==
  ASSUME Good, pos \in Nat, pos' < 100, Block
  PROVE  /\ pos' = pos + 1 /\ Enters("block", None) /\ MayBegin /\ stack # <<>>
         /\ SameViews(scopes, scopes', Len(scopes))
         /\ current' = Len(scopes) + 1
         /\ View(scopes', current') = View(scopes, current)
<1>1. /\ scopes' = Table!PushScope(scopes, current) /\ current' = Len(scopes) + 1
      /\ stack' = Append(Begun, Enter("block")) /\ pos' = pos + 1
      /\ MayBegin /\ stack # <<>>
  BY MayBeginAt DEF Block, Visiting
<1>2. Len(scopes) \in Nat /\ Len(scopes) < 100
  BY <1>1, GoodFacts
<1>3. Enters("block", None)
  BY <1>1, EnterIs DEF Enters, ListKinds
<1>. QED  BY <1>1, <1>2, <1>3, GoodFacts, PushViews

LEMMA HeadsShow ==
  ASSUME Good, pos \in Nat
  PROVE  /\ \A e \in CondExprs : If(e) /\ out' = "run" =>
              /\ pos' = pos + 1 /\ current' = current /\ scopes' = scopes /\ MayBegin
              /\ stack # <<>>
              /\ Enters("if", Discriminations(e))
         /\ Else /\ out' = "run" =>
              /\ pos' = pos + 1 /\ current' = current /\ scopes' = scopes /\ MayBegin
              /\ stack # <<>>
              /\ Enters("else", None)
         /\ \A e \in CondExprs : While(e) /\ out' = "run" =>
              /\ pos' = pos + 1 /\ current' = current /\ scopes' = scopes /\ MayBegin
              /\ stack # <<>>
              /\ Enters("while", None)
         /\ \A e \in SwitchExprs : Switch(e) /\ out' = "run" =>
              /\ pos' = pos + 1 /\ current' = current /\ scopes' = scopes /\ MayBegin
              /\ stack # <<>>
              /\ Enters("switch", None)
<1>1. ASSUME NEW e \in CondExprs, If(e), out' = "run"
      PROVE  /\ pos' = pos + 1 /\ current' = current /\ scopes' = scopes /\ MayBegin
             /\ stack # <<>>
             /\ Enters("if", Discriminations(e))
  <2>. DEFINE f == [Enter("if") EXCEPT !.disc = Discriminations(e)]
  <2>1. Discriminations(e) \in Seq(TypeInstance) \cup {None}
    BY StatementsAssumption DEF Discriminations, IsExpr
  <2>2. f \in Frame /\ f.scope = current /\ f.k = "if"
    BY <2>1, FrameShape DEF SingleKinds
  <2>3. f.disc = Discriminations(e)
    BY DEF Enter
  <2>4. Begin(f, IfOn(ExprType(scopes, e))) /\ MayBegin /\ stack # <<>>
    BY <1>1, MayBeginAt DEF If
  <2>. HIDE DEF f
  <2>5. /\ pos' = pos + 1 /\ current' = current
        /\ ~Stops(IfOn(ExprType(scopes, e))) /\ scopes' = IfOn(ExprType(scopes, e))
        /\ stack' = Append(Begun, f)
    BY <1>1, <2>4, BeginGoes
  <2>6. scopes' = scopes
    BY <2>5 DEF IfOn, Stops
  <2>. QED  BY <2>2, <2>3, <2>4, <2>5, <2>6 DEF Enters
<1>2. ASSUME Else, out' = "run"
      PROVE  /\ pos' = pos + 1 /\ current' = current /\ scopes' = scopes /\ MayBegin
             /\ stack # <<>>
             /\ Enters("else", None)
  <2>1. Begin(Enter("else"), scopes) /\ MayBegin /\ stack # <<>>
    BY <1>2, MayBeginAt DEF Else
  <2>2. /\ pos' = pos + 1 /\ current' = current /\ scopes' = scopes
        /\ stack' = Append(Begun, Enter("else"))
    BY <1>2, <2>1, BeginGoes
  <2>. QED  BY <2>1, <2>2, EnterIs DEF Enters, SingleKinds
<1>3. ASSUME NEW e \in CondExprs, While(e), out' = "run"
      PROVE  /\ pos' = pos + 1 /\ current' = current /\ scopes' = scopes /\ MayBegin
             /\ stack # <<>>
             /\ Enters("while", None)
  <2>1. Begin(Enter("while"), AfterExpr(scopes, e)) /\ MayBegin /\ stack # <<>>
    BY <1>3, MayBeginAt DEF While
  <2>2. /\ pos' = pos + 1 /\ current' = current
        /\ ~Stops(AfterExpr(scopes, e)) /\ scopes' = AfterExpr(scopes, e)
        /\ stack' = Append(Begun, Enter("while"))
    BY <1>3, <2>1, BeginGoes
  <2>3. scopes' = scopes
    BY <2>2 DEF AfterExpr, Stops
  <2>. QED  BY <2>1, <2>2, <2>3, EnterIs DEF Enters, SingleKinds
<1>4. ASSUME NEW e \in SwitchExprs, Switch(e), out' = "run"
      PROVE  /\ pos' = pos + 1 /\ current' = current /\ scopes' = scopes /\ MayBegin
             /\ stack # <<>>
             /\ Enters("switch", None)
  <2>. DEFINE t == ExprType(scopes, e)
              f == [Enter("switch") EXCEPT !.ty = t]
  <2>1. SwitchOn(t) /\ MayBegin /\ stack # <<>> /\ pos' = pos + 1
    BY <1>4, MayBeginAt DEF Switch, Visiting
  <2>2. Stops(t) \/ Known(types, t)
    BY StatementsAssumption, GoodFacts, ExprKnown
  <2>. HIDE DEF t
  <2>3. ~Stops(t) /\ stack' = Append(Begun, f) /\ scopes' = scopes /\ current' = current
    BY <1>4, <2>1 DEF SwitchOn, Stop
  <2>4. t \in TypeInstance
    BY <2>2, <2>3 DEF Known
  <2>5. f \in Frame /\ f.scope = current /\ f.k = "switch" /\ f.disc = None
    BY <2>4, EnterIs DEF ListKinds
  <2>. HIDE DEF f
  <2>. QED  BY <2>1, <2>3, <2>5 DEF Enters
<1>. QED  BY <1>1, <1>2, <1>3, <1>4

LEMMA ForShows ==
  ASSUME Good, pos \in Nat, NEW node \in ForNodes, node.end.k \in {"assign", "expr"},
         For(node), out' = "run"
  PROVE  /\ pos' = pos + 1 /\ current' = current /\ MayBegin /\ stack # <<>>
         /\ Enters("for", None)
         /\ scopes' = AfterSimple(scopes, node.init)
         /\ LetViews(scopes, scopes', current, node.init)
<1>1. Begin(Enter("for"), AfterForHead(node)) /\ MayBegin /\ stack # <<>>
  BY MayBeginAt DEF For
<1>2. /\ pos' = pos + 1 /\ current' = current
      /\ ~Stops(AfterForHead(node)) /\ scopes' = AfterForHead(node)
      /\ stack' = Append(Begun, Enter("for"))
  BY <1>1, BeginGoes
<1>3. scopes' = AfterSimple(scopes, node.init) /\ ~Stops(AfterSimple(scopes, node.init))
  BY <1>2, HeadViews
<1>4. ~Stops(scopes)
  BY <1>3 DEF AfterSimple
<1>5. Enters("for", None)
  BY <1>2, EnterIs DEF Enters, SingleKinds
<1>. QED  BY <1>1, <1>2, <1>3, <1>4, <1>5, StatementsAssumption, GoodFacts, SimpleViews

\* The parameters that an arm binds have names that nothing has yet.
Unseen(params) == \A i \in 1..Len(params) : ValueOf(scopes, params[i].n) = None

\* An `is` discriminates at most one type.
OneType(disc) == disc # None => Len(disc) \in 0..1

LEMMA ArrowShows ==
  ASSUME Good, pos \in Nat, NEW params \in ArrowParams, Unseen(params), OneType(Top.disc),
         Arrow(params), out' = "run"
  PROVE  /\ pos' = pos + 1 /\ current' = current /\ MayBegin /\ stack # <<>>
         /\ Enters("arrow", None)
         /\ Bounds(scopes, scopes', current, params)
<1>. DEFINE expected == IF Top.disc = None THEN <<>> ELSE Top.disc
            r == AfterArrowParams(params, expected)
<1>1. Begin(Enter("arrow"), r) /\ MayBegin /\ stack # <<>>
  BY MayBeginAt DEF Arrow
<1>2. Len(expected) \in 0..1
  BY DEF OneType
<1>3. params \in Seq(ParamDecls)
  BY StatementsAssumption
<1>. HIDE DEF expected
<1>4. ~Stops(r) => Bounds(scopes, r, current, params)
  BY <1>2, <1>3, GoodFacts, ArrowViews DEF Unseen
<1>. HIDE DEF r
<1>5. /\ pos' = pos + 1 /\ current' = current /\ ~Stops(r) /\ scopes' = r
      /\ stack' = Append(Begun, Enter("arrow"))
  BY <1>1, BeginGoes
<1>6. Enters("arrow", None)
  BY <1>5, EnterIs DEF Enters, ListKinds
<1>. QED  BY <1>1, <1>4, <1>5, <1>6

LEMMA NoBounds ==
  ASSUME NEW ss, NEW c, NEW params, Len(params) = 0
  PROVE  Bounds(ss, ss, c, params)
<1>1. \A i \in 1..0 : FALSE
  OBVIOUS
<1>. QED  BY <1>1 DEF Bounds, SameViews

LEMMA CaseShows ==
  ASSUME Good, pos \in Nat, NEW node \in CaseNodes, Unseen(node.params),
         node.params # <<>> => node.arrow /\ node.label.k # "default",
         Case(node), out' = "run"
  PROVE  /\ pos' = pos + 1 /\ current' = current /\ MayBegin /\ stack # <<>>
         /\ Enters("case", None) \/ Enters("case_arrow", None)
         /\ Bounds(scopes, scopes', current, node.params)
<1>0. MayBegin /\ stack # <<>> /\ node.params \in Seq(ParamDecls)
  BY MayBeginAt, StatementsAssumption DEF Case
<1>. DEFINE Shown ==
              /\ pos' = pos + 1 /\ current' = current
              /\ Enters("case", None) \/ Enters("case_arrow", None)
              /\ Bounds(scopes, scopes', current, node.params)
<1>. SUFFICES Shown
  BY <1>0
<1>1. ASSUME NEW r, Begin(Enter("case"), r), r \in {Failed, scopes}, node.params = <<>>
      PROVE  Shown
  <2>1. /\ pos' = pos + 1 /\ current' = current /\ ~Stops(r) /\ scopes' = r
        /\ stack' = Append(Begun, Enter("case"))
    BY <1>1, BeginGoes
  <2>2. scopes' = scopes /\ Len(node.params) = 0
    BY <1>1, <2>1 DEF Stops
  <2>3. Enters("case", None)
    BY <2>1, EnterIs DEF Enters, SingleKinds
  <2>4. Bounds(scopes, scopes, current, node.params)
    BY <2>2, NoBounds
  <2>. QED  BY <2>1, <2>2, <2>3, <2>4
<1>2. ASSUME NEW f, Begin(f, Failed) PROVE FALSE
  BY <1>2, BeginGoes DEF Stops
<1>3. CASE EnumCase(node)
  <2>1. CASE node.label.k # "id" \/ ~HasType(scopes, node.label.n)
    <3>1. Begin(Enter("case"), Failed)
      BY <1>3, <2>1 DEF EnumCase
    <3>. QED  BY <1>2, <3>1
  <2>2. CASE ~(node.label.k # "id" \/ ~HasType(scopes, node.label.n))
    <3>. DEFINE type == OfType(node.label.n)
                f == [Enter("case") EXCEPT !.ty = type]
                g == [Enter("case_arrow") EXCEPT !.ty = type]
                r == IF Len(node.params) # 1 THEN Failed
                     ELSE AfterArrowParams(node.params, <<type>>)
    <3>1. node.label.n \in TypeNames
      BY <2>2, GoodFacts, HasTypeKnown
    <3>2. type \in TypeInstance
      BY <3>1 DEF OfType, TypeInstance
    <3>3. (Begin(f, scopes) /\ ~node.arrow) \/ Begin(g, r)
      BY <1>3, <2>2 DEF EnumCase
    <3>. HIDE DEF type
    <3>4. ~Stops(r) => Bounds(scopes, r, current, node.params)
      <4>1. CASE Len(node.params) = 1
        <5>1. Len(<<type>>) \in 0..1 /\ r = AfterArrowParams(node.params, <<type>>)
          BY <4>1
        <5>. HIDE DEF r
        <5>. QED  BY <1>0, <5>1, GoodFacts, ArrowViews DEF Unseen
      <4>2. CASE Len(node.params) # 1
        BY <4>2 DEF Stops
      <4>. QED  BY <4>1, <4>2
    <3>. HIDE DEF r
    <3>5. f \in Frame /\ f.scope = current /\ f.k = "case" /\ f.disc = None
      BY <3>2, EnterIs DEF SingleKinds
    <3>6. g \in Frame /\ g.scope = current /\ g.k = "case_arrow" /\ g.disc = None
      BY <3>2, EnterIs DEF ListKinds
    <3>. HIDE DEF f, g
    <3>7. CASE Begin(f, scopes) /\ ~node.arrow
      <4>1. /\ pos' = pos + 1 /\ current' = current /\ scopes' = scopes
            /\ stack' = Append(Begun, f)
        BY <3>7, BeginGoes
      <4>2. Bounds(scopes, scopes, current, node.params)
        <5>1. Len(node.params) = 0
          BY <3>7
        <5>. QED  BY <5>1, NoBounds
      <4>. QED  BY <3>5, <4>1, <4>2 DEF Enters
    <3>8. CASE Begin(g, r)
      <4>1. /\ pos' = pos + 1 /\ current' = current /\ ~Stops(r) /\ scopes' = r
            /\ stack' = Append(Begun, g)
        BY <3>8, BeginGoes
      <4>. QED  BY <3>4, <3>6, <4>1 DEF Enters
    <3>. QED  BY <3>3, <3>7, <3>8
  <2>. QED  BY <2>1, <2>2
<1>4. CASE ~EnumCase(node)
  <2>1. \E r \in {Failed, scopes} : Begin(Enter("case"), r) /\ (r = scopes => node.label.k = "default" \/ ~node.arrow)
    <3>1. CASE switch_context = None
      <4>1. Begin(Enter("case"), Failed)
        BY <1>4, <3>1 DEF Case
      <4>. QED  BY <1>2, <4>1
    <3>2. CASE switch_context # None /\ node.label.k = "default"
      BY <1>4, <3>2 DEF Case
    <3>3. CASE switch_context # None /\ node.label.k # "default"
      <4>1. Begin(Enter("case"), IF node.label.k = "num" /\ ~node.arrow THEN scopes ELSE Failed)
        BY <1>4, <3>3 DEF Case
      <4>. QED  BY <1>2, <4>1
    <3>. QED  BY <3>1, <3>2, <3>3
  <2>2. PICK r \in {Failed, scopes} : Begin(Enter("case"), r) /\ (r = scopes => node.label.k = "default" \/ ~node.arrow)
    BY <2>1
  <2>3. r = scopes
    BY <1>2, <2>2
  <2>4. node.params = <<>>
    BY <2>2, <2>3
  <2>. HIDE DEF Shown
  <2>. QED  BY <1>1, <2>2, <2>4
<1>. QED  BY <1>3, <1>4

\* The root once a function is declared in it, and the views from it.
Rooted(ss, tt, n) ==
  View(tt, 1) = [View(ss, 1) EXCEPT ![n] = IF ss[1].names[n] = None THEN <<pos, 0>> ELSE @]

LEMMA ProtoViews ==
  ASSUME NEW tm, TypesOK(tm), Keeps(types, tm), ScopesOK(scopes, types),
         current \in 1..Len(scopes), pos \in Nat,
         NEW node, node.n \in Names \cap TypeNames, tm[node.n] # None,
         ~IsInferType(OfType(node.n))
  PROVE  Declares(scopes, ScopesAfterProto(node), current, node.n, 0)
<1>. DEFINE s1 == Table!AddType(scopes, current, node.n)
            s2 == Declare(s1, current, node.n, OfType(node.n), 0)
<1>1. ScopesOK(scopes, tm)
  BY StillKnown
<1>2. ScopesOK(s1, tm) /\ SameChain(scopes, s1) /\ SameNames(scopes, s1)
  BY <1>1, AddTypeLeaves
<1>. HIDE DEF s1
<1>3. current \in 1..Len(s1)
  BY <1>2 DEF SameChain
<1>4. Bindable(tm, OfType(node.n))
  BY DEF Bindable, OfType, TypeInstance
<1>5. Declares(s1, s2, current, node.n, 0)
  BY <1>2, <1>3, <1>4, DeclareViews
<1>6. SameViews(scopes, s1, Len(scopes))
  BY <1>1, <1>2, NamesAgree DEF SameChain
<1>7. Len(scopes) \in Nat /\ current \in 1..Len(scopes)
  BY DEF ScopesOK
<1>. HIDE DEF s2
<1>8. /\ \A s \in 0..current - 1 : s \in 0..Len(scopes)
      /\ current \in 0..Len(scopes)
  BY <1>7
<1>9. SameViews(scopes, s2, current - 1)
  BY <1>5, <1>6, <1>8 DEF Declares, SameViews
<1>10. s1[current].names = scopes[current].names /\ View(s1, current) = View(scopes, current)
  BY <1>2, <1>6, <1>8 DEF SameNames, SameViews
<1>11. Declares(scopes, s2, current, node.n, 0)
  BY <1>5, <1>9, <1>10 DEF Declares
<1>. QED  BY <1>11 DEF ScopesAfterProto, s1, s2

LEMMA ExternShows ==
  ASSUME Good, pos \in Nat, NEW node \in ExternNodes, ExternFn(node), out' = "run"
  PROVE  /\ pos' = pos + 1 /\ current' = current /\ stack' = stack /\ stack = <<>>
         /\ current = 1
         /\ Rooted(scopes, scopes', node.n)
<1>1. /\ pos' = pos + 1 /\ stack = <<>> /\ ~ProtoFails(node)
      /\ scopes' = ScopesAfterProto(node)
      /\ UNCHANGED <<current, stack>>
  BY DEF ExternFn, Visiting, Stop
<1>. DEFINE tm == TypesAfterProto(node)
<1>2. /\ TypesOK(tm) /\ Keeps(types, tm) /\ tm[node.n] # None
      /\ node.n \in Names \cap TypeNames /\ ~IsInferType(OfType(node.n))
  BY <1>1, GoodFacts, ProtoTypes
<1>. HIDE DEF tm
<1>3. Declares(scopes, ScopesAfterProto(node), current, node.n, 0)
  BY <1>2, GoodFacts, ProtoViews
<1>4. current = 1
  BY <1>1, TopLevel
<1>. QED  BY <1>1, <1>3, <1>4 DEF Declares, Rooted

LEMMA TypesShow ==
  ASSUME Good, pos \in Nat
  PROVE  /\ \A node \in StructNodes : StructOrUnion(node) /\ out' = "run" =>
              /\ pos' = pos + 1 /\ current' = current /\ stack' = stack /\ stack = <<>>
              /\ SameViews(scopes, scopes', Len(scopes))
         /\ \A node \in EnumNodes : Enum(node) /\ out' = "run" =>
              /\ pos' = pos + 1 /\ current' = current /\ stack' = stack /\ stack = <<>>
              /\ SameViews(scopes, scopes', Len(scopes))
<1>1. ASSUME NEW node \in StructNodes, StructOrUnion(node), out' = "run"
      PROVE  /\ pos' = pos + 1 /\ current' = current /\ stack' = stack /\ stack = <<>>
             /\ SameViews(scopes, scopes', Len(scopes))
  <2>. DEFINE type == PlainType(node.n, node.k)
              tm == DefineType(types, node.n, type)
  <2>1. /\ scopes' = Table!AddType(scopes, current, node.n)
        /\ pos' = pos + 1 /\ UNCHANGED <<current, stack>> /\ stack = <<>>
    BY <1>1 DEF StructOrUnion, Visiting, Stop
  <2>2. node.n \in TypeNames /\ type \in Type /\ type.cls # "function"
    BY DeclarationsAssumption DEF PlainType, Type, Classes, TypeNames
  <2>. HIDE DEF type
  <2>3. TypesOK(tm) /\ Keeps(types, tm) /\ tm[node.n] # None
    BY <2>2, GoodFacts, DefineTypeKeeps
  <2>. HIDE DEF tm
  <2>4. ScopesOK(scopes, tm)
    BY <2>3, GoodFacts, StillKnown
  <2>5. /\ ScopesOK(scopes', tm) /\ SameChain(scopes, scopes') /\ SameNames(scopes, scopes')
    BY <2>1, <2>2, <2>3, <2>4, GoodFacts, AddTypeLeaves
  <2>6. SameViews(scopes, scopes', Len(scopes))
    BY <2>4, <2>5, NamesAgree DEF SameChain
  <2>. QED  BY <2>1, <2>6
<1>2. ASSUME NEW node \in EnumNodes, Enum(node), out' = "run"
      PROVE  /\ pos' = pos + 1 /\ current' = current /\ stack' = stack /\ stack = <<>>
             /\ SameViews(scopes, scopes', Len(scopes))
  <2>. DEFINE m == AfterMembers(node)
              tm == SetEnumMembers(m[1], node.n, MemberTypes(node))
  <2>1. pos' = pos + 1 /\ EnumOf(node, m) /\ stack = <<>>
    BY <1>2 DEF Enum, Visiting
  <2>2. /\ ~Stops(m) /\ scopes' = Table!AddType(m[2], current, node.n)
        /\ UNCHANGED <<current, stack>>
    BY <1>2, <2>1 DEF EnumOf, Stop
  <2>3. /\ TypesOK(tm) /\ tm[node.n] # None
        /\ ScopesOK(m[2], tm) /\ SameChain(scopes, m[2]) /\ SameNames(scopes, m[2])
    BY <2>2, EnumTypes
  <2>. HIDE DEF m, tm
  <2>4. current \in 1..Len(m[2])
    BY <2>3, GoodFacts DEF SameChain
  <2>5. node.n \in TypeNames
    BY DeclarationsAssumption DEF TypeNames
  <2>6. /\ ScopesOK(scopes', tm) /\ SameChain(m[2], scopes') /\ SameNames(m[2], scopes')
    BY <2>2, <2>3, <2>4, <2>5, AddTypeLeaves
  <2>7. SameChain(scopes, scopes') /\ SameNames(scopes, scopes')
    BY <2>3, <2>6, SameChainTrans, SameNamesTrans
  <2>8. SameViews(scopes, scopes', Len(scopes))
    BY <2>6, <2>7, GoodFacts, NamesAgree DEF SameChain
  <2>. QED  BY <2>1, <2>2, <2>8
<1>. QED  BY <1>1, <1>2

LEMMA ExitShows ==
  ASSUME Good, pos \in Nat, Exit, out' = "run"
  PROVE  /\ pos' = pos /\ stack # <<>> /\ stack' = Below /\ current' = Top.scope
         /\ SameViews(scopes, scopes', Len(scopes))
<1>1. pos' = pos /\ stack # <<>> /\ stack' = Below /\ current' = Top.scope
  BY ExitGood DEF Exit
<1>2. ScopesOK(scopes, types) /\ current \in 1..Len(scopes)
  BY GoodFacts
<1>3. CASE Top.k = "fn"
  <2>. DEFINE s1 == Table!SetExpectedReturn(scopes, current, None)
              s2 == Table!PopScope(s1, current)
  <2>1. scopes' = s2
    BY <1>3 DEF Exit
  <2>2. /\ ScopesOK(s1, types) /\ Len(s1) = Len(scopes)
        /\ \A s \in 1..Len(scopes) : s # current => s1[s] = scopes[s]
        /\ s1[current].parent = scopes[current].parent
        /\ SameNames(scopes, s1)
    <3>1. None \in TypeInstance \cup {None}
      OBVIOUS
    <3>. QED  BY <1>2, <3>1, ReturnLeaves
  <2>. HIDE DEF s1
  <2>3. ScopesOK(s2, types) /\ SameChain(s1, s2) /\ SameNames(s1, s2)
    BY <1>2, <2>2, PopLeaves
  <2>. HIDE DEF s2
  <2>4. SameNames(scopes, s2)
    BY <2>2, <2>3, SameNamesTrans
  <2>5. \A s \in 1..Len(scopes) : s2[s].parent = scopes[s].parent
    BY <2>2, <2>3 DEF SameChain
  <2>. QED  BY <1>1, <1>2, <2>1, <2>3, <2>4, <2>5, NamesAgree
<1>4. CASE Top.k # "fn"
  <2>1. scopes' \in {scopes, Table!PopScope(scopes, current)}
    BY <1>4 DEF Exit
  <2>2. CASE scopes' = scopes
    BY <1>1, <2>2 DEF SameViews
  <2>3. CASE scopes' = Table!PopScope(scopes, current)
    <3>1. ScopesOK(scopes', types) /\ SameChain(scopes, scopes') /\ SameNames(scopes, scopes')
      BY <1>2, <2>3, PopLeaves
    <3>. QED  BY <1>1, <1>2, <3>1, NamesAgree DEF SameChain
  <2>. QED  BY <2>1, <2>2, <2>3
<1>. QED  BY <1>3, <1>4

\* The scope of a function's body shows its parameters and what the root shows.
Inner(tt, c, params) ==
  \A m \in Names :
    /\ \A i \in 1..Len(params) : params[i].n = m => View(tt, c)[m] = <<pos, i>>
    /\ (\A i \in 1..Len(params) : params[i].n # m) => View(tt, c)[m] = View(tt, 1)[m]

LEMMA FnShows ==
  ASSUME Good, pos \in Nat, pos' < 100, NEW node \in FnNodes, OwnNames(node.params),
         Fn(node), out' = "run"
  PROVE  /\ pos' = pos + 1 /\ stack = <<>> /\ MayBegin /\ current = 1
         /\ Enters("fn", None)
         /\ Rooted(scopes, scopes', node.n)
         /\ Inner(scopes', current', node.params)
<1>. DEFINE tm == TypesAfterProto(node)
            ret == tm[node.n].ret
            c == Len(scopes) + 1
            s1 == ScopesAfterProto(node)
            s2 == Table!PushScope(s1, current)
            s3 == WithParams(s2, c, node.params)
            s4 == Table!SetExpectedReturn(s3, c, ret)
            f == [Enter("fn") EXCEPT !.ty = ret]
<1>1. pos' = pos + 1 /\ stack = <<>> /\ MayBegin
  BY DEF Fn, Visiting, MayBegin
<1>2. /\ ~ProtoFails(node) /\ ret # None
      /\ scopes' = s4 /\ current' = c /\ stack' = <<f>>
  BY DEF Fn, Body, Stop
<1>3. /\ TypesOK(tm) /\ Keeps(types, tm) /\ tm[node.n] # None
      /\ node.params \in Seq(ParamDecls)
      /\ AllBindable(tm, node.params)
      /\ node.n \in Names \cap TypeNames /\ ~IsInferType(OfType(node.n))
  BY <1>2, GoodFacts, ProtoTypes DEF AllBindable
<1>. HIDE DEF tm
<1>4. ret \in TypeInstance
  <2>1. tm[node.n] \in Type
    BY <1>3 DEF TypesOK
  <2>. QED  BY <1>2, <2>1 DEF Type
<1>. HIDE DEF ret
<1>5. ScopesOK(s1, tm) /\ SameChain(scopes, s1) /\ Declares(scopes, s1, current, node.n, 0)
  BY <1>3, GoodFacts, ProtoLeaves, ProtoViews
<1>. HIDE DEF s1
<1>6. /\ Len(scopes) \in Nat /\ Len(s1) = Len(scopes) /\ Len(s1) < 100
      /\ current \in 1..Len(s1) /\ c = Len(s1) + 1 /\ current = 1
  BY <1>1, <1>5, GoodFacts, TopLevel DEF SameChain
<1>7. /\ ScopesOK(s2, tm) /\ Len(s2) = c
      /\ \A n \in Names : s2[c].names[n] = None
      /\ SameViews(s1, s2, Len(s1)) /\ View(s2, c) = View(s1, current)
  BY <1>5, <1>6, PushLeaves, PushViews
<1>. HIDE DEF s2
<1>8. c \in Nat /\ c \in 1..Len(s2) /\ 1 \in 0..c - 1 /\ c \in 0..c /\ 1 \in 0..c
      /\ 1 \in 0..Len(s1)
  BY <1>6, <1>7
<1>. HIDE DEF c
<1>9. ScopesOK(s3, tm) /\ SameChain(s2, s3) /\ Bounds(s2, s3, c, node.params)
  BY <1>3, <1>7, <1>8, ParamsLeave, ParamViews
<1>. HIDE DEF s3
<1>10. /\ ScopesOK(s4, tm) /\ Len(s4) = Len(s3)
       /\ \A s \in 1..Len(s3) : s # c => s4[s] = s3[s]
       /\ s4[c].parent = s3[c].parent
       /\ SameNames(s3, s4) /\ Len(s3) = c
  <2>1. Len(s3) = c /\ c \in 1..Len(s3)
    BY <1>7, <1>8, <1>9 DEF SameChain
  <2>2. ret \in TypeInstance \cup {None}
    BY <1>4
  <2>. QED  BY <1>9, <2>1, <2>2, ReturnLeaves
<1>. HIDE DEF s4
<1>11. SameViews(s3, s4, c)
  BY <1>9, <1>10, NamesAgree
<1>12. View(s4, 1) = View(s1, 1)
  BY <1>7, <1>8, <1>9, <1>11 DEF SameViews, Bounds
<1>13. View(s4, c) = View(s3, c) /\ View(s2, c) = View(s1, 1)
  BY <1>6, <1>7, <1>8, <1>11 DEF SameViews
<1>14. Rooted(scopes, s4, node.n)
  BY <1>5, <1>6, <1>12 DEF Rooted, Declares
<1>15. Inner(s4, c, node.params)
  BY <1>9, <1>12, <1>13 DEF Bounds, Inner
<1>16. Enters("fn", None)
  <2>1. f \in Frame /\ f.scope = current /\ f.k = "fn" /\ f.disc = None
    BY <1>4, EnterIs DEF ListKinds
  <2>. HIDE DEF f
  <2>2. stack' = Append(Begun, f)
    BY <1>1, <1>2 DEF Begun
  <2>. QED  BY <2>1, <2>2 DEF Enters
<1>. QED  BY <1>1, <1>2, <1>6, <1>14, <1>15, <1>16
\* Nothing is seen at the start.
LEMMA InitViews == Init => View(scopes, current) = [n \in Names |-> None]
<1>. SUFFICES ASSUME Init PROVE View(scopes, current) = [n \in Names |-> None]
  OBVIOUS
<1>1. Good /\ current = 1
  BY InitWalk DEF Init, WalkInv, Table!Root
<1>2. ScopesOK(scopes, types) /\ 1 \in 1..Len(scopes)
  BY <1>1, GoodFacts
<1>3. \A n \in Names : scopes[1].names[n] = None
  BY DEF Init, Table!InitialScopes, Table!NewScope
<1>4. ASSUME NEW n \in Names PROVE View(scopes, 1)[n] = None
  <2>1. /\ View(scopes, 0)[n] = None
        /\ \A s \in 1..Len(scopes) :
             /\ scopes[s].parent \in 0..s - 1
             /\ scopes[s].names[n] # None => scopes[s].names[n] \in Declared
             /\ View(scopes, s)[n] = IF scopes[s].names[n] # None THEN scopes[s].names[n].site
                                     ELSE View(scopes, scopes[s].parent)[n]
    BY <1>2, ViewWalk
  <2>2. scopes[1].parent \in 0..1 - 1
    BY <1>2, <2>1
  <2>3. scopes[1].parent = 0
    BY <2>2
  <2>. QED  BY <1>2, <1>3, <2>1, <2>3
<1>. QED  BY <1>1, <1>4 DEF View
=============================================================================
