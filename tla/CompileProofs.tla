--------------------------- MODULE CompileProofs ---------------------------
(***************************************************************************)
(* Proofs about the two phases on one program, for every set of nodes and  *)
(* every bound.                                                            *)
(*                                                                         *)
(* A `case` that the semantic phase lets through finds a switch when the   *)
(* code generator comes to it.  Between the two is the IR, so what has to  *)
(* be known is that the handlers that are open when the code generator     *)
(* comes to an item are those that were open when the item was made.  A    *)
(* shape says which of the open handlers are switches; IRInv gives one for *)
(* each item, and says that the stack of the semantic phase has the last   *)
(* of them and the stack of the code generator that of the item it is at.  *)
(*                                                                         *)
(* A name means the same declaration to both phases.  The semantic phase   *)
(* has a table of nested scopes, the code generator one map that it saves  *)
(* and puts back, and the second runs when the first has ended.  What both *)
(* are compared with is a resolver, which reads nothing but the items of   *)
(* the IR: the views of the semantic phase are the resolver after the last *)
(* item, and the code generator's map is within the resolver after the     *)
(* item it is at.  AgreeInv gives the resolver for each item.              *)
(***************************************************************************)
EXTENDS Compile, SequenceTheorems, TLAPS

\* The generator as Compile runs it: the rules are not kept.
CG == INSTANCE CodegenProofs WITH
  stack <- gstack, pos <- gpos, out <- gout, rules <- {}, RuleSets <- {{}},
  BuiltinTypes <- {"i8", "i16", "i32", "u8", "u16", "u32", "void"},
  FnNodes <- {}, ExternNodes <- {}, TypeNodes <- {}, SimpleNodes <- {},
  CondNodes <- {}, ArrowParams <- {}, ForNodes <- {}, SwitchNodes <- {},
  CaseNodes <- {}

Marks == {"switch", "other"}

Mark(k) == IF k = "switch" THEN "switch" ELSE "other"

Shape(s) == [i \in 1..Len(s) |-> Mark(s[i].k)]

\* What a handler's item does to the shape.
After(h, a) ==
  IF h \in {"fn", "block", "if", "arrow", "else", "while", "for", "switch", "case"}
  THEN Append(a, Mark(h))
  ELSE IF h = "end" THEN SubSeq(a, 1, Len(a) - 1) ELSE a

HasSwitch(a) == \E j \in 1..Len(a) : a[j] = "switch"

\* sh is the shape before the first item and after each.
Shapes(sh, items) ==
  /\ sh \in [0..Len(items) -> Seq(Marks)]
  /\ sh[0] = <<>>
  /\ \A i \in 1..Len(items) :
       /\ sh[i] = After(items[i].h, sh[i - 1])
       /\ items[i].h = "case" => HasSwitch(sh[i - 1])

\* The C++ stacks, frame by frame.
IsStack(s) ==
  (\E X : s \in Seq(X)) /\ \A i \in 1..Len(s) : {"k", "kids"} \subseteq DOMAIN s[i]

\* A switch is among the first n handlers.
Around(s, n) == \E j \in 1..n : s[j].k = "switch"

\* In the semantic phase a context that is set is that of a switch around.
Contexts(s, ctx) ==
  /\ IsStack(s)
  /\ \A i \in 1..Len(s) : /\ "ctx" \in DOMAIN s[i]
                          /\ s[i].ctx # None => Around(s, i - 1)
  /\ ctx # None => Around(s, Len(s))

\* In the code generator LLVMFnInfo's switch is set inside a switch.
Switches(s, sw) ==
  /\ IsStack(s)
  /\ \A i \in 1..Len(s) : /\ "switch" \in DOMAIN s[i]
                          /\ Around(s, i - 1) => s[i].switch # None
  /\ Around(s, Len(s)) => sw # None

\* The handler of an item.
Kinds == {"fn", "extern", "type", "simple", "block", "if", "arrow", "else", "while",
          "for", "switch", "case", "end"}

\* An item is what its handler takes.
Typed(item) ==
  /\ item.h \in {"fn", "extern"} => CG!IsProto(item.node)
  /\ item.h = "type" => item.node.entered \subseteq TypeNames
  /\ item.h = "arrow" => item.node \in CG!Params
  /\ item.h = "for" =>
       {item.node.init.uses, item.node.cond, item.node.end} \subseteq Seq(STRING)
  /\ item.h = "case" => CG!IsCase(item.node)

\* How many items the code generator has handled.
Handled == IF next = 0 THEN 0 ELSE next - 1

IRInv ==
  /\ \E X : ir \in Seq(X)
  /\ next \in 0..(Len(ir) + 1)
  /\ Contexts(sstack, switch_context)
  /\ Switches(gstack, switch)
  /\ CG!TypeInv
  /\ \A i \in 1..Len(ir) : ir[i].h \in Kinds /\ Typed(ir[i])
  /\ \E sh : /\ Shapes(sh, ir)
             /\ sh[Len(ir)] = Shape(sstack)
             /\ gout = "run" => sh[Handled] = Shape(gstack)

-----------------------------------------------------------------------------
(* Lemmas on the stacks.                                                    *)

ListKinds == {"fn", "block", "arrow", "case_arrow", "switch"}

\* A child of the innermost handler begins.
Bump(s) ==
  IF s = <<>> \/ s[Len(s)].k \in ListKinds THEN s
  ELSE Append(SubSeq(s, 1, Len(s) - 1), [s[Len(s)] EXCEPT !.kids = @ + 1])

LEMMA BegunIsBump == S!Begun = Bump(sstack) /\ C!Begun = Bump(gstack)
BY DEF S!Begun, S!Top, S!Below, S!ListKinds, C!Begun, C!Top, C!Below, C!ListKinds,
       Bump, ListKinds

LEMMA PushShape ==
  ASSUME NEW s, IsStack(s), NEW f, {"k", "kids"} \subseteq DOMAIN f
  PROVE  /\ IsStack(Append(s, f))
         /\ Len(s) \in Nat
         /\ Len(Append(s, f)) = Len(s) + 1
         /\ \A i \in 1..Len(s) : Append(s, f)[i] = s[i]
         /\ Append(s, f)[Len(s) + 1] = f
<1>1. PICK X : s \in Seq(X)
  BY DEF IsStack
<1>. DEFINE t == Append(s, f)
<1>2. s \in Seq(X \cup {f})
  BY <1>1
<1>3. /\ t \in Seq(X \cup {f}) /\ Len(s) \in Nat /\ Len(t) = Len(s) + 1
      /\ \A i \in 1..Len(s) : t[i] = s[i]
      /\ t[Len(s) + 1] = f
  BY <1>2
<1>. HIDE DEF t
<1>4. \A i \in 1..Len(t) : {"k", "kids"} \subseteq DOMAIN t[i]
  BY <1>3 DEF IsStack
<1>5. IsStack(t)
  BY <1>3, <1>4 DEF IsStack
<1>. QED  BY <1>3, <1>5 DEF t

LEMMA PopShape ==
  ASSUME NEW s, IsStack(s), s # <<>>
  PROVE  /\ Len(s) \in Nat /\ Len(s) > 0
         /\ IsStack(SubSeq(s, 1, Len(s) - 1))
         /\ Len(SubSeq(s, 1, Len(s) - 1)) = Len(s) - 1
         /\ \A i \in 1..(Len(s) - 1) : SubSeq(s, 1, Len(s) - 1)[i] = s[i]
<1>1. PICK X : s \in Seq(X)
  BY DEF IsStack
<1>2. Len(s) \in Nat /\ Len(s) > 0
  BY <1>1
<1>. DEFINE n == Len(s) - 1
            t == SubSeq(s, 1, n)
<1>3. n \in Nat /\ \A i \in 1..n : s[i] \in X /\ i \in 1..Len(s)
  BY <1>1, <1>2
<1>. HIDE DEF n
<1>4. /\ t \in Seq(X)
      /\ Len(t) = IF 1 <= n THEN n - 1 + 1 ELSE 0
      /\ \A i \in 1..(n - 1 + 1) : t[i] = s[1 + i - 1]
  BY <1>3, SubSeqProperties
<1>5. n - 1 + 1 = n /\ (~(1 <= n) => n = 0) /\ \A i \in 1..n : 1 + i - 1 = i
  BY <1>3
<1>6. Len(t) = n /\ \A i \in 1..n : t[i] = s[i]
  BY <1>4, <1>5
<1>7. IsStack(t)
  <2>. HIDE DEF t
  <2>. QED  BY <1>3, <1>4, <1>6 DEF IsStack
<1>. QED  BY <1>2, <1>6, <1>7 DEF n

\* t is s but for the children counted.
Alike(s, t) ==
  /\ IsStack(t)
  /\ Len(t) = Len(s)
  /\ \A i \in 1..Len(s) :
       /\ DOMAIN t[i] = DOMAIN s[i]
       /\ \A x \in DOMAIN s[i] : x # "kids" => t[i][x] = s[i][x]

LEMMA BumpAlike ==
  ASSUME NEW s, IsStack(s)
  PROVE  Alike(s, Bump(s))
<1>1. CASE s = <<>> \/ s[Len(s)].k \in ListKinds
  BY <1>1 DEF Bump, Alike
<1>2. CASE ~(s = <<>> \/ s[Len(s)].k \in ListKinds)
  <2>. DEFINE b == SubSeq(s, 1, Len(s) - 1)
              f == [s[Len(s)] EXCEPT !.kids = @ + 1]
              t == Append(b, f)
  <2>1. /\ Len(s) \in Nat /\ Len(s) > 0 /\ IsStack(b) /\ Len(b) = Len(s) - 1
        /\ \A i \in 1..(Len(s) - 1) : b[i] = s[i]
    BY <1>2, PopShape
  <2>2. DOMAIN f = DOMAIN s[Len(s)] /\ \A x \in DOMAIN s[Len(s)] : x # "kids" => f[x] = s[Len(s)][x]
    OBVIOUS
  <2>3. {"k", "kids"} \subseteq DOMAIN f
    BY <2>1, <2>2 DEF IsStack
  <2>. HIDE DEF b, f
  <2>4. /\ IsStack(t) /\ Len(t) = Len(b) + 1 /\ \A i \in 1..Len(b) : t[i] = b[i]
        /\ t[Len(b) + 1] = f
    BY <2>1, <2>3, PushShape
  <2>. HIDE DEF t
  <2>5. Len(t) = Len(s) /\ t[Len(s)] = f /\ \A i \in 1..(Len(s) - 1) : t[i] = s[i]
    BY <2>1, <2>4
  <2>6. \A i \in 1..Len(s) : i = Len(s) \/ i \in 1..(Len(s) - 1)
    BY <2>1
  <2>7. Alike(s, t)
    BY <2>2, <2>4, <2>5, <2>6 DEF Alike
  <2>. QED  BY <1>2, <2>7 DEF Bump, t, b, f
<1>. QED  BY <1>1, <1>2

LEMMA AlikeShape ==
  ASSUME NEW s, IsStack(s), NEW t, Alike(s, t)
  PROVE  Shape(t) = Shape(s) /\ \A n \in 0..Len(s) : Around(t, n) <=> Around(s, n)
<1>1. \E X : s \in Seq(X)
  BY DEF IsStack
<1>2. Len(s) \in Nat /\ Len(t) = Len(s) /\ \A i \in 1..Len(s) : t[i].k = s[i].k
  BY <1>1 DEF Alike, IsStack
<1>3. \A n \in 0..Len(s) : \A j \in 1..n : j \in 1..Len(s)
  BY <1>2
<1>. QED  BY <1>2, <1>3 DEF Shape, Around

\* One more child changes nothing a stack says.
LEMMA BumpKeeps ==
  ASSUME NEW s, NEW c
  PROVE  /\ Contexts(s, c) => Contexts(Bump(s), c) /\ Shape(Bump(s)) = Shape(s)
         /\ Switches(s, c) => Switches(Bump(s), c) /\ Shape(Bump(s)) = Shape(s)
<1>. DEFINE t == Bump(s)
<1>0. IsStack(s) => Len(s) \in Nat /\ \A i \in 1..Len(s) : i - 1 \in 0..Len(s)
  <2>. SUFFICES ASSUME IsStack(s) PROVE Len(s) \in Nat /\ \A i \in 1..Len(s) : i - 1 \in 0..Len(s)
    OBVIOUS
  <2>1. PICK X : s \in Seq(X)
    BY DEF IsStack
  <2>. QED  BY <2>1
<1>1. ASSUME Contexts(s, c) PROVE Contexts(t, c) /\ Shape(t) = Shape(s)
  <2>1. IsStack(s) /\ Alike(s, t)
    BY <1>1, BumpAlike DEF Contexts
  <2>. HIDE DEF t
  <2>2. /\ Shape(t) = Shape(s) /\ IsStack(t) /\ Len(t) = Len(s) /\ Len(s) \in Nat
        /\ \A n \in 0..Len(s) : Around(t, n) <=> Around(s, n)
    BY <1>0, <2>1, AlikeShape DEF Alike
  <2>3. \A i \in 1..Len(s) : "ctx" \in DOMAIN t[i] /\ t[i].ctx = s[i].ctx
    BY <1>1, <2>1 DEF Contexts, Alike
  <2>. QED  BY <1>0, <1>1, <2>1, <2>2, <2>3 DEF Contexts
<1>2. ASSUME Switches(s, c) PROVE Switches(t, c) /\ Shape(t) = Shape(s)
  <2>1. IsStack(s) /\ Alike(s, t)
    BY <1>2, BumpAlike DEF Switches
  <2>. HIDE DEF t
  <2>2. /\ Shape(t) = Shape(s) /\ IsStack(t) /\ Len(t) = Len(s) /\ Len(s) \in Nat
        /\ \A n \in 0..Len(s) : Around(t, n) <=> Around(s, n)
    BY <1>0, <2>1, AlikeShape DEF Alike
  <2>3. \A i \in 1..Len(s) : "switch" \in DOMAIN t[i] /\ t[i].switch = s[i].switch
    BY <1>2, <2>1 DEF Switches, Alike
  <2>. QED  BY <1>0, <1>2, <2>1, <2>2, <2>3 DEF Switches
<1>. QED  BY <1>1, <1>2

LEMMA PushKeeps ==
  ASSUME NEW s, NEW c, NEW f, {"k", "kids"} \subseteq DOMAIN f, NEW c2
  PROVE  /\ /\ Contexts(s, c) /\ "ctx" \in DOMAIN f /\ f.ctx = c
            /\ c2 = c \/ f.k = "switch"
            => Contexts(Append(s, f), c2) /\ Shape(Append(s, f)) = Append(Shape(s), Mark(f.k))
         /\ /\ Switches(s, c) /\ "switch" \in DOMAIN f /\ f.switch = c
            /\ IF f.k = "switch" THEN c2 # None ELSE c2 = c
            => Switches(Append(s, f), c2) /\ Shape(Append(s, f)) = Append(Shape(s), Mark(f.k))
<1>. DEFINE t == Append(s, f)
<1>1. ASSUME IsStack(s)
      PROVE  /\ IsStack(t) /\ Len(s) \in Nat /\ Len(t) = Len(s) + 1
             /\ \A i \in 1..Len(s) : t[i] = s[i]
             /\ t[Len(s) + 1] = f
             /\ \A n \in 0..Len(s) : Around(t, n) <=> Around(s, n)
             /\ Around(t, Len(t)) <=> Around(s, Len(s)) \/ f.k = "switch"
             /\ \A i \in 1..Len(t) : /\ i = Len(s) + 1 \/ i \in 1..Len(s)
                                     /\ i - 1 \in 0..Len(s)
  <2>1. /\ IsStack(t) /\ Len(s) \in Nat /\ Len(t) = Len(s) + 1
        /\ \A i \in 1..Len(s) : t[i] = s[i]
        /\ t[Len(s) + 1] = f
    BY <1>1, PushShape
  <2>. HIDE DEF t
  <2>2. \A n \in 0..Len(s) : \A j \in 1..n : j \in 1..Len(s)
    BY <2>1
  <2>3. \A n \in 0..Len(s) : Around(t, n) <=> Around(s, n)
    BY <2>1, <2>2 DEF Around
  <2>4. \A i \in 1..Len(t) : (i = Len(s) + 1 \/ i \in 1..Len(s)) /\ i - 1 \in 0..Len(s)
    BY <2>1
  <2>5. Len(s) + 1 \in 1..Len(t) /\ \A i \in 1..Len(s) : i \in 1..Len(t)
    BY <2>1
  <2>6. Around(t, Len(t)) <=> Around(s, Len(s)) \/ f.k = "switch"
    BY <2>1, <2>4, <2>5 DEF Around
  <2>. QED  BY <2>1, <2>3, <2>4, <2>6
<1>2. ASSUME IsStack(s) PROVE Shape(t) = Append(Shape(s), Mark(f.k))
  <2>1. Shape(s) \in Seq(Marks) /\ Mark(f.k) \in Marks /\ Len(Shape(s)) = Len(s)
    BY <1>1, <1>2 DEF Shape, Mark, Marks
  <2>2. Shape(t) \in Seq(Marks) /\ Len(Shape(t)) = Len(t)
    <3>. HIDE DEF t
    <3>. QED  BY <1>1, <1>2 DEF Shape, Mark, Marks
  <2>3. \A i \in 1..Len(t) : Shape(t)[i] = IF i = Len(s) + 1 THEN Mark(f.k) ELSE Shape(s)[i]
    <3>. HIDE DEF t
    <3>. QED  BY <1>1, <1>2 DEF Shape
  <2>4. /\ Append(Shape(s), Mark(f.k)) \in Seq(Marks)
        /\ Len(Append(Shape(s), Mark(f.k))) = Len(s) + 1
        /\ \A i \in 1..(Len(s) + 1) : Append(Shape(s), Mark(f.k))[i]
             = IF i = Len(s) + 1 THEN Mark(f.k) ELSE Shape(s)[i]
    <3>. DEFINE a == Shape(s)
                m == Mark(f.k)
    <3>1. a \in Seq(Marks) /\ m \in Marks /\ Len(a) = Len(s)
      BY <2>1
    <3>. HIDE DEF a, m
    <3>2. /\ Append(a, m) \in Seq(Marks)
          /\ Len(Append(a, m)) = Len(s) + 1
          /\ \A i \in 1..(Len(s) + 1) : Append(a, m)[i] = IF i = Len(s) + 1 THEN m ELSE a[i]
      BY <3>1
    <3>. QED  BY <3>2 DEF a, m
  <2>. HIDE DEF t
  <2>. DEFINE b == Append(Shape(s), Mark(f.k))
              d == Shape(t)
  <2>5. b \in Seq(Marks) /\ d \in Seq(Marks) /\ Len(b) = Len(d) /\ \A i \in 1..Len(d) : b[i] = d[i]
    BY <1>1, <1>2, <2>2, <2>3, <2>4
  <2>. HIDE DEF b, d
  <2>6. b = d
    BY <2>5
  <2>. QED  BY <2>6 DEF b, d
<1>3. ASSUME Contexts(s, c), "ctx" \in DOMAIN f, f.ctx = c, c2 = c \/ f.k = "switch"
      PROVE  Contexts(t, c2)
  <2>1. IsStack(s)
    BY <1>3 DEF Contexts
  <2>. HIDE DEF t
  <2>. QED  BY <1>1, <1>3, <2>1 DEF Contexts
<1>4. ASSUME Switches(s, c), "switch" \in DOMAIN f, f.switch = c,
             IF f.k = "switch" THEN c2 # None ELSE c2 = c
      PROVE  Switches(t, c2)
  <2>1. IsStack(s)
    BY <1>4 DEF Switches
  <2>. HIDE DEF t
  <2>. QED  BY <1>1, <1>4, <2>1 DEF Switches
<1>. QED  BY <1>2, <1>3, <1>4 DEF Contexts, Switches

\* What a handler that is not a switch leaves as it was; a switch puts back
\* what it found.
LEMMA PopKeeps ==
  ASSUME NEW s, s # <<>>, NEW c, NEW c2
  PROVE  /\ /\ Contexts(s, c)
            /\ c2 = IF s[Len(s)].k = "switch" THEN s[Len(s)].ctx ELSE c
            => /\ Contexts(SubSeq(s, 1, Len(s) - 1), c2)
               /\ Shape(SubSeq(s, 1, Len(s) - 1)) = SubSeq(Shape(s), 1, Len(Shape(s)) - 1)
         /\ /\ Switches(s, c)
            /\ c2 = IF s[Len(s)].k = "switch" THEN s[Len(s)].switch ELSE c
            => /\ Switches(SubSeq(s, 1, Len(s) - 1), c2)
               /\ Shape(SubSeq(s, 1, Len(s) - 1)) = SubSeq(Shape(s), 1, Len(Shape(s)) - 1)
<1>. DEFINE n == Len(s) - 1
            t == SubSeq(s, 1, n)
<1>1. ASSUME IsStack(s)
      PROVE  /\ IsStack(t) /\ n \in Nat /\ Len(t) = n /\ Len(s) = n + 1
             /\ \A i \in 1..n : t[i] = s[i] /\ i \in 1..Len(s) /\ i - 1 \in 0..n
             /\ Len(s) \in 1..Len(s)
             /\ \A m \in 0..n : Around(t, m) <=> Around(s, m)
             /\ Around(s, Len(s)) <=> Around(s, n) \/ s[Len(s)].k = "switch"
  <2>1. /\ IsStack(t) /\ Len(s) \in Nat /\ Len(s) > 0 /\ Len(t) = n
        /\ \A i \in 1..n : t[i] = s[i]
    BY <1>1, PopShape
  <2>. HIDE DEF t
  <2>2. /\ n \in Nat /\ Len(s) = n + 1 /\ Len(s) \in 1..Len(s)
        /\ \A i \in 1..n : i \in 1..Len(s) /\ i - 1 \in 0..n
        /\ \A m \in 0..n : \A j \in 1..m : j \in 1..n
        /\ \A i \in 1..Len(s) : i \in 1..n \/ i = Len(s)
    BY <2>1
  <2>. HIDE DEF n
  <2>3. \A m \in 0..n : Around(t, m) <=> Around(s, m)
    BY <2>1, <2>2 DEF Around
  <2>4. Around(s, Len(s)) <=> Around(s, n) \/ s[Len(s)].k = "switch"
    BY <2>2 DEF Around
  <2>. QED  BY <2>1, <2>2, <2>3, <2>4
<1>2. ASSUME IsStack(s) PROVE Shape(t) = SubSeq(Shape(s), 1, Len(Shape(s)) - 1)
  <2>. DEFINE a == Shape(s)
              b == SubSeq(a, 1, n)
              d == Shape(t)
  <2>1. a \in Seq(Marks) /\ Len(a) = Len(s) /\ \A i \in 1..Len(s) : a[i] = Mark(s[i].k)
    BY <1>1, <1>2 DEF Shape, Mark, Marks
  <2>2. d \in Seq(Marks) /\ Len(d) = n /\ \A i \in 1..n : d[i] = Mark(s[i].k)
    <3>. HIDE DEF t, n
    <3>. QED  BY <1>1, <1>2 DEF Shape, Mark, Marks
  <2>3. n \in Nat /\ n + 1 = Len(s)
    BY <1>1, <1>2
  <2>. HIDE DEF a, d, n, t
  <2>4. \A i \in 1..n : a[i] \in Marks
    BY <2>1, <2>3
  <2>5. /\ b \in Seq(Marks)
        /\ Len(b) = IF 1 <= n THEN n - 1 + 1 ELSE 0
        /\ \A i \in 1..(n - 1 + 1) : b[i] = a[1 + i - 1]
    BY <2>3, <2>4, SubSeqProperties
  <2>6. n - 1 + 1 = n /\ (~(1 <= n) => n = 0) /\ \A i \in 1..n : 1 + i - 1 = i /\ i \in 1..Len(s)
    BY <2>3
  <2>7. Len(b) = Len(d) /\ \A i \in 1..Len(d) : b[i] = d[i]
    BY <2>1, <2>2, <2>5, <2>6
  <2>. HIDE DEF b
  <2>8. b = d
    BY <2>2, <2>5, <2>7
  <2>9. n = Len(a) - 1
    BY <2>1, <2>3
  <2>. QED  BY <2>8, <2>9 DEF b, d, a
<1>3. ASSUME Contexts(s, c), c2 = IF s[Len(s)].k = "switch" THEN s[Len(s)].ctx ELSE c
      PROVE  Contexts(t, c2)
  <2>1. IsStack(s)
    BY <1>3 DEF Contexts
  <2>. HIDE DEF t, n
  <2>2. \A i \in 1..n : "ctx" \in DOMAIN t[i] /\ (t[i].ctx # None => Around(t, i - 1))
    BY <1>1, <1>3, <2>1 DEF Contexts
  <2>3. n = Len(s) - 1 /\ n \in 0..n
    BY <1>1, <2>1
  <2>4. c2 # None => Around(t, n)
    BY <1>1, <1>3, <2>1, <2>3 DEF Contexts
  <2>. QED  BY <1>1, <2>1, <2>2, <2>4 DEF Contexts
<1>4. ASSUME Switches(s, c), c2 = IF s[Len(s)].k = "switch" THEN s[Len(s)].switch ELSE c
      PROVE  Switches(t, c2)
  <2>1. IsStack(s)
    BY <1>4 DEF Switches
  <2>. HIDE DEF t, n
  <2>2. \A i \in 1..n : "switch" \in DOMAIN t[i] /\ (Around(t, i - 1) => t[i].switch # None)
    BY <1>1, <1>4, <2>1 DEF Switches
  <2>3. n = Len(s) - 1 /\ n \in 0..n
    BY <1>1, <2>1
  <2>4. Around(t, n) => c2 # None
    BY <1>1, <1>4, <2>1, <2>3 DEF Switches
  <2>. QED  BY <1>1, <2>1, <2>2, <2>4 DEF Switches
<1>. QED  BY <1>2, <1>3, <1>4 DEF Contexts, Switches

-----------------------------------------------------------------------------
(* The semantic phase.  A handler goes on to the shape its item has, or     *)
(* stops and leaves the stack as it is.                                     *)

Analysed(h) ==
  \/ sout' # "run" /\ UNCHANGED <<sstack, switch_context>>
  \/ /\ sout' = "run"
     /\ Contexts(sstack', switch_context')
     /\ Shape(sstack') = After(h, Shape(sstack))
     /\ h = "case" => switch_context # None

Opening == {"fn", "block", "if", "arrow", "else", "while", "for", "switch", "case"}

LEMMA SemaSimple ==
  ASSUME Contexts(sstack, switch_context), NEW h, h \notin Opening, h # "end",
         sout = "run",
         \/ sout' # "run" /\ UNCHANGED sstack
         \/ sout' = "run" /\ sstack' \in {sstack, S!Begun},
         UNCHANGED switch_context
  PROVE  Analysed(h)
<1>1. Contexts(Bump(sstack), switch_context) /\ Shape(Bump(sstack)) = Shape(sstack)
  BY BumpKeeps
<1>. QED  BY <1>1, BegunIsBump DEF Analysed, After, Opening

LEMMA SemaEnter ==
  ASSUME Contexts(sstack, switch_context), NEW h, h \in Opening,
         NEW f, sstack' = Append(S!Begun, f), {"k", "kids", "ctx"} \subseteq DOMAIN f,
         f.ctx = switch_context, Mark(f.k) = Mark(h),
         switch_context' = switch_context \/ f.k = "switch",
         h = "case" => switch_context # None,
         sout' = "run"
  PROVE  Analysed(h)
<1>1. Contexts(Bump(sstack), switch_context) /\ Shape(Bump(sstack)) = Shape(sstack)
  BY BumpKeeps
<1>2. /\ Contexts(Append(Bump(sstack), f), switch_context')
      /\ Shape(Append(Bump(sstack), f)) = Append(Shape(Bump(sstack)), Mark(f.k))
  BY <1>1, PushKeeps
<1>. QED  BY <1>1, <1>2, BegunIsBump DEF Analysed, After, Opening

LEMMA SemaBegin ==
  ASSUME Contexts(sstack, switch_context), NEW h, h \in Opening,
         NEW f, {"k", "kids", "ctx"} \subseteq DOMAIN f,
         f.ctx = switch_context, Mark(f.k) = Mark(h), NEW r, S!Begin(f, r),
         S!Stops(r) \/ (h = "case" => switch_context # None)
  PROVE  Analysed(h)
<1>1. S!Continue(r, Append(S!Begun, f)) /\ sout = "run"
  BY DEF S!Begin, S!Visiting
<1>2. CASE S!Stops(r) /\ S!Stop(r)
  BY <1>2 DEF S!Stop, Analysed
<1>3. CASE ~S!Stops(r)
  <2>1. sstack' = Append(S!Begun, f) /\ switch_context' = switch_context /\ sout' = "run"
    BY <1>1, <1>3 DEF S!Continue
  <2>. QED  BY <1>3, <2>1, SemaEnter
<1>. QED  BY <1>1, <1>2, <1>3 DEF S!Continue

LEMMA SemaHandlers ==
  ASSUME Contexts(sstack, switch_context)
  PROVE  /\ \A node : S!Fn(node) => Analysed("fn")
         /\ \A node : S!ExternFn(node) => Analysed("extern")
         /\ \A node : S!StructOrUnion(node) => Analysed("type")
         /\ \A node : S!Enum(node) => Analysed("type")
         /\ \A node : S!Simple(node) => Analysed("simple")
         /\ S!Block => Analysed("block")
         /\ \A e : S!If(e) => Analysed("if")
         /\ \A params : S!Arrow(params) => Analysed("arrow")
         /\ S!Else => Analysed("else")
         /\ \A e : S!While(e) => Analysed("while")
         /\ \A node : S!For(node) => Analysed("for")
         /\ \A e : S!Switch(e) => Analysed("switch")
         /\ \A node : S!Case(node) => Analysed("case")
         /\ S!Exit => Analysed("end")
<1>1. ASSUME NEW node, S!Fn(node) PROVE Analysed("fn")
  <2>0. sstack = <<>> /\ sout = "run" /\ S!Begun = sstack
    BY <1>1 DEF S!Fn, S!Visiting, S!Begun
  <2>1. CASE \E how : S!Stop(how)
    BY <2>1 DEF S!Stop, Analysed
  <2>2. CASE ~\E how : S!Stop(how)
    <3>1. PICK ret : /\ sstack' = <<[S!Enter("fn") EXCEPT !.ty = ret]>>
                     /\ switch_context' = switch_context /\ sout' = sout
      BY <1>1, <2>2 DEF S!Fn, S!Body
    <3>. DEFINE f == [S!Enter("fn") EXCEPT !.ty = ret]
    <3>2. {"k", "kids", "ctx"} \subseteq DOMAIN f /\ f.ctx = switch_context /\ f.k = "fn"
      BY DEF S!Enter
    <3>. HIDE DEF f
    <3>3. sstack' = Append(S!Begun, f)
      BY <2>0, <3>1 DEF f
    <3>. QED  BY <2>0, <3>1, <3>2, <3>3, SemaEnter DEF Opening
  <2>. QED  BY <2>1, <2>2
<1>2. ASSUME NEW node, S!ExternFn(node) PROVE Analysed("extern")
  <2>1. sout = "run" /\ UNCHANGED <<sstack, switch_context>>
    BY <1>2 DEF S!ExternFn, S!Visiting, S!Stop
  <2>. QED  BY <2>1, SemaSimple DEF Opening
<1>3. ASSUME NEW node, S!StructOrUnion(node) PROVE Analysed("type")
  <2>1. sout = "run" /\ UNCHANGED <<sstack, switch_context>>
    BY <1>3 DEF S!StructOrUnion, S!Visiting, S!Stop
  <2>. QED  BY <2>1, SemaSimple DEF Opening
<1>4. ASSUME NEW node, S!Enum(node) PROVE Analysed("type")
  <2>1. sout = "run" /\ UNCHANGED <<sstack, switch_context>>
    BY <1>4 DEF S!Enum, S!EnumOf, S!Visiting, S!Stop
  <2>. QED  BY <2>1, SemaSimple DEF Opening
<1>5. ASSUME NEW node, S!Simple(node) PROVE Analysed("simple")
  <2>1. /\ sout = "run" /\ UNCHANGED switch_context
        /\ \/ sout' # "run" /\ UNCHANGED sstack
           \/ sout' = "run" /\ sstack' = S!Begun
    BY <1>5 DEF S!Simple, S!Continue, S!Visiting, S!Stop
  <2>. QED  BY <2>1, SemaSimple DEF Opening
<1>6. ASSUME S!Block PROVE Analysed("block")
  <2>. DEFINE f == S!Enter("block")
  <2>1. {"k", "kids", "ctx"} \subseteq DOMAIN f /\ f.ctx = switch_context /\ f.k = "block"
    BY DEF S!Enter
  <2>2. sstack' = Append(S!Begun, f) /\ switch_context' = switch_context /\ sout' = "run"
    BY <1>6 DEF S!Block, S!Visiting
  <2>. HIDE DEF f
  <2>. QED  BY <2>1, <2>2, SemaEnter DEF Opening
<1>7. ASSUME NEW e, S!If(e) PROVE Analysed("if")
  <2>. DEFINE f == [S!Enter("if") EXCEPT !.disc = S!Discriminations(e)]
              r == S!IfOn(S!ExprType(scopes, e))
  <2>1. {"k", "kids", "ctx"} \subseteq DOMAIN f /\ f.ctx = switch_context /\ f.k = "if"
    BY DEF S!Enter
  <2>2. S!Begin(f, r)
    BY <1>7 DEF S!If
  <2>. HIDE DEF f, r
  <2>. QED  BY <2>1, <2>2, SemaBegin DEF Opening
<1>8. ASSUME NEW params, S!Arrow(params) PROVE Analysed("arrow")
  <2>. DEFINE f == S!Enter("arrow")
  <2>1. {"k", "kids", "ctx"} \subseteq DOMAIN f /\ f.ctx = switch_context /\ f.k = "arrow"
    BY DEF S!Enter
  <2>2. PICK r : S!Begin(f, r)
    BY <1>8 DEF S!Arrow
  <2>. HIDE DEF f
  <2>. QED  BY <2>1, <2>2, SemaBegin DEF Opening
<1>9. ASSUME S!Else PROVE Analysed("else")
  <2>. DEFINE f == S!Enter("else")
  <2>1. {"k", "kids", "ctx"} \subseteq DOMAIN f /\ f.ctx = switch_context /\ f.k = "else"
    BY DEF S!Enter
  <2>2. PICK r : S!Begin(f, r)
    BY <1>9 DEF S!Else
  <2>. HIDE DEF f
  <2>. QED  BY <2>1, <2>2, SemaBegin DEF Opening
<1>10. ASSUME NEW e, S!While(e) PROVE Analysed("while")
  <2>. DEFINE f == S!Enter("while")
  <2>1. {"k", "kids", "ctx"} \subseteq DOMAIN f /\ f.ctx = switch_context /\ f.k = "while"
    BY DEF S!Enter
  <2>2. PICK r : S!Begin(f, r)
    BY <1>10 DEF S!While
  <2>. HIDE DEF f
  <2>. QED  BY <2>1, <2>2, SemaBegin DEF Opening
<1>11. ASSUME NEW node, S!For(node) PROVE Analysed("for")
  <2>. DEFINE f == S!Enter("for")
  <2>1. {"k", "kids", "ctx"} \subseteq DOMAIN f /\ f.ctx = switch_context /\ f.k = "for"
    BY DEF S!Enter
  <2>2. PICK r : S!Begin(f, r)
    BY <1>11 DEF S!For
  <2>. HIDE DEF f
  <2>. QED  BY <2>1, <2>2, SemaBegin DEF Opening
<1>12. ASSUME NEW e, S!Switch(e) PROVE Analysed("switch")
  <2>1. CASE \E how : S!Stop(how)
    BY <2>1 DEF S!Stop, Analysed
  <2>2. CASE ~\E how : S!Stop(how)
    <3>. DEFINE t == S!ExprType(scopes, e)
                f == [S!Enter("switch") EXCEPT !.ty = t]
    <3>1. {"k", "kids", "ctx"} \subseteq DOMAIN f /\ f.ctx = switch_context /\ f.k = "switch"
      BY DEF S!Enter
    <3>2. sstack' = Append(S!Begun, f) /\ sout' = "run"
      BY <1>12, <2>2 DEF S!Switch, S!SwitchOn, S!Visiting
    <3>. HIDE DEF f, t
    <3>. QED  BY <3>1, <3>2, SemaEnter DEF Opening
  <2>. QED  BY <2>1, <2>2
<1>13. ASSUME NEW node, S!Case(node) PROVE Analysed("case")
  <2>1. PICK f, r : /\ S!Begin(f, r)
                    /\ {"k", "kids", "ctx"} \subseteq DOMAIN f /\ f.ctx = switch_context
                    /\ f.k # "switch"
                    /\ r = Failed \/ switch_context # None
    <3>. DEFINE type == S!OfType(node.label.n)
                f1 == S!Enter("case")
                f2 == [S!Enter("case") EXCEPT !.ty = type]
                f3 == [S!Enter("case_arrow") EXCEPT !.ty = type]
    <3>1. /\ {"k", "kids", "ctx"} \subseteq DOMAIN f1 /\ f1.ctx = switch_context /\ f1.k # "switch"
          /\ {"k", "kids", "ctx"} \subseteq DOMAIN f2 /\ f2.ctx = switch_context /\ f2.k # "switch"
          /\ {"k", "kids", "ctx"} \subseteq DOMAIN f3 /\ f3.ctx = switch_context /\ f3.k # "switch"
      BY DEF S!Enter
    <3>2. \/ S!Begin(f1, Failed)
          \/ switch_context # None /\ \E r : S!Begin(f1, r) \/ S!Begin(f2, r) \/ S!Begin(f3, r)
      <4>1. CASE switch_context = None
        BY <1>13, <4>1 DEF S!Case
      <4>2. CASE switch_context # None /\ node.label.k = "default"
        BY <1>13, <4>2 DEF S!Case
      <4>3. CASE switch_context # None /\ node.label.k # "default"
        <5>1. \/ S!EnumCase(node)
              \/ \E r : S!Begin(f1, r)
          BY <1>13, <4>3 DEF S!Case
        <5>2. ASSUME S!EnumCase(node)
              PROVE  \E r : S!Begin(f1, r) \/ S!Begin(f2, r) \/ S!Begin(f3, r)
          <6>1. CASE node.label.k # "id" \/ ~S!HasType(scopes, node.label.n)
            BY <5>2, <6>1 DEF S!EnumCase
          <6>2. CASE ~(node.label.k # "id" \/ ~S!HasType(scopes, node.label.n)) /\ ~node.arrow
            <7>1. S!Begin(f2, scopes)
              BY <5>2, <6>2 DEF S!EnumCase
            <7>. QED  BY <7>1
          <6>3. CASE ~(node.label.k # "id" \/ ~S!HasType(scopes, node.label.n)) /\ node.arrow
            <7>. DEFINE r3 == IF Len(node.params) # 1 THEN Failed
                              ELSE S!AfterArrowParams(node.params, <<type>>)
            <7>1. S!Begin(f3, r3)
              BY <5>2, <6>3 DEF S!EnumCase
            <7>. QED  BY <7>1
          <6>. QED  BY <6>1, <6>2, <6>3
        <5>. QED  BY <4>3, <5>1, <5>2
      <4>. QED  BY <4>1, <4>2, <4>3
    <3>. HIDE DEF f1, f2, f3
    <3>. QED  BY <3>1, <3>2
  <2>2. S!Stops(Failed)
    BY DEF S!Stops
  <2>3. Mark(f.k) = Mark("case")
    BY <2>1 DEF Mark
  <2>. QED  BY <2>1, <2>2, <2>3, SemaBegin DEF Opening
<1>14. ASSUME S!Exit PROVE Analysed("end")
  <2>1. sout = "run" /\ sstack # <<>>
    BY <1>14 DEF S!Exit, S!Finished
  <2>2. \/ sout' # "run" /\ UNCHANGED <<sstack, switch_context>>
        \/ /\ sout' = "run" /\ sstack' = SubSeq(sstack, 1, Len(sstack) - 1)
           /\ switch_context' = IF sstack[Len(sstack)].k = "switch"
                                THEN sstack[Len(sstack)].ctx ELSE switch_context
    BY <1>14, <2>1 DEF S!Exit, S!Top, S!Below, S!ContextRestored
  <2>. QED  BY <2>1, <2>2, PopKeeps DEF Analysed, After
<1>. QED  BY <1>1, <1>2, <1>3, <1>4, <1>5, <1>6, <1>7, <1>8, <1>9, <1>10, <1>11, <1>12,
             <1>13, <1>14

-----------------------------------------------------------------------------
(* The code generator keeps its types, whatever program it is given: what    *)
(* the semantic phase records in an item is what its handler is for.         *)

\* The generator's own assumptions, which this instance of it satisfies.
LEMMA GeneratorSound ==
  /\ CG!BuiltinTypesAssumption /\ CG!DeclarationsAssumption
  /\ CG!StatementsAssumption /\ CG!BoundsAssumption
<1>1. CG!BuiltinTypesAssumption
  BY ProgramsAssumption DEF CG!BuiltinTypesAssumption, TypeNames, BuiltinTypes, IntTypes
<1>2. CG!DeclarationsAssumption
  BY DEF CG!DeclarationsAssumption
<1>3. CG!StatementsAssumption
  BY DEF CG!StatementsAssumption
<1>4. CG!BoundsAssumption
  BY ProgramsAssumption DEF CG!BoundsAssumption, S!BoundsAssumption, CG!Rules
<1>. QED  BY <1>1, <1>2, <1>3, <1>4

\* The generator that Compile runs is the one that the lemmas are about.
LEMMA SameHandlers ==
  /\ \A node : C!Fn(node) => CG!Fn(node)
  /\ \A node : C!ExternFn(node) => CG!ExternFn(node)
  /\ \A node : C!TypeDecl(node) => CG!TypeDecl(node)
  /\ \A node : C!Simple(node) => CG!Simple(node)
  /\ C!Block => CG!Block
  /\ \A node : C!If(node) => CG!If(node)
  /\ \A params : C!Arrow(params) => CG!Arrow(params)
  /\ C!Else => CG!Else
  /\ \A node : C!While(node) => CG!While(node)
  /\ \A node : C!For(node) => CG!For(node)
  /\ \A node : C!Switch(node) => CG!Switch(node)
  /\ \A node : C!Case(node) => CG!Case(node)
  /\ C!Exit => CG!Exit
<1>. USE DEF C!Visiting, CG!Visiting, C!Entering, CG!Entering, C!StmtExpected,
           CG!StmtExpected, C!Begun, CG!Begun, C!Top, CG!Top,
           C!Below, CG!Below, C!ListKinds, CG!ListKinds, C!Enter,
           CG!Enter, C!Stop, CG!Stop, C!Undeclared, CG!Undeclared,
           C!ValueOf, CG!ValueOf, C!Lookups, CG!Lookups, C!Keeps,
           CG!Keeps, C!InCases, CG!InCases, C!Branching,
           CG!Branching, C!Blocks, CG!Blocks, C!Terminated,
           CG!Terminated, C!Br, CG!Br, C!CondBr, CG!CondBr,
           C!Attach, CG!Attach, C!Untypable, CG!Untypable
<1>1. ASSUME NEW node, C!Fn(node) PROVE CG!Fn(node)
  BY <1>1 DEF C!Fn, CG!Fn, C!ProtoFails, CG!ProtoFails, C!Unnamed, CG!Unnamed,
         C!Added, CG!Added,
         C!WithParams, CG!WithParams, C!FoldLeftDomain,
         CG!FoldLeftDomain, C!FoldLeft, CG!FoldLeft, C!Max, CG!Max,
         C!MapThenFoldSet, CG!MapThenFoldSet
<1>2. ASSUME NEW node, C!ExternFn(node) PROVE CG!ExternFn(node)
  BY <1>2 DEF C!ExternFn, CG!ExternFn, C!ProtoFails, CG!ProtoFails, C!Added,
         CG!Added
<1>3. ASSUME NEW node, C!TypeDecl(node) PROVE CG!TypeDecl(node)
  BY <1>3 DEF C!TypeDecl, CG!TypeDecl
<1>4. ASSUME NEW node, C!Simple(node) PROVE CG!Simple(node)
  BY <1>4 DEF C!Simple, CG!Simple, C!Fails, CG!Fails, C!Untyped, CG!Untyped,
         C!LetValues, CG!LetValues
<1>5. ASSUME C!Block PROVE CG!Block
  BY <1>5 DEF C!Block, CG!Block
<1>6. ASSUME NEW node, C!If(node) PROVE CG!If(node)
  BY <1>6 DEF C!If, CG!If, C!IfBlocks, CG!IfBlocks, C!IfPlace, CG!IfPlace
<1>7. ASSUME NEW params, C!Arrow(params) PROVE CG!Arrow(params)
  BY <1>7 DEF C!Arrow, CG!Arrow, C!Inject, CG!Inject, C!WithParams, CG!WithParams,
         C!FoldLeftDomain, CG!FoldLeftDomain, C!FoldLeft,
         CG!FoldLeft, C!Max, CG!Max, C!MapThenFoldSet, CG!MapThenFoldSet
<1>8. ASSUME C!Else PROVE CG!Else
  BY <1>8 DEF C!Else, CG!Else, C!ElseBegun, CG!ElseBegun
<1>9. ASSUME NEW node, C!While(node) PROVE CG!While(node)
  BY <1>9 DEF C!While, CG!While, C!Loop, CG!Loop, C!LoopBlocks, CG!LoopBlocks
<1>10. ASSUME NEW node, C!For(node) PROVE CG!For(node)
  BY <1>10 DEF C!For, CG!For, C!HeadFails, CG!HeadFails, C!Fails, CG!Fails,
         C!Untyped, CG!Untyped, C!LetValues, CG!LetValues, C!Loop,
         CG!Loop, C!LoopBlocks, CG!LoopBlocks
<1>11. ASSUME NEW node, C!Switch(node) PROVE CG!Switch(node)
  BY <1>11 DEF C!Switch, CG!Switch
<1>12. ASSUME NEW node, C!Case(node) PROVE CG!Case(node)
  BY <1>12 DEF C!Case, CG!Case, C!CasePlace, CG!CasePlace, C!CaseBlock,
         CG!CaseBlock, C!AddCase, CG!AddCase, C!WithCase,
         CG!WithCase, C!Inject, CG!Inject, C!WithParams,
         CG!WithParams, C!FoldLeftDomain, CG!FoldLeftDomain,
         C!FoldLeft, CG!FoldLeft, C!Max, CG!Max, C!MapThenFoldSet,
         CG!MapThenFoldSet
<1>13. ASSUME C!Exit PROVE CG!Exit
  BY <1>13 DEF C!Exit, CG!Exit, C!ExitBlock, CG!ExitBlock, C!ExitElse, CG!ExitElse,
         C!ExitIf, CG!ExitIf, C!ExitWhile, CG!ExitWhile, C!ExitFor,
         CG!ExitFor, C!ExitSwitch, CG!ExitSwitch, C!ExitCase,
         CG!ExitCase, C!Leaving, CG!Leaving, C!ElseBegun,
         CG!ElseBegun, C!LoopClosed, CG!LoopClosed, C!CaseEnded,
         CG!CaseEnded
<1>. QED  BY <1>1, <1>2, <1>3, <1>4, <1>5, <1>6, <1>7, <1>8, <1>9, <1>10, <1>11, <1>12, <1>13

LEMMA GeneratorTyped ==
  ASSUME CG!TypeInv, NEW item, item.h \in Kinds, Typed(item), Handle(item)
  PROVE  CG!TypeInv'
<1>1. CASE item.h = "fn"
  BY <1>1, SameHandlers, GeneratorSound, CG!FnTyped DEF Typed, Handle
<1>2. CASE item.h = "extern"
  BY <1>2, SameHandlers, GeneratorSound, CG!DeclTyped DEF Typed, Handle
<1>3. CASE item.h = "type"
  BY <1>3, SameHandlers, GeneratorSound, CG!DeclTyped DEF Typed, Handle
<1>4. CASE item.h = "simple"
  BY <1>4, SameHandlers, GeneratorSound, CG!SimpleTyped DEF Handle
<1>5. CASE item.h = "block"
  BY <1>5, SameHandlers, GeneratorSound, CG!BlockTypes DEF Handle
<1>6. CASE item.h = "if"
  BY <1>6, SameHandlers, GeneratorSound, CG!IfTyped DEF Handle
<1>7. CASE item.h = "arrow"
  BY <1>7, SameHandlers, GeneratorSound, CG!BlockTypes DEF Typed, Handle
<1>8. CASE item.h = "else"
  BY <1>8, SameHandlers, GeneratorSound, CG!ElseTyped DEF Handle
<1>9. CASE item.h = "while"
  BY <1>9, SameHandlers, GeneratorSound, CG!WhileTyped DEF Handle
<1>10. CASE item.h = "for"
  BY <1>10, SameHandlers, GeneratorSound, CG!ForTyped DEF Typed, Handle
<1>11. CASE item.h = "switch"
  BY <1>11, SameHandlers, GeneratorSound, CG!SwitchTypes DEF Handle
<1>12. CASE item.h = "case"
  BY <1>12, SameHandlers, GeneratorSound, CG!CaseTyped DEF Typed, Handle
<1>13. CASE item.h = "end"
  BY <1>13, SameHandlers, GeneratorSound, CG!ExitTyped DEF Handle
<1>. QED  BY <1>1, <1>2, <1>3, <1>4, <1>5, <1>6, <1>7, <1>8, <1>9, <1>10, <1>11, <1>12,
             <1>13 DEF Kinds

LEMMA GeneratorStarts == C!Init => CG!TypeInv
<1>. SUFFICES ASSUME C!Init PROVE CG!TypeInv
  OBVIOUS
<1>1. /\ bbs \in Seq(CG!BB) /\ Len(bbs) = 0
      /\ gstack \in Seq(CG!Frame) /\ Len(gstack) = 0 /\ gstack = <<>>
  BY DEF C!Init
<1>2. CG!TypeOK
  BY <1>1, GeneratorSound DEF C!Init, CG!TypeOK, CG!BuiltinTypesAssumption,
    CG!BoundsAssumption
<1>3. CG!FramesOK(gstack, Len(bbs)) /\ CG!RefersSwitch(switch, Len(bbs)) /\ CG!Inserting
  BY <1>1, GeneratorSound DEF C!Init, CG!FramesOK, CG!RefersSwitch, CG!Inserting,
    CG!BoundsAssumption
<1>. QED  BY <1>2, <1>3 DEF CG!TypeInv

\* A SwitchInfo is not std::nullopt.
LEMMA SwitchIsSet ==
  ASSUME CG!TypeInv, gstack # <<>>
  PROVE  [merge |-> Len(bbs) + 1, default |-> Len(bbs) + 2, at |-> ip,
          term |-> Len(bbs[ip].terms) + 1] # None
<1>1. bbs \in Seq(CG!BB) /\ ip \in 1..Len(bbs)
  BY DEF CG!TypeInv, CG!TypeOK, CG!Inserting
<1>2. Len(bbs) \in Nat /\ ip \in Nat /\ bbs[ip] \in CG!BB
  BY <1>1
<1>3. Len(bbs[ip].terms) \in Nat
  BY <1>2 DEF CG!BB
<1>4. [merge |-> Len(bbs) + 1, default |-> Len(bbs) + 2, at |-> ip,
       term |-> Len(bbs[ip].terms) + 1] \in C!SwitchInfo
  BY <1>2, <1>3 DEF C!SwitchInfo
<1>. QED  BY <1>4, ProgramsAssumption

-----------------------------------------------------------------------------
(* The code generator.  A handler leaves the stack in the shape its item    *)
(* asks for, unless it reports an error.                                    *)

Generated(h) ==
  /\ Switches(gstack', switch')
  /\ gout = "run"
  /\ gout' = "run" => Shape(gstack') = After(h, Shape(gstack))

LEMMA GenStop ==
  ASSUME Switches(gstack, switch), gout = "run", NEW h,
         NEW how, how # "run", C!Stop(how)
  PROVE  Generated(h)
BY DEF C!Stop, Generated

LEMMA GenSimple ==
  ASSUME Switches(gstack, switch), gout = "run", NEW h, h \notin Opening, h # "end",
         gstack' \in {gstack, C!Begun}, UNCHANGED switch
  PROVE  Generated(h)
<1>1. Switches(Bump(gstack), switch) /\ Shape(Bump(gstack)) = Shape(gstack)
  BY BumpKeeps
<1>. QED  BY <1>1, BegunIsBump DEF Generated, After, Opening

LEMMA GenEnter ==
  ASSUME Switches(gstack, switch), gout = "run", NEW h, h \in Opening,
         NEW f, gstack' = Append(C!Begun, f), {"k", "kids", "switch"} \subseteq DOMAIN f,
         f.switch = switch, Mark(f.k) = Mark(h),
         IF f.k = "switch" THEN switch' # None ELSE switch' = switch
  PROVE  Generated(h)
<1>1. Switches(Bump(gstack), switch) /\ Shape(Bump(gstack)) = Shape(gstack)
  BY BumpKeeps
<1>2. /\ Switches(Append(Bump(gstack), f), switch')
      /\ Shape(Append(Bump(gstack), f)) = Append(Shape(Bump(gstack)), Mark(f.k))
  BY <1>1, PushKeeps
<1>. QED  BY <1>1, <1>2, BegunIsBump DEF Generated, After, Opening

LEMMA GenLeave ==
  ASSUME Switches(gstack, switch), gout = "run", gstack # <<>>,
         gstack' = SubSeq(gstack, 1, Len(gstack) - 1),
         switch' = IF gstack[Len(gstack)].k = "switch"
                   THEN gstack[Len(gstack)].switch ELSE switch
  PROVE  Generated("end")
BY PopKeeps DEF Generated, After, Opening

LEMMA GenHandlers ==
  ASSUME Switches(gstack, switch), CG!TypeInv
  PROVE  /\ \A node : C!Fn(node) => Generated("fn")
         /\ \A node : C!ExternFn(node) => Generated("extern")
         /\ \A node : C!TypeDecl(node) => Generated("type")
         /\ \A node : C!Simple(node) => Generated("simple")
         /\ C!Block => Generated("block")
         /\ \A node : C!If(node) => Generated("if")
         /\ \A params : C!Arrow(params) => Generated("arrow")
         /\ C!Else => Generated("else")
         /\ \A node : C!While(node) => Generated("while")
         /\ \A node : C!For(node) => Generated("for")
         /\ \A node : C!Switch(node) => Generated("switch")
         /\ \A node : C!Case(node) => Generated("case")
         /\ C!Exit => Generated("end")
<1>1. ASSUME NEW node, C!Fn(node) PROVE Generated("fn")
  <2>0. gstack = <<>> /\ gout = "run"
    BY <1>1 DEF C!Fn, C!Visiting
  <2>1. CASE C!Stop("error") \/ C!Stop("abort")
    BY <2>0, <2>1, GenStop
  <2>2. CASE ~(C!Stop("error") \/ C!Stop("abort"))
    <3>. DEFINE f == [C!Enter("fn") EXCEPT !.merge = None, !.switch = None,
                        !.values = C!Added(node), !.first = 1, !.entry = 1, !.terms = 0]
    <3>1. {"k", "kids", "switch"} \subseteq DOMAIN f /\ f.switch = None /\ f.k = "fn"
      BY DEF C!Enter
    <3>2. gstack' = <<f>> /\ switch' = None
      BY <1>1, <2>2 DEF C!Fn
    <3>. HIDE DEF f
    <3>3. Switches(<<>>, None)
      <4>. DEFINE e == <<>>
      <4>1. e \in Seq({}) /\ Len(e) = 0
        OBVIOUS
      <4>2. IsStack(e) /\ ~Around(e, Len(e))
        BY <4>1 DEF IsStack, Around
      <4>. QED  BY <4>1, <4>2 DEF Switches
    <3>4. gstack' = Append(<<>>, f)
      BY <3>2
    <3>5. Switches(gstack', None) /\ Shape(gstack') = Append(Shape(<<>>), Mark(f.k))
      BY <3>1, <3>3, <3>4, PushKeeps
    <3>. QED  BY <2>0, <3>1, <3>2, <3>5 DEF Generated, After
  <2>. QED  BY <2>1, <2>2
<1>2. ASSUME NEW node, C!ExternFn(node) PROVE Generated("extern")
  <2>1. gout = "run" /\ UNCHANGED <<gstack, switch>>
    BY <1>2 DEF C!ExternFn, C!Visiting, C!Stop
  <2>. QED  BY <2>1, GenSimple DEF Opening
<1>3. ASSUME NEW node, C!TypeDecl(node) PROVE Generated("type")
  <2>1. gout = "run" /\ UNCHANGED <<gstack, switch>>
    BY <1>3 DEF C!TypeDecl, C!Visiting, C!Stop
  <2>. QED  BY <2>1, GenSimple DEF Opening
<1>4. ASSUME NEW node, C!Simple(node) PROVE Generated("simple")
  <2>1. gout = "run" /\ gstack' \in {gstack, C!Begun} /\ UNCHANGED switch
    BY <1>4 DEF C!Simple, C!Visiting, C!Stop
  <2>. QED  BY <2>1, GenSimple DEF Opening
<1>5. ASSUME C!Block PROVE Generated("block")
  <2>. DEFINE f == C!Enter("block")
  <2>1. {"k", "kids", "switch"} \subseteq DOMAIN f /\ f.switch = switch /\ f.k = "block"
    BY DEF C!Enter
  <2>2. gstack' = Append(C!Begun, f) /\ switch' = switch /\ gout = "run"
    BY <1>5 DEF C!Block, C!Entering, C!Visiting
  <2>. HIDE DEF f
  <2>. QED  BY <2>1, <2>2, GenEnter DEF Opening
<1>6. ASSUME NEW node, C!If(node) PROVE Generated("if")
  <2>0. gout = "run"
    BY <1>6 DEF C!If, C!Entering, C!Visiting
  <2>1. CASE C!Stop("error") \/ C!Stop("abort")
    BY <2>0, <2>1, GenStop
  <2>2. CASE ~(C!Stop("error") \/ C!Stop("abort"))
    <3>. DEFINE own == merge = None
                f == [C!Enter("if") EXCEPT !.next = merge', !.alt = Len(bbs) + 2, !.own = own]
    <3>1. {"k", "kids", "switch"} \subseteq DOMAIN f /\ f.switch = switch /\ f.k = "if"
      BY DEF C!Enter
    <3>2. gstack' = Append(C!Begun, f) /\ switch' = switch
      BY <1>6, <2>2 DEF C!If
    <3>. HIDE DEF f
    <3>. QED  BY <2>0, <3>1, <3>2, GenEnter DEF Opening
  <2>. QED  BY <2>1, <2>2
<1>7. ASSUME NEW params, C!Arrow(params) PROVE Generated("arrow")
  <2>0. gout = "run"
    BY <1>7 DEF C!Arrow, C!Entering, C!Visiting
  <2>1. CASE C!Stop("abort")
    BY <2>0, <2>1, GenStop
  <2>2. CASE ~C!Stop("abort")
    <3>. DEFINE f == [C!Enter("arrow") EXCEPT !.values = values']
    <3>1. {"k", "kids", "switch"} \subseteq DOMAIN f /\ f.switch = switch /\ f.k = "arrow"
      BY DEF C!Enter
    <3>2. gstack' = Append(C!Begun, f) /\ switch' = switch
      BY <1>7, <2>2 DEF C!Arrow, C!Inject
    <3>. HIDE DEF f
    <3>. QED  BY <2>0, <3>1, <3>2, GenEnter DEF Opening
  <2>. QED  BY <2>1, <2>2
<1>8. ASSUME C!Else PROVE Generated("else")
  <2>. DEFINE f == [C!Enter("else") EXCEPT !.entry = C!Top.alt, !.terms = 0]
  <2>1. {"k", "kids", "switch"} \subseteq DOMAIN f /\ f.switch = switch /\ f.k = "else"
    BY DEF C!Enter
  <2>2. gstack' = Append(C!Begun, f) /\ switch' = switch /\ gout = "run"
    BY <1>8 DEF C!Else, C!Entering, C!Visiting
  <2>. HIDE DEF f
  <2>. QED  BY <2>1, <2>2, GenEnter DEF Opening
<1>9. ASSUME NEW node, C!While(node) PROVE Generated("while")
  <2>0. gout = "run"
    BY <1>9 DEF C!While, C!Entering, C!Visiting
  <2>1. CASE C!Stop("error") \/ C!Stop("abort")
    BY <2>0, <2>1, GenStop
  <2>2. CASE ~(C!Stop("error") \/ C!Stop("abort"))
    <3>. DEFINE f == [C!Enter("while") EXCEPT !.alt = Len(bbs) + 1, !.next = Len(bbs) + 3]
    <3>1. {"k", "kids", "switch"} \subseteq DOMAIN f /\ f.switch = switch /\ f.k = "while"
      BY DEF C!Enter
    <3>2. gstack' = Append(C!Begun, f) /\ switch' = switch
      BY <1>9, <2>2 DEF C!While, C!Loop
    <3>. HIDE DEF f
    <3>. QED  BY <2>0, <3>1, <3>2, GenEnter DEF Opening
  <2>. QED  BY <2>1, <2>2
<1>10. ASSUME NEW node, C!For(node) PROVE Generated("for")
  <2>0. gout = "run"
    BY <1>10 DEF C!For, C!Entering, C!Visiting
  <2>1. CASE C!Stop("error")
    BY <2>0, <2>1, GenStop
  <2>2. CASE ~C!Stop("error")
    <3>. DEFINE f0 == [C!Enter("for") EXCEPT !.end = node.end]
                f == [f0 EXCEPT !.alt = Len(bbs) + 1, !.next = Len(bbs) + 3]
    <3>1. {"k", "kids", "switch"} \subseteq DOMAIN f /\ f.switch = switch /\ f.k = "for"
      BY DEF C!Enter
    <3>2. gstack' = Append(C!Begun, f) /\ switch' = switch
      BY <1>10, <2>2 DEF C!For, C!Loop
    <3>. HIDE DEF f
    <3>. QED  BY <2>0, <3>1, <3>2, GenEnter DEF Opening
  <2>. QED  BY <2>1, <2>2
<1>11. ASSUME NEW node, C!Switch(node) PROVE Generated("switch")
  <2>0. gout = "run"
    BY <1>11 DEF C!Switch, C!Entering, C!Visiting
  <2>1. CASE C!Stop("error") \/ C!Stop("abort")
    BY <2>0, <2>1, GenStop
  <2>2. CASE ~(C!Stop("error") \/ C!Stop("abort"))
    <3>. DEFINE f == [C!Enter("switch") EXCEPT !.next = Len(bbs) + 1, !.alt = Len(bbs) + 2]
                sw == [merge |-> Len(bbs) + 1, default |-> Len(bbs) + 2, at |-> ip,
                       term |-> Len(bbs[ip].terms) + 1]
    <3>1. {"k", "kids", "switch"} \subseteq DOMAIN f /\ f.switch = switch /\ f.k = "switch"
      BY DEF C!Enter
    <3>2. gstack' = Append(C!Begun, f) /\ switch' = sw
      BY <1>11, <2>2 DEF C!Switch
    <3>3. sw # None
      BY <1>11, SwitchIsSet DEF C!Switch, C!StmtExpected
    <3>. HIDE DEF f, sw
    <3>. QED  BY <2>0, <3>1, <3>2, <3>3, GenEnter DEF Opening
  <2>. QED  BY <2>1, <2>2
<1>12. ASSUME NEW node, C!Case(node) PROVE Generated("case")
  <2>0. gout = "run"
    BY <1>12 DEF C!Case, C!Entering, C!Visiting
  <2>1. CASE C!Stop("abort")
    BY <2>0, <2>1, GenStop
  <2>2. CASE ~C!Stop("abort")
    <3>. DEFINE kind == IF node.arrow THEN "case_arrow" ELSE "case"
                f0 == [C!Enter(kind) EXCEPT !.next = switch.merge, !.default = node.default]
                f == [f0 EXCEPT !.values = values']
    <3>1. {"k", "kids", "switch"} \subseteq DOMAIN f /\ f.switch = switch /\ f.k = kind
      BY DEF C!Enter
    <3>2. gstack' = Append(C!Begun, f) /\ switch' = switch
      BY <1>12, <2>2 DEF C!Case, C!Inject
    <3>3. Mark(kind) = Mark("case") /\ kind # "switch"
      BY DEF Mark
    <3>. HIDE DEF f, kind
    <3>. QED  BY <2>0, <3>1, <3>2, <3>3, GenEnter DEF Opening
  <2>. QED  BY <2>1, <2>2
<1>13. ASSUME C!Exit PROVE Generated("end")
  <2>1. CASE C!Stop("error") /\ gout = "run"
    BY <2>1, GenStop
  <2>2. CASE ~(C!Stop("error") /\ gout = "run")
    <3>1. /\ gout = "run" /\ gstack # <<>> /\ gstack' = SubSeq(gstack, 1, Len(gstack) - 1)
          /\ switch' = IF gstack[Len(gstack)].k = "switch"
                       THEN gstack[Len(gstack)].switch ELSE switch
      BY <1>13, <2>2 DEF C!Exit, C!ExitBlock, C!ExitElse, C!ExitIf, C!ExitWhile, C!ExitFor,
         C!ExitSwitch, C!ExitCase, C!Leaving, C!Top, C!Below
    <3>. QED  BY <3>1, GenLeave
  <2>. QED  BY <2>1, <2>2
<1>. QED  BY <1>1, <1>2, <1>3, <1>4, <1>5, <1>6, <1>7, <1>8, <1>9, <1>10, <1>11, <1>12, <1>13

-----------------------------------------------------------------------------
(* The two phases together.                                                 *)

LEMMA AfterTyped ==
  ASSUME NEW a \in Seq(Marks), NEW h
  PROVE  After(h, a) \in Seq(Marks)
<1>1. Mark(h) \in Marks
  BY DEF Mark, Marks
<1>. DEFINE m == Mark(h)
            n == Len(a) - 1
<1>2. m \in Marks /\ Append(a, m) \in Seq(Marks)
  BY <1>1
<1>3. n \in Int /\ \A i \in 1..n : a[i] \in Marks
  OBVIOUS
<1>. HIDE DEF n
<1>4. SubSeq(a, 1, n) \in Seq(Marks)
  BY <1>3, SubSeqProperties
<1>. QED  BY <1>2, <1>4 DEF After, n

\* One more item has one more shape.
LEMMA ShapesGrow ==
  ASSUME NEW X, NEW items \in Seq(X), NEW sh, Shapes(sh, items),
         NEW item, item.h = "case" => HasSwitch(sh[Len(items)])
  PROVE  \E sh2 : /\ Shapes(sh2, Append(items, item))
                  /\ sh2[Len(items) + 1] = After(item.h, sh[Len(items)])
                  /\ sh2[0] = sh[0]
<1>. DEFINE n == Len(items)
            a == After(item.h, sh[n])
            sh2 == [k \in 0..(n + 1) |-> IF k = n + 1 THEN a ELSE sh[k]]
            items2 == Append(items, item)
<1>1. /\ n \in Nat /\ n \in 0..n /\ items2 \in Seq(X \cup {item}) /\ Len(items2) = n + 1
      /\ \A i \in 1..n : items2[i] = items[i]
      /\ items2[n + 1] = item
  OBVIOUS
<1>2. sh \in [0..n -> Seq(Marks)] /\ a \in Seq(Marks)
  BY <1>1, AfterTyped DEF Shapes
<1>. HIDE DEF a, items2
<1>3. sh2 \in [0..(n + 1) -> Seq(Marks)]
  BY <1>1, <1>2
<1>4. sh2[n + 1] = a /\ \A k \in 0..n : sh2[k] = sh[k]
  BY <1>1
<1>. HIDE DEF sh2
<1>5. ASSUME NEW i \in 1..(n + 1)
      PROVE  /\ sh2[i] = After(items2[i].h, sh2[i - 1])
             /\ items2[i].h = "case" => HasSwitch(sh2[i - 1])
  <2>1. CASE i = n + 1
    BY <1>1, <1>4, <2>1 DEF a
  <2>2. CASE i # n + 1
    <3>1. i \in 1..n /\ i \in 0..n /\ i - 1 \in 0..n
      BY <1>1, <2>2
    <3>. QED  BY <1>1, <1>4, <3>1 DEF Shapes
  <2>. QED  BY <2>1, <2>2
<1>6. sh2[0] = sh[0] /\ sh[0] = <<>>
  BY <1>1, <1>4 DEF Shapes
<1>7. Shapes(sh2, items2)
  BY <1>1, <1>3, <1>5, <1>6 DEF Shapes
<1>. QED  BY <1>4, <1>6, <1>7 DEF a, items2

\* A switch around is one of the shape.
LEMMA AroundInShape ==
  ASSUME NEW s, IsStack(s)
  PROVE  Around(s, Len(s)) <=> HasSwitch(Shape(s))
<1>1. Len(s) \in Nat /\ Len(Shape(s)) = Len(s)
  <2>1. PICK X : s \in Seq(X)
    BY DEF IsStack
  <2>. QED  BY <2>1 DEF Shape
<1>. QED  BY <1>1 DEF Around, HasSwitch, Shape, Mark

\* A handler of the semantic phase.
LEMMA AnalysisHolds ==
  ASSUME IRInv, next = 0, UNCHANGED <<codegenVars, next>>,
         NEW item, item.h \in Kinds, Typed(item), Analysed(item.h),
         IF sout' # "run" THEN ir' = ir ELSE ir' = Append(ir, item)
  PROVE  IRInv'
<1>1. PICK X : ir \in Seq(X)
  BY DEF IRInv
<1>2. PICK sh : /\ Shapes(sh, ir) /\ sh[Len(ir)] = Shape(sstack)
                /\ gout = "run" => sh[0] = Shape(gstack)
  BY DEF IRInv, Handled
<1>3. CG!TypeInv' /\ Switches(gstack, switch)' /\ Shape(gstack)' = Shape(gstack) /\ gout' = gout
  BY DEF IRInv, codegenVars, CG!TypeInv, CG!TypeOK, CG!FramesOK, CG!Inserting
<1>4. CASE sout' # "run"
  <2>1. UNCHANGED <<sstack, switch_context, ir>>
    BY <1>4 DEF Analysed
  <2>. QED  BY <1>1, <1>2, <1>3, <2>1 DEF IRInv, Handled
<1>5. CASE sout' = "run"
  <2>1. /\ Contexts(sstack, switch_context)' /\ Shape(sstack)' = After(item.h, Shape(sstack))
        /\ item.h = "case" => switch_context # None
    BY <1>5 DEF Analysed
  <2>2. item.h = "case" => HasSwitch(sh[Len(ir)])
    BY <1>2, <2>1, AroundInShape DEF IRInv, Contexts
  <2>3. PICK sh2 : /\ Shapes(sh2, Append(ir, item))
                   /\ sh2[Len(ir) + 1] = After(item.h, sh[Len(ir)])
                   /\ sh2[0] = sh[0]
    BY <1>1, <1>2, <2>2, ShapesGrow
  <2>4. ir' = Append(ir, item)
    BY <1>5
  <2>5. /\ ir' \in Seq(X \cup {item}) /\ Len(ir') = Len(ir) + 1 /\ Len(ir) \in Nat
        /\ \A i \in 1..Len(ir) : ir'[i] = ir[i]
        /\ ir'[Len(ir) + 1] = item
    BY <1>1, <2>4
  <2>6. \A i \in 1..Len(ir') : ir'[i].h \in Kinds /\ Typed(ir'[i])
    <3>1. \A i \in 1..Len(ir') : i = Len(ir) + 1 \/ i \in 1..Len(ir)
      BY <2>5
    <3>. QED  BY <2>5, <3>1 DEF IRInv
  <2>7. Shapes(sh2, ir') /\ sh2[Len(ir')] = Shape(sstack)' /\ sh2[0] = sh[0]
    BY <1>2, <2>1, <2>3, <2>4, <2>5
  <2>8. next' \in 0..(Len(ir') + 1) /\ Handled' = 0
    BY <2>5 DEF Handled
  <2>. QED  BY <1>2, <1>3, <2>1, <2>5, <2>6, <2>7, <2>8 DEF IRInv
<1>. QED  BY <1>4, <1>5

LEMMA LoweredTyped ==
  ASSUME NEW params \in Seq(S!ParamDecls)
  PROVE  LoweredParams(params) \in CG!Params
<1>1. \A i \in 1..Len(params) : params[i].n \in Names /\ params[i].decl.type \in TypeNames
  <2>1. \A i \in 1..Len(params) : params[i] \in S!ParamDecls
    OBVIOUS
  <2>. QED  BY <2>1 DEF S!ParamDecls, S!TypeInstance, S!TypeNames, S!BuiltinTypes, S!IntTypes,
              TypeNames, BuiltinTypes, IntTypes
<1>2. Len(params) \in Nat
  OBVIOUS
<1>3. [i \in 1..Len(params) |-> [n |-> params[i].n, type |-> params[i].decl.type]]
        \in Seq([n : Names, type : TypeNames])
  BY <1>1, <1>2
<1>. QED  BY <1>3 DEF LoweredParams, CG!Params

\* What the semantic phase records.
ItemOf(i, h) == i.h = h /\ Typed(i)

LEMMA ItemsAreTyped ==
  /\ \A node \in FnNodes : ItemOf(FnItem("fn", node), "fn")
  /\ \A node \in ExternNodes : ItemOf(FnItem("extern", node), "extern")
  /\ \A node \in StructNodes : ItemOf(StructItem(node), "type")
  /\ \A node \in EnumNodes : ItemOf(EnumItem(node), "type")
  /\ \A params \in ArrowParams : ItemOf(Item("arrow", LoweredParams(params), <<>>), "arrow")
  /\ \A node \in ForNodes : \A inner : ItemOf(ForItem(node, inner), "for")
  /\ \A node \in CaseNodes : ItemOf(CaseItem(node), "case")
  /\ \A h \in {"simple", "block", "if", "else", "while", "switch"} : \A node, refs :
       ItemOf(Item(h, node, refs), h)
  /\ \A node, reads : ItemOf(Item("end", node, reads), "end")
<1>. USE DEF ItemOf
<1>1. /\ \A node \in FnNodes : ItemOf(FnItem("fn", node), "fn")
      /\ \A node \in ExternNodes : ItemOf(FnItem("extern", node), "extern")
  <2>1. ASSUME NEW node \in FnNodes \cup ExternNodes, NEW h \in {"fn", "extern"}
        PROVE  ItemOf(FnItem(h, node), h)
    <3>1. node.n \in UserTypeNames /\ node.params \in Seq(S!ParamDecls)
      BY ProgramsAssumption DEF S!DeclarationsAssumption
    <3>2. LoweredParams(node.params) \in CG!Params
      BY <3>1, LoweredTyped
    <3>. QED  BY <3>1, <3>2 DEF FnItem, Item, Typed, CG!IsProto, TypeNames
  <2>. QED  BY <2>1
<1>2. \A node \in StructNodes : ItemOf(StructItem(node), "type")
  <2>1. \A node \in StructNodes : node.n \in UserTypeNames
    BY ProgramsAssumption DEF S!DeclarationsAssumption
  <2>. QED  BY <2>1 DEF StructItem, Item, Typed, TypeNames
<1>3. \A node \in EnumNodes : ItemOf(EnumItem(node), "type")
  <2>1. ASSUME NEW node \in EnumNodes
        PROVE  {node.n} \cup {m.t : m \in StructMembers(node)} \subseteq TypeNames
    <3>1. /\ node.n \in UserTypeNames
          /\ node.members \in Seq([t : UserTypeNames, is_struct : BOOLEAN,
                                   fields : SUBSET S!TypeInstance])
      BY ProgramsAssumption DEF S!DeclarationsAssumption
    <3>2. \A i \in 1..Len(node.members) : node.members[i].t \in UserTypeNames
      <4>. DEFINE X == [t : UserTypeNames, is_struct : BOOLEAN, fields : SUBSET S!TypeInstance]
                  ms == node.members
      <4>1. \A x \in X : x.t \in UserTypeNames
        OBVIOUS
      <4>2. ms \in Seq(X)
        BY <3>1
      <4>. HIDE DEF X, ms
      <4>3. \A i \in 1..Len(ms) : ms[i] \in X
        BY <4>2
      <4>. QED  BY <4>1, <4>3 DEF ms
    <3>3. \A m \in StructMembers(node) : m.t \in UserTypeNames
      BY <3>1, <3>2 DEF StructMembers, ToSet
    <3>. QED  BY <3>1, <3>3 DEF TypeNames
  <2>. QED  BY <2>1 DEF EnumItem, Item, Typed
<1>4. \A params \in ArrowParams : ItemOf(Item("arrow", LoweredParams(params), <<>>), "arrow")
  <2>1. ArrowParams \subseteq Seq(S!ParamDecls)
    BY ProgramsAssumption DEF S!StatementsAssumption
  <2>. QED  BY <2>1, LoweredTyped DEF Item, Typed
<1>5. \A node \in ForNodes : \A inner : ItemOf(ForItem(node, inner), "for")
  <2>1. ASSUME NEW node \in ForNodes
        PROVE  Lowered(scopes, node.init).uses = NodeUses(node.init)
    BY DEF Lowered, LetNode, NodeUses
  <2>. QED  BY <2>1, ProgramsAssumption DEF ForItem, Typed
<1>6. \A node \in CaseNodes : ItemOf(CaseItem(node), "case")
  <2>1. \A node \in CaseNodes : node.params \in Seq(S!ParamDecls)
    BY ProgramsAssumption DEF S!StatementsAssumption
  <2>. QED  BY <2>1, LoweredTyped DEF CaseItem, Item, Typed, CG!IsCase
<1>7. \A h \in {"simple", "block", "if", "else", "while", "switch", "end"} : \A node, refs :
        ItemOf(Item(h, node, refs), h)
  BY DEF Item, Typed
<1>. QED  BY <1>1, <1>2, <1>3, <1>4, <1>5, <1>6, <1>7

LEMMA AnalyseHolds ==
  ASSUME IRInv, Analyse
  PROVE  IRInv'
<1>1. Contexts(sstack, switch_context) /\ next = 0 /\ UNCHANGED <<codegenVars, next>>
  BY DEF IRInv, Analyse
<1>. DEFINE Answer(i) == /\ i.h \in Kinds /\ Typed(i) /\ Analysed(i.h)
                         /\ IF sout' # "run" THEN ir' = ir ELSE ir' = Append(ir, i)
<1>2. PICK item : /\ item.h \in Kinds /\ Typed(item) /\ Analysed(item.h)
                  /\ IF sout' # "run" THEN ir' = ir ELSE ir' = Append(ir, item)
  <2>1. ASSUME NEW h \in Kinds, NEW i, ItemOf(i, h), Analysed(h), Record(i)
        PROVE  \E j : Answer(j)
    <3>1. Answer(i)
      BY <2>1 DEF Record, ItemOf
    <3>. HIDE DEF Answer
    <3>. QED  BY <3>1
  <2>. HIDE DEF Answer
  <2>2. ASSUME NEW node \in FnNodes, S!Fn(node), Record(FnItem("fn", node))
        PROVE  \E i : Answer(i)
    <3>1. ItemOf(FnItem("fn", node), "fn") /\ Analysed("fn")
      BY <1>1, <2>2, SemaHandlers, ItemsAreTyped
    <3>. QED  BY <2>1, <2>2, <3>1 DEF Kinds
  <2>3. ASSUME NEW node \in ExternNodes, S!ExternFn(node), Record(FnItem("extern", node))
        PROVE  \E i : Answer(i)
    <3>1. ItemOf(FnItem("extern", node), "extern") /\ Analysed("extern")
      BY <1>1, <2>3, SemaHandlers, ItemsAreTyped
    <3>. QED  BY <2>1, <2>3, <3>1 DEF Kinds
  <2>4. ASSUME NEW node \in StructNodes, S!StructOrUnion(node), Record(StructItem(node))
        PROVE  \E i : Answer(i)
    <3>1. ItemOf(StructItem(node), "type") /\ Analysed("type")
      BY <1>1, <2>4, SemaHandlers, ItemsAreTyped
    <3>. QED  BY <2>1, <2>4, <3>1 DEF Kinds
  <2>5. ASSUME NEW node \in EnumNodes, S!Enum(node), Record(EnumItem(node))
        PROVE  \E i : Answer(i)
    <3>1. ItemOf(EnumItem(node), "type") /\ Analysed("type")
      BY <1>1, <2>5, SemaHandlers, ItemsAreTyped
    <3>. QED  BY <2>1, <2>5, <3>1 DEF Kinds
  <2>6. AnalyseDeclaration => \E i : Answer(i)
    BY <2>2, <2>3, <2>4, <2>5 DEF AnalyseDeclaration
  <2>7. ASSUME NEW h \in {"simple", "block", "if", "else", "while", "switch"},
               NEW node, NEW refs, Analysed(h), Record(Item(h, node, refs))
        PROVE  \E i : Answer(i)
    BY <2>1, <2>7, ItemsAreTyped DEF Kinds
  <2>8. ASSUME NEW params \in ArrowParams, S!Arrow(params),
               Record(Item("arrow", LoweredParams(params), <<>>))
        PROVE  \E i : Answer(i)
    <3>1. ItemOf(Item("arrow", LoweredParams(params), <<>>), "arrow") /\ Analysed("arrow")
      BY <1>1, <2>8, SemaHandlers, ItemsAreTyped
    <3>. QED  BY <2>1, <2>8, <3>1 DEF Kinds
  <2>9. ASSUME NEW node \in ForNodes, S!For(node), NEW inner, Record(ForItem(node, inner))
        PROVE  \E i : Answer(i)
    <3>1. ItemOf(ForItem(node, inner), "for") /\ Analysed("for")
      BY <1>1, <2>9, SemaHandlers, ItemsAreTyped
    <3>. QED  BY <2>1, <2>9, <3>1 DEF Kinds
  <2>10. ASSUME NEW node \in CaseNodes, S!Case(node), Record(CaseItem(node))
         PROVE  \E i : Answer(i)
    <3>1. ItemOf(CaseItem(node), "case") /\ Analysed("case")
      BY <1>1, <2>10, SemaHandlers, ItemsAreTyped
    <3>. QED  BY <2>1, <2>10, <3>1 DEF Kinds
  <2>11. ASSUME S!Exit, RecordEnd PROVE \E i : Answer(i)
    <3>. DEFINE i == Item("end", Plain, ends[Len(ends)])
    <3>1. ItemOf(i, "end") /\ Analysed("end")
      BY <1>1, <2>11, SemaHandlers, ItemsAreTyped
    <3>2. Answer(i)
      BY <2>11, <3>1 DEF RecordEnd, ItemOf, Kinds, Answer
    <3>. QED  BY <3>2
  <2>12. AnalyseStatement => \E i : Answer(i)
    BY <1>1, <2>7, <2>8, <2>9, <2>10, <2>11, SemaHandlers DEF AnalyseStatement, CondItem, SwitchItem
  <2>13. \E i : Answer(i)
    BY <2>6, <2>12 DEF Analyse
  <2>. QED  BY <2>13 DEF Answer
<1>. QED  BY <1>1, <1>2, AnalysisHolds

LEMMA GenerateHolds ==
  ASSUME IRInv, Generate
  PROVE  IRInv'
<1>. DEFINE item == ir[next]
<1>1. /\ next \in 1..Len(ir) /\ Handle(item) /\ next' = next + 1
      /\ UNCHANGED <<sstack, switch_context, ir>>
  BY DEF Generate, semaVars
<1>2. PICK X : ir \in Seq(X)
  BY DEF IRInv
<1>3. Len(ir) \in Nat /\ next \in Nat /\ Handled = next - 1 /\ Handled' = next
      /\ next' \in 0..(Len(ir) + 1)
  BY <1>1, <1>2 DEF Handled
<1>4. item.h \in Kinds /\ Typed(item)
  BY <1>1 DEF IRInv
<1>5. CG!TypeInv'
  BY <1>1, <1>4, GeneratorTyped DEF IRInv
<1>6. Generated(item.h)
  <2>. HIDE DEF item
  <2>. QED  BY <1>1, <1>4, GenHandlers DEF IRInv, Handle, Kinds
<1>7. PICK sh : /\ Shapes(sh, ir) /\ sh[Len(ir)] = Shape(sstack)
                /\ gout = "run" => sh[next - 1] = Shape(gstack)
  BY <1>3 DEF IRInv
<1>8. sh[next] = After(item.h, sh[next - 1])
  BY <1>1, <1>7 DEF Shapes
<1>9. Switches(gstack, switch)' /\ (gout' = "run" => sh[next] = Shape(gstack)')
  BY <1>6, <1>7, <1>8 DEF Generated
<1>. HIDE DEF item
<1>. QED  BY <1>1, <1>2, <1>3, <1>5, <1>7, <1>9 DEF IRInv

LEMMA StartsIR == Init => IRInv
<1>. SUFFICES ASSUME Init PROVE IRInv
  OBVIOUS
<1>. DEFINE e == <<>>
            sh == [k \in 0..0 |-> e]
<1>1. /\ ir = e /\ sstack = e /\ gstack = e /\ next = 0
      /\ switch_context = None /\ switch = None /\ CG!TypeInv
  BY GeneratorStarts DEF Init, S!Init, C!Init
<1>2. e \in Seq(Marks) /\ Len(e) = 0 /\ Shape(e) = e /\ e \in Seq({})
  BY DEF Shape
<1>3. IsStack(e) /\ ~Around(e, 0)
  BY <1>2 DEF IsStack, Around
<1>4. sh \in [0..0 -> Seq(Marks)] /\ sh[0] = e
  BY <1>2
<1>. HIDE DEF sh
<1>5. Shapes(sh, e)
  BY <1>2, <1>4 DEF Shapes
<1>6. Contexts(e, None) /\ Switches(e, None)
  BY <1>2, <1>3 DEF Contexts, Switches
<1>. QED  BY <1>1, <1>2, <1>4, <1>5, <1>6 DEF IRInv, Handled

LEMMA StepsIR == IRInv /\ [Next]_vars => IRInv'
<1>. SUFFICES ASSUME IRInv, [Next]_vars PROVE IRInv'
  OBVIOUS
<1>1. CASE Analyse
  BY <1>1, AnalyseHolds
<1>2. CASE HandOver
  <2>1. UNCHANGED <<sstack, switch_context, gstack, switch, gout, ir>> /\ next = 0 /\ next' = 1
    BY <1>2 DEF HandOver, semaVars, codegenVars
  <2>2. CG!TypeInv'
    BY <1>2 DEF IRInv, HandOver, codegenVars, CG!TypeInv, CG!TypeOK, CG!FramesOK,
      CG!Inserting
  <2>3. Len(ir) \in Nat
    BY DEF IRInv
  <2>. QED  BY <2>1, <2>2, <2>3 DEF IRInv, Handled
<1>3. CASE Generate
  BY <1>3, GenerateHolds
<1>4. CASE UNCHANGED vars
  <2>1. UNCHANGED <<sstack, switch_context, gstack, switch, gout, ir, next>>
    BY <1>4 DEF vars, semaVars, codegenVars
  <2>2. CG!TypeInv'
    BY <1>4 DEF IRInv, vars, codegenVars, CG!TypeInv, CG!TypeOK, CG!FramesOK, CG!Inserting
  <2>. QED  BY <2>1, <2>2 DEF IRInv, Handled
<1>. QED  BY <1>1, <1>2, <1>3, <1>4 DEF Next

(***************************************************************************)
(* The handlers that are open in the code generator when it comes to an    *)
(* item of the IR are those that were open in the semantic phase when it   *)
(* made the item, and both phases have their switch set as those say.      *)
(***************************************************************************)
THEOREM HandlersMatchItems == Spec => []IRInv
<1>. QED  BY StartsIR, StepsIR, PTL DEF Spec

(***************************************************************************)
(* A case that the semantic phase let through never meets the assertion of *)
(* codegen_switch.cpp:68.                                                  *)
(***************************************************************************)
THEOREM CaseFindsSwitchAlways == Spec => []CaseFindsSwitch
<1>1. IRInv => CaseFindsSwitch
  <2>. SUFFICES ASSUME IRInv, next \in 1..Len(ir), gout = "run", ir[next].h = "case"
                PROVE  switch # None
    BY DEF CaseFindsSwitch
  <2>1. Handled = next - 1
    BY DEF Handled
  <2>2. PICK sh : Shapes(sh, ir) /\ sh[next - 1] = Shape(gstack)
    BY <2>1 DEF IRInv
  <2>3. HasSwitch(Shape(gstack))
    BY <2>2 DEF Shapes
  <2>. QED  BY <2>3, AroundInShape DEF IRInv, Switches
<1>. QED  BY <1>1, HandlersMatchItems, PTL

-----------------------------------------------------------------------------
(* Names.  A resolver follows the items of the IR and knows what either     *)
(* phase knows of names: where each name that can be read was declared, and *)
(* for each open handler what was known when its first child began and what *)
(* is read when it ends.                                                    *)

Envs == [Names -> C!Site \cup {None}]

Opened(k, saved, end) == [k |-> k, saved |-> saved, end |-> end]

Start == [open |-> <<>>, env |-> [n \in Names |-> None], np |-> 0]

\* The parameters of a node, the np-th.
Binds(params, n) == \E i \in 1..Len(params) : params[i].n = n

Bound(env, np, params) ==
  [n \in Names |-> IF Binds(params, n)
                   THEN <<np, CHOOSE i \in 1..Len(params) : params[i].n = n>>
                   ELSE env[n]]

\* A function is declared once, the last declaration of a `let` counts.
FnEnv(r, n) == [r.env EXCEPT ![n] = IF @ = None THEN <<r.np, 0>> ELSE @]
LetEnv(r, node) ==
  IF node.k = "let" THEN [r.env EXCEPT ![node.n] = <<r.np, 0>>] ELSE r.env

Inner(r) == r.open[Len(r.open)]

EnvAfter(item, r) ==
  CASE item.h = "fn" -> Bound(FnEnv(r, item.node.n), r.np, item.node.params)
    [] item.h = "extern" -> FnEnv(r, item.node.n)
    [] item.h = "simple" -> LetEnv(r, item.node)
    [] item.h = "for" -> LetEnv(r, item.node.init)
    [] item.h = "arrow" -> Bound(r.env, r.np, item.node)
    [] item.h = "case" -> Bound(r.env, r.np, item.node.params)
    [] item.h = "end" -> IF Inner(r).k \in {"fn", "block"} THEN Inner(r).saved ELSE r.env
    [] OTHER -> r.env

KindOf(item) == IF item.h = "case" /\ item.node.arrow THEN "case_arrow" ELSE item.h
SavedBy(item, r) == IF item.h = "fn" THEN FnEnv(r, item.node.n) ELSE EnvAfter(item, r)
EndOf(item) == IF item.h = "for" THEN item.node.end ELSE <<>>
OpenedBy(item, r) == Opened(KindOf(item), SavedBy(item, r), EndOf(item))

OpenAfter(item, r) ==
  IF item.h \in Opening THEN Append(r.open, OpenedBy(item, r))
  ELSE IF item.h = "end" THEN SubSeq(r.open, 1, Len(r.open) - 1) ELSE r.open

NextNode(item, r) == IF item.h = "end" THEN r.np ELSE r.np + 1

Resolved(item, r) ==
  [open |-> OpenAfter(item, r), env |-> EnvAfter(item, r), np |-> NextNode(item, r)]

\* What the Hygienic programs are, item by item, and what the item records.
Known(env, uses) == \A i \in 1..Len(uses) : CG!ValueOf(env, uses[i]) # None
Unbound(env, params) == \A i \in 1..Len(params) : env[params[i].n] = None

NewLet(r, node) ==
  node.k = "let" =>
    node.n \in Names /\ (r.env[node.n] = None \/ Inner(r).k \in {"fn", "block"})

NewParams(r, params) == Distinct(params) /\ Unbound(r.env, params)

NewHead(r, node) ==
  /\ node.init.k = "let" => node.init.n \in Names /\ r.env[node.init.n] = None
  /\ Known(LetEnv(r, node.init), node.end)

Reads(item) ==
  IF item.h \in {"simple", "if", "while", "switch"} THEN item.node.uses
  ELSE IF item.h = "for" THEN item.node.init.uses \o item.node.cond ELSE <<>>

Fits(item, r) ==
  /\ item.h \in {"fn", "extern", "type"} <=> r.open = <<>>
  /\ item.h = "fn" => Distinct(item.node.params)
  /\ item.h = "arrow" => NewParams(r, item.node)
  /\ item.h = "case" => NewParams(r, item.node.params)
  /\ item.h = "simple" => NewLet(r, item.node)
  /\ item.h = "for" => NewHead(r, item.node)
  /\ item.refs = IF item.h = "end" THEN CG!Lookups(Inner(r).saved, Inner(r).end)
                 ELSE CG!Lookups(EnvAfter(item, r), Reads(item))

\* f knows what e knows.
Under(e, f) == \A n \in Names : e[n] # None => f[n] = e[n]

\* What is known inside the first i handlers.
Within(r, i) == IF i = Len(r.open) THEN r.env ELSE r.open[i + 1].saved

\* The i-th open handler, o: w is what is known inside it.  Only a function and a
\* block may hide a name.
Layered(o, i, w) ==
  /\ {"k", "saved", "end"} \subseteq DOMAIN o
  /\ o.saved \in Envs
  /\ o.k = "fn" <=> i = 1
  /\ o.k # "for" => o.end = <<>>
  /\ Known(o.saved, o.end)
  /\ o.k \notin {"fn", "block"} => Under(o.saved, w)

IsResolver(r) ==
  /\ {"open", "env", "np"} \subseteq DOMAIN r
  /\ \E X : r.open \in Seq(X)
  /\ r.env \in Envs
  /\ r.np \in Nat
  /\ \A i \in 1..Len(r.open) : Layered(r.open[i], i, Within(r, i))

-----------------------------------------------------------------------------
(* What an item does to the resolver.                                       *)

LEMMA BoundIs ==
  ASSUME NEW env \in Envs, NEW np \in Nat, NEW params, Len(params) \in Nat
  PROVE  /\ Bound(env, np, params) \in Envs
         /\ Unbound(env, params) => Under(env, Bound(env, np, params))
<1>. DEFINE who(n) == CHOOSE i \in 1..Len(params) : params[i].n = n
            b == Bound(env, np, params)
<1>1. \A n : Binds(params, n) => who(n) \in 1..Len(params) /\ params[who(n)].n = n
  BY DEF Binds
<1>2. \A n : Binds(params, n) => <<np, who(n)>> \in C!Site
  <2>1. \A n : Binds(params, n) => who(n) \in Nat
    <3>1. \A i \in 1..Len(params) : i \in Nat
      OBVIOUS
    <3>. QED  BY <1>1, <3>1
  <2>. HIDE DEF who
  <2>. QED  BY <2>1 DEF C!Site
<1>3. /\ b = [n \in Names |-> b[n]]
      /\ \A n \in Names : b[n] = IF Binds(params, n) THEN <<np, who(n)>> ELSE env[n]
  BY DEF Bound
<1>. HIDE DEF who, b
<1>4. \A n \in Names : b[n] \in C!Site \cup {None}
  BY <1>2, <1>3 DEF Envs
<1>5. b \in Envs
  BY <1>3, <1>4 DEF Envs
<1>6. ASSUME Unbound(env, params), NEW n \in Names, env[n] # None
      PROVE  b[n] = env[n]
  BY <1>3, <1>6 DEF Unbound, Binds
<1>. QED  BY <1>5, <1>6 DEF Under, b

\* The node that an item is made of, by its handler.
LEMMA EnvIs ==
  ASSUME NEW item, NEW r
  PROVE  /\ item.h = "fn" =>
              EnvAfter(item, r) = Bound(FnEnv(r, item.node.n), r.np, item.node.params)
         /\ item.h = "extern" => EnvAfter(item, r) = FnEnv(r, item.node.n)
         /\ item.h = "simple" => EnvAfter(item, r) = LetEnv(r, item.node)
         /\ item.h = "for" => EnvAfter(item, r) = LetEnv(r, item.node.init)
         /\ item.h = "arrow" => EnvAfter(item, r) = Bound(r.env, r.np, item.node)
         /\ item.h = "case" => EnvAfter(item, r) = Bound(r.env, r.np, item.node.params)
         /\ item.h = "end" => EnvAfter(item, r) =
              IF Inner(r).k \in {"fn", "block"} THEN Inner(r).saved ELSE r.env
         /\ item.h \in {"type", "block", "if", "else", "while", "switch"} =>
              EnvAfter(item, r) = r.env
BY DEF EnvAfter

LEMMA SiteIsSet == \A x \in C!Site : x # None
BY ProgramsAssumption

LEMMA EnvTyped ==
  ASSUME NEW r, IsResolver(r), NEW item, item.h \in Kinds, Typed(item),
         item.h = "end" => r.open # <<>>
  PROVE  /\ EnvAfter(item, r) \in Envs
         /\ item.h = "fn" => FnEnv(r, item.node.n) \in Envs
<1>1. r.env \in Envs /\ r.np \in Nat /\ <<r.np, 0>> \in C!Site
  BY DEF IsResolver, C!Site
<1>2. \A n : FnEnv(r, n) \in Envs
  BY <1>1 DEF FnEnv, Envs
<1>3. \A node : LetEnv(r, node) \in Envs
  BY <1>1 DEF LetEnv, Envs
<1>4. /\ item.h = "fn" => Len(item.node.params) \in Nat
      /\ item.h = "arrow" => Len(item.node) \in Nat
      /\ item.h = "case" => Len(item.node.params) \in Nat
  BY DEF Typed, CG!IsProto, CG!IsCase, CG!Params
<1>5. item.h = "end" => Inner(r).saved \in Envs
  <2>1. r.open # <<>> => Len(r.open) \in 1..Len(r.open)
    <3>1. PICK X : r.open \in Seq(X)
      BY DEF IsResolver
    <3>. QED  BY <3>1
  <2>. QED  BY <2>1 DEF IsResolver, Inner, Layered
<1>. QED  BY <1>1, <1>2, <1>3, <1>4, <1>5, BoundIs, EnvIs DEF Kinds

\* What is read after the end of a handler that is opened is known by then.
LEMMA OpenedLayered ==
  ASSUME NEW r, IsResolver(r), NEW item, item.h \in Opening, Typed(item), Fits(item, r),
         NEW i \in Nat, i = Len(r.open) + 1
  PROVE  /\ Layered(OpenedBy(item, r), i, EnvAfter(item, r))
         /\ r.open # <<>> /\ Inner(r).k \notin {"fn", "block"} =>
              Under(r.env, SavedBy(item, r))
<1>. DEFINE o == OpenedBy(item, r)
<1>1. item.h \in Kinds /\ item.h # "end" /\ r.env \in Envs /\ r.np \in Nat
  BY DEF Opening, Kinds, IsResolver
<1>2. /\ EnvAfter(item, r) \in Envs
      /\ item.h = "fn" => FnEnv(r, item.node.n) \in Envs
  BY <1>1, EnvTyped
<1>3. /\ {"k", "saved", "end"} \subseteq DOMAIN o
      /\ o.k = KindOf(item) /\ o.saved = SavedBy(item, r) /\ o.end = EndOf(item)
  BY DEF OpenedBy, Opened
<1>4. o.saved \in Envs
  BY <1>2, <1>3 DEF SavedBy
<1>5. Len(r.open) \in Nat /\ (r.open = <<>> <=> Len(r.open) = 0)
  <2>1. PICK X : r.open \in Seq(X)
    BY DEF IsResolver
  <2>. QED  BY <2>1
<1>6. (o.k = "fn" <=> i = 1) /\ (o.k # "for" => o.end = <<>>)
  <2>1. item.h = "fn" <=> r.open = <<>>
    BY DEF Fits, Opening
  <2>. QED  BY <1>3, <1>5, <2>1 DEF KindOf, EndOf
<1>7. Known(o.saved, o.end)
  <2>1. CASE item.h = "for"
    <3>1. Known(LetEnv(r, item.node.init), item.node.end)
      BY <2>1 DEF Fits, NewHead
    <3>. QED  BY <1>3, <2>1, <3>1, EnvIs DEF SavedBy, EndOf
  <2>2. CASE item.h # "for"
    BY <1>3, <2>2 DEF EndOf, Known
  <2>. QED  BY <2>1, <2>2
<1>8. o.k \notin {"fn", "block"} => Under(o.saved, EnvAfter(item, r))
  BY <1>3 DEF SavedBy, KindOf, Under
<1>9. Layered(o, i, EnvAfter(item, r))
  <2>. HIDE DEF o
  <2>. QED  BY <1>3, <1>4, <1>6, <1>7, <1>8 DEF Layered
<1>10. ASSUME r.open # <<>>
       PROVE  Under(r.env, SavedBy(item, r))
  <2>1. item.h # "fn"
    BY <1>10 DEF Fits
  <2>2. CASE item.h = "arrow"
    <3>1. Unbound(r.env, item.node) /\ Len(item.node) \in Nat
      BY <2>2 DEF Fits, NewParams, Typed, CG!Params
    <3>. QED  BY <1>1, <2>2, <3>1, BoundIs, EnvIs DEF SavedBy
  <2>3. CASE item.h = "case"
    <3>1. Unbound(r.env, item.node.params) /\ Len(item.node.params) \in Nat
      BY <2>3 DEF Fits, NewParams, Typed, CG!IsCase, CG!Params
    <3>. QED  BY <1>1, <2>3, <3>1, BoundIs, EnvIs DEF SavedBy
  <2>4. CASE item.h = "for"
    <3>1. item.node.init.k = "let" => r.env[item.node.init.n] = None
      BY <2>4 DEF Fits, NewHead
    <3>2. Under(r.env, LetEnv(r, item.node.init))
      BY <1>1, <3>1 DEF LetEnv, Under, Envs
    <3>. QED  BY <2>4, <3>2, EnvIs DEF SavedBy
  <2>5. CASE item.h \in {"block", "if", "else", "while", "switch"}
    BY <2>5, EnvIs DEF SavedBy, Under
  <2>. QED  BY <2>1, <2>2, <2>3, <2>4, <2>5 DEF Opening
<1>. QED  BY <1>9, <1>10 DEF o

LEMMA UnderTrans == \A e, f, g : Under(e, f) /\ Under(f, g) => Under(e, g)
BY DEF Under

\* A resolver stays one.
LEMMA ResolvedIs ==
  ASSUME NEW r, IsResolver(r), NEW item, item.h \in Kinds, Typed(item), Fits(item, r)
  PROVE  IsResolver(Resolved(item, r))
<1>. DEFINE t == Resolved(item, r)
            n == Len(r.open)
<1>. SUFFICES IsResolver(t)
  OBVIOUS
<1>1. PICK X : r.open \in Seq(X)
  BY DEF IsResolver
<1>2. n \in Nat /\ (r.open = <<>> <=> n = 0) /\ \A i \in 1..n : Layered(r.open[i], i, Within(r, i))
  BY <1>1 DEF IsResolver
<1>3. item.h = "end" => r.open # <<>>
  BY DEF Fits
<1>4. EnvAfter(item, r) \in Envs /\ NextNode(item, r) \in Nat
  BY <1>3, EnvTyped DEF NextNode, IsResolver
<1>5. /\ t.open = OpenAfter(item, r) /\ t.env = EnvAfter(item, r) /\ t.np = NextNode(item, r)
      /\ {"open", "env", "np"} \subseteq DOMAIN t
  BY DEF Resolved
<1>. HIDE DEF t
<1>6. CASE item.h \in Opening
  <2>. DEFINE o == OpenedBy(item, r)
  <2>1. /\ Layered(o, n + 1, EnvAfter(item, r)) /\ o.saved = SavedBy(item, r)
        /\ r.open # <<>> /\ Inner(r).k \notin {"fn", "block"} => Under(r.env, o.saved)
    BY <1>2, <1>6, OpenedLayered DEF OpenedBy, Opened
  <2>. HIDE DEF o
  <2>2. t.open = Append(r.open, o)
    BY <1>5, <1>6 DEF OpenAfter, o
  <2>3. /\ t.open \in Seq(X \cup {o}) /\ Len(t.open) = n + 1 /\ t.open[n + 1] = o
        /\ \A i \in 1..n : t.open[i] = r.open[i]
    BY <1>1, <2>2
  <2>4. Within(t, n + 1) = EnvAfter(item, r)
    BY <1>5, <2>3 DEF Within
  <2>5. ASSUME NEW i \in 1..n
        PROVE  Layered(t.open[i], i, Within(t, i))
    <3>1. Layered(r.open[i], i, Within(r, i)) /\ t.open[i] = r.open[i]
      BY <1>2, <2>3
    <3>2. CASE i = n
      <4>1. Within(r, i) = r.env /\ Within(t, i) = o.saved /\ Inner(r) = r.open[i] /\ r.open # <<>>
        BY <1>2, <2>3, <3>2 DEF Within, Inner
      <4>. QED  BY <2>1, <3>1, <4>1, UnderTrans DEF Layered
    <3>3. CASE i # n
      <4>1. i + 1 \in 1..n /\ i # n + 1
        BY <1>2, <3>3
      <4>2. Within(t, i) = Within(r, i)
        BY <2>3, <3>3, <4>1 DEF Within
      <4>. QED  BY <3>1, <4>2
    <3>. QED  BY <3>2, <3>3
  <2>6. \A i \in 1..(n + 1) : i = n + 1 \/ i \in 1..n
    BY <1>2
  <2>. QED  BY <1>4, <1>5, <2>1, <2>3, <2>4, <2>5, <2>6 DEF IsResolver
<1>7. CASE item.h = "end"
  <2>1. n > 0 /\ n - 1 \in Nat
    BY <1>2, <1>3, <1>7
  <2>. DEFINE m == n - 1
  <2>2. \A i \in 1..m : r.open[i] \in X
    BY <1>1
  <2>3. t.open = SubSeq(r.open, 1, m)
    BY <1>5, <1>7 DEF OpenAfter, Opening
  <2>4. m \in Nat /\ n = m + 1
    BY <2>1
  <2>. HIDE DEF m
  <2>5. t.open \in Seq(X) /\ Len(t.open) = m /\ \A i \in 1..m : t.open[i] = r.open[i]
    BY <1>1, <2>2, <2>3, <2>4, SubSeqProperties
  <2>6. t.env = IF Inner(r).k \in {"fn", "block"} THEN Inner(r).saved ELSE r.env
    BY <1>5, <1>7, EnvIs
  <2>7. ASSUME NEW i \in 1..m
        PROVE  Layered(t.open[i], i, Within(t, i))
    <3>1. i \in 1..n /\ i + 1 \in 1..n /\ i # n
      BY <2>4
    <3>2. Layered(r.open[i], i, r.open[i + 1].saved) /\ t.open[i] = r.open[i]
      BY <1>2, <2>5, <3>1 DEF Within
    <3>3. CASE i = m
      <4>1. Inner(r) = r.open[i + 1] /\ Within(t, i) = t.env
        BY <2>4, <2>5, <3>3 DEF Inner, Within
      <4>2. Layered(r.open[i + 1], i + 1, r.env)
        <5>1. Within(r, i + 1) = r.env
          BY <2>4, <3>3 DEF Within
        <5>. QED  BY <1>2, <3>1, <5>1
      <4>3. Under(Inner(r).saved, t.env)
        BY <2>6, <4>1, <4>2 DEF Layered, Under
      <4>. QED  BY <3>2, <4>1, <4>3, UnderTrans DEF Layered
    <3>4. CASE i # m
      <4>1. i + 1 \in 1..m
        BY <2>4, <3>4
      <4>2. Within(t, i) = r.open[i + 1].saved
        BY <2>5, <3>4, <4>1 DEF Within
      <4>. QED  BY <3>2, <4>2
    <3>. QED  BY <3>3, <3>4
  <2>. QED  BY <1>4, <1>5, <2>5, <2>7 DEF IsResolver
<1>8. CASE item.h \in {"extern", "type", "simple"}
  <2>1. t.open = r.open
    BY <1>5, <1>8 DEF OpenAfter, Opening
  <2>2. ASSUME NEW i \in 1..n
        PROVE  Layered(t.open[i], i, Within(t, i))
    <3>1. Layered(r.open[i], i, Within(r, i))
      BY <1>2
    <3>2. CASE i = n
      <4>1. r.open # <<>> /\ Inner(r) = r.open[i] /\ Within(t, i) = t.env /\ Within(r, i) = r.env
        BY <1>2, <2>1, <3>2 DEF Inner, Within
      <4>2. item.h = "simple" /\ NewLet(r, item.node) /\ t.env = LetEnv(r, item.node)
        BY <1>5, <1>8, <4>1, EnvIs DEF Fits
      <4>3. Inner(r).k \notin {"fn", "block"} => Under(r.env, t.env)
        BY <4>2 DEF NewLet, LetEnv, Under, IsResolver, Envs
      <4>. QED  BY <2>1, <3>1, <4>1, <4>3, UnderTrans DEF Layered
    <3>3. CASE i # n
      BY <2>1, <3>1, <3>3 DEF Within
    <3>. QED  BY <3>2, <3>3
  <2>. QED  BY <1>1, <1>4, <1>5, <2>1, <2>2 DEF IsResolver
<1>9. item.h \in Opening \/ item.h \in {"end", "extern", "type", "simple"}
  BY DEF Kinds, Opening
<1>. QED  BY <1>6, <1>7, <1>8, <1>9

-----------------------------------------------------------------------------
(* The code generator agrees with the resolver: what a name stands for in   *)
(* its map is where the resolver says it was declared.  It may have no      *)
(* address for a name that the resolver knows: what a branch declared is    *)
(* gone after it, unless it is at the top level.                            *)

GenFrame(f, o) ==
  /\ f.k = o.k /\ f.end = o.end
  /\ Under(f.values, o.saved)
  /\ o.k = "fn" => f.values = o.saved

GenAt(r) ==
  /\ gpos = r.np
  /\ Len(gstack) = Len(r.open)
  /\ Under(values, r.env)
  /\ r.open = <<>> => values = r.env
  /\ \A i \in 1..Len(r.open) : GenFrame(gstack[i], r.open[i])

\* What the generator's types say, as far as names go.
LEMMA GenTypes ==
  ASSUME CG!TypeInv
  PROVE  /\ values \in Envs /\ gpos \in Nat /\ gstack \in Seq(CG!Frame)
         /\ Len(gstack) \in Nat /\ (gstack = <<>> <=> Len(gstack) = 0)
         /\ IsStack(gstack)
<1>1. values \in Envs /\ gpos \in Nat /\ gstack \in Seq(CG!Frame)
  BY GeneratorSound DEF CG!TypeInv, CG!TypeOK, Envs, CG!BoundsAssumption, CG!Site, C!Site
<1>2. \A x \in CG!Frame : {"k", "kids"} \subseteq DOMAIN x
  BY DEF CG!Frame
<1>3. \A i \in 1..Len(gstack) : gstack[i] \in CG!Frame
  BY <1>1
<1>4. IsStack(gstack)
  <2>. HIDE DEF GenAt
  <2>1. \A i \in 1..Len(gstack) : {"k", "kids"} \subseteq DOMAIN gstack[i]
    BY <1>2, <1>3
  <2>. QED  BY <1>1, <2>1 DEF IsStack
<1>. QED  BY <1>1, <1>4

\* Counting a child changes no frame as far as names go.
LEMMA BegunAgrees ==
  ASSUME CG!TypeInv
  PROVE  /\ IsStack(CG!Begun) /\ Len(CG!Begun) = Len(gstack)
         /\ \A i \in 1..Len(gstack) :
              /\ CG!Begun[i].k = gstack[i].k
              /\ CG!Begun[i].end = gstack[i].end
              /\ CG!Begun[i].values = gstack[i].values
<1>1. CG!Begun = Bump(gstack)
  BY DEF CG!Begun, CG!Top, CG!Below, CG!ListKinds, Bump, ListKinds
<1>2. Alike(gstack, Bump(gstack))
  BY GenTypes, BumpAlike
<1>3. \A i \in 1..Len(gstack) : {"k", "end", "values"} \subseteq DOMAIN gstack[i]
  <2>1. \A x \in CG!Frame : {"k", "end", "values"} \subseteq DOMAIN x
    BY DEF CG!Frame
  <2>2. \A i \in 1..Len(gstack) : gstack[i] \in CG!Frame
    BY GenTypes
  <2>. QED  BY <2>1, <2>2
<1>4. CG!Begun = Bump(gstack) /\ \A i \in 1..Len(gstack) :
        /\ Bump(gstack)[i]["k"] = gstack[i]["k"]
        /\ Bump(gstack)[i]["end"] = gstack[i]["end"]
        /\ Bump(gstack)[i]["values"] = gstack[i]["values"]
  BY <1>1, <1>2, <1>3 DEF Alike
<1>. QED  BY <1>2, <1>4 DEF Alike

\* A handler is entered.
LEMMA GenPushes ==
  ASSUME NEW r, IsResolver(r), GenAt(r), CG!TypeInv, NEW item, item.h \in Opening,
         NEW f, {"k", "kids"} \subseteq DOMAIN f, gstack' = Append(CG!Begun, f),
         GenFrame(f, OpenedBy(item, r)), gpos' = gpos + 1, Under(values', EnvAfter(item, r))
  PROVE  GenAt(Resolved(item, r))'
<1>. DEFINE t == Resolved(item, r)
            o == OpenedBy(item, r)
            n == Len(gstack)
<1>1. /\ t.open = Append(r.open, o) /\ t.env = EnvAfter(item, r) /\ t.np = r.np + 1
  BY DEF Resolved, OpenAfter, NextNode, Opening
<1>2. PICK X : r.open \in Seq(X)
  BY DEF IsResolver
<1>3. Len(r.open) = n /\ n \in Nat /\ \A i \in 1..n : GenFrame(gstack[i], r.open[i])
  BY GenTypes DEF GenAt
<1>. HIDE DEF t, o
<1>4. /\ Len(t.open) = n + 1 /\ t.open[n + 1] = o /\ t.open # <<>>
      /\ \A i \in 1..n : t.open[i] = r.open[i]
  <2>. HIDE DEF n
  <2>1. /\ t.open \in Seq(X \cup {o}) /\ Len(t.open) = Len(r.open) + 1
        /\ t.open[Len(r.open) + 1] = o
        /\ \A i \in 1..Len(r.open) : t.open[i] = r.open[i]
    BY <1>1, <1>2
  <2>2. t.open # <<>>
    BY <1>3, <2>1
  <2>. QED  BY <1>3, <2>1, <2>2
<1>5. /\ Len(gstack') = n + 1 /\ gstack'[n + 1] = f
      /\ \A i \in 1..n : gstack'[i] = CG!Begun[i]
  BY BegunAgrees, PushShape
<1>6. ASSUME NEW i \in 1..(n + 1) PROVE GenFrame(gstack'[i], t.open[i])
  <2>1. CASE i = n + 1
    BY <1>4, <1>5, <2>1 DEF o
  <2>2. CASE i \in 1..n
    BY <1>3, <1>4, <1>5, <2>2, BegunAgrees DEF GenFrame
  <2>3. i = n + 1 \/ i \in 1..n
    <3>. HIDE DEF n
    <3>. QED  BY <1>3
  <2>. QED  BY <2>1, <2>2, <2>3
<1>7. /\ gpos' = t.np /\ Len(gstack') = Len(t.open) /\ Under(values', t.env) /\ t.open # <<>>
      /\ \A i \in 1..Len(t.open) : GenFrame(gstack'[i], t.open[i])
  BY <1>1, <1>4, <1>5, <1>6 DEF GenAt
<1>8. GenAt(t)'
  BY <1>7 DEF GenAt
<1>. QED  BY <1>8 DEF t

\* A statement without children, or a declaration.
LEMMA GenStays ==
  ASSUME NEW r, IsResolver(r), GenAt(r), CG!TypeInv, NEW item,
         item.h \in {"extern", "type", "simple"}, gstack' \in {gstack, CG!Begun},
         gpos' = gpos + 1, Under(values', EnvAfter(item, r)),
         r.open = <<>> => values' = EnvAfter(item, r)
  PROVE  GenAt(Resolved(item, r))'
<1>. DEFINE t == Resolved(item, r)
<1>1. /\ t.open = r.open /\ t.env = EnvAfter(item, r) /\ t.np = r.np + 1
  BY DEF Resolved, OpenAfter, NextNode, Opening
<1>. HIDE DEF t
<1>2. /\ Len(gstack') = Len(gstack)
      /\ \A i \in 1..Len(gstack) : /\ gstack'[i].k = gstack[i].k
                                   /\ gstack'[i].end = gstack[i].end
                                   /\ gstack'[i].values = gstack[i].values
  BY BegunAgrees
<1>3. \A i \in 1..Len(r.open) : GenFrame(gstack'[i], r.open[i])
  BY <1>2 DEF GenAt, GenFrame
<1>4. /\ gpos' = t.np /\ Len(gstack') = Len(t.open) /\ Under(values', t.env)
      /\ (t.open = <<>> => values' = t.env)
      /\ \A i \in 1..Len(t.open) : GenFrame(gstack'[i], t.open[i])
  BY <1>1, <1>2, <1>3 DEF GenAt
<1>5. GenAt(t)'
  BY <1>4 DEF GenAt
<1>. QED  BY <1>5 DEF t

\* A handler returns.
LEMMA GenPops ==
  ASSUME NEW r, IsResolver(r), r.open # <<>>, GenAt(r), CG!TypeInv, NEW item, item.h = "end",
         gstack' = CG!Below, gpos' = gpos,
         IF CG!Top.k \in {"fn", "block", "arrow", "switch", "case_arrow", "for"}
         THEN values' = CG!Top.values ELSE values' = values
  PROVE  GenAt(Resolved(item, r))'
<1>. DEFINE t == Resolved(item, r)
            n == Len(gstack)
            m == n - 1
            o == Inner(r)
<1>1. /\ t.open = SubSeq(r.open, 1, Len(r.open) - 1) /\ t.np = r.np
      /\ t.env = IF o.k \in {"fn", "block"} THEN o.saved ELSE r.env
  BY EnvIs DEF Resolved, OpenAfter, NextNode, Opening
<1>2. PICK X : r.open \in Seq(X)
  BY DEF IsResolver
<1>3. Len(r.open) = n /\ n \in Nat /\ n > 0 /\ \A i \in 1..n : GenFrame(gstack[i], r.open[i])
  BY <1>2, GenTypes DEF GenAt
<1>4. m \in Nat /\ n = m + 1 /\ n \in 1..n /\ \A i \in 1..m : i \in 1..n
  BY <1>3
<1>5. GenFrame(CG!Top, o) /\ Layered(o, n, r.env)
  <2>1. CG!Top = gstack[n] /\ o = r.open[n] /\ Within(r, n) = r.env
    BY <1>3 DEF CG!Top, Inner, Within
  <2>. QED  BY <1>3, <1>4, <2>1 DEF IsResolver
<1>. HIDE DEF t
<1>6. /\ t.open \in Seq(X) /\ Len(t.open) = m /\ \A i \in 1..m : t.open[i] = r.open[i]
  <2>1. \A i \in 1..m : r.open[i] \in X
    BY <1>2, <1>3
  <2>2. t.open = SubSeq(r.open, 1, m)
    BY <1>1, <1>3
  <2>. HIDE DEF m
  <2>. QED  BY <1>2, <1>4, <2>1, <2>2, SubSeqProperties
<1>7. /\ Len(gstack') = m /\ \A i \in 1..m : gstack'[i] = gstack[i]
  BY <1>3, GenTypes, PopShape DEF CG!Below
<1>8. Under(values', t.env) /\ (m = 0 => values' = t.env)
  <2>. HIDE DEF o, m
  <2>1. o.k = "fn" <=> m = 0
    BY <1>4, <1>5 DEF Layered
  <2>2. Under(values, r.env)
    BY DEF GenAt
  <2>3. CASE o.k \in {"fn", "block"}
    BY <1>1, <1>5, <2>1, <2>3 DEF GenFrame
  <2>4. CASE o.k \notin {"fn", "block"}
    <3>1. Under(o.saved, r.env) /\ t.env = r.env /\ Under(CG!Top.values, o.saved)
      BY <1>1, <1>5, <2>4 DEF Layered, GenFrame
    <3>2. Under(CG!Top.values, r.env)
      BY <3>1, UnderTrans
    <3>. QED  BY <2>1, <2>2, <2>4, <3>1, <3>2
  <2>. QED  BY <2>3, <2>4
<1>9. \A i \in 1..m : GenFrame(gstack'[i], t.open[i])
  BY <1>3, <1>4, <1>6, <1>7
<1>10. /\ gpos' = t.np /\ Len(gstack') = Len(t.open) /\ Under(values', t.env)
       /\ (t.open = <<>> => values' = t.env)
       /\ \A i \in 1..Len(t.open) : GenFrame(gstack'[i], t.open[i])
  BY <1>1, <1>6, <1>7, <1>8, <1>9 DEF GenAt
<1>11. GenAt(t)'
  BY <1>10 DEF GenAt
<1>. QED  BY <1>11 DEF t

-----------------------------------------------------------------------------
(* What each handler of the code generator uses is what the item records,   *)
(* and the phase goes on agreeing with the resolver.                        *)

\* A handler of the generator that reports nothing agrees with the resolver.
GenAgrees(item, r) == gout' = "run" => GenAt(Resolved(item, r))' /\ used' = item.refs

LEMMA NoLookups == \A e : CG!Lookups(e, <<>>) = <<>>
<1>. SUFFICES ASSUME NEW e PROVE CG!Lookups(e, <<>>) = <<>>
  OBVIOUS
<1>. DEFINE w(i) == <<(<<>>)[i], CG!ValueOf(e, (<<>>)[i])>>
<1>1. CG!Lookups(e, <<>>) = [i \in 1..0 |-> w(i)]
  BY DEF CG!Lookups
<1>. HIDE DEF w
<1>. QED  BY <1>1

\* What is found is what the resolver knows.
LEMMA SameLookups ==
  ASSUME NEW e, NEW f, NEW uses, Under(e, f), ~CG!Undeclared(e, uses)
  PROVE  CG!Lookups(e, uses) = CG!Lookups(f, uses)
<1>1. \A i \in 1..Len(uses) : CG!ValueOf(e, uses[i]) = CG!ValueOf(f, uses[i])
  BY DEF CG!Undeclared, CG!ValueOf, Under
<1>. QED  BY <1>1 DEF CG!Lookups

\* The values with the parameters of a node.
LEMMA BoundValues ==
  ASSUME NEW vals \in Envs, NEW env \in Envs, NEW params \in CG!Params, gpos \in Nat,
         Distinct(params), Under(vals, env)
  PROVE  /\ Under(CG!WithParams(vals, params), Bound(env, gpos, params))
         /\ vals = env => CG!WithParams(vals, params) = Bound(env, gpos, params)
<1>. DEFINE w == CG!WithParams(vals, params)
            b == Bound(env, gpos, params)
            who(m) == CHOOSE i \in 1..Len(params) : params[i].n = m
<1>1. vals \in CG!Vals
  BY DEF Envs, CG!Vals, CG!Site, C!Site
<1>2. w \in Envs /\ b \in Envs
  <2>1. w \in CG!Vals
    BY <1>1, GeneratorSound, CG!ParamsTyped
  <2>2. Len(params) \in Nat
    BY DEF CG!Params
  <2>. QED  BY <2>1, <2>2, BoundIs DEF Envs, CG!Vals, CG!Site, C!Site
<1>3. ASSUME NEW m \in Names
      PROVE  w[m] = IF Binds(params, m) THEN b[m] ELSE vals[m]
  <2>1. /\ \A i \in 1..Len(params) : params[i].n = m => w[m] = <<gpos, i>>
        /\ (\A i \in 1..Len(params) : params[i].n # m) => w[m] = vals[m]
    BY <1>1, GeneratorSound, CG!ParamsGiven DEF Distinct
  <2>2. Binds(params, m) => b[m] = <<gpos, who(m)>> /\ who(m) \in 1..Len(params) /\ params[who(m)].n = m
    BY DEF Binds, Bound
  <2>. HIDE DEF w, b, who
  <2>. QED  BY <2>1, <2>2 DEF Binds
<1>4. \A m \in Names : ~Binds(params, m) => b[m] = env[m]
  BY DEF Bound
<1>. HIDE DEF w, b
<1>5. Under(w, b)
  BY <1>3, <1>4 DEF Under
<1>6. ASSUME vals = env PROVE w = b
  <2>1. \A m \in Names : w[m] = b[m]
    BY <1>3, <1>4, <1>6
  <2>. QED  BY <1>2, <2>1 DEF Envs
<1>. QED  BY <1>5, <1>6 DEF w, b

\* What is refs of an item, by its handler.
LEMMA RefsAre ==
  ASSUME NEW item, NEW r, Fits(item, r)
  PROVE  /\ item.h \in {"fn", "extern", "type", "block", "arrow", "else", "case"} =>
              item.refs = <<>>
         /\ item.h \in {"simple", "if", "while", "switch"} =>
              item.refs = CG!Lookups(EnvAfter(item, r), item.node.uses)
         /\ item.h = "for" =>
              item.refs = CG!Lookups(EnvAfter(item, r), item.node.init.uses \o item.node.cond)
         /\ item.h = "end" => item.refs = CG!Lookups(Inner(r).saved, Inner(r).end)
<1>1. item.refs = IF item.h = "end" THEN CG!Lookups(Inner(r).saved, Inner(r).end)
                  ELSE CG!Lookups(EnvAfter(item, r), Reads(item))
  BY DEF Fits
<1>2. item.h \in {"fn", "extern", "type", "block", "arrow", "else", "case"} => Reads(item) = <<>>
  BY DEF Reads
<1>3. item.h \in {"simple", "if", "while", "switch"} => Reads(item) = item.node.uses
  BY DEF Reads
<1>4. item.h = "for" => Reads(item) = item.node.init.uses \o item.node.cond
  BY DEF Reads
<1>. QED  BY <1>1, <1>2, <1>3, <1>4, NoLookups

LEMMA GenDeclares ==
  ASSUME NEW r, IsResolver(r), GenAt(r), CG!TypeInv, NEW item, Typed(item), Fits(item, r)
  PROVE  /\ item.h = "fn" /\ CG!Fn(item.node) => GenAgrees(item, r)
         /\ item.h = "extern" /\ CG!ExternFn(item.node) => GenAgrees(item, r)
         /\ item.h = "type" /\ CG!TypeDecl(item.node) => GenAgrees(item, r)
<1>. DEFINE node == item.node
<1>1. item.h \in {"fn", "extern", "type"} => r.open = <<>> /\ values = r.env
  BY DEF Fits, GenAt
<1>2. gpos = r.np /\ values \in Envs /\ gpos \in Nat
  BY GenTypes DEF GenAt
<1>3. item.h \in {"fn", "extern"} => CG!Added(node) = FnEnv(r, node.n)
  BY <1>1, <1>2 DEF CG!Added, FnEnv
<1>4. ASSUME item.h = "fn", CG!Fn(node), gout' = "run"
      PROVE  GenAt(Resolved(item, r))' /\ used' = item.refs
  <2>. DEFINE f == [CG!Enter("fn") EXCEPT
             !.merge = None, !.switch = None, !.values = CG!Added(node),
             !.first = 1, !.entry = 1, !.terms = 0]
              o == OpenedBy(item, r)
  <2>1. /\ gstack = <<>> /\ gpos' = gpos + 1
        /\ values' = CG!WithParams(CG!Added(node), node.params)
        /\ used' = <<>>
        /\ gstack' = <<f>>
    BY <1>4 DEF CG!Fn, CG!Visiting, CG!Stop
  <2>2. /\ {"k", "kids"} \subseteq DOMAIN f /\ f.k = "fn" /\ f.end = <<>>
        /\ f.values = CG!Added(node)
    BY DEF CG!Enter
  <2>3. o.k = "fn" /\ o.end = <<>> /\ o.saved = FnEnv(r, node.n)
    BY <1>4 DEF OpenedBy, Opened, KindOf, SavedBy, EndOf
  <2>. HIDE DEF f
  <2>4. gstack' = Append(CG!Begun, f)
    BY <2>1 DEF CG!Begun
  <2>5. GenFrame(f, o)
    BY <1>3, <1>4, <2>2, <2>3 DEF GenFrame, Under
  <2>6. FnEnv(r, node.n) \in Envs /\ node.params \in CG!Params /\ Distinct(node.params)
    <3>1. <<r.np, 0>> \in C!Site /\ r.env \in Envs
      BY DEF IsResolver, C!Site
    <3>. QED  BY <1>4, <3>1 DEF FnEnv, Envs, Typed, CG!IsProto, Fits
  <2>7. values' = EnvAfter(item, r)
    BY <1>2, <1>3, <1>4, <2>1, <2>6, BoundValues, EnvIs DEF Under
  <2>. HIDE DEF o
  <2>8. GenAt(Resolved(item, r))'
    BY <1>4, <2>1, <2>2, <2>4, <2>5, <2>7, GenPushes DEF o, Opening, Under
  <2>. QED  BY <1>4, <2>1, <2>8, RefsAre
<1>5. ASSUME item.h = "extern", CG!ExternFn(node), gout' = "run"
      PROVE  GenAt(Resolved(item, r))' /\ used' = item.refs
  <2>1. /\ gpos' = gpos + 1 /\ values' = CG!Added(node) /\ used' = <<>> /\ gstack' = gstack
    BY <1>5 DEF CG!ExternFn, CG!Visiting, CG!Stop
  <2>2. values' = EnvAfter(item, r)
    BY <1>3, <1>5, <2>1, EnvIs
  <2>3. GenAt(Resolved(item, r))'
    BY <1>5, <2>1, <2>2, GenStays DEF Under
  <2>. QED  BY <1>5, <2>1, <2>3, RefsAre
<1>6. ASSUME item.h = "type", CG!TypeDecl(node), gout' = "run"
      PROVE  GenAt(Resolved(item, r))' /\ used' = item.refs
  <2>1. /\ gpos' = gpos + 1 /\ values' = values /\ used' = <<>> /\ gstack' = gstack
    BY <1>6 DEF CG!TypeDecl, CG!Visiting, CG!Stop
  <2>2. values' = EnvAfter(item, r)
    BY <1>1, <1>6, <2>1, EnvIs
  <2>3. GenAt(Resolved(item, r))'
    BY <1>6, <2>1, <2>2, GenStays DEF Under
  <2>. QED  BY <1>6, <2>1, <2>3, RefsAre
<1>. QED  BY <1>4, <1>5, <1>6 DEF GenAgrees

LEMMA LetUnder ==
  ASSUME NEW r, IsResolver(r), GenAt(r), CG!TypeInv, NEW node
  PROVE  Under(CG!LetValues(values, node), LetEnv(r, node))
BY GenTypes DEF GenAt, IsResolver, Under, CG!LetValues, LetEnv, Envs

\* A handler whose frame has the values that there are by then.
LEMMA GenEnters ==
  ASSUME NEW r, IsResolver(r), GenAt(r), CG!TypeInv, NEW item, item.h \in Opening,
         item.h # "fn", NEW f, {"k", "kids"} \subseteq DOMAIN f,
         gstack' = Append(CG!Begun, f), gpos' = gpos + 1, f.k = KindOf(item),
         f.end = EndOf(item), Under(f.values, EnvAfter(item, r)),
         Under(values', EnvAfter(item, r))
  PROVE  GenAt(Resolved(item, r))'
<1>1. GenFrame(f, OpenedBy(item, r))
  BY DEF GenFrame, OpenedBy, Opened, SavedBy, KindOf
<1>. QED  BY <1>1, GenPushes

LEMMA GenStatements ==
  ASSUME NEW r, IsResolver(r), GenAt(r), CG!TypeInv, NEW item, Typed(item), Fits(item, r)
  PROVE  /\ item.h = "simple" /\ CG!Simple(item.node) => GenAgrees(item, r)
         /\ item.h = "block" /\ CG!Block => GenAgrees(item, r)
         /\ item.h = "else" /\ CG!Else => GenAgrees(item, r)
         /\ item.h = "if" /\ CG!If(item.node) => GenAgrees(item, r)
         /\ item.h = "while" /\ CG!While(item.node) => GenAgrees(item, r)
         /\ item.h = "switch" /\ CG!Switch(item.node) => GenAgrees(item, r)
<1>. DEFINE node == item.node
            e == EnvAfter(item, r)
            Same(f) == /\ {"k", "kids"} \subseteq DOMAIN f /\ f.k = item.h
                       /\ f.end = <<>> /\ f.values = values
<1>1. item.h \notin {"fn", "extern", "type"} => r.open # <<>>
  BY DEF Fits
<1>2. Under(values, r.env)
  BY DEF GenAt
<1>3. item.h \in {"block", "else", "if", "while", "switch"} => e = r.env
  BY EnvIs
<1>4. ASSUME item.h \in {"block", "else", "if", "while", "switch"}, NEW f, Same(f),
             gstack' = Append(CG!Begun, f), gpos' = gpos + 1, values' = values
      PROVE  GenAt(Resolved(item, r))'
  <2>1. /\ item.h \in Opening /\ item.h # "fn" /\ KindOf(item) = item.h /\ EndOf(item) = <<>>
    BY <1>4 DEF Opening, KindOf, EndOf
  <2>. QED  BY <1>2, <1>3, <1>4, <2>1, GenEnters
<1>5. ASSUME item.h = "simple", CG!Simple(node), gout' = "run"
      PROVE  GenAt(Resolved(item, r))' /\ used' = item.refs
  <2>1. /\ gpos' = gpos + 1 /\ gstack' = CG!Begun /\ values' = CG!LetValues(values, node)
        /\ used' = CG!Lookups(CG!LetValues(values, node), node.uses)
        /\ ~CG!Undeclared(CG!LetValues(values, node), node.uses)
    BY <1>5 DEF CG!Simple, CG!Visiting, CG!Stop, CG!Fails
  <2>2. e = LetEnv(r, node) /\ Under(values', e)
    BY <1>5, <2>1, LetUnder, EnvIs
  <2>3. GenAt(Resolved(item, r))'
    BY <1>1, <1>5, <2>1, <2>2, GenStays
  <2>. QED  BY <1>5, <2>1, <2>2, <2>3, SameLookups, RefsAre
<1>6. ASSUME item.h = "block", CG!Block
      PROVE  GenAt(Resolved(item, r))' /\ used' = item.refs
  <2>. DEFINE f == CG!Enter("block")
  <2>1. Same(f)
    BY <1>6 DEF CG!Enter
  <2>2. gstack' = Append(CG!Begun, f) /\ gpos' = gpos + 1 /\ values' = values /\ used' = <<>>
    BY <1>6 DEF CG!Block, CG!Entering, CG!Visiting
  <2>. HIDE DEF f
  <2>. QED  BY <1>4, <1>6, <2>1, <2>2, RefsAre
<1>7. ASSUME item.h = "else", CG!Else
      PROVE  GenAt(Resolved(item, r))' /\ used' = item.refs
  <2>. DEFINE f == [CG!Enter("else") EXCEPT !.entry = CG!Top.alt, !.terms = 0]
  <2>1. Same(f)
    BY <1>7 DEF CG!Enter
  <2>2. gstack' = Append(CG!Begun, f) /\ gpos' = gpos + 1 /\ values' = values /\ used' = <<>>
    BY <1>7 DEF CG!Else, CG!Entering, CG!Visiting
  <2>. HIDE DEF f
  <2>. QED  BY <1>4, <1>7, <2>1, <2>2, RefsAre
<1>8. ASSUME item.h = "if", CG!If(node), gout' = "run"
      PROVE  GenAt(Resolved(item, r))' /\ used' = item.refs
  <2>. DEFINE own == merge = None
              f == [CG!Enter("if") EXCEPT !.next = merge', !.alt = Len(bbs) + 2, !.own = own]
  <2>1. Same(f)
    BY <1>8 DEF CG!Enter
  <2>2. /\ gstack' = Append(CG!Begun, f) /\ gpos' = gpos + 1 /\ values' = values
        /\ used' = CG!Lookups(values, node.uses) /\ ~CG!Undeclared(values, node.uses)
    BY <1>8 DEF CG!If, CG!Entering, CG!Visiting, CG!Stop
  <2>. HIDE DEF f
  <2>. QED  BY <1>2, <1>3, <1>4, <1>8, <2>1, <2>2, SameLookups, RefsAre
<1>9. ASSUME item.h = "while", CG!While(node), gout' = "run"
      PROVE  GenAt(Resolved(item, r))' /\ used' = item.refs
  <2>. DEFINE f == [CG!Enter("while") EXCEPT !.alt = Len(bbs) + 1, !.next = Len(bbs) + 3]
  <2>1. Same(f)
    BY <1>9 DEF CG!Enter
  <2>2. /\ gstack' = Append(CG!Begun, f) /\ gpos' = gpos + 1 /\ values' = values
        /\ used' = CG!Lookups(values, node.uses) /\ ~CG!Undeclared(values, node.uses)
    BY <1>9 DEF CG!While, CG!Entering, CG!Visiting, CG!Stop, CG!Loop
  <2>. HIDE DEF f
  <2>. QED  BY <1>2, <1>3, <1>4, <1>9, <2>1, <2>2, SameLookups, RefsAre
<1>10. ASSUME item.h = "switch", CG!Switch(node), gout' = "run"
       PROVE  GenAt(Resolved(item, r))' /\ used' = item.refs
  <2>. DEFINE f == [CG!Enter("switch") EXCEPT !.next = Len(bbs) + 1, !.alt = Len(bbs) + 2]
  <2>1. Same(f)
    BY <1>10 DEF CG!Enter
  <2>2. /\ gstack' = Append(CG!Begun, f) /\ gpos' = gpos + 1 /\ values' = values
        /\ used' = CG!Lookups(values, node.uses) /\ ~CG!Undeclared(values, node.uses)
    BY <1>10 DEF CG!Switch, CG!Entering, CG!Visiting, CG!Stop
  <2>. HIDE DEF f
  <2>. QED  BY <1>2, <1>3, <1>4, <1>10, <2>1, <2>2, SameLookups, RefsAre
<1>. QED  BY <1>5, <1>6, <1>7, <1>8, <1>9, <1>10 DEF GenAgrees

LEMMA GenBinds ==
  ASSUME NEW r, IsResolver(r), GenAt(r), CG!TypeInv, NEW item, Typed(item), Fits(item, r)
  PROVE  /\ item.h = "arrow" /\ CG!Arrow(item.node) => GenAgrees(item, r)
         /\ item.h = "case" /\ CG!Case(item.node) => GenAgrees(item, r)
         /\ item.h = "for" /\ CG!For(item.node) => GenAgrees(item, r)
<1>. DEFINE node == item.node
            e == EnvAfter(item, r)
<1>1. /\ Under(values, r.env) /\ gpos = r.np /\ values \in Envs /\ gpos \in Nat /\ r.env \in Envs
  BY GenTypes DEF GenAt, IsResolver
<1>2. ASSUME item.h = "arrow", CG!Arrow(node), gout' = "run"
      PROVE  GenAt(Resolved(item, r))' /\ used' = item.refs
  <2>. DEFINE f == [CG!Enter("arrow") EXCEPT !.values = values']
  <2>1. /\ gstack' = Append(CG!Begun, f) /\ gpos' = gpos + 1 /\ used' = <<>>
        /\ values' = CG!WithParams(values, node)
    BY <1>2 DEF CG!Arrow, CG!Inject, CG!Entering, CG!Visiting, CG!Stop
  <2>2. node \in CG!Params /\ Distinct(node)
    BY <1>2 DEF Typed, Fits, NewParams
  <2>3. Under(values', e)
    BY <1>1, <1>2, <2>1, <2>2, BoundValues, EnvIs
  <2>4. /\ {"k", "kids"} \subseteq DOMAIN f /\ f.k = "arrow" /\ f.end = <<>>
        /\ f.values = values'
    BY DEF CG!Enter
  <2>5. item.h \in Opening /\ item.h # "fn" /\ KindOf(item) = "arrow" /\ EndOf(item) = <<>>
    BY <1>2 DEF Opening, KindOf, EndOf
  <2>. HIDE DEF f
  <2>6. GenAt(Resolved(item, r))'
    BY <2>1, <2>3, <2>4, <2>5, GenEnters
  <2>. QED  BY <1>2, <2>1, <2>6, RefsAre
<1>3. ASSUME item.h = "case", CG!Case(node), gout' = "run"
      PROVE  GenAt(Resolved(item, r))' /\ used' = item.refs
  <2>. DEFINE kind == IF node.arrow THEN "case_arrow" ELSE "case"
              f0 == [CG!Enter(kind) EXCEPT !.next = switch.merge, !.default = node.default]
              f == [f0 EXCEPT !.values = values']
  <2>1. /\ gstack' = Append(CG!Begun, f) /\ gpos' = gpos + 1 /\ used' = <<>>
        /\ values' = CG!WithParams(values, node.params)
    BY <1>3 DEF CG!Case, CG!Inject, CG!Entering, CG!Visiting, CG!Stop
  <2>2. node.params \in CG!Params /\ Distinct(node.params)
    BY <1>3 DEF Typed, CG!IsCase, Fits, NewParams
  <2>3. Under(values', e)
    BY <1>1, <1>3, <2>1, <2>2, BoundValues, EnvIs
  <2>4. /\ {"k", "kids"} \subseteq DOMAIN f /\ f.k = kind /\ f.end = <<>>
        /\ f.values = values'
    BY DEF CG!Enter
  <2>5. item.h \in Opening /\ item.h # "fn" /\ KindOf(item) = kind /\ EndOf(item) = <<>>
    BY <1>3 DEF Opening, KindOf, EndOf
  <2>. HIDE DEF f, kind
  <2>6. GenAt(Resolved(item, r))'
    BY <2>1, <2>3, <2>4, <2>5, GenEnters
  <2>. QED  BY <1>3, <2>1, <2>6, RefsAre
<1>4. ASSUME item.h = "for", CG!For(node), gout' = "run"
      PROVE  GenAt(Resolved(item, r))' /\ used' = item.refs
  <2>. DEFINE f0 == [CG!Enter("for") EXCEPT !.end = node.end]
              f == [f0 EXCEPT !.alt = Len(bbs) + 1, !.next = Len(bbs) + 3]
              v == CG!LetValues(values, node.init)
              uses == node.init.uses \o node.cond
  <2>1. /\ gstack' = Append(CG!Begun, f) /\ gpos' = gpos + 1
        /\ values' = v /\ used' = CG!Lookups(v, uses)
        /\ ~CG!Undeclared(v, node.init.uses) /\ ~CG!Undeclared(v, node.cond)
    BY <1>4 DEF CG!For, CG!Loop, CG!Entering, CG!Visiting, CG!Stop, CG!HeadFails, CG!Fails
  <2>2. e = LetEnv(r, node.init) /\ Under(v, e)
    BY <1>4, LetUnder, EnvIs
  <2>3. Under(values, e)
    <3>1. node.init.k = "let" => r.env[node.init.n] = None
      BY <1>4 DEF Fits, NewHead
    <3>. QED  BY <1>1, <2>2, <3>1 DEF Under, LetEnv, Envs
  <2>4. /\ {"k", "kids"} \subseteq DOMAIN f /\ f.k = "for" /\ f.end = node.end
        /\ f.values = values
    BY DEF CG!Enter
  <2>5. item.h \in Opening /\ item.h # "fn" /\ KindOf(item) = "for" /\ EndOf(item) = node.end
    BY <1>4 DEF Opening, KindOf, EndOf
  <2>. HIDE DEF f, v
  <2>6. GenAt(Resolved(item, r))'
    BY <2>1, <2>2, <2>3, <2>4, <2>5, GenEnters
  <2>7. CG!Lookups(v, uses) = CG!Lookups(e, uses)
    <3>1. ASSUME NEW i \in 1..Len(uses)
          PROVE  CG!ValueOf(v, uses[i]) # None
      <4>. DEFINE a == node.init.uses
                  b == node.cond
      <4>1. PICK X : a \in Seq(X) /\ b \in Seq(X)
        BY <1>4 DEF Typed
      <4>0. uses = a \o b
        OBVIOUS
      <4>. HIDE DEF a, b, uses
      <4>2. CASE i \in 1..Len(a)
        <5>1. uses[i] = a[i]
          BY <4>0, <4>1, <4>2
        <5>. QED  BY <2>1, <4>2, <5>1 DEF CG!Undeclared, a
      <4>3. CASE i \notin 1..Len(a)
        <5>1. uses[i] = b[i - Len(a)] /\ i - Len(a) \in 1..Len(b)
          BY <4>0, <4>1, <4>3
        <5>. QED  BY <2>1, <5>1 DEF CG!Undeclared, b
      <4>. QED  BY <4>2, <4>3
    <3>2. ~CG!Undeclared(v, uses)
      BY <3>1 DEF CG!Undeclared
    <3>. HIDE DEF uses
    <3>. QED  BY <2>2, <3>2, SameLookups
  <2>. QED  BY <1>4, <2>1, <2>6, <2>7, RefsAre
<1>. QED  BY <1>2, <1>3, <1>4 DEF GenAgrees

LEMMA GenExits ==
  ASSUME NEW r, IsResolver(r), GenAt(r), CG!TypeInv, NEW item, Fits(item, r),
         item.h = "end", CG!Exit
  PROVE  GenAgrees(item, r)
<1>. SUFFICES ASSUME gout' = "run" PROVE GenAt(Resolved(item, r))' /\ used' = item.refs
  BY DEF GenAgrees
<1>. DEFINE o == Inner(r)
            f == CG!Top
            n == Len(r.open)
<1>1. r.open # <<>>
  BY DEF Fits
<1>2. /\ gstack' = CG!Below /\ gpos' = gpos
      /\ IF f.k \in {"fn", "block", "arrow", "switch", "case_arrow", "for"}
         THEN values' = f.values ELSE values' = values
      /\ IF f.k = "for" THEN used' = CG!Lookups(values, f.end) /\ ~CG!Undeclared(values, f.end)
         ELSE used' = <<>>
  BY DEF CG!Exit, CG!ExitBlock, CG!ExitElse, CG!ExitIf, CG!ExitWhile, CG!ExitFor,
     CG!ExitSwitch, CG!ExitCase, CG!Leaving, CG!Stop
<1>3. GenAt(Resolved(item, r))'
  BY <1>1, <1>2, GenPops
<1>4. GenFrame(f, o) /\ Layered(o, n, r.env)
  <2>1. n \in 1..n
    <3>1. PICK X : r.open \in Seq(X)
      BY DEF IsResolver
    <3>. QED  BY <1>1, <3>1
  <2>2. f = gstack[n] /\ o = r.open[n] /\ Within(r, n) = r.env
    BY DEF GenAt, CG!Top, Inner, Within
  <2>. QED  BY <2>1, <2>2 DEF GenAt, IsResolver
<1>5. item.refs = CG!Lookups(o.saved, o.end)
  BY RefsAre
<1>. HIDE DEF o, f
<1>6. CASE f.k # "for"
  BY <1>2, <1>3, <1>4, <1>5, <1>6, NoLookups DEF GenFrame, Layered
<1>7. CASE f.k = "for"
  <2>1. /\ f.end = o.end /\ Under(o.saved, r.env) /\ Known(o.saved, o.end)
    BY <1>4, <1>7 DEF GenFrame, Layered
  <2>2. ~CG!Undeclared(o.saved, o.end)
    BY <2>1 DEF Known, CG!Undeclared
  <2>3. CG!Lookups(o.saved, o.end) = CG!Lookups(r.env, o.end)
    BY <2>1, <2>2, SameLookups
  <2>4. CG!Lookups(values, f.end) = CG!Lookups(r.env, f.end)
    BY <1>2, <1>7, SameLookups DEF GenAt
  <2>. QED  BY <1>2, <1>3, <1>5, <1>7, <2>1, <2>3, <2>4
<1>. QED  BY <1>6, <1>7

\* The code generator, whatever the item.
LEMMA GenResolves ==
  ASSUME NEW r, IsResolver(r), GenAt(r), CG!TypeInv, NEW item, item.h \in Kinds,
         Typed(item), Fits(item, r), Handle(item)
  PROVE  GenAgrees(item, r)
<1>1. CASE item.h \in {"fn", "extern", "type"}
  BY <1>1, SameHandlers, GenDeclares DEF Handle
<1>2. CASE item.h \in {"simple", "block", "else", "if", "while", "switch"}
  BY <1>2, SameHandlers, GenStatements DEF Handle
<1>3. CASE item.h \in {"arrow", "case", "for"}
  BY <1>3, SameHandlers, GenBinds DEF Handle
<1>4. CASE item.h = "end"
  BY <1>4, SameHandlers, GenExits DEF Handle
<1>. QED  BY <1>1, <1>2, <1>3, <1>4 DEF Kinds

-----------------------------------------------------------------------------
(* The semantic phase that Compile runs, which instantiates Sema, is the    *)
(* walk that the lemmas of SemaProofs are about.                            *)

SP == INSTANCE SemaProofs WITH stack <- sstack, pos <- spos, out <- sout

LEMMA SameExprs ==
  /\ \A ss, n : S!ValueOf(ss, n) = SP!ValueOf(ss, n)
  /\ \A ss, n : S!IdType(ss, n) = SP!IdType(ss, n)
  /\ \A ss, d : S!DeclType(ss, d) = SP!DeclType(ss, d)
  /\ \A ss, e : S!ExprType(ss, e) = SP!ExprType(ss, e)
  /\ \A ss, e : S!AfterExpr(ss, e) = SP!AfterExpr(ss, e)
  /\ \A e : S!Discriminations(e) = SP!Discriminations(e)
<1>1. ASSUME NEW ss, NEW n PROVE S!ValueOf(ss, n) = SP!ValueOf(ss, n)
  BY DEF S!Table!Freed, SP!Table!Freed, S!Table!LookupValue, SP!Table!LookupValue,
    S!Table!NoParent, SP!Table!NoParent, S!ValueOf, SP!ValueOf
<1>2. ASSUME NEW ss, NEW n PROVE S!IdType(ss, n) = SP!IdType(ss, n)
  BY DEF S!BuiltinTypes, SP!BuiltinTypes, S!HasType, SP!HasType, S!IdType, SP!IdType,
    S!IntTypes, SP!IntTypes, S!OfType, SP!OfType, S!Table!Freed, SP!Table!Freed,
    S!Table!LookupType, SP!Table!LookupType, S!Table!LookupValue, SP!Table!LookupValue,
    S!Table!NoParent, SP!Table!NoParent, S!TypeNames, SP!TypeNames, S!TypeOfId, SP!TypeOfId,
    S!ValueOf, SP!ValueOf
<1>3. ASSUME NEW ss, NEW d PROVE S!DeclType(ss, d) = SP!DeclType(ss, d)
  BY DEF S!DeclType, SP!DeclType, S!HasType, SP!HasType, S!InferType, SP!InferType,
    S!IsInferType, SP!IsInferType, S!OfType, SP!OfType, S!Table!Freed, SP!Table!Freed,
    S!Table!LookupType, SP!Table!LookupType, S!Table!NoParent, SP!Table!NoParent
<1>4. ASSUME NEW ss, NEW e PROVE S!ExprType(ss, e) = SP!ExprType(ss, e)
  BY DEF S!AddressOfType, SP!AddressOfType, S!ArgMatches, SP!ArgMatches, S!BinOpType,
    SP!BinOpType, S!BoolType, SP!BoolType, S!BuiltinTypes, SP!BuiltinTypes, S!CallOf,
    SP!CallOf, S!CompatibleInts, SP!CompatibleInts, S!DeclType, SP!DeclType, S!DerefType,
    SP!DerefType, S!EqualTypes, SP!EqualTypes, S!ExprType, SP!ExprType, S!HasClass,
    SP!HasClass, S!HasType, SP!HasType, S!IdType, SP!IdType, S!InferType, SP!InferType,
    S!IntTypes, SP!IntTypes, S!IsDirect, SP!IsDirect, S!IsEnumType, SP!IsEnumType,
    S!IsExprType, SP!IsExprType, S!IsFunctionType, SP!IsFunctionType, S!IsInferType,
    SP!IsInferType, S!IsIntegerType, SP!IsIntegerType, S!IsPointerType, SP!IsPointerType,
    S!OfType, SP!OfType, S!PointerElementType, SP!PointerElementType, S!PointerTo,
    SP!PointerTo, S!SameInstance, SP!SameInstance, S!Stops, SP!Stops, S!Table!Freed,
    SP!Table!Freed, S!Table!LookupType, SP!Table!LookupType, S!Table!LookupValue,
    SP!Table!LookupValue, S!Table!NoParent, SP!Table!NoParent, S!TypeNames, SP!TypeNames,
    S!TypeOfId, SP!TypeOfId, S!ValueOf, SP!ValueOf, S!VoidType, SP!VoidType
<1>5. ASSUME NEW ss, NEW e PROVE S!AfterExpr(ss, e) = SP!AfterExpr(ss, e)
  BY <1>4 DEF S!AfterExpr, SP!AfterExpr, S!Stops, SP!Stops
<1>6. ASSUME NEW e PROVE S!Discriminations(e) = SP!Discriminations(e)
  BY DEF S!Discriminations, SP!Discriminations, S!HasClass, SP!HasClass, S!IsDirect,
    SP!IsDirect, S!IsStructType, SP!IsStructType
<1>. QED  BY <1>1, <1>2, <1>3, <1>4, <1>5, <1>6

LEMMA SameSimple ==
  ASSUME NEW ss, NEW node, node.k \in {"let", "assign", "return", "expr"}
  PROVE  S!AfterSimple(ss, node) = SP!AfterSimple(ss, node)
<1>1. ASSUME NEW d, NEW r PROVE S!LetWith(ss, node, d, r) = SP!LetWith(ss, node, d, r)
  BY DEF S!AssignableTo, SP!AssignableTo, S!CompatibleInts, SP!CompatibleInts, S!Declare,
    SP!Declare, S!EqualTypes, SP!EqualTypes, S!InferType, SP!InferType, S!IntTypes,
    SP!IntTypes, S!IsInferType, SP!IsInferType, S!IsIntegerType, SP!IsIntegerType,
    S!LetWith, SP!LetWith, S!NamesEnum, SP!NamesEnum, S!NonInferred, SP!NonInferred,
    S!OfType, SP!OfType, S!SameInstance, SP!SameInstance, S!Stops, SP!Stops,
    S!Table!AddValue, SP!Table!AddValue
<1>2. ASSUME NEW l, NEW r PROVE S!AssignTo(ss, l, r) = SP!AssignTo(ss, l, r)
  BY DEF S!AssignTo, SP!AssignTo, S!AssignableTo, SP!AssignableTo, S!CompatibleInts,
    SP!CompatibleInts, S!EqualTypes, SP!EqualTypes, S!InferType, SP!InferType, S!IntTypes,
    SP!IntTypes, S!IsInferType, SP!IsInferType, S!IsIntegerType, SP!IsIntegerType,
    S!NamesEnum, SP!NamesEnum, S!OfType, SP!OfType, S!SameInstance, SP!SameInstance,
    S!Stops, SP!Stops
<1>3. ASSUME NEW l, NEW r PROVE S!ReturnOf(ss, l, r) = SP!ReturnOf(ss, l, r)
  BY DEF S!EqualTypes, SP!EqualTypes, S!InferType, SP!InferType, S!IsInferType,
    SP!IsInferType, S!OfType, SP!OfType, S!ReturnOf, SP!ReturnOf, S!SameInstance,
    SP!SameInstance, S!Stops, SP!Stops
<1>4. S!Table!ExpectedReturn(ss, current) = SP!Table!ExpectedReturn(ss, current)
  BY DEF S!Table!ExpectedReturn, SP!Table!ExpectedReturn, S!Table!Freed, SP!Table!Freed,
    S!Table!NoParent, SP!Table!NoParent
<1>5. S!Stops(ss) <=> SP!Stops(ss)
  BY DEF S!Stops, SP!Stops
<1>6. CASE ~S!Stops(ss) /\ node.k = "let"
  BY <1>1, <1>2, <1>3, <1>4, <1>5, <1>6, SameExprs DEF S!AfterSimple, SP!AfterSimple
<1>7. CASE ~S!Stops(ss) /\ node.k = "assign"
  BY <1>1, <1>2, <1>3, <1>4, <1>5, <1>7, SameExprs DEF S!AfterSimple, SP!AfterSimple
<1>8. CASE ~S!Stops(ss) /\ node.k = "return"
  BY <1>1, <1>2, <1>3, <1>4, <1>5, <1>8, SameExprs DEF S!AfterSimple, SP!AfterSimple
<1>9. CASE ~S!Stops(ss) /\ node.k = "expr"
  BY <1>1, <1>2, <1>3, <1>4, <1>5, <1>9, SameExprs DEF S!AfterSimple, SP!AfterSimple
<1>10. CASE S!Stops(ss)
  BY <1>5, <1>10 DEF S!AfterSimple, SP!AfterSimple
<1>. QED  BY <1>6, <1>7, <1>8, <1>9, <1>10

\* Sema's own assumptions, which this instance of it satisfies.
LEMMA SemaSound ==
  /\ SP!DeclarationsAssumption /\ SP!StatementsAssumption
  /\ SP!MarksAssumption /\ SP!BoundsAssumption
<1>1. SP!DeclarationsAssumption
  BY ProgramsAssumption DEF S!DeclarationsAssumption, SP!DeclarationsAssumption,
    S!ParamDecls, SP!ParamDecls, S!TypeInstance, SP!TypeInstance, S!IsInferType,
    SP!IsInferType, S!InferType, SP!InferType, S!OfType, SP!OfType, S!TypeNames,
    SP!TypeNames, S!BuiltinTypes, SP!BuiltinTypes, S!IntTypes, SP!IntTypes
<1>2. SP!StatementsAssumption
  BY ProgramsAssumption DEF S!StatementsAssumption, SP!StatementsAssumption, S!IsSimple,
    SP!IsSimple, S!IsExpr, SP!IsExpr, S!ParamDecls, SP!ParamDecls, S!TypeInstance,
    SP!TypeInstance, S!IsInferType, SP!IsInferType, S!InferType, SP!InferType, S!OfType,
    SP!OfType, S!TypeNames, SP!TypeNames, S!BuiltinTypes, SP!BuiltinTypes, S!IntTypes,
    SP!IntTypes
<1>3. SP!MarksAssumption
  BY ProgramsAssumption DEF S!MarksAssumption, SP!MarksAssumption, S!TypeInstance,
    SP!TypeInstance, S!Type, SP!Type, S!Declared, SP!Declared, S!Classes, SP!Classes,
    S!TypeNames, SP!TypeNames, S!BuiltinTypes, SP!BuiltinTypes, S!IntTypes, SP!IntTypes,
    S!InferType, SP!InferType, S!OfType, SP!OfType
<1>4. SP!BoundsAssumption
  BY ProgramsAssumption DEF S!BoundsAssumption, SP!BoundsAssumption
<1>. QED  BY <1>1, <1>2, <1>3, <1>4

\* The semantic phase that Compile runs is the one that the lemmas are about.
LEMMA SameSema ==
  /\ \A node \in SimpleNodes : S!Simple(node) => SP!Simple(node)
  /\ S!Block => SP!Block
  /\ \A e \in CondExprs : S!If(e) => SP!If(e)
  /\ \A params : S!Arrow(params) => SP!Arrow(params)
  /\ S!Else => SP!Else
  /\ \A e : S!While(e) => SP!While(e)
  /\ \A node \in ForNodes : S!For(node) => SP!For(node)
  /\ \A e : S!Switch(e) => SP!Switch(e)
  /\ \A node : S!Case(node) => SP!Case(node)
  /\ S!Exit => SP!Exit
  /\ \A node : S!ExternFn(node) => SP!ExternFn(node)
  /\ \A node : S!StructOrUnion(node) => SP!StructOrUnion(node)
  /\ \A node : S!Enum(node) => SP!Enum(node)
  /\ \A node : S!Fn(node) => SP!Fn(node)
<1>. USE DEF S!Visiting, SP!Visiting, S!Stop, SP!Stop, S!Stops, SP!Stops, S!Continue,
           SP!Continue, S!Begin, SP!Begin, S!Begun, SP!Begun, S!Enter, SP!Enter, S!Top,
           SP!Top, S!Below, SP!Below, S!StmtExpected, SP!StmtExpected, S!ListKinds,
           SP!ListKinds, S!SingleKinds, SP!SingleKinds, S!Finished, SP!Finished,
           S!HasType, SP!HasType, S!ContextRestored, SP!ContextRestored, S!Outer,
           SP!Outer
<1>0. /\ \A node \in SimpleNodes : node.k \in {"let", "assign", "return", "expr"}
      /\ \A node \in ForNodes : /\ node.init.k \in {"let", "assign", "return", "expr"}
                               /\ node.end.k \in {"let", "assign", "return", "expr"}
  BY ProgramsAssumption DEF S!StatementsAssumption, S!IsSimple
<1>1. ASSUME NEW node \in SimpleNodes, S!Simple(node) PROVE SP!Simple(node)
  BY <1>0, <1>1, SameExprs, SameSimple DEF S!Simple, SP!Simple
<1>2. ASSUME S!Block PROVE SP!Block
  BY <1>0, <1>2, SameExprs, SameSimple DEF S!Block, SP!Block, S!Table!Dangles,
    SP!Table!Dangles, S!Table!Freed, SP!Table!Freed, S!Table!NewScope, SP!Table!NewScope,
    S!Table!NoParent, SP!Table!NoParent, S!Table!PushScope, SP!Table!PushScope,
    S!Table!Relocated, SP!Table!Relocated
<1>3. ASSUME NEW e \in CondExprs, S!If(e) PROVE SP!If(e)
  BY <1>0, <1>3, SameExprs, SameSimple DEF S!BoolType, SP!BoolType, S!EqualTypes,
    SP!EqualTypes, S!If, SP!If, S!IfOn, SP!IfOn, S!InferType, SP!InferType, S!IsInferType,
    SP!IsInferType, S!OfType, SP!OfType, S!SameInstance, SP!SameInstance
<1>4. ASSUME NEW params, S!Arrow(params) PROVE SP!Arrow(params)
  BY <1>0, <1>4, SameExprs, SameSimple DEF S!AfterArrowParams, SP!AfterArrowParams, S!Arrow,
    SP!Arrow, S!Declare, SP!Declare, S!EqualTypes, SP!EqualTypes, S!InferType, SP!InferType,
    S!IsInferType, SP!IsInferType, S!OfType, SP!OfType, S!SameInstance, SP!SameInstance,
    S!Table!AddValue, SP!Table!AddValue
<1>5. ASSUME S!Else PROVE SP!Else
  BY <1>0, <1>5, SameExprs, SameSimple DEF S!Else, SP!Else
<1>6. ASSUME NEW e, S!While(e) PROVE SP!While(e)
  BY <1>0, <1>6, SameExprs, SameSimple DEF S!While, SP!While
<1>7. ASSUME NEW node \in ForNodes, S!For(node) PROVE SP!For(node)
  BY <1>0, <1>7, SameExprs, SameSimple DEF S!AfterForHead, SP!AfterForHead, S!For, SP!For
<1>8. ASSUME NEW e, S!Switch(e) PROVE SP!Switch(e)
  BY <1>0, <1>8, SameExprs, SameSimple DEF S!HasClass, SP!HasClass, S!IntTypes, SP!IntTypes,
    S!IsDirect, SP!IsDirect, S!IsEnumType, SP!IsEnumType, S!IsIntegerType, SP!IsIntegerType,
    S!Switch, SP!Switch, S!SwitchOn, SP!SwitchOn
<1>9. ASSUME NEW node, S!Case(node) PROVE SP!Case(node)
  BY <1>0, <1>9, SameExprs, SameSimple DEF S!AfterArrowParams, SP!AfterArrowParams, S!Case,
    SP!Case, S!Declare, SP!Declare, S!EnumCase, SP!EnumCase, S!EqualTypes, SP!EqualTypes,
    S!HasClass, SP!HasClass, S!InferType, SP!InferType, S!IsDirect, SP!IsDirect,
    S!IsEnumType, SP!IsEnumType, S!IsInferType, SP!IsInferType, S!OfType, SP!OfType,
    S!SameInstance, SP!SameInstance, S!Table!AddValue, SP!Table!AddValue, S!Table!Freed,
    SP!Table!Freed, S!Table!LookupType, SP!Table!LookupType, S!Table!NoParent,
    SP!Table!NoParent
<1>10. ASSUME S!Exit PROVE SP!Exit
  BY <1>0, <1>10, SameExprs, SameSimple DEF S!Exit, SP!Exit, S!Table!PopScope,
    SP!Table!PopScope, S!Table!SetExpectedReturn, SP!Table!SetExpectedReturn
<1>11. ASSUME NEW node, S!ExternFn(node) PROVE SP!ExternFn(node)
  BY <1>0, <1>11, SameExprs, SameSimple DEF S!Declare, SP!Declare, S!DefineType,
    SP!DefineType, S!ExternFn, SP!ExternFn, S!FunctionType, SP!FunctionType, S!OfType,
    SP!OfType, S!ProtoFails, SP!ProtoFails, S!ScopesAfterProto, SP!ScopesAfterProto,
    S!Table!AddType, SP!Table!AddType, S!Table!AddValue, SP!Table!AddValue,
    S!TypesAfterProto, SP!TypesAfterProto
<1>12. ASSUME NEW node, S!StructOrUnion(node) PROVE SP!StructOrUnion(node)
  BY <1>0, <1>12, SameExprs, SameSimple DEF S!DefineType, SP!DefineType, S!PlainType,
    SP!PlainType, S!StructOrUnion, SP!StructOrUnion, S!Table!AddType, SP!Table!AddType
<1>13. ASSUME NEW node, S!Enum(node) PROVE SP!Enum(node)
  <2>1. S!AfterMembers(node) = SP!AfterMembers(node)
    BY SameExprs, SameSimple DEF S!AfterMember, SP!AfterMember, S!AfterMembers,
      SP!AfterMembers, S!DeclType, SP!DeclType, S!DefineType, SP!DefineType,
      S!EnumMember, SP!EnumMember, S!FoldLeft, SP!FoldLeft, S!InferType,
      SP!InferType, S!IsInferType, SP!IsInferType, S!MapThenFoldSet, SP!MapThenFoldSet,
      S!Max, SP!Max, S!OfType, SP!OfType, S!PlainType, SP!PlainType, S!Table!AddType,
      SP!Table!AddType, S!Table!Freed, SP!Table!Freed, S!Table!LookupType,
      SP!Table!LookupType, S!Table!NoParent, SP!Table!NoParent
  <2>2. S!MemberTypes(node) = SP!MemberTypes(node)
    <3>1. {S!OfType(m.t) : m \in S!ToSet(node.members)} =
            {SP!OfType(m.t) : m \in SP!ToSet(node.members)}
      BY DEF S!OfType, SP!OfType, S!ToSet, SP!ToSet
    <3>2. \A T : S!SetToSeq(T) = SP!SetToSeq(T)
      <4>1. \A T : S!Cardinality(T) = SP!Cardinality(T)
        BY DEF S!Cardinality, SP!Cardinality
      <4>. QED  BY <4>1 DEF S!SetToSeq, SP!SetToSeq, S!IsInjective, SP!IsInjective
    <3>. QED  BY <3>1, <3>2 DEF S!MemberTypes, SP!MemberTypes
  <2>3. \A tm, t, ms : S!SetEnumMembers(tm, t, ms) = SP!SetEnumMembers(tm, t, ms)
    BY DEF S!SetEnumMembers, SP!SetEnumMembers
  <2>4. \A ss, c, t : S!Table!AddType(ss, c, t) = SP!Table!AddType(ss, c, t)
    BY DEF S!Table!AddType, SP!Table!AddType
  <2>5. S!EnumOf(node, S!AfterMembers(node))
    BY <1>13 DEF S!Enum
  <2>. DEFINE ms == SP!AfterMembers(node)
  <2>6. SP!EnumOf(node, ms)
    <3>1. S!EnumOf(node, ms)
      BY <2>1, <2>5
    <3>. HIDE DEF ms
    <3>. QED  BY <2>2, <2>3, <2>4, <3>1 DEF S!EnumOf, SP!EnumOf
  <2>. QED  BY <1>13, <2>6 DEF S!Enum, SP!Enum
<1>14. ASSUME NEW node, S!Fn(node) PROVE SP!Fn(node)
  BY <1>0, <1>14, SameExprs, SameSimple DEF S!Body, SP!Body, S!Declare, SP!Declare,
    S!DefineType, SP!DefineType, S!Fn, SP!Fn, S!FoldLeft, SP!FoldLeft, S!FoldLeftDomain,
    SP!FoldLeftDomain, S!FunctionType, SP!FunctionType, S!MapThenFoldSet, SP!MapThenFoldSet,
    S!Max, SP!Max, S!OfType, SP!OfType, S!ProtoFails, SP!ProtoFails, S!ScopesAfterProto,
    SP!ScopesAfterProto, S!Table!AddType, SP!Table!AddType, S!Table!AddValue,
    SP!Table!AddValue, S!Table!Dangles, SP!Table!Dangles, S!Table!Freed, SP!Table!Freed,
    S!Table!NewScope, SP!Table!NewScope, S!Table!NoParent, SP!Table!NoParent,
    S!Table!PushScope, SP!Table!PushScope, S!Table!Relocated, SP!Table!Relocated,
    S!Table!SetExpectedReturn, SP!Table!SetExpectedReturn, S!TypesAfterProto,
    SP!TypesAfterProto, S!WithParams, SP!WithParams
<1>. QED  BY <1>1, <1>2, <1>3, <1>4, <1>5, <1>6, <1>7, <1>8, <1>9, <1>10, <1>11, <1>12, <1>13, <1>14

-----------------------------------------------------------------------------
(* The semantic phase agrees with the resolver: the same handlers are open, *)
(* what can be seen from the current scope is what the resolver knows, and  *)
(* from the scope that a handler goes back to what it knew then.            *)

SemaFrame(ss, f, o) ==
  /\ f.k \in {"fn", "block"} <=> o.k \in {"fn", "block"}
  /\ o.k \in {"fn", "block"} => o.saved = SP!View(ss, f.scope)
  /\ SP!OneType(f.disc)

SemaAt(r) ==
  /\ spos = r.np
  /\ Len(sstack) = Len(r.open) /\ Len(ends) = Len(r.open)
  /\ \E X : ends \in Seq(X)
  /\ r.env = SP!View(scopes, current)
  /\ \A i \in 1..Len(r.open) : /\ SemaFrame(scopes, sstack[i], r.open[i])
                               /\ ends[i] = CG!Lookups(r.open[i].saved, r.open[i].end)

\* What the walk's invariant says that is needed here.
LEMMA SemaFacts ==
  ASSUME SP!Good
  PROVE  /\ SP!ScopesOK(scopes, types)
         /\ current \in 1..Len(scopes) /\ Len(scopes) \in Nat
         /\ sstack \in Seq(SP!Frame) /\ Len(sstack) \in Nat
         /\ (sstack = <<>> <=> Len(sstack) = 0)
         /\ IsStack(sstack)
         /\ \A i \in 1..Len(sstack) :
              sstack[i].k \in {"fn", "block"} => sstack[i].scope \in 1..current - 1
         /\ sstack # <<>> /\ SP!Top.k \notin {"fn", "block"} => SP!Top.scope = current
<1>1. /\ SP!ScopesOK(scopes, types) /\ SP!Nested(sstack, current, scopes)
      /\ current \in 1..Len(scopes) /\ Len(scopes) \in Nat
      /\ sstack \in Seq(SP!Frame)
  BY SemaSound, SP!GoodFacts
<1>2. Len(sstack) \in Nat /\ (sstack = <<>> <=> Len(sstack) = 0)
  BY <1>1
<1>3. IsStack(sstack)
  <2>1. \A x \in SP!Frame : {"k", "kids"} \subseteq DOMAIN x
    BY DEF SP!Frame
  <2>2. \A i \in 1..Len(sstack) : sstack[i] \in SP!Frame
    BY <1>1
  <2>. QED  BY <1>1, <2>1, <2>2 DEF IsStack
<1>4. \A i \in 1..Len(sstack) :
        sstack[i].k \in {"fn", "block"} => sstack[i].scope \in 1..current - 1
  BY <1>1, SemaSound, SP!OuterBelow
<1>5. ASSUME sstack # <<>>, SP!Top.k \notin {"fn", "block"}
      PROVE  SP!Top.scope = current
  <2>1. Len(sstack) \in 1..Len(sstack)
    BY <1>2, <1>5
  <2>2. SP!Layer(sstack[Len(sstack)], Len(sstack), SP!Inside(sstack, current, Len(sstack)), scopes)
    BY <1>1, <2>1 DEF SP!Nested
  <2>. QED  BY <1>5, <2>2 DEF SP!Layer, SP!Inside, SP!Top
<1>. QED  BY <1>1, <1>2, <1>3, <1>4, <1>5

\* The views from the scopes that open handlers go back to are left alone.
KeepsOuter == sstack = <<>> \/ SP!SameViews(scopes, scopes', current - 1)

LEMMA FramesKept ==
  ASSUME SP!Good, NEW r, SemaAt(r), KeepsOuter,
         NEW s, SP!SameFrames(sstack, s), NEW i \in 1..Len(sstack)
  PROVE  SemaFrame(scopes', s[i], r.open[i])
<1>1. SemaFrame(scopes, sstack[i], r.open[i])
  BY DEF SemaAt
<1>2. s[i].k = sstack[i].k /\ s[i].scope = sstack[i].scope /\ s[i].disc = sstack[i].disc
  BY DEF SP!SameFrames
<1>3. sstack[i].k \in {"fn", "block"} =>
        SP!View(scopes', sstack[i].scope) = SP!View(scopes, sstack[i].scope)
  <2>1. ASSUME sstack[i].k \in {"fn", "block"}
        PROVE  SP!View(scopes', sstack[i].scope) = SP!View(scopes, sstack[i].scope)
    <3>1. sstack[i].scope \in 1..current - 1 /\ sstack # <<>>
      BY <2>1, SemaFacts
    <3>2. sstack[i].scope \in 0..current - 1
      BY <3>1, SemaFacts
    <3>. QED  BY <3>1, <3>2 DEF KeepsOuter, SP!SameViews
  <2>. QED  BY <2>1
<1>. QED  BY <1>1, <1>2, <1>3 DEF SemaFrame

\* The history of what ends read grows and shrinks with the handlers.
LEMMA EndsGrow ==
  ASSUME \E X : ends \in Seq(X), NEW item, Record(item), sout' = "run",
         NEW n \in Nat, Len(ends) = n, Len(sstack) = n
  PROVE  /\ Len(sstack') = n + 1 =>
              /\ \E X : ends' \in Seq(X)
              /\ Len(ends') = n + 1 /\ ends'[n + 1] = item.atEnd
              /\ \A i \in 1..n : ends'[i] = ends[i]
         /\ Len(sstack') = n => ends' = ends
<1>1. PICK X : ends \in Seq(X)
  OBVIOUS
<1>2. ASSUME Len(sstack') = n + 1
      PROVE  /\ ends' \in Seq(X \cup {item.atEnd})
             /\ Len(ends') = n + 1 /\ ends'[n + 1] = item.atEnd
             /\ \A i \in 1..n : ends'[i] = ends[i]
  <2>1. ends' = Append(ends, item.atEnd)
    BY <1>2 DEF Record, Opens
  <2>. QED  BY <1>1, <2>1
<1>3. Len(sstack') = n => ends' = ends
  BY DEF Record, Opens
<1>. QED  BY <1>2, <1>3

\* A handler is entered.
LEMMA SemaPushes ==
  ASSUME NEW r, IsResolver(r), SemaAt(r), SP!Good, SP!MayBegin, NEW item,
         item.h \in Opening, Record(item), sout' = "run",
         NEW f, f \in SP!Frame, sstack' = Append(SP!Begun, f), f.scope = current,
         SP!OneType(f.disc),
         f.k \in {"fn", "block"} <=> item.h \in {"fn", "block"},
         item.h \in {"fn", "block"} => SavedBy(item, r) = SP!View(scopes', current),
         item.atEnd = CG!Lookups(SavedBy(item, r), EndOf(item)),
         KeepsOuter, spos' = spos + 1, EnvAfter(item, r) = SP!View(scopes', current')
  PROVE  SemaAt(Resolved(item, r))'
<1>. DEFINE t == Resolved(item, r)
            o == OpenedBy(item, r)
            n == Len(sstack)
<1>1. /\ t.open = Append(r.open, o) /\ t.env = EnvAfter(item, r) /\ t.np = r.np + 1
  BY DEF Resolved, OpenAfter, NextNode, Opening
<1>2. PICK X : r.open \in Seq(X)
  BY DEF IsResolver
<1>3. Len(r.open) = n /\ n \in Nat /\ Len(ends) = n
  BY SemaFacts DEF SemaAt
<1>4. o.k = KindOf(item) /\ o.saved = SavedBy(item, r) /\ o.end = EndOf(item)
  BY DEF OpenedBy, Opened
<1>. HIDE DEF t, o
<1>5. /\ Len(t.open) = n + 1 /\ t.open[n + 1] = o
      /\ \A i \in 1..n : t.open[i] = r.open[i]
  <2>. HIDE DEF n
  <2>1. /\ t.open \in Seq(X \cup {o}) /\ Len(t.open) = Len(r.open) + 1
        /\ t.open[Len(r.open) + 1] = o
        /\ \A i \in 1..Len(r.open) : t.open[i] = r.open[i]
    BY <1>1, <1>2
  <2>. QED  BY <1>3, <2>1
<1>6. SP!Begun \in Seq(SP!Frame) /\ SP!SameFrames(sstack, SP!Begun)
  BY SemaSound, SP!BegunFrames
<1>7. /\ Len(sstack') = n + 1 /\ sstack'[n + 1] = f
      /\ \A i \in 1..n : sstack'[i] = SP!Begun[i]
  <2>1. Len(SP!Begun) = n
    BY <1>6 DEF SP!SameFrames
  <2>. HIDE DEF n
  <2>. QED  BY <1>3, <1>6, <2>1
<1>8. SemaFrame(scopes', f, o)
  <2>1. o.k \in {"fn", "block"} <=> item.h \in {"fn", "block"}
    BY <1>4 DEF KindOf
  <2>. QED  BY <1>4, <2>1 DEF SemaFrame
<1>9. /\ \E Y : ends' \in Seq(Y)
      /\ Len(ends') = n + 1 /\ ends'[n + 1] = item.atEnd
      /\ \A i \in 1..n : ends'[i] = ends[i]
  <2>1. (\E Y : ends \in Seq(Y)) /\ Len(sstack) = n
    BY DEF SemaAt
  <2>. HIDE DEF n
  <2>. QED  BY <1>3, <1>7, <2>1, EndsGrow
<1>10. ASSUME NEW i \in 1..(n + 1)
       PROVE  /\ SemaFrame(scopes', sstack'[i], t.open[i])
              /\ ends'[i] = CG!Lookups(t.open[i].saved, t.open[i].end)
  <2>1. CASE i = n + 1
    BY <1>4, <1>5, <1>7, <1>8, <1>9, <2>1
  <2>2. CASE i \in 1..n
    <3>1. SemaFrame(scopes', SP!Begun[i], r.open[i])
      BY <1>6, <2>2, FramesKept
    <3>2. ends[i] = CG!Lookups(r.open[i].saved, r.open[i].end)
      BY <1>3, <2>2 DEF SemaAt
    <3>. QED  BY <1>5, <1>7, <1>9, <2>2, <3>1, <3>2
  <2>3. i = n + 1 \/ i \in 1..n
    <3>. HIDE DEF n
    <3>. QED  BY <1>3
  <2>. QED  BY <2>1, <2>2, <2>3
<1>11. /\ spos' = t.np /\ Len(sstack') = Len(t.open) /\ Len(ends') = Len(t.open)
       /\ \E Y : ends' \in Seq(Y)
       /\ t.env = SP!View(scopes', current')
       /\ \A i \in 1..Len(t.open) :
            /\ SemaFrame(scopes', sstack'[i], t.open[i])
            /\ ends'[i] = CG!Lookups(t.open[i].saved, t.open[i].end)
  BY <1>1, <1>5, <1>7, <1>9, <1>10 DEF SemaAt
<1>12. SemaAt(t)'
  BY <1>11 DEF SemaAt
<1>. QED  BY <1>12 DEF t

\* A statement without children, or a declaration.
LEMMA SemaStays ==
  ASSUME NEW r, IsResolver(r), SemaAt(r), SP!Good, NEW item,
         item.h \in {"extern", "type", "simple"}, Record(item), sout' = "run",
         NEW s, sstack' = s, SP!SameFrames(sstack, s),
         KeepsOuter, spos' = spos + 1, EnvAfter(item, r) = SP!View(scopes', current')
  PROVE  SemaAt(Resolved(item, r))'
<1>. DEFINE t == Resolved(item, r)
<1>1. /\ t.open = r.open /\ t.env = EnvAfter(item, r) /\ t.np = r.np + 1
  BY DEF Resolved, OpenAfter, NextNode, Opening
<1>. HIDE DEF t
<1>2. Len(sstack') = Len(sstack)
  BY DEF SP!SameFrames
<1>3. ends' = ends
  <2>1. \E X : ends \in Seq(X)
    BY DEF SemaAt
  <2>. QED  BY <1>2, <2>1, SemaFacts, EndsGrow DEF SemaAt
<1>4. \A i \in 1..Len(r.open) : SemaFrame(scopes', sstack'[i], r.open[i])
  BY FramesKept DEF SemaAt
<1>5. /\ spos' = t.np /\ Len(sstack') = Len(t.open) /\ Len(ends') = Len(t.open)
      /\ \E X : ends' \in Seq(X)
      /\ t.env = SP!View(scopes', current')
      /\ \A i \in 1..Len(t.open) :
           /\ SemaFrame(scopes', sstack'[i], t.open[i])
           /\ ends'[i] = CG!Lookups(t.open[i].saved, t.open[i].end)
  BY <1>1, <1>2, <1>3, <1>4 DEF SemaAt
<1>6. SemaAt(t)'
  BY <1>5 DEF SemaAt
<1>. QED  BY <1>6 DEF t

\* A handler returns, and what its end reads is what the history says.
LEMMA SemaPops ==
  ASSUME NEW r, IsResolver(r), SemaAt(r), SP!Good, SP!Exit, RecordEnd, sout' = "run",
         spos \in Nat, NEW item, item = Item("end", Plain, ends[Len(ends)])
  PROVE  /\ r.open # <<>>
         /\ item.refs = CG!Lookups(Inner(r).saved, Inner(r).end)
         /\ SemaAt(Resolved(item, r))'
<1>. DEFINE t == Resolved(item, r)
            n == Len(sstack)
            m == n - 1
            o == Inner(r)
<1>0. item.h = "end" /\ item.refs = ends[Len(ends)]
  BY DEF Item
<1>1. /\ t.open = SubSeq(r.open, 1, Len(r.open) - 1) /\ t.np = r.np
      /\ t.env = IF o.k \in {"fn", "block"} THEN o.saved ELSE r.env
  BY <1>0, EnvIs DEF Resolved, OpenAfter, NextNode, Opening
<1>2. PICK X : r.open \in Seq(X)
  BY DEF IsResolver
<1>3. /\ spos' = spos /\ sstack # <<>> /\ sstack' = SP!Below /\ current' = SP!Top.scope
      /\ SP!SameViews(scopes, scopes', Len(scopes))
  BY SemaSound, SP!ExitShows
<1>4. Len(r.open) = n /\ n \in Nat /\ n > 0 /\ Len(ends) = n /\ r.open # <<>>
  BY <1>2, <1>3, SemaFacts DEF SemaAt
<1>5. m \in Nat /\ n = m + 1 /\ n \in 1..n /\ \A i \in 1..m : i \in 1..n
  BY <1>4
<1>6. /\ SemaFrame(scopes, SP!Top, o)
      /\ ends[Len(ends)] = CG!Lookups(o.saved, o.end)
  BY <1>4, <1>5 DEF SemaAt, SP!Top, Inner
<1>. HIDE DEF t
<1>7. /\ t.open \in Seq(X) /\ Len(t.open) = m /\ \A i \in 1..m : t.open[i] = r.open[i]
  <2>1. \A i \in 1..m : r.open[i] \in X
    BY <1>2, <1>4
  <2>2. t.open = SubSeq(r.open, 1, m)
    BY <1>1, <1>4
  <2>. HIDE DEF m
  <2>. QED  BY <1>2, <1>5, <2>1, <2>2, <1>4, SubSeqProperties
<1>8. /\ Len(sstack') = m /\ \A i \in 1..m : sstack'[i] = sstack[i]
  BY <1>3, SemaFacts, PopShape DEF SP!Below
<1>9. (\E Y : ends' \in Seq(Y)) /\ Len(ends') = m /\ \A i \in 1..m : ends'[i] = ends[i]
  <2>1. PICK Y : ends \in Seq(Y)
    BY DEF SemaAt
  <2>2. \A i \in 1..m : ends[i] \in Y
    BY <1>4, <2>1
  <2>3. ends' = SubSeq(ends, 1, m)
    BY <1>4 DEF RecordEnd
  <2>. HIDE DEF m
  <2>4. ends' \in Seq(Y) /\ Len(ends') = m /\ \A i \in 1..m : ends'[i] = ends[i]
    BY <1>4, <1>5, <2>1, <2>2, <2>3, SubSeqProperties
  <2>. QED  BY <2>4
<1>10. KeepsOuter
  <2>1. SP!SameViews(scopes, scopes', current - 1)
    BY <1>3, SemaFacts DEF SP!SameViews
  <2>. QED  BY <2>1 DEF KeepsOuter
<1>11. \A i \in 1..m : SemaFrame(scopes', sstack'[i], t.open[i])
  <2>1. SP!SameFrames(sstack, sstack)
    BY DEF SP!SameFrames
  <2>. HIDE DEF m
  <2>. QED  BY <1>5, <1>7, <1>8, <1>10, <2>1, FramesKept
<1>12. t.env = SP!View(scopes', current')
  <2>1. CASE o.k \in {"fn", "block"}
    <3>1. o.saved = SP!View(scopes, SP!Top.scope) /\ SP!Top.k \in {"fn", "block"}
      BY <1>6, <2>1 DEF SemaFrame
    <3>2. SP!Top.scope \in 1..current - 1
      BY <1>5, <3>1, SemaFacts DEF SP!Top
    <3>3. SP!Top.scope \in 0..Len(scopes)
      BY <3>2, SemaFacts
    <3>. QED  BY <1>1, <1>3, <2>1, <3>1, <3>3 DEF SP!SameViews
  <2>2. CASE o.k \notin {"fn", "block"}
    <3>1. SP!Top.scope = current
      BY <1>3, <1>6, <2>2, SemaFacts DEF SemaFrame
    <3>2. current \in 0..Len(scopes)
      BY SemaFacts
    <3>. QED  BY <1>1, <1>3, <2>2, <3>1, <3>2 DEF SP!SameViews, SemaAt
  <2>. QED  BY <2>1, <2>2
<1>13. /\ spos' = t.np /\ Len(sstack') = Len(t.open) /\ Len(ends') = Len(t.open)
       /\ \E Y : ends' \in Seq(Y)
       /\ t.env = SP!View(scopes', current')
       /\ \A i \in 1..Len(t.open) :
            /\ SemaFrame(scopes', sstack'[i], t.open[i])
            /\ ends'[i] = CG!Lookups(t.open[i].saved, t.open[i].end)
  <2>. HIDE DEF m
  <2>1. \A i \in 1..m : ends'[i] = CG!Lookups(t.open[i].saved, t.open[i].end)
    BY <1>4, <1>5, <1>7, <1>9 DEF SemaAt
  <2>2. spos' = t.np
    BY <1>1, <1>3 DEF SemaAt
  <2>. QED  BY <1>7, <1>8, <1>9, <1>11, <1>12, <2>1, <2>2
<1>14. SemaAt(t)'
  BY <1>13 DEF SemaAt
<1>. QED  BY <1>0, <1>4, <1>6, <1>14 DEF t

-----------------------------------------------------------------------------
(* What each handler of the semantic phase records fits the resolver, and   *)
(* the phase goes on agreeing with it.                                      *)

SemaAgrees(item, r) == sout' = "run" => Fits(item, r) /\ SemaAt(Resolved(item, r))'

\* Where the lemmas below start from: the walk agrees with r, and a node is visited.
Here(r) == IsResolver(r) /\ SemaAt(r) /\ SP!Good /\ spos \in Nat /\ spos' < 100 /\ Hygienic

\* The references that are recorded are what is seen from the current scope.
LEMMA RefsSeen ==
  \A ss, uses : Refs(ss, uses) = CG!Lookups(SP!View(ss, current), uses)
<1>. SUFFICES ASSUME NEW ss, NEW uses
              PROVE  Refs(ss, uses) = CG!Lookups(SP!View(ss, current), uses)
  OBVIOUS
<1>1. \A n : SiteOf(SP!ValueOf(ss, n)) = CG!ValueOf(SP!View(ss, current), n)
  BY DEF SiteOf, SP!ValueOf, CG!ValueOf, SP!View, SP!Where, SP!DeclaredAt
<1>2. \A i \in 1..Len(uses) :
        SiteOf(S!ValueOf(ss, uses[i])) = CG!ValueOf(SP!View(ss, current), uses[i])
  BY <1>1, SameExprs
<1>. QED  BY <1>2 DEF Refs, CG!Lookups

\* Lookups of names that two maps agree about.
LEMMA LookupsMeet ==
  ASSUME NEW e, NEW f, NEW uses, \A i \in 1..Len(uses) : uses[i] \in Names => e[uses[i]] = f[uses[i]]
  PROVE  CG!Lookups(e, uses) = CG!Lookups(f, uses)
<1>1. \A i \in 1..Len(uses) : CG!ValueOf(e, uses[i]) = CG!ValueOf(f, uses[i])
  BY DEF CG!ValueOf
<1>. QED  BY <1>1 DEF CG!Lookups

LEMMA LookupsJoin ==
  ASSUME NEW e, NEW a \in Seq(STRING), NEW b \in Seq(STRING)
  PROVE  CG!Lookups(e, a \o b) = CG!Lookups(e, a) \o CG!Lookups(e, b)
<1>. DEFINE w(n) == <<n, CG!ValueOf(e, n)>>
            X == {w(n) : n \in STRING}
            n1 == Len(a)
            n2 == Len(b)
            la == CG!Lookups(e, a)
            lb == CG!Lookups(e, b)
            c == a \o b
<1>1. /\ la = [i \in 1..n1 |-> w(a[i])] /\ lb = [i \in 1..n2 |-> w(b[i])]
      /\ CG!Lookups(e, c) = [i \in 1..Len(c) |-> w(c[i])]
  BY DEF CG!Lookups
<1>2. /\ n1 \in Nat /\ n2 \in Nat /\ Len(c) = n1 + n2
      /\ \A i \in 1..n1 + n2 : c[i] = IF i <= n1 THEN a[i] ELSE b[i - n1]
  OBVIOUS
<1>3. \A i \in 1..n1 : a[i] \in STRING
  OBVIOUS
<1>4. \A i \in 1..n2 : b[i] \in STRING
  OBVIOUS
<1>5. \A n \in STRING : w(n) \in X
  OBVIOUS
<1>. HIDE DEF w, X, n1, n2, la, lb, c
<1>6. la \in Seq(X) /\ Len(la) = n1 /\ \A i \in 1..n1 : la[i] = w(a[i])
  <2>1. \A i \in 1..n1 : w(a[i]) \in X
    BY <1>3, <1>5
  <2>2. la \in Seq(X)
    BY <1>1, <1>2, <2>1
  <2>. QED  BY <1>1, <1>2, <2>2
<1>7. lb \in Seq(X) /\ Len(lb) = n2 /\ \A i \in 1..n2 : lb[i] = w(b[i])
  <2>1. \A i \in 1..n2 : w(b[i]) \in X
    BY <1>4, <1>5
  <2>2. lb \in Seq(X)
    BY <1>1, <1>2, <2>1
  <2>. QED  BY <1>1, <1>2, <2>2
<1>8. /\ la \o lb \in Seq(X) /\ Len(la \o lb) = n1 + n2
      /\ \A i \in 1..n1 + n2 : (la \o lb)[i] = IF i <= n1 THEN la[i] ELSE lb[i - n1]
  BY <1>6, <1>7, ConcatProperties
<1>9. ASSUME NEW i \in 1..n1 + n2
      PROVE  w(c[i]) = IF i <= n1 THEN la[i] ELSE lb[i - n1]
  <2>1. i <= n1 => i \in 1..n1
    BY <1>2
  <2>2. ~(i <= n1) => i - n1 \in 1..n2
    BY <1>2
  <2>. QED  BY <1>2, <1>6, <1>7, <2>1, <2>2
<1>. DEFINE ls == CG!Lookups(e, c)
            lc == la \o lb
<1>10. ls = [i \in 1..n1 + n2 |-> w(c[i])]
  BY <1>1, <1>2
<1>. HIDE DEF ls
<1>11. ls \in Seq(X) /\ Len(ls) = n1 + n2 /\ \A i \in 1..n1 + n2 : ls[i] = w(c[i])
  <2>1. \A i \in 1..n1 + n2 : w(c[i]) \in X
    <3>1. \A i \in 1..n1 + n2 : c[i] \in STRING
      BY <1>2, <1>3, <1>4
    <3>. QED  BY <1>5, <3>1
  <2>2. n1 + n2 \in Nat
    BY <1>2
  <2>. QED  BY <1>10, <2>1, <2>2
<1>12. lc \in Seq(X) /\ Len(lc) = n1 + n2 /\ \A i \in 1..n1 + n2 : ls[i] = lc[i]
  BY <1>8, <1>9, <1>11
<1>. HIDE DEF lc
<1>13. ls = lc
  BY <1>11, <1>12, SeqEqual
<1>. QED  BY <1>13 DEF ls, lc, c, la, lb

\* The parameters of an item are those of the node, by name.
LEMMA ParamNames ==
  ASSUME NEW params \in Seq(S!ParamDecls)
  PROVE  /\ Len(params) \in Nat /\ Len(LoweredParams(params)) = Len(params)
         /\ \A i \in 1..Len(params) : /\ LoweredParams(params)[i].n = params[i].n
                                      /\ params[i].n \in Names
         /\ Distinct(params) => Distinct(LoweredParams(params))
<1>1. Len(params) \in Nat /\ LoweredParams(params) \in CG!Params
  BY LoweredTyped
<1>2. /\ LoweredParams(params) =
           [i \in 1..Len(params) |-> [n |-> params[i].n, type |-> params[i].decl.type]]
  BY DEF LoweredParams
<1>3. Len(LoweredParams(params)) = Len(params)
  BY <1>1, <1>2 DEF CG!Params
<1>4. \A i \in 1..Len(params) : LoweredParams(params)[i].n = params[i].n
  BY <1>2
<1>5. \A i \in 1..Len(params) : params[i].n \in Names
  <2>1. \A i \in 1..Len(params) : params[i] \in S!ParamDecls
    OBVIOUS
  <2>. QED  BY <2>1 DEF S!ParamDecls
<1>. HIDE DEF LoweredParams
<1>. QED  BY <1>1, <1>3, <1>4, <1>5 DEF Distinct

LEMMA BoundSeen ==
  ASSUME NEW params \in Seq(S!ParamDecls), Distinct(params), NEW env, NEW v,
         v = [m \in Names |-> v[m]],
         \A m \in Names :
           /\ \A i \in 1..Len(params) : params[i].n = m => v[m] = <<spos, i>>
           /\ (\A i \in 1..Len(params) : params[i].n # m) => v[m] = env[m]
  PROVE  Bound(env, spos, LoweredParams(params)) = v
<1>. DEFINE ps == LoweredParams(params)
            who(m) == CHOOSE i \in 1..Len(ps) : ps[i].n = m
<1>1. Len(ps) = Len(params) /\ \A i \in 1..Len(params) : ps[i].n = params[i].n
  BY ParamNames
<1>. HIDE DEF ps
<1>2. Bound(env, spos, ps) =
        [m \in Names |-> IF Binds(ps, m) THEN <<spos, who(m)>> ELSE env[m]]
  BY DEF Bound
<1>3. \A m : Binds(ps, m) => who(m) \in 1..Len(ps) /\ ps[who(m)].n = m
  BY DEF Binds
<1>. HIDE DEF who
<1>4. \A m \in Names : v[m] = IF Binds(ps, m) THEN <<spos, who(m)>> ELSE env[m]
  <2>. TAKE m \in Names
  <2>1. CASE Binds(ps, m)
    BY <1>1, <1>3, <2>1
  <2>2. CASE ~Binds(ps, m)
    BY <1>1, <2>2 DEF Binds
  <2>. QED  BY <2>1, <2>2
<1>. QED  BY <1>2, <1>4 DEF ps

LEMMA ViewIs == \A ss, s : SP!View(ss, s) = [m \in Names |-> SP!View(ss, s)[m]]
BY DEF SP!View

\* What is no value yet is not seen.
LEMMA FreshSeen ==
  ASSUME NEW r, SemaAt(r), SP!Good, NEW n
  PROVE  /\ Fresh(n) /\ n \in Names => r.env[n] = None /\ scopes[current].names[n] = None
         /\ ~Fresh(n) => n \in Names /\ r.env[n] # None
<1>1. SP!ScopesOK(scopes, types) /\ current \in 1..Len(scopes) /\ r.env = SP!View(scopes, current)
  BY SemaFacts DEF SemaAt
<1>2. Fresh(n) <=> SP!ValueOf(scopes, n) = None
  BY SameExprs DEF Fresh
<1>3. n \notin Names => SP!ValueOf(scopes, n) = None
  BY DEF SP!ValueOf
<1>4. \A x \in Nat \X Nat : x # None
  BY SiteIsSet DEF C!Site
<1>. QED  BY <1>1, <1>2, <1>3, <1>4, SemaSound, SP!UnseenName

\* A `let`, low is what the item has of it.
LEMMA LetSeen ==
  ASSUME NEW r, SemaAt(r), SP!Good, NEW node, NEW low, low.k = node.k,
         NEW tt, SP!LetViews(scopes, tt, current, node),
         node.k = "let" => /\ low.n = node.n /\ node.n \in Names
                           /\ scopes[current].names[node.n] = None
  PROVE  /\ LetEnv(r, low) = SP!View(tt, current)
         /\ SP!SameViews(scopes, tt, current - 1)
<1>1. current \in 1..Len(scopes) /\ r.env = SP!View(scopes, current) /\ spos = r.np
      /\ Len(scopes) \in Nat
  BY SemaFacts DEF SemaAt
<1>2. CASE node.k = "let"
  <2>1. SP!Declares(scopes, tt, current, node.n, 0)
    BY <1>2 DEF SP!LetViews
  <2>2. SP!View(tt, current) = [SP!View(scopes, current) EXCEPT ![node.n] = <<spos, 0>>]
    BY <1>2, <2>1 DEF SP!Declares
  <2>. QED  BY <1>1, <1>2, <2>1, <2>2 DEF LetEnv, SP!Declares
<1>3. CASE node.k # "let"
  <2>1. SP!SameViews(scopes, tt, current)
    BY <1>3 DEF SP!LetViews
  <2>2. current \in 0..current /\ \A s \in 0..current - 1 : s \in 0..current
    BY <1>1
  <2>. QED  BY <1>1, <1>3, <2>1, <2>2 DEF LetEnv, SP!SameViews
<1>. QED  BY <1>2, <1>3

\* What an item of a simple statement has of it.
LEMMA LoweredIs ==
  \A ss, node : /\ Lowered(ss, node).k = node.k
                /\ Lowered(ss, node).uses = NodeUses(node)
                /\ node.k = "let" => Lowered(ss, node).n = node.n
                                     /\ NodeUses(node) = Uses(node.rhs)
<1>. TAKE ss, node
<1>1. CASE node.k = "let"
  BY <1>1 DEF Lowered, LetNode, NodeUses
<1>2. CASE node.k # "let"
  BY <1>2 DEF Lowered
<1>. QED  BY <1>1, <1>2

\* A handler is entered, with the frame that SP!Enters describes.
LEMMA SemaEnters ==
  ASSUME NEW r, Here(r), SP!MayBegin, NEW item,
         item.h \in Opening, Record(item), sout' = "run",
         NEW k, NEW disc, SP!Enters(k, disc), SP!OneType(disc),
         k \in {"fn", "block"} <=> item.h \in {"fn", "block"},
         item.h \in {"fn", "block"} => SavedBy(item, r) = SP!View(scopes', current),
         item.atEnd = CG!Lookups(SavedBy(item, r), EndOf(item)),
         KeepsOuter, spos' = spos + 1, EnvAfter(item, r) = SP!View(scopes', current')
  PROVE  SemaAt(Resolved(item, r))'
<1>1. PICK f : /\ f \in SP!Frame /\ f.k = k /\ f.scope = current /\ f.disc = disc
               /\ sstack' = Append(SP!Begun, f)
  BY DEF SP!Enters
<1>2. SP!OneType(f.disc) /\ (f.k \in {"fn", "block"} <=> item.h \in {"fn", "block"})
  BY <1>1
<1>. QED  BY <1>1, <1>2, SemaPushes DEF Here

LEMMA OneTypes == SP!OneType(None) /\ \A e : SP!OneType(SP!Discriminations(e))
<1>1. \A x : Len(<<x>>) \in 0..1 /\ Len(<<>>) \in 0..1
  OBVIOUS
<1>. QED  BY <1>1 DEF SP!OneType, SP!Discriminations

\* Nothing is open exactly when nothing is in the resolver.
LEMMA OpenSeen == \A r : Here(r) => (r.open = <<>> <=> sstack = <<>>)
<1>1. ASSUME NEW r, Here(r) PROVE r.open = <<>> <=> sstack = <<>>
  <2>1. PICK X : r.open \in Seq(X)
    BY <1>1 DEF Here, IsResolver
  <2>2. Len(sstack) = Len(r.open) /\ (sstack = <<>> <=> Len(sstack) = 0)
    BY <1>1, SemaFacts DEF Here, SemaAt
  <2>. QED  BY <2>1, <2>2
<1>. QED  BY <1>1

LEMMA HereFacts ==
  ASSUME NEW r, Here(r)
  PROVE  /\ IsResolver(r) /\ SemaAt(r) /\ SP!Good /\ spos \in Nat /\ spos' < 100 /\ Hygienic
         /\ spos = r.np /\ r.env = SP!View(scopes, current) /\ r.env \in Envs
         /\ SP!ScopesOK(scopes, types) /\ current \in 1..Len(scopes) /\ Len(scopes) \in Nat
         /\ (r.open = <<>> <=> sstack = <<>>)
BY OpenSeen, SemaFacts DEF Here, SemaAt, IsResolver

\* The root: a function is seen once it is declared, unless something has its name.
LEMMA RootSeen ==
  ASSUME NEW r, Here(r), current = 1, NEW n \in Names, SP!Rooted(scopes, scopes', n)
  PROVE  FnEnv(r, n) = SP!View(scopes', 1)
<1>1. /\ r.env = SP!View(scopes, 1) /\ r.np = spos
      /\ SP!ScopesOK(scopes, types) /\ 1 \in 1..Len(scopes)
  BY HereFacts
<1>2. scopes[1].names[n] = None <=> r.env[n] = None
  <2>0. /\ SP!View(scopes, 0)[n] = None
        /\ \A s \in 1..Len(scopes) :
             /\ scopes[s].parent \in 0..s - 1
             /\ scopes[s].names[n] # None => scopes[s].names[n] \in SP!Declared
             /\ SP!View(scopes, s)[n] =
                  IF scopes[s].names[n] # None THEN scopes[s].names[n].site
                  ELSE SP!View(scopes, scopes[s].parent)[n]
    BY <1>1, SemaSound, SP!ViewWalk
  <2>1. /\ SP!View(scopes, 0)[n] = None
        /\ scopes[1].parent \in 0..1 - 1
        /\ scopes[1].names[n] # None => scopes[1].names[n] \in SP!Declared
        /\ SP!View(scopes, 1)[n] = IF scopes[1].names[n] # None THEN scopes[1].names[n].site
                                   ELSE SP!View(scopes, scopes[1].parent)[n]
    BY <1>1, <2>0
  <2>2. scopes[1].parent = 0
    BY <2>1
  <2>3. \A v \in SP!Declared : v.site # None
    BY SiteIsSet DEF SP!Declared, C!Site
  <2>. QED  BY <1>1, <2>1, <2>2, <2>3
<1>. QED  BY <1>1, <1>2 DEF SP!Rooted, FnEnv

LEMMA SemaFn ==
  ASSUME NEW r, Here(r), NEW node \in FnNodes, NEW item, item = FnItem("fn", node),
         DistinctParams(node.params), S!Fn(node), Record(item)
  PROVE  SemaAgrees(item, r)
<1>. SUFFICES ASSUME sout' = "run" PROVE Fits(item, r) /\ SemaAt(Resolved(item, r))'
  BY DEF SemaAgrees
<1>1. /\ item.h = "fn" /\ item.node.n = node.n /\ item.node.params = LoweredParams(node.params)
      /\ item.refs = <<>> /\ item.atEnd = <<>>
  BY DEF FnItem, Item
<1>2. node.n \in Names /\ node.params \in Seq(S!ParamDecls)
  BY ProgramsAssumption DEF S!DeclarationsAssumption
<1>3. Distinct(node.params) /\ SP!OwnNames(node.params)
  BY HereFacts DEF DistinctParams, Distinct, SP!OwnNames
<1>4. /\ spos' = spos + 1 /\ sstack = <<>> /\ SP!MayBegin /\ current = 1
      /\ SP!Enters("fn", None)
      /\ SP!Rooted(scopes, scopes', node.n)
      /\ SP!Inner(scopes', current', node.params)
  <2>1. SP!Fn(node)
    BY SameSema
  <2>2. SP!Good /\ spos \in Nat /\ spos' < 100
    BY HereFacts
  <2>. QED  BY <1>3, <2>1, <2>2, SemaSound, SP!FnShows
<1>5. FnEnv(r, node.n) = SP!View(scopes', 1)
  BY <1>2, <1>4, RootSeen
<1>6. Bound(FnEnv(r, node.n), spos, LoweredParams(node.params)) = SP!View(scopes', current')
  <2>. DEFINE v == SP!View(scopes', current')
              e == SP!View(scopes', 1)
  <2>1. v = [m \in Names |-> v[m]]
    BY ViewIs
  <2>2. \A m \in Names :
          /\ \A i \in 1..Len(node.params) : node.params[i].n = m => v[m] = <<spos, i>>
          /\ (\A i \in 1..Len(node.params) : node.params[i].n # m) => v[m] = e[m]
    BY <1>4 DEF SP!Inner
  <2>. HIDE DEF v, e
  <2>3. Bound(e, spos, LoweredParams(node.params)) = v
    BY <1>2, <1>3, <2>1, <2>2, BoundSeen
  <2>. QED  BY <1>5, <2>3 DEF v, e
<1>7. EnvAfter(item, r) = SP!View(scopes', current')
  BY <1>1, <1>6, EnvIs, HereFacts
<1>8. Fits(item, r)
  <2>1. Distinct(item.node.params)
    BY <1>1, <1>2, <1>3, ParamNames
  <2>2. r.open = <<>>
    BY <1>4, HereFacts
  <2>. QED  BY <1>1, <2>1, <2>2, NoLookups DEF Fits, Reads
<1>9. item.h \in Opening /\ SavedBy(item, r) = SP!View(scopes', current) /\ EndOf(item) = <<>>
  BY <1>1, <1>4, <1>5 DEF SavedBy, EndOf, Opening
<1>10. SemaAt(Resolved(item, r))'
  <2>1. item.atEnd = CG!Lookups(SavedBy(item, r), EndOf(item))
    BY <1>1, <1>9, NoLookups
  <2>2. KeepsOuter /\ ("fn" \in {"fn", "block"} <=> item.h \in {"fn", "block"})
    BY <1>1, <1>4 DEF KeepsOuter
  <2>. QED  BY <1>4, <1>7, <1>9, <2>1, <2>2, OneTypes, SemaEnters
<1>. QED  BY <1>8, <1>10

LEMMA SemaTypes ==
  ASSUME NEW r, Here(r), NEW item, Record(item)
  PROVE  /\ \A node \in ExternNodes : item = FnItem("extern", node) /\ S!ExternFn(node) =>
              SemaAgrees(item, r)
         /\ \A node \in StructNodes : item = StructItem(node) /\ S!StructOrUnion(node) =>
              SemaAgrees(item, r)
         /\ \A node \in EnumNodes : item = EnumItem(node) /\ S!Enum(node) =>
              SemaAgrees(item, r)
<1>0. SP!Good /\ spos \in Nat
  BY HereFacts
<1>1. ASSUME sout' = "run", item.h \in {"extern", "type"}, item.refs = <<>>,
             spos' = spos + 1, sstack' = sstack, sstack = <<>>,
             EnvAfter(item, r) = SP!View(scopes', current')
      PROVE  Fits(item, r) /\ SemaAt(Resolved(item, r))'
  <2>1. Fits(item, r)
    BY <1>1, HereFacts, NoLookups DEF Fits, Reads
  <2>2. SP!SameFrames(sstack, sstack) /\ KeepsOuter
    BY <1>1 DEF SP!SameFrames, KeepsOuter
  <2>3. SemaAt(Resolved(item, r))'
    BY <1>1, <2>2, SemaStays DEF Here
  <2>. QED  BY <2>1, <2>3
<1>2. ASSUME NEW node \in ExternNodes, item = FnItem("extern", node), S!ExternFn(node),
             sout' = "run"
      PROVE  Fits(item, r) /\ SemaAt(Resolved(item, r))'
  <2>1. item.h = "extern" /\ item.node.n = node.n /\ item.refs = <<>>
    BY <1>2 DEF FnItem, Item
  <2>2. node.n \in Names
    BY ProgramsAssumption DEF S!DeclarationsAssumption
  <2>3. SP!ExternFn(node)
    BY <1>2, SameSema
  <2>4. /\ spos' = spos + 1 /\ current' = current /\ sstack' = sstack /\ sstack = <<>>
        /\ current = 1 /\ SP!Rooted(scopes, scopes', node.n)
    BY <1>0, <1>2, <2>3, SemaSound, SP!ExternShows
  <2>5. FnEnv(r, node.n) = SP!View(scopes', 1)
    BY <2>2, <2>4, RootSeen
  <2>. QED  BY <1>1, <1>2, <2>1, <2>4, <2>5, EnvIs
<1>3. ASSUME NEW node, item.h = "type", item.refs = <<>>, sout' = "run",
             \/ node \in StructNodes /\ SP!StructOrUnion(node)
             \/ node \in EnumNodes /\ SP!Enum(node)
      PROVE  Fits(item, r) /\ SemaAt(Resolved(item, r))'
  <2>1. /\ spos' = spos + 1 /\ current' = current /\ sstack' = sstack /\ sstack = <<>>
        /\ SP!SameViews(scopes, scopes', Len(scopes))
    BY <1>0, <1>3, SemaSound, SP!TypesShow
  <2>2. current \in 0..Len(scopes)
    BY HereFacts
  <2>3. SP!View(scopes', current') = r.env
    BY <2>1, <2>2, HereFacts DEF SP!SameViews
  <2>. QED  BY <1>1, <1>3, <2>1, <2>3, EnvIs
<1>4. ASSUME NEW node \in StructNodes, item = StructItem(node), S!StructOrUnion(node),
             sout' = "run"
      PROVE  Fits(item, r) /\ SemaAt(Resolved(item, r))'
  <2>1. item.h = "type" /\ item.refs = <<>>
    BY <1>4 DEF StructItem, Item
  <2>. QED  BY <1>3, <1>4, <2>1, SameSema
<1>5. ASSUME NEW node \in EnumNodes, item = EnumItem(node), S!Enum(node), sout' = "run"
      PROVE  Fits(item, r) /\ SemaAt(Resolved(item, r))'
  <2>1. item.h = "type" /\ item.refs = <<>>
    BY <1>5 DEF EnumItem, Item
  <2>. QED  BY <1>3, <1>5, <2>1, SameSema
<1>. QED  BY <1>2, <1>4, <1>5 DEF SemaAgrees

LEMMA SemaSimples ==
  ASSUME NEW r, Here(r), NEW node \in SimpleNodes, NEW item,
         item = Item("simple", Lowered(scopes, node), Refs(scopes, NodeUses(node))),
         Visible(node), S!Simple(node), Record(item)
  PROVE  SemaAgrees(item, r)
<1>. SUFFICES ASSUME sout' = "run" PROVE Fits(item, r) /\ SemaAt(Resolved(item, r))'
  BY DEF SemaAgrees
<1>. DEFINE uses == NodeUses(node)
<1>0. SemaAt(r) /\ SP!Good /\ spos \in Nat /\ r.env = SP!View(scopes, current)
  BY HereFacts
<1>1. /\ item.h = "simple" /\ item.node = Lowered(scopes, node) /\ item.refs = Refs(scopes, uses)
  BY DEF Item
<1>2. /\ item.node.k = node.k /\ item.node.uses = uses
      /\ node.k = "let" => item.node.n = node.n /\ uses = Uses(node.rhs)
  BY <1>1, LoweredIs
<1>3. /\ spos' = spos + 1 /\ current' = current /\ sstack' = SP!Begun /\ SP!MayBegin
      /\ sstack # <<>>
      /\ SP!LetViews(scopes, scopes', current, node)
  <2>1. SP!Simple(node)
    BY SameSema
  <2>. QED  BY <1>0, <2>1, SemaSound, SP!SimpleShows
<1>4. node.k = "let" => node.n \in Names /\ Unread(node) /\ (Fresh(node.n) \/ Hides(node))
  BY ProgramsAssumption, HereFacts DEF S!StatementsAssumption, S!IsSimple, Visible
<1>5. node.k = "let" => scopes[current].names[node.n] = None
  BY <1>0, <1>4, FreshSeen DEF Hides
<1>6. /\ LetEnv(r, item.node) = SP!View(scopes', current)
      /\ SP!SameViews(scopes, scopes', current - 1)
  BY <1>0, <1>2, <1>3, <1>4, <1>5, LetSeen
<1>7. EnvAfter(item, r) = LetEnv(r, item.node)
  BY <1>1, EnvIs
<1>8. item.refs = CG!Lookups(EnvAfter(item, r), uses)
  <2>1. item.refs = CG!Lookups(r.env, uses)
    BY <1>0, <1>1, RefsSeen
  <2>2. \A i \in 1..Len(uses) : uses[i] \in Names => r.env[uses[i]] = LetEnv(r, item.node)[uses[i]]
    <3>1. node.k = "let" => \A i \in 1..Len(uses) : uses[i] # node.n
      BY <1>2, <1>4 DEF Unread, ToSet
    <3>2. r.env \in Envs
      BY HereFacts
    <3>. HIDE DEF uses
    <3>. QED  BY <1>2, <3>1, <3>2 DEF LetEnv, Envs
  <2>. HIDE DEF uses
  <2>. QED  BY <1>7, <2>1, <2>2, LookupsMeet
<1>9. NewLet(r, item.node)
  <2>1. sstack[Len(sstack)].k \in {"fn", "block"} => Inner(r).k \in {"fn", "block"}
    <3>1. Len(sstack) = Len(r.open) /\ Len(r.open) \in 1..Len(r.open)
      BY <1>0, <1>3, SemaFacts DEF SemaAt
    <3>2. SemaFrame(scopes, sstack[Len(r.open)], r.open[Len(r.open)])
      BY <1>0, <3>1 DEF SemaAt
    <3>. QED  BY <3>1, <3>2 DEF SemaFrame, Inner
  <2>. QED  BY <1>0, <1>2, <1>4, <2>1, FreshSeen DEF NewLet, Hides
<1>10. Fits(item, r)
  <2>1. r.open # <<>>
    BY <1>3, HereFacts
  <2>. QED  BY <1>1, <1>2, <1>8, <1>9, <2>1 DEF Fits, Reads
<1>11. SemaAt(Resolved(item, r))'
  <2>1. KeepsOuter /\ SP!SameFrames(sstack, SP!Begun)
    BY <1>0, <1>3, <1>6, SemaSound, SP!BegunFrames DEF KeepsOuter
  <2>2. IsResolver(r) /\ EnvAfter(item, r) = SP!View(scopes', current')
    BY <1>3, <1>6, <1>7, HereFacts
  <2>. QED  BY <1>0, <1>1, <1>3, <2>1, <2>2, SemaStays
<1>. QED  BY <1>10, <1>11

\* A handler that declares nothing before its children.
LEMMA SemaHeads ==
  ASSUME NEW r, Here(r), NEW item, Record(item), item.atEnd = <<>>,
         item.h \in {"block", "if", "else", "while", "switch"},
         item.refs = CG!Lookups(r.env, Reads(item)),
         sstack # <<>>, SP!MayBegin, sout' = "run", spos' = spos + 1,
         NEW k, NEW disc, SP!Enters(k, disc), SP!OneType(disc),
         k \in {"fn", "block"} <=> item.h \in {"fn", "block"},
         SP!SameViews(scopes, scopes', Len(scopes)),
         SP!View(scopes', current') = SP!View(scopes, current)
  PROVE  Fits(item, r) /\ SemaAt(Resolved(item, r))'
<1>1. EnvAfter(item, r) = r.env /\ r.env = SP!View(scopes, current)
  BY EnvIs, HereFacts
<1>2. Fits(item, r)
  <2>1. r.open # <<>>
    BY HereFacts
  <2>. QED  BY <1>1, <2>1 DEF Fits
<1>3. item.h \in Opening /\ SavedBy(item, r) = r.env /\ EndOf(item) = <<>>
  BY <1>1 DEF SavedBy, EndOf, Opening
<1>4. KeepsOuter
  <2>1. SP!SameViews(scopes, scopes', current - 1)
    BY HereFacts DEF SP!SameViews
  <2>. QED  BY <2>1 DEF KeepsOuter
<1>5. item.atEnd = CG!Lookups(SavedBy(item, r), EndOf(item))
  BY <1>3, NoLookups
<1>6. SavedBy(item, r) = SP!View(scopes', current)
  BY <1>1, <1>3, HereFacts DEF SP!SameViews
<1>7. EnvAfter(item, r) = SP!View(scopes', current')
  BY <1>1
<1>8. SemaAt(Resolved(item, r))'
  BY <1>3, <1>4, <1>5, <1>6, <1>7, SemaEnters
<1>. QED  BY <1>2, <1>8

LEMMA SemaConds ==
  ASSUME NEW r, Here(r), NEW item, Record(item)
  PROVE  /\ item = Item("block", Plain, <<>>) /\ S!Block => SemaAgrees(item, r)
         /\ \A e \in CondExprs : item = CondItem("if", e) /\ S!If(e) => SemaAgrees(item, r)
         /\ item = Item("else", Plain, <<>>) /\ S!Else => SemaAgrees(item, r)
         /\ \A e \in CondExprs : item = CondItem("while", e) /\ S!While(e) =>
              SemaAgrees(item, r)
         /\ \A e \in SwitchExprs : item = SwitchItem(e) /\ S!Switch(e) => SemaAgrees(item, r)
<1>0. /\ SP!Good /\ spos \in Nat /\ spos' < 100 /\ r.env = SP!View(scopes, current)
      /\ SP!OneType(None)
  BY HereFacts, OneTypes
<1>1. ASSUME scopes' = scopes, current' = current
      PROVE  /\ SP!SameViews(scopes, scopes', Len(scopes))
             /\ SP!View(scopes', current') = SP!View(scopes, current)
  BY <1>1 DEF SP!SameViews
<1>2. ASSUME item = Item("block", Plain, <<>>), S!Block, sout' = "run"
      PROVE  Fits(item, r) /\ SemaAt(Resolved(item, r))'
  <2>1. item.h = "block" /\ item.atEnd = <<>> /\ item.refs = <<>>
    BY <1>2 DEF Item
  <2>2. item.refs = CG!Lookups(r.env, Reads(item))
    BY <2>1, NoLookups DEF Reads
  <2>3. SP!Block
    BY <1>2, SameSema
  <2>4. /\ spos' = spos + 1 /\ SP!Enters("block", None) /\ SP!MayBegin /\ sstack # <<>>
        /\ SP!SameViews(scopes, scopes', Len(scopes))
        /\ SP!View(scopes', current') = SP!View(scopes, current)
    BY <1>0, <2>3, SemaSound, SP!BlockShows
  <2>. QED  BY <1>0, <1>2, <2>1, <2>2, <2>4, SemaHeads
<1>3. ASSUME item = Item("else", Plain, <<>>), S!Else, sout' = "run"
      PROVE  Fits(item, r) /\ SemaAt(Resolved(item, r))'
  <2>1. item.h = "else" /\ item.atEnd = <<>> /\ item.refs = <<>>
    BY <1>3 DEF Item
  <2>2. item.refs = CG!Lookups(r.env, Reads(item))
    BY <2>1, NoLookups DEF Reads
  <2>3. SP!Else
    BY <1>3, SameSema
  <2>4. /\ spos' = spos + 1 /\ current' = current /\ scopes' = scopes /\ SP!MayBegin
        /\ sstack # <<>> /\ SP!Enters("else", None)
    BY <1>0, <1>3, <2>3, SemaSound, SP!HeadsShow
  <2>. QED  BY <1>0, <1>1, <1>3, <2>1, <2>2, <2>4, SemaHeads
<1>4. ASSUME NEW e, item.h \in {"if", "while", "switch"}, item.node.uses = Uses(e),
             item.refs = Refs(scopes, Uses(e))
      PROVE  item.refs = CG!Lookups(r.env, Reads(item))
  BY <1>0, <1>4, RefsSeen DEF Reads
<1>5. ASSUME NEW e \in CondExprs, item = CondItem("if", e), S!If(e), sout' = "run"
      PROVE  Fits(item, r) /\ SemaAt(Resolved(item, r))'
  <2>1. /\ item.h = "if" /\ item.atEnd = <<>> /\ item.refs = Refs(scopes, Uses(e))
        /\ item.node.uses = Uses(e)
    BY <1>5 DEF CondItem, Item
  <2>2. SP!If(e)
    BY <1>5, SameSema
  <2>3. /\ spos' = spos + 1 /\ current' = current /\ scopes' = scopes /\ SP!MayBegin
        /\ sstack # <<>> /\ SP!Enters("if", SP!Discriminations(e))
    BY <1>0, <1>5, <2>2, SemaSound, SP!HeadsShow
  <2>4. SP!OneType(SP!Discriminations(e)) /\ item.refs = CG!Lookups(r.env, Reads(item))
    BY <1>4, <2>1, OneTypes
  <2>. QED  BY <1>1, <1>5, <2>1, <2>3, <2>4, SemaHeads
<1>6. ASSUME NEW e \in CondExprs, item = CondItem("while", e), S!While(e), sout' = "run"
      PROVE  Fits(item, r) /\ SemaAt(Resolved(item, r))'
  <2>1. /\ item.h = "while" /\ item.atEnd = <<>> /\ item.refs = Refs(scopes, Uses(e))
        /\ item.node.uses = Uses(e)
    BY <1>6 DEF CondItem, Item
  <2>2. SP!While(e)
    BY <1>6, SameSema
  <2>3. /\ spos' = spos + 1 /\ current' = current /\ scopes' = scopes /\ SP!MayBegin
        /\ sstack # <<>> /\ SP!Enters("while", None)
    BY <1>0, <1>6, <2>2, SemaSound, SP!HeadsShow
  <2>4. item.refs = CG!Lookups(r.env, Reads(item))
    BY <1>4, <2>1
  <2>. QED  BY <1>0, <1>1, <1>6, <2>1, <2>3, <2>4, SemaHeads
<1>7. ASSUME NEW e \in SwitchExprs, item = SwitchItem(e), S!Switch(e), sout' = "run"
      PROVE  Fits(item, r) /\ SemaAt(Resolved(item, r))'
  <2>1. /\ item.h = "switch" /\ item.atEnd = <<>> /\ item.refs = Refs(scopes, Uses(e))
        /\ item.node.uses = Uses(e)
    BY <1>7 DEF SwitchItem, Item
  <2>2. SP!Switch(e)
    BY <1>7, SameSema
  <2>3. /\ spos' = spos + 1 /\ current' = current /\ scopes' = scopes /\ SP!MayBegin
        /\ sstack # <<>> /\ SP!Enters("switch", None)
    BY <1>0, <1>7, <2>2, SemaSound, SP!HeadsShow
  <2>4. item.refs = CG!Lookups(r.env, Reads(item))
    BY <1>4, <2>1
  <2>. QED  BY <1>0, <1>1, <1>7, <2>1, <2>3, <2>4, SemaHeads
<1>. QED  BY <1>2, <1>3, <1>5, <1>6, <1>7 DEF SemaAgrees

\* An arm whose parameters are declared in the scope that is current.
LEMMA SemaArm ==
  ASSUME NEW r, Here(r), NEW item, Record(item), item.atEnd = <<>>, item.refs = <<>>,
         NEW params \in Seq(S!ParamDecls), FreshParams(params),
         \/ item.h = "arrow" /\ item.node = LoweredParams(params)
         \/ item.h = "case" /\ item.node.params = LoweredParams(params),
         sstack # <<>>, SP!MayBegin, sout' = "run", spos' = spos + 1, current' = current,
         NEW k, SP!Enters(k, None), k \notin {"fn", "block"},
         SP!Bounds(scopes, scopes', current, params)
  PROVE  Fits(item, r) /\ SemaAt(Resolved(item, r))'
<1>. DEFINE ps == LoweredParams(params)
<1>0. /\ SemaAt(r) /\ SP!Good /\ r.env = SP!View(scopes, current) /\ spos = r.np
      /\ r.open # <<>> /\ SP!OneType(None)
  BY HereFacts, OneTypes
<1>1. Distinct(params) /\ \A i \in 1..Len(params) : Fresh(params[i].n)
  BY HereFacts DEF FreshParams
<1>2. Bound(r.env, spos, ps) = SP!View(scopes', current)
  <2>. DEFINE v == SP!View(scopes', current)
              e == r.env
  <2>1. v = [m \in Names |-> v[m]]
    BY ViewIs
  <2>2. \A m \in Names :
          /\ \A i \in 1..Len(params) : params[i].n = m => v[m] = <<spos, i>>
          /\ (\A i \in 1..Len(params) : params[i].n # m) => v[m] = e[m]
    BY <1>0 DEF SP!Bounds
  <2>. HIDE DEF v, e
  <2>3. Bound(e, spos, ps) = v
    BY <1>1, <2>1, <2>2, BoundSeen
  <2>. QED  BY <2>3 DEF v, e
<1>3. EnvAfter(item, r) = SP!View(scopes', current')
  BY <1>0, <1>2, EnvIs
<1>4. NewParams(r, ps)
  <2>1. \A i \in 1..Len(ps) : r.env[ps[i].n] = None
    <3>1. \A i \in 1..Len(params) : params[i].n \in Names /\ ps[i].n = params[i].n
      BY ParamNames
    <3>2. Len(ps) = Len(params)
      BY ParamNames
    <3>. HIDE DEF ps
    <3>. QED  BY <1>0, <1>1, <3>1, <3>2, FreshSeen
  <2>. QED  BY <1>1, <2>1, ParamNames DEF NewParams, Unbound
<1>5. Fits(item, r)
  <2>. HIDE DEF ps
  <2>1. /\ item.h = "arrow" => NewParams(r, item.node)
        /\ item.h = "case" => NewParams(r, item.node.params)
    BY <1>4 DEF ps
  <2>2. item.h \in {"arrow", "case"} /\ Reads(item) = <<>>
    BY DEF Reads
  <2>. QED  BY <1>0, <2>1, <2>2, NoLookups DEF Fits
<1>6. item.h \in Opening /\ EndOf(item) = <<>>
  BY DEF EndOf, Opening
<1>7. item.atEnd = CG!Lookups(SavedBy(item, r), EndOf(item))
  BY <1>6, NoLookups
<1>8. KeepsOuter
  BY DEF SP!Bounds, KeepsOuter
<1>9. item.h \notin {"fn", "block"}
  OBVIOUS
<1>10. SemaAt(Resolved(item, r))'
  BY <1>0, <1>3, <1>6, <1>7, <1>8, <1>9, SemaEnters
<1>. QED  BY <1>5, <1>10

LEMMA SemaArms ==
  ASSUME NEW r, Here(r), NEW item, Record(item)
  PROVE  /\ \A params \in ArrowParams :
              /\ item = Item("arrow", LoweredParams(params), <<>>)
              /\ FreshParams(params)
              /\ S!Arrow(params)
              => SemaAgrees(item, r)
         /\ \A node \in CaseNodes :
              item = CaseItem(node) /\ FreshParams(node.params) /\ S!Case(node) =>
                SemaAgrees(item, r)
<1>0. /\ SemaAt(r) /\ SP!Good /\ spos \in Nat
  BY HereFacts
<1>1. \A params : FreshParams(params) => SP!Unseen(params)
  BY SameExprs, HereFacts DEF FreshParams, Fresh, SP!Unseen
<1>2. ASSUME NEW params \in ArrowParams, item = Item("arrow", LoweredParams(params), <<>>),
             FreshParams(params), S!Arrow(params), sout' = "run"
      PROVE  Fits(item, r) /\ SemaAt(Resolved(item, r))'
  <2>1. item.h = "arrow" /\ item.atEnd = <<>> /\ item.refs = <<>> /\ item.node = LoweredParams(params)
    BY <1>2 DEF Item
  <2>2. SP!Arrow(params) /\ SP!Unseen(params)
    BY <1>1, <1>2, SameSema
  <2>3. params \in Seq(S!ParamDecls)
    BY ProgramsAssumption DEF S!StatementsAssumption
  <2>4. SP!OneType(SP!Top.disc)
    <3>1. sstack # <<>>
      BY <2>2 DEF SP!Arrow
    <3>2. Len(sstack) \in 1..Len(r.open)
      BY <1>0, <3>1, SemaFacts DEF SemaAt
    <3>3. SemaFrame(scopes, sstack[Len(sstack)], r.open[Len(sstack)])
      BY <1>0, <3>2 DEF SemaAt
    <3>. QED  BY <3>3 DEF SemaFrame, SP!Top
  <2>5. /\ spos' = spos + 1 /\ current' = current /\ SP!MayBegin /\ sstack # <<>>
        /\ SP!Enters("arrow", None)
        /\ SP!Bounds(scopes, scopes', current, params)
    BY <1>0, <1>2, <2>2, <2>4, SemaSound, SP!ArrowShows
  <2>. QED  BY <1>2, <2>1, <2>3, <2>5, SemaArm
<1>3. ASSUME NEW node \in CaseNodes, item = CaseItem(node), FreshParams(node.params),
             S!Case(node), sout' = "run"
      PROVE  Fits(item, r) /\ SemaAt(Resolved(item, r))'
  <2>1. /\ item.h = "case" /\ item.atEnd = <<>> /\ item.refs = <<>>
        /\ item.node.params = LoweredParams(node.params)
    BY <1>3 DEF CaseItem, Item
  <2>2. SP!Case(node) /\ SP!Unseen(node.params)
    BY <1>1, <1>3, SameSema
  <2>3. node.params \in Seq(S!ParamDecls)
    BY ProgramsAssumption DEF S!StatementsAssumption
  <2>4. node.params # <<>> => node.arrow /\ node.label.k # "default"
    BY ProgramsAssumption
  <2>5. /\ spos' = spos + 1 /\ current' = current /\ SP!MayBegin /\ sstack # <<>>
        /\ SP!Enters("case", None) \/ SP!Enters("case_arrow", None)
        /\ SP!Bounds(scopes, scopes', current, node.params)
    BY <1>0, <1>3, <2>2, <2>4, SemaSound, SP!CaseShows
  <2>. QED  BY <1>3, <2>1, <2>3, <2>5, SemaArm
<1>. QED  BY <1>2, <1>3 DEF SemaAgrees

\* What a `let` does not read is found after it as before it.
LEMMA UnreadSeen ==
  ASSUME NEW r, r.env \in Envs, NEW node, NEW low, low.k = node.k,
         node.k = "let" => low.n = node.n /\ NodeUses(node) = Uses(node.rhs) /\ Unread(node)
  PROVE  CG!Lookups(r.env, NodeUses(node)) = CG!Lookups(LetEnv(r, low), NodeUses(node))
<1>. DEFINE uses == NodeUses(node)
<1>1. node.k = "let" => \A i \in 1..Len(uses) : uses[i] # node.n
  BY DEF Unread, ToSet
<1>. HIDE DEF uses
<1>2. \A i \in 1..Len(uses) : uses[i] \in Names => r.env[uses[i]] = LetEnv(r, low)[uses[i]]
  BY <1>1 DEF LetEnv, Envs
<1>3. CG!Lookups(r.env, uses) = CG!Lookups(LetEnv(r, low), uses)
  BY <1>2, LookupsMeet
<1>. QED  BY <1>3 DEF uses

LEMMA SemaFor ==
  ASSUME NEW r, Here(r), NEW node \in ForNodes, NEW inner, NEW item,
         inner = S!AfterSimple(scopes, node.init), item = ForItem(node, inner),
         FreshHead(node), S!For(node), Record(item)
  PROVE  SemaAgrees(item, r)
<1>. SUFFICES ASSUME sout' = "run" PROVE Fits(item, r) /\ SemaAt(Resolved(item, r))'
  BY DEF SemaAgrees
<1>. DEFINE low == Lowered(scopes, node.init)
            a == NodeUses(node.init)
            b == Uses(node.cond)
            c == NodeUses(node.end)
            e == LetEnv(r, low)
<1>0. SemaAt(r) /\ SP!Good /\ spos \in Nat /\ r.env = SP!View(scopes, current)
      /\ spos = r.np /\ r.env \in Envs
  BY HereFacts
<1>1. /\ item.h = "for" /\ item.node.init = low /\ item.node.cond = b /\ item.node.end = c
      /\ item.refs = Refs(scopes, a) \o Refs(inner, b)
      /\ item.atEnd = Refs(inner, c)
  BY DEF ForItem
<1>2. /\ low.k = node.init.k /\ low.uses = a
      /\ node.init.k = "let" => low.n = node.init.n /\ a = Uses(node.init.rhs)
  BY LoweredIs
<1>3. /\ node.init.k \in {"let", "assign", "return", "expr"}
      /\ node.init.k = "let" => node.init.n \in Names
      /\ node.end.k \in {"assign", "expr"}
      /\ a \in Seq(STRING) /\ b \in Seq(STRING) /\ c \in Seq(STRING)
  BY ProgramsAssumption DEF S!StatementsAssumption, S!IsSimple
<1>4. /\ spos' = spos + 1 /\ current' = current /\ SP!MayBegin /\ sstack # <<>>
      /\ SP!Enters("for", None)
      /\ scopes' = inner
      /\ SP!LetViews(scopes, scopes', current, node.init)
  <2>1. SP!For(node)
    BY SameSema
  <2>2. inner = SP!AfterSimple(scopes, node.init)
    BY <1>3, SameSimple
  <2>. QED  BY <1>0, <1>3, <2>1, <2>2, SemaSound, SP!ForShows
<1>5. /\ node.init.k = "let" => Unread(node.init) /\ Fresh(node.init.n)
      /\ \A n \in ToSet(c) : ~Fresh(n) \/ (node.init.k = "let" /\ n = node.init.n)
  BY HereFacts DEF FreshHead
<1>6. node.init.k = "let" => r.env[node.init.n] = None /\ scopes[current].names[node.init.n] = None
  BY <1>0, <1>3, <1>5, FreshSeen
<1>. HIDE DEF low, a, b, c, e
<1>7. e = SP!View(scopes', current) /\ SP!SameViews(scopes, scopes', current - 1)
  <2>1. SP!LetViews(scopes, inner, current, node.init)
    BY <1>4
  <2>. QED  BY <1>0, <1>2, <1>3, <1>4, <1>6, <2>1, LetSeen DEF e
<1>8. EnvAfter(item, r) = e
  BY <1>1, EnvIs DEF e
<1>9. Refs(scopes, a) = CG!Lookups(e, a)
  BY <1>0, <1>2, <1>5, RefsSeen, UnreadSeen DEF a, e
<1>10. Refs(inner, b) = CG!Lookups(e, b) /\ Refs(inner, c) = CG!Lookups(e, c)
  BY <1>4, <1>7, RefsSeen
<1>11. item.refs = CG!Lookups(EnvAfter(item, r), Reads(item))
  <2>1. Reads(item) = a \o b
    BY <1>1, <1>2 DEF Reads
  <2>2. CG!Lookups(e, a \o b) = CG!Lookups(e, a) \o CG!Lookups(e, b)
    BY <1>3, LookupsJoin
  <2>. QED  BY <1>1, <1>8, <1>9, <1>10, <2>1, <2>2, Zenon
<1>12. Known(e, c)
  <2>1. ASSUME NEW i \in 1..Len(c) PROVE CG!ValueOf(e, c[i]) # None
    <3>1. c[i] \in ToSet(c)
      BY DEF ToSet
    <3>2. <<spos, 0>> # None
      BY <1>0, SiteIsSet DEF C!Site
    <3>3. CASE node.init.k = "let" /\ c[i] = node.init.n
      <4>1. e[node.init.n] = <<spos, 0>>
        BY <1>0, <1>2, <1>3, <3>3 DEF e, LetEnv, Envs
      <4>. QED  BY <1>3, <3>2, <3>3, <4>1 DEF CG!ValueOf
    <3>4. CASE ~Fresh(c[i])
      <4>1. c[i] \in Names /\ r.env[c[i]] # None
        BY <1>0, <3>4, FreshSeen
      <4>2. e[c[i]] # None
        BY <1>0, <1>2, <3>2, <4>1 DEF e, LetEnv, Envs
      <4>. QED  BY <4>1, <4>2 DEF CG!ValueOf
    <3>. QED  BY <1>5, <3>1, <3>3, <3>4
  <2>. QED  BY <2>1 DEF Known
<1>13. NewHead(r, item.node)
  BY <1>1, <1>2, <1>3, <1>6, <1>12 DEF NewHead, e
<1>14. Fits(item, r)
  <2>1. r.open # <<>>
    BY <1>4, HereFacts
  <2>. QED  BY <1>1, <1>11, <1>13, <2>1 DEF Fits
<1>15. SemaAt(Resolved(item, r))'
  <2>1. item.h \in Opening /\ SavedBy(item, r) = e /\ EndOf(item) = c
    BY <1>1, <1>8 DEF SavedBy, EndOf, Opening
  <2>2. item.atEnd = CG!Lookups(SavedBy(item, r), EndOf(item))
    BY <1>1, <1>10, <2>1
  <2>3. KeepsOuter
    BY <1>7 DEF KeepsOuter
  <2>4. EnvAfter(item, r) = SP!View(scopes', current')
    BY <1>4, <1>7, <1>8
  <2>5. item.h \notin {"fn", "block"}
    BY <1>1
  <2>. QED  BY <1>4, <2>1, <2>2, <2>3, <2>4, <2>5, OneTypes, SemaEnters
<1>. QED  BY <1>14, <1>15

LEMMA SemaExit ==
  ASSUME NEW r, IsResolver(r), SemaAt(r), SP!Good, spos \in Nat, NEW item,
         item = Item("end", Plain, ends[Len(ends)]), S!Exit, RecordEnd
  PROVE  SemaAgrees(item, r)
<1>. SUFFICES ASSUME sout' = "run" PROVE Fits(item, r) /\ SemaAt(Resolved(item, r))'
  BY DEF SemaAgrees
<1>1. item.h = "end"
  BY DEF Item
<1>2. /\ r.open # <<>>
      /\ item.refs = CG!Lookups(Inner(r).saved, Inner(r).end)
      /\ SemaAt(Resolved(item, r))'
  BY SameSema, SemaPops
<1>. QED  BY <1>1, <1>2 DEF Fits

-----------------------------------------------------------------------------
(* The resolver along the IR.                                               *)

\* a is the resolver before the first item and after each.
Trail(a, items) ==
  /\ a[0] = Start
  /\ \A i \in 1..Len(items) : Fits(items[i], a[i - 1]) /\ a[i] = Resolved(items[i], a[i - 1])
  /\ \A i \in 0..Len(items) : IsResolver(a[i])

\* Both phases agree with the resolver as far as they have come.
AgreeInv ==
  /\ IRInv /\ SP!WalkInv
  /\ \E a : /\ Trail(a, ir)
            /\ sout = "run" => SemaAt(a[Len(ir)])
            /\ gout = "run" => GenAt(a[Handled])

LEMMA TrailGrows ==
  ASSUME NEW X, NEW items \in Seq(X), NEW a, Trail(a, items),
         NEW item, Fits(item, a[Len(items)]), item.h \in Kinds, Typed(item)
  PROVE  \E b : /\ Trail(b, Append(items, item))
                /\ b[Len(items) + 1] = Resolved(item, a[Len(items)])
                /\ b[0] = a[0]
<1>. DEFINE n == Len(items)
            t == Resolved(item, a[n])
            b == [k \in 0..(n + 1) |-> IF k = n + 1 THEN t ELSE a[k]]
            items2 == Append(items, item)
<1>1. /\ n \in Nat /\ n \in 0..n /\ items2 \in Seq(X \cup {item}) /\ Len(items2) = n + 1
      /\ \A i \in 1..n : items2[i] = items[i]
      /\ items2[n + 1] = item
  OBVIOUS
<1>2. IsResolver(t)
  BY <1>1, ResolvedIs DEF Trail
<1>. HIDE DEF t, items2
<1>3. b[n + 1] = t /\ \A k \in 0..n : b[k] = a[k]
  BY <1>1
<1>. HIDE DEF b
<1>4. ASSUME NEW i \in 1..(n + 1)
      PROVE  Fits(items2[i], b[i - 1]) /\ b[i] = Resolved(items2[i], b[i - 1])
  <2>1. CASE i = n + 1
    <3>1. b[i - 1] = a[n] /\ b[i] = t /\ items2[i] = item
      BY <1>1, <1>3, <2>1
    <3>. QED  BY <3>1 DEF t
  <2>2. CASE i # n + 1
    <3>1. i \in 1..n /\ i \in 0..n /\ i - 1 \in 0..n
      BY <1>1, <2>2
    <3>. QED  BY <1>1, <1>3, <3>1 DEF Trail
  <2>. QED  BY <2>1, <2>2
<1>5. ASSUME NEW i \in 0..(n + 1) PROVE IsResolver(b[i])
  <2>1. i = n + 1 \/ i \in 0..n
    BY <1>1
  <2>. QED  BY <1>2, <1>3, <2>1 DEF Trail
<1>6. b[0] = a[0] /\ a[0] = Start
  BY <1>1, <1>3 DEF Trail
<1>7. Trail(b, items2)
  BY <1>1, <1>4, <1>5, <1>6 DEF Trail
<1>. QED  BY <1>3, <1>6, <1>7 DEF t, items2

\* Before the first item.
LEMMA StartIs == IsResolver(Start)
<1>. DEFINE e == <<>>
            v == [n \in Names |-> None]
<1>1. e \in Seq({}) /\ Len(e) = 0 /\ v \in Envs
  BY DEF Envs
<1>2. Start.open = e /\ Start.env = v /\ Start.np = 0 /\ {"open", "env", "np"} \subseteq DOMAIN Start
  BY DEF Start
<1>. HIDE DEF e, v
<1>. QED  BY <1>1, <1>2 DEF IsResolver

LEMMA SameInit == S!Init => SP!Init
BY DEF S!Init, SP!Init, S!Table!InitialScopes, SP!Table!InitialScopes, S!Table!NewScope,
  SP!Table!NewScope, S!Table!NoParent, SP!Table!NoParent, S!Table!Root, SP!Table!Root,
  S!BuiltinMap, SP!BuiltinMap, S!BuiltinTypes, SP!BuiltinTypes, S!IntTypes, SP!IntTypes,
  S!TypeNames, SP!TypeNames, S!PlainType, SP!PlainType

LEMMA AgreeStarts == Init => AgreeInv
<1>. SUFFICES ASSUME Init PROVE AgreeInv
  OBVIOUS
<1>1. IRInv
  BY StartsIR
<1>2. SP!Init /\ SP!WalkInv
  BY SameInit, SemaSound, SP!InitWalk DEF Init
<1>. DEFINE e == <<>>
            a == [k \in 0..0 |-> Start]
            v == [n \in Names |-> None]
<1>3. /\ ir = e /\ ends = e /\ sstack = e /\ gstack = e /\ next = 0 /\ spos = 0 /\ gpos = 0
      /\ values = v
  BY DEF Init, S!Init, C!Init
<1>4. SP!View(scopes, current) = v
  BY <1>2, SemaSound, SP!InitViews
<1>5. e \in Seq({}) /\ Len(e) = 0 /\ a[0] = Start
  OBVIOUS
<1>6. Start.open = e /\ Start.env = v /\ Start.np = 0
  BY DEF Start
<1>. HIDE DEF e, a, v
<1>7. SemaAt(Start)
  BY <1>3, <1>4, <1>5, <1>6 DEF SemaAt
<1>8. GenAt(Start)
  BY <1>3, <1>5, <1>6 DEF GenAt, Under
<1>9. Trail(a, ir)
  <2>1. \A i \in 0..0 : IsResolver(a[i])
    BY <1>5, StartIs
  <2>2. Len(ir) = 0
    BY <1>3, <1>5
  <2>. QED  BY <1>5, <2>1, <2>2 DEF Trail
<1>10. a[Len(ir)] = Start /\ a[Handled] = Start
  BY <1>3, <1>5 DEF Handled
<1>11. Trail(a, ir) /\ (sout = "run" => SemaAt(a[Len(ir)])) /\ (gout = "run" => GenAt(a[Handled]))
  BY <1>7, <1>8, <1>9, <1>10
<1>. QED  BY <1>1, <1>2, <1>11 DEF AgreeInv

\* What a step of the semantic phase appends to the IR.
LEMMA AnalyseAgrees ==
  ASSUME NEW r, Here(r), Analyse
  PROVE  \E item : /\ SemaAgrees(item, r)
                   /\ IF sout' # "run" THEN ir' = ir ELSE ir' = Append(ir, item)
<1>. DEFINE Answer(i) == /\ SemaAgrees(i, r)
                         /\ IF sout' # "run" THEN ir' = ir ELSE ir' = Append(ir, i)
<1>. SUFFICES \E item : Answer(item)
  OBVIOUS
<1>1. ASSUME NEW i, SemaAgrees(i, r), Record(i)
      PROVE  \E item : Answer(item)
  <2>1. Answer(i)
    BY <1>1 DEF Record
  <2>. HIDE DEF Answer
  <2>. QED  BY <2>1
<1>. HIDE DEF Answer
<1>2. ASSUME NEW node \in FnNodes, DistinctParams(node.params), S!Fn(node),
             Record(FnItem("fn", node))
      PROVE  \E item : Answer(item)
  <2>1. PICK i : i = FnItem("fn", node)
    OBVIOUS
  <2>2. Record(i)
    BY <1>2, <2>1
  <2>. QED  BY <1>1, <1>2, <2>1, <2>2, SemaFn
<1>3. ASSUME NEW node \in ExternNodes, S!ExternFn(node), Record(FnItem("extern", node))
      PROVE  \E item : Answer(item)
  <2>1. PICK i : i = FnItem("extern", node)
    OBVIOUS
  <2>2. Record(i)
    BY <1>3, <2>1
  <2>. QED  BY <1>1, <1>3, <2>1, <2>2, SemaTypes
<1>4. ASSUME NEW node \in StructNodes, S!StructOrUnion(node), Record(StructItem(node))
      PROVE  \E item : Answer(item)
  <2>1. PICK i : i = StructItem(node)
    OBVIOUS
  <2>2. Record(i)
    BY <1>4, <2>1
  <2>. QED  BY <1>1, <1>4, <2>1, <2>2, SemaTypes
<1>5. ASSUME NEW node \in EnumNodes, S!Enum(node), Record(EnumItem(node))
      PROVE  \E item : Answer(item)
  <2>1. PICK i : i = EnumItem(node)
    OBVIOUS
  <2>2. Record(i)
    BY <1>5, <2>1
  <2>. QED  BY <1>1, <1>5, <2>1, <2>2, SemaTypes
<1>6. AnalyseDeclaration => \E item : Answer(item)
  BY <1>2, <1>3, <1>4, <1>5 DEF AnalyseDeclaration
<1>7. ASSUME NEW node \in SimpleNodes, Visible(node), S!Simple(node),
             Record(Item("simple", Lowered(scopes, node), Refs(scopes, NodeUses(node))))
      PROVE  \E item : Answer(item)
  <2>1. PICK i : i = Item("simple", Lowered(scopes, node), Refs(scopes, NodeUses(node)))
    OBVIOUS
  <2>2. Record(i)
    BY <1>7, <2>1
  <2>. QED  BY <1>1, <1>7, <2>1, <2>2, SemaSimples
<1>8. ASSUME NEW h \in {"block", "else"}, Record(Item(h, Plain, <<>>)),
             \/ h = "block" /\ S!Block
             \/ h = "else" /\ S!Else
      PROVE  \E item : Answer(item)
  <2>1. PICK i : i = Item(h, Plain, <<>>)
    OBVIOUS
  <2>2. Record(i)
    BY <1>8, <2>1
  <2>. QED  BY <1>1, <1>8, <2>1, <2>2, SemaConds
<1>9. ASSUME NEW e \in CondExprs, NEW h \in {"if", "while"}, Record(CondItem(h, e)),
             \/ h = "if" /\ S!If(e)
             \/ h = "while" /\ S!While(e)
      PROVE  \E item : Answer(item)
  <2>1. PICK i : i = CondItem(h, e)
    OBVIOUS
  <2>2. Record(i)
    BY <1>9, <2>1
  <2>. QED  BY <1>1, <1>9, <2>1, <2>2, SemaConds
<1>10. ASSUME NEW e \in SwitchExprs, S!Switch(e), Record(SwitchItem(e))
       PROVE  \E item : Answer(item)
  <2>1. PICK i : i = SwitchItem(e)
    OBVIOUS
  <2>2. Record(i)
    BY <1>10, <2>1
  <2>. QED  BY <1>1, <1>10, <2>1, <2>2, SemaConds
<1>11. ASSUME NEW params \in ArrowParams, FreshParams(params), S!Arrow(params),
              Record(Item("arrow", LoweredParams(params), <<>>))
       PROVE  \E item : Answer(item)
  <2>1. PICK i : i = Item("arrow", LoweredParams(params), <<>>)
    OBVIOUS
  <2>2. Record(i)
    BY <1>11, <2>1
  <2>. QED  BY <1>1, <1>11, <2>1, <2>2, SemaArms
<1>12. ASSUME NEW node \in CaseNodes, FreshParams(node.params), S!Case(node),
              Record(CaseItem(node))
       PROVE  \E item : Answer(item)
  <2>1. PICK i : i = CaseItem(node)
    OBVIOUS
  <2>2. Record(i)
    BY <1>12, <2>1
  <2>. QED  BY <1>1, <1>12, <2>1, <2>2, SemaArms
<1>13. ASSUME NEW node \in ForNodes, FreshHead(node), S!For(node),
              Record(ForItem(node, S!AfterSimple(scopes, node.init)))
       PROVE  \E item : Answer(item)
  <2>1. PICK inner : inner = S!AfterSimple(scopes, node.init)
    OBVIOUS
  <2>2. PICK i : i = ForItem(node, inner)
    OBVIOUS
  <2>3. Record(i)
    BY <1>13, <2>1, <2>2
  <2>. QED  BY <1>1, <1>13, <2>1, <2>2, <2>3, SemaFor
<1>14. ASSUME S!Exit, RecordEnd PROVE \E item : Answer(item)
  <2>1. PICK i : i = Item("end", Plain, ends[Len(ends)])
    OBVIOUS
  <2>2. SemaAgrees(i, r)
    BY <1>14, <2>1, SemaExit, HereFacts
  <2>3. Answer(i)
    BY <1>14, <2>1, <2>2 DEF Answer, RecordEnd
  <2>. QED  BY <2>3
<1>15. AnalyseStatement => \E item : Answer(item)
  BY <1>7, <1>8, <1>9, <1>10, <1>11, <1>12, <1>13, <1>14 DEF AnalyseStatement
<1>. QED  BY <1>6, <1>15 DEF Analyse

-----------------------------------------------------------------------------
(* The invariant, and what follows from it.                                 *)

\* A step of the semantic phase is one of the walk that the lemmas are about.
LEMMA AnalyseWalks == Analyse => SP!Next
<1>1. AnalyseDeclaration => SP!Next
  BY SameSema DEF AnalyseDeclaration, SP!Next
<1>2. AnalyseStatement => SP!Next
  BY SameSema DEF AnalyseStatement, SP!Next
<1>. QED  BY <1>1, <1>2 DEF Analyse

LEMMA WalkGoes ==
  ASSUME SP!WalkInv, Next
  PROVE  SP!WalkInv'
<1>1. CASE Analyse
  <2>1. [SP!Next]_SP!vars
    BY <1>1, AnalyseWalks
  <2>. QED  BY <2>1, SemaSound, SP!WalkStep
<1>2. CASE HandOver \/ Generate
  <2>1. UNCHANGED <<scopes, current, types, switch_context, sstack, spos, sout>>
    BY <1>2 DEF HandOver, Generate, semaVars
  <2>2. [SP!Next]_SP!vars
    BY <2>1 DEF SP!vars
  <2>. QED  BY <2>2, SemaSound, SP!WalkStep
<1>. QED  BY <1>1, <1>2 DEF Next

LEMMA AnalyseKeepsAgree ==
  ASSUME Hygienic, MaxNodes < 100, AgreeInv, Analyse, IRInv', SP!WalkInv'
  PROVE  AgreeInv'
<1>1. PICK a : /\ Trail(a, ir)
               /\ sout = "run" => SemaAt(a[Len(ir)])
               /\ gout = "run" => GenAt(a[Handled])
  BY DEF AgreeInv
<1>2. PICK X : ir \in Seq(X)
  BY DEF AgreeInv, IRInv
<1>3. PICK n : n = Len(ir) /\ n \in Nat /\ n \in 0..n
  BY <1>2
<1>4. /\ next = 0 /\ next' = 0 /\ Handled = 0 /\ Handled' = 0
      /\ UNCHANGED <<values, gstack, gpos, gout>>
  BY DEF Analyse, codegenVars, Handled
<1>5. sout = "run" /\ spos \in Nat /\ spos' < 100 /\ SP!Good
  <2>1. SP!Next
    BY AnalyseWalks
  <2>2. sout = "run"
    BY <2>1 DEF SP!Next, SP!Fn, SP!ExternFn, SP!StructOrUnion, SP!Enum, SP!Simple, SP!Block,
      SP!If, SP!While, SP!Arrow, SP!Else, SP!For, SP!Switch, SP!Case, SP!EnumCase, SP!Exit,
      SP!Begin, SP!Visiting
  <2>3. MaxNodes \in Nat
    BY SemaSound DEF SP!BoundsAssumption
  <2>4. spos \in 0..MaxNodes /\ spos' \in 0..MaxNodes
    BY DEF AgreeInv, SP!WalkInv
  <2>. QED  BY <2>2, <2>3, <2>4 DEF AgreeInv, SP!WalkInv
<1>6. IsResolver(a[n]) /\ SemaAt(a[n])
  BY <1>1, <1>3, <1>5 DEF Trail
<1>7. PICK r : r = a[n]
  OBVIOUS
<1>8. Here(r)
  BY <1>5, <1>6, <1>7 DEF Here
<1>9. PICK item : /\ SemaAgrees(item, r)
                  /\ IF sout' # "run" THEN ir' = ir ELSE ir' = Append(ir, item)
  BY <1>8, AnalyseAgrees
<1>10. gout = "run" => GenAt(a[0])
  BY <1>1, <1>4
<1>11. CASE sout' # "run"
  <2>1. ir' = ir
    BY <1>9, <1>11
  <2>2. gout' = "run" => GenAt(a[0])'
    BY <1>4, <1>10 DEF GenAt
  <2>3. /\ Trail(a, ir')
        /\ sout' = "run" => SemaAt(a[Len(ir)])'
        /\ gout' = "run" => GenAt(a[Handled])'
    BY <1>1, <1>4, <1>11, <2>1, <2>2
  <2>. QED  BY <2>3 DEF AgreeInv
<1>12. CASE sout' = "run"
  <2>1. ir' = Append(ir, item) /\ Fits(item, r) /\ SemaAt(Resolved(item, r))'
    BY <1>9, <1>12 DEF SemaAgrees
  <2>2. Len(ir') = n + 1 /\ ir'[n + 1] = item
    BY <1>2, <1>3, <2>1
  <2>3. item.h \in Kinds /\ Typed(item)
    <3>1. \A i \in 1..Len(ir') : ir'[i].h \in Kinds /\ Typed(ir'[i])
      BY DEF IRInv
    <3>2. n + 1 \in 1..Len(ir')
      BY <1>3, <2>2
    <3>. QED  BY <2>2, <3>1, <3>2
  <2>4. PICK b : /\ Trail(b, Append(ir, item)) /\ b[n + 1] = Resolved(item, r)
                 /\ b[0] = a[0]
    BY <1>1, <1>2, <1>3, <1>7, <2>1, <2>3, TrailGrows
  <2>5. PICK t : t = Resolved(item, r)
    OBVIOUS
  <2>6. SemaAt(t)'
    BY <2>1, <2>5
  <2>7. sout' = "run" => SemaAt(b[Len(ir)])'
    BY <2>2, <2>4, <2>5, <2>6
  <2>8. gout' = "run" => GenAt(b[Handled])'
    BY <1>4, <1>10, <2>4 DEF GenAt
  <2>9. /\ Trail(b, ir')
        /\ sout' = "run" => SemaAt(b[Len(ir)])'
        /\ gout' = "run" => GenAt(b[Handled])'
    BY <2>1, <2>4, <2>7, <2>8
  <2>. QED  BY <2>9 DEF AgreeInv
<1>. QED  BY <1>11, <1>12

\* A step of the generator uses what the item records.
LEMMA GenerateAgrees ==
  ASSUME AgreeInv, Generate, IRInv', SP!WalkInv'
  PROVE  AgreeInv' /\ (gout' = "run" => used' = ir[next].refs)
<1>1. PICK a : /\ Trail(a, ir)
               /\ sout = "run" => SemaAt(a[Len(ir)])
               /\ gout = "run" => GenAt(a[Handled])
  BY DEF AgreeInv
<1>2. PICK X : ir \in Seq(X)
  BY DEF AgreeInv, IRInv
<1>3. PICK n : n = next /\ n \in 1..Len(ir) /\ n \in Nat /\ Handled = n - 1 /\ Handled' = n
  <2>1. next \in 1..Len(ir) /\ next' = next + 1
    BY DEF Generate
  <2>2. next \in Nat /\ next # 0 /\ next + 1 # 0 /\ (next + 1) - 1 = next
    BY <1>2, <2>1
  <2>. QED  BY <2>1, <2>2 DEF Handled
<1>4. PICK item : item = ir[n]
  OBVIOUS
<1>5. PICK r : r = a[n - 1]
  OBVIOUS
<1>6. /\ Handle(item)
      /\ UNCHANGED <<scopes, current, sstack, spos, sout, ir, ends>>
  BY <1>3, <1>4 DEF Generate, semaVars
<1>7. item.h \in Kinds /\ Typed(item) /\ CG!TypeInv /\ Switches(gstack, switch)
  BY <1>3, <1>4 DEF AgreeInv, IRInv
<1>8. gout = "run"
  BY <1>6, <1>7, GenHandlers DEF Handle, Kinds, Generated
<1>9. /\ IsResolver(r) /\ Fits(item, r) /\ a[n] = Resolved(item, r)
  <2>1. n - 1 \in 0..Len(ir)
    BY <1>2, <1>3
  <2>. QED  BY <1>1, <1>3, <1>4, <1>5, <2>1 DEF Trail
<1>10. GenAgrees(item, r)
  BY <1>1, <1>3, <1>5, <1>6, <1>7, <1>8, <1>9, GenResolves
<1>11. PICK t : t = a[n]
  OBVIOUS
<1>12. gout' = "run" => GenAt(t)' /\ used' = item.refs
  BY <1>9, <1>10, <1>11 DEF GenAgrees
<1>13. gout' = "run" => GenAt(a[Handled])'
  BY <1>3, <1>11, <1>12
<1>14. sout' = "run" => SemaAt(a[Len(ir)])'
  BY <1>1, <1>6 DEF SemaAt
<1>15. Trail(a, ir')
  BY <1>1, <1>6
<1>16. AgreeInv'
  BY <1>13, <1>14, <1>15 DEF AgreeInv
<1>. QED  BY <1>3, <1>4, <1>12, <1>16

LEMMA StepAgrees ==
  ASSUME Hygienic, MaxNodes < 100, AgreeInv, [Next]_vars
  PROVE  /\ AgreeInv'
         /\ UNCHANGED vars \/ (next > 0 /\ gout' = "run" => used' = ir[next].refs)
<1>1. IRInv'
  BY StepsIR DEF AgreeInv
<1>2. CASE UNCHANGED vars
  <2>1. UNCHANGED <<scopes, current, types, switch_context, sstack, spos, sout,
                    values, gstack, gpos, gout, ir, ends, next>>
    BY <1>2 DEF vars, semaVars, codegenVars
  <2>2. SP!WalkInv'
    <3>1. [SP!Next]_SP!vars
      BY <2>1 DEF SP!vars
    <3>. QED  BY <3>1, SemaSound, SP!WalkStep DEF AgreeInv
  <2>3. PICK a : /\ Trail(a, ir)
                 /\ sout = "run" => SemaAt(a[Len(ir)])
                 /\ gout = "run" => GenAt(a[Handled])
    BY DEF AgreeInv
  <2>4. /\ Trail(a, ir')
        /\ sout' = "run" => SemaAt(a[Len(ir)])'
        /\ gout' = "run" => GenAt(a[Handled])'
    BY <2>1, <2>3 DEF SemaAt, GenAt, Handled
  <2>. QED  BY <1>1, <1>2, <2>2, <2>4 DEF AgreeInv
<1>3. CASE Next
  <2>1. SP!WalkInv'
    BY <1>3, WalkGoes DEF AgreeInv
  <2>2. CASE Analyse
    BY <1>1, <2>1, <2>2, AnalyseKeepsAgree DEF Analyse
  <2>3. CASE Generate
    BY <1>1, <2>1, <2>3, GenerateAgrees
  <2>4. CASE HandOver
    <3>1. /\ UNCHANGED <<scopes, current, sstack, spos, sout, values, gstack, gpos, gout, ir, ends>>
          /\ next = 0 /\ Handled = 0 /\ Handled' = 0
      BY <2>4 DEF HandOver, semaVars, codegenVars, Handled
    <3>2. PICK a : /\ Trail(a, ir)
                   /\ sout = "run" => SemaAt(a[Len(ir)])
                   /\ gout = "run" => GenAt(a[Handled])
      BY DEF AgreeInv
    <3>3. /\ Trail(a, ir')
          /\ sout' = "run" => SemaAt(a[Len(ir)])'
          /\ gout' = "run" => GenAt(a[Handled])'
      BY <3>1, <3>2 DEF SemaAt, GenAt
    <3>. QED  BY <1>1, <2>1, <3>1, <3>3 DEF AgreeInv
  <2>. QED  BY <1>3, <2>2, <2>3, <2>4 DEF Next
<1>. QED  BY <1>2, <1>3

(***************************************************************************)
(* In a hygienic program that fits into the reserve, whatever node the     *)
(* code generator handles without reporting an error, each name in it is   *)
(* the address of the very declaration that the semantic phase checked it  *)
(* against.                                                                *)
(***************************************************************************)
THEOREM PhasesAgree == Hygienic /\ MaxNodes < 100 => (Spec => AgreesOrReports)
<1>. SUFFICES ASSUME Hygienic, MaxNodes < 100 PROVE Spec => AgreesOrReports
  OBVIOUS
<1>1. AgreeInv /\ [Next]_vars => AgreeInv'
  BY StepAgrees
<1>2. AgreeInv /\ [Next]_vars => [next > 0 /\ gout' = "run" => used' = ir[next].refs]_vars
  BY StepAgrees
<1>. QED  BY <1>1, <1>2, AgreeStarts, PTL DEF Spec, AgreesOrReports
=============================================================================
