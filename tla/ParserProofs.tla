---------------------------- MODULE ParserProofs ----------------------------
(***************************************************************************)
(* Proofs about the parser, for every file over every set of tokens and    *)
(* every function that parsing may start at.                               *)
(*                                                                         *)
(* The brackets that are open are a stack.  What the parser still has to   *)
(* do, the C++ call stack, has to close just these, in this order: it fits *)
(* the stack.  ParserInv says so.  That a step keeps it comes down to the  *)
(* functions of Grammar, one by one: each leaves the brackets as it finds  *)
(* them, whichever way it takes through its body (FunctionsFit).           *)
(*                                                                         *)
(* An item of a body may hold bodies of its own.  Nothing is nested deeper *)
(* than three times, so what fits is defined depth by depth and without    *)
(* recursion.                                                              *)
(*                                                                         *)
(* Where precedence climbing is in an expression is told by a place: the   *)
(* operators and parentheses that wait for their right-hand side, and what *)
(* has just been read.  What is left to do leads from a place to the end   *)
(* of the statement (Way2), and the place says how far the reference, with *)
(* its stack of pending operators, is ahead of the tree (Agrees).          *)
(***************************************************************************)
EXTENDS Parser, IntegerProofs, SequenceTheorems, TLAPS

-----------------------------------------------------------------------------
(* What fits.                                                               *)

Openers == {"(", "[", "{"}

\* The brackets that are open, the innermost last.
Stacks == Seq(Openers)

\* The brackets that are open when f is called, b being those after it.
Before(f, b) == IF f \in InnerLoops THEN Append(b, "{") ELSE b

\* Consuming one of ts takes the stack from a to b.  Of what refuses every
\* token nothing is asked.
Reads(ts, a, b) ==
  \/ ts = {}
  \/ ts \cap (Brackets \cup {"eof"}) = {} /\ a = b
  \/ \E o \in Openers : ts = {o} /\ b = Append(a, o)
  \/ \E c \in DOMAIN Opener : ts = {c} /\ a = Append(b, Opener[c])

\* An item without a body takes the stack from a to b.
Simple(i, a, b) ==
  \/ i[1] = "expect" /\ Reads(i[2], a, b)
  \/ i[1] = "call" /\ i[2] \in DOMAIN Functions /\ a = Before(i[2], b)
  \/ i[1] = "attempt" /\ i[2] \in DOMAIN Functions \ InnerLoops /\ a = b
  \/ i[1] \in {"attempted", "binop", "climb", "build"} /\ a = b
  \/ i[1] = "slip" /\ i[2] = "initializer"

IsList(s) == Len(s) \in Nat /\ s = [k \in 1..Len(s) |-> s[k]]

\* The items of s, each of which fits as E says, take the stack from a to b.
Along(E(_, _, _), s, a, b) ==
  /\ IsList(s)
  /\ \E W \in [1..Len(s) + 1 -> Stacks] :
       /\ W[1] = a /\ W[Len(s) + 1] = b
       /\ \A k \in 1..Len(s) : E(s[k], W[k], W[k + 1])

\* So does an item with bodies that are made of such items: a turn of a loop
\* changes nothing, and every arm of a switch does the same.
Compound(E(_, _, _), i, a, b) ==
  \/ Simple(i, a, b)
  \/ i[1] \in {"until", "while"} /\ a = b /\ Along(E, i[3], a, b)
  \/ /\ i[1] = "switch" /\ Along(E, i[3], a, b)
     /\ \A k \in DOMAIN i[2] : Along(E, i[2][k][2], a, b)

Path0(s, a, b) == Along(Simple, s, a, b)
Item1(i, a, b) == Compound(Simple, i, a, b)
Path1(s, a, b) == Along(Item1, s, a, b)
Item2(i, a, b) == Compound(Item1, i, a, b)
Path2(s, a, b) == Along(Item2, s, a, b)
Item3(i, a, b) == Compound(Item2, i, a, b)
Path3(s, a, b) == Along(Item3, s, a, b)

-----------------------------------------------------------------------------
(* How lists and items are put together.                                    *)

\* A bracket that is opened is pushed on the stack of those that are open.
LEMMA Pushed ==
  \A a \in Stacks : \A o \in Openers : Append(a, o) \in Stacks
BY DEF Stacks

\* The same, bracket by bracket.
LEMMA PushedOnes ==
  ASSUME NEW a \in Stacks
  PROVE /\ Append(a, "(") \in Stacks /\ Append(a, "[") \in Stacks
        /\ Append(a, "{") \in Stacks
BY Pushed DEF Openers

\* The empty list.
LEMMA Of0 ==
  ASSUME NEW a \in Stacks
  PROVE  /\ Path0(<<>>, a, a)
         /\ Path1(<<>>, a, a)
         /\ Path2(<<>>, a, a)
         /\ Path3(<<>>, a, a)
<1>. DEFINE s == <<>>  W == <<a>>
<1>1. IsList(s) /\ Len(s) = 0
  BY DEF IsList
<1>2. W \in [1..1 -> Stacks] /\ W[1] = a
  OBVIOUS
<1>. HIDE DEF s, W
<1>. QED  BY <1>1, <1>2 DEF Path0, Path1, Path2, Path3, Along, s

\* A list of one item.
LEMMA Of1 ==
  ASSUME NEW x,
         NEW a \in Stacks, NEW b \in Stacks
  PROVE  /\ Simple(x, a, b) =>
            Path0(<<x>>, a, b)
         /\ Item1(x, a, b) =>
            Path1(<<x>>, a, b)
         /\ Item2(x, a, b) =>
            Path2(<<x>>, a, b)
         /\ Item3(x, a, b) =>
            Path3(<<x>>, a, b)
<1>. DEFINE s == <<x>>  W == <<a, b>>
<1>1. IsList(s) /\ Len(s) = 1 /\ s[1] = x
  BY DEF IsList
<1>2. W \in [1..2 -> Stacks] /\ W[1] = a /\ W[2] = b
  OBVIOUS
<1>. HIDE DEF s, W
<1>. QED  BY <1>1, <1>2 DEF Path0, Path1, Path2, Path3, Along, s

\* A list of two items, the second from where the first leaves off.
LEMMA Of2 ==
  ASSUME NEW x, NEW y,
         NEW a \in Stacks, NEW b \in Stacks, NEW c \in Stacks
  PROVE  /\ Simple(x, a, b) /\ Simple(y, b, c) =>
            Path0(<<x, y>>, a, c)
         /\ Item1(x, a, b) /\ Item1(y, b, c) =>
            Path1(<<x, y>>, a, c)
         /\ Item2(x, a, b) /\ Item2(y, b, c) =>
            Path2(<<x, y>>, a, c)
         /\ Item3(x, a, b) /\ Item3(y, b, c) =>
            Path3(<<x, y>>, a, c)
<1>. DEFINE s == <<x, y>>  W == <<a, b, c>>
<1>1. IsList(s) /\ Len(s) = 2 /\ s[1] = x /\ s[2] = y
  BY DEF IsList
<1>2. W \in [1..3 -> Stacks] /\ W[1] = a /\ W[2] = b /\ W[3] = c
  OBVIOUS
<1>. HIDE DEF s, W
<1>. QED  BY <1>1, <1>2 DEF Path0, Path1, Path2, Path3, Along, s

\* A list of three items.
LEMMA Of3 ==
  ASSUME NEW x, NEW y, NEW z,
         NEW a \in Stacks, NEW b \in Stacks, NEW c \in Stacks, NEW d \in Stacks
  PROVE  /\ Simple(x, a, b) /\ Simple(y, b, c) /\ Simple(z, c, d) =>
            Path0(<<x, y, z>>, a, d)
         /\ Item1(x, a, b) /\ Item1(y, b, c) /\ Item1(z, c, d) =>
            Path1(<<x, y, z>>, a, d)
         /\ Item2(x, a, b) /\ Item2(y, b, c) /\ Item2(z, c, d) =>
            Path2(<<x, y, z>>, a, d)
         /\ Item3(x, a, b) /\ Item3(y, b, c) /\ Item3(z, c, d) =>
            Path3(<<x, y, z>>, a, d)
<1>. DEFINE s == <<x, y, z>>  W == <<a, b, c, d>>
<1>1. IsList(s) /\ Len(s) = 3 /\ s[1] = x /\ s[2] = y /\ s[3] = z
  BY DEF IsList
<1>2. W \in [1..4 -> Stacks] /\ W[1] = a /\ W[2] = b /\ W[3] = c /\ W[4] = d
  OBVIOUS
<1>. HIDE DEF s, W
<1>. QED  BY <1>1, <1>2 DEF Path0, Path1, Path2, Path3, Along, s

\* A list of four items.
LEMMA Of4 ==
  ASSUME NEW x, NEW y, NEW z, NEW t,
         NEW a \in Stacks, NEW b \in Stacks, NEW c \in Stacks, NEW d \in Stacks,
         NEW e \in Stacks
  PROVE  /\ Simple(x, a, b) /\ Simple(y, b, c) /\ Simple(z, c, d) /\ Simple(t, d, e) =>
            Path0(<<x, y, z, t>>, a, e)
         /\ Item1(x, a, b) /\ Item1(y, b, c) /\ Item1(z, c, d) /\ Item1(t, d, e) =>
            Path1(<<x, y, z, t>>, a, e)
         /\ Item2(x, a, b) /\ Item2(y, b, c) /\ Item2(z, c, d) /\ Item2(t, d, e) =>
            Path2(<<x, y, z, t>>, a, e)
         /\ Item3(x, a, b) /\ Item3(y, b, c) /\ Item3(z, c, d) /\ Item3(t, d, e) =>
            Path3(<<x, y, z, t>>, a, e)
<1>. DEFINE s == <<x, y, z, t>>  W == <<a, b, c, d, e>>
<1>1. IsList(s) /\ Len(s) = 4 /\ s[1] = x /\ s[2] = y /\ s[3] = z /\ s[4] = t
  BY DEF IsList
<1>2. W \in [1..5 -> Stacks] /\ W[1] = a /\ W[2] = b /\ W[3] = c /\ W[4] = d /\ W[5] = e
  OBVIOUS
<1>. HIDE DEF s, W
<1>. QED  BY <1>1, <1>2 DEF Path0, Path1, Path2, Path3, Along, s

\* A list of five items.
LEMMA Of5 ==
  ASSUME NEW x, NEW y, NEW z, NEW t, NEW u,
         NEW a \in Stacks, NEW b \in Stacks, NEW c \in Stacks, NEW d \in Stacks,
         NEW e \in Stacks, NEW f \in Stacks
  PROVE  /\ Simple(x, a, b) /\ Simple(y, b, c) /\ Simple(z, c, d) /\ Simple(t, d, e)
           /\ Simple(u, e, f) =>
            Path0(<<x, y, z, t, u>>, a, f)
         /\ Item1(x, a, b) /\ Item1(y, b, c) /\ Item1(z, c, d) /\ Item1(t, d, e)
           /\ Item1(u, e, f) =>
            Path1(<<x, y, z, t, u>>, a, f)
         /\ Item2(x, a, b) /\ Item2(y, b, c) /\ Item2(z, c, d) /\ Item2(t, d, e)
           /\ Item2(u, e, f) =>
            Path2(<<x, y, z, t, u>>, a, f)
         /\ Item3(x, a, b) /\ Item3(y, b, c) /\ Item3(z, c, d) /\ Item3(t, d, e)
           /\ Item3(u, e, f) =>
            Path3(<<x, y, z, t, u>>, a, f)
<1>. DEFINE s == <<x, y, z, t, u>>  W == <<a, b, c, d, e, f>>
<1>1. IsList(s) /\ Len(s) = 5 /\ s[1] = x /\ s[2] = y /\ s[3] = z /\ s[4] = t /\ s[5] = u
  BY DEF IsList
<1>2. W \in [1..6 -> Stacks] /\ W[1] = a /\ W[2] = b /\ W[3] = c /\ W[4] = d /\ W[5] = e /\ W[6] = f
  OBVIOUS
<1>. HIDE DEF s, W
<1>. QED  BY <1>1, <1>2 DEF Path0, Path1, Path2, Path3, Along, s

\* A list of eight items.
LEMMA Of8 ==
  ASSUME NEW x, NEW y, NEW z, NEW t, NEW u, NEW v, NEW w, NEW r,
         NEW a \in Stacks, NEW b \in Stacks, NEW c \in Stacks, NEW d \in Stacks,
         NEW e \in Stacks, NEW f \in Stacks, NEW g \in Stacks, NEW h \in Stacks,
         NEW i \in Stacks
  PROVE  /\ Simple(x, a, b) /\ Simple(y, b, c) /\ Simple(z, c, d) /\ Simple(t, d, e)
           /\ Simple(u, e, f) /\ Simple(v, f, g) /\ Simple(w, g, h) /\ Simple(r, h, i) =>
            Path0(<<x, y, z, t, u, v, w, r>>, a, i)
         /\ Item1(x, a, b) /\ Item1(y, b, c) /\ Item1(z, c, d) /\ Item1(t, d, e)
           /\ Item1(u, e, f) /\ Item1(v, f, g) /\ Item1(w, g, h) /\ Item1(r, h, i) =>
            Path1(<<x, y, z, t, u, v, w, r>>, a, i)
         /\ Item2(x, a, b) /\ Item2(y, b, c) /\ Item2(z, c, d) /\ Item2(t, d, e)
           /\ Item2(u, e, f) /\ Item2(v, f, g) /\ Item2(w, g, h) /\ Item2(r, h, i) =>
            Path2(<<x, y, z, t, u, v, w, r>>, a, i)
         /\ Item3(x, a, b) /\ Item3(y, b, c) /\ Item3(z, c, d) /\ Item3(t, d, e)
           /\ Item3(u, e, f) /\ Item3(v, f, g) /\ Item3(w, g, h) /\ Item3(r, h, i) =>
            Path3(<<x, y, z, t, u, v, w, r>>, a, i)
<1>. DEFINE s == <<x, y, z, t, u, v, w, r>>  W == <<a, b, c, d, e, f, g, h, i>>
<1>1. IsList(s) /\ Len(s) = 8 /\ s[1] = x /\ s[2] = y /\ s[3] = z /\ s[4] = t /\ s[5] = u /\ s[6] = v /\ s[7] = w /\ s[8] = r
  BY DEF IsList
<1>2. W \in [1..9 -> Stacks] /\ W[1] = a /\ W[2] = b /\ W[3] = c /\ W[4] = d /\ W[5] = e /\ W[6] = f /\ W[7] = g /\ W[8] = h /\ W[9] = i
  OBVIOUS
<1>. HIDE DEF s, W
<1>. QED  BY <1>1, <1>2 DEF Path0, Path1, Path2, Path3, Along, s

\* What fits without a nested list fits at every depth of nesting.
LEMMA SimpleUp ==
  \A i, a, b : Simple(i, a, b) =>
    Item1(i, a, b) /\ Item2(i, a, b) /\ Item3(i, a, b)
BY DEF Item1, Item2, Item3, Compound

\* A list that fits at one depth of nesting fits at the next.
LEMMA Path0Up == \A s, a, b : Path0(s, a, b) => Path1(s, a, b)
BY SimpleUp DEF Path0, Path1, Along

\* So does an item.
LEMMA Item1Up == \A i, a, b : Item1(i, a, b) => Item2(i, a, b)
BY Path0Up DEF Item1, Item2, Compound, Path0, Path1

\* The same from the second depth.
LEMMA Path1Up == \A s, a, b : Path1(s, a, b) => Path2(s, a, b)
BY Item1Up DEF Path1, Path2, Along

\* The same for an item.
LEMMA Item2Up == \A i, a, b : Item2(i, a, b) => Item3(i, a, b)
BY Path1Up DEF Item2, Item3, Compound, Path1, Path2

\* The same from the third depth.
LEMMA Path2Up == \A s, a, b : Path2(s, a, b) => Path3(s, a, b)
BY Item2Up DEF Path2, Path3, Along

\* A call leaves the brackets that are open as they are.
LEMMA CallFits ==
  \A f \in DOMAIN Functions \ InnerLoops : \A a :
    /\ Simple(Call(f), a, a) /\ Item1(Call(f), a, a)
    /\ Item2(Call(f), a, a) /\ Item3(Call(f), a, a)
BY SimpleUp DEF Simple, Call, Before

\* So does a call whose error is dropped.
LEMMA AttemptFits ==
  \A f \in DOMAIN Functions \ InnerLoops : \A a :
    /\ Simple(Attempt(f), a, a) /\ Item1(Attempt(f), a, a)
    /\ Item2(Attempt(f), a, a) /\ Item3(Attempt(f), a, a)
BY SimpleUp DEF Simple, Attempt

\* A call of an inner loop closes the brace it starts in.
LEMMA BorrowFits ==
  \A f \in InnerLoops : \A a :
    /\ Simple(Call(f), Append(a, "{"), a) /\ Item1(Call(f), Append(a, "{"), a)
    /\ Item2(Call(f), Append(a, "{"), a) /\ Item3(Call(f), Append(a, "{"), a)
<1>1. InnerLoops \subseteq DOMAIN Functions
  BY DEF InnerLoops, Functions
<1>. QED  BY <1>1, SimpleUp DEF Simple, Call, Before

\* The inner loops by name.
LEMMA BorrowNames ==
  "parse_designators" \in InnerLoops /\ "parse_struct_members" \in InnerLoops
BY DEF InnerLoops

\* Consuming a token that is no bracket leaves the brackets as they are.
LEMMA SkipFits ==
  \A ts : ts \cap (Brackets \cup {"eof"}) = {} =>
    \A a : /\ Simple(Expect(ts), a, a) /\ Item1(Expect(ts), a, a)
           /\ Item2(Expect(ts), a, a) /\ Item3(Expect(ts), a, a)
BY SimpleUp DEF Simple, Reads, Expect

\* Consuming an opening bracket pushes it.
LEMMA OpenFits ==
  \A a : /\ Simple(Expect({"("}), a, Append(a, "("))
         /\ Item1(Expect({"("}), a, Append(a, "("))
         /\ Simple(Expect({"["}), a, Append(a, "["))
         /\ Item1(Expect({"["}), a, Append(a, "["))
         /\ Simple(Expect({"{"}), a, Append(a, "{"))
         /\ Item1(Expect({"{"}), a, Append(a, "{"))
         /\ Item2(Expect({"{"}), a, Append(a, "{"))
BY SimpleUp DEF Simple, Reads, Expect, Openers

\* Consuming a closing bracket pops the one it closes.
LEMMA CloseFits ==
  \A a : /\ Simple(Expect({")"}), Append(a, "("), a)
         /\ Item1(Expect({")"}), Append(a, "("), a)
         /\ Simple(Expect({"]"}), Append(a, "["), a)
         /\ Item1(Expect({"]"}), Append(a, "["), a)
         /\ Simple(Expect({"}"}), Append(a, "{"), a)
         /\ Item1(Expect({"}"}), Append(a, "{"), a)
         /\ Item2(Expect({"}"}), Append(a, "{"), a)
<1>1. /\ ")" \in DOMAIN Opener /\ Opener[")"] = "("
      /\ "]" \in DOMAIN Opener /\ Opener["]"] = "["
      /\ "}" \in DOMAIN Opener /\ Opener["}"] = "{"
  BY DEF Opener
<1>. QED  BY <1>1, SimpleUp DEF Simple, Reads, Expect

\* Nothing follows an item that refuses every token.
LEMMA FailFits ==
  \A a, b : /\ Simple(Fail, a, b) /\ Item1(Fail, a, b)
            /\ Item2(Fail, a, b) /\ Item3(Fail, a, b)
BY SimpleUp DEF Simple, Reads, Expect, Fail

\* Nothing is claimed after a slip.
LEMMA SlipFits ==
  \A a, b : LET i == Slip("initializer")
            IN Simple(i, a, b) /\ Item1(i, a, b) /\ Item2(i, a, b) /\ Item3(i, a, b)
BY SimpleUp DEF Simple, Slip

\* What is done for operators and nodes touches no bracket.
LEMMA NodeFits ==
  \A x, a : /\ Simple(BinOp(x), a, a) /\ Item1(BinOp(x), a, a)
            /\ Item2(BinOp(x), a, a) /\ Item3(BinOp(x), a, a)
            /\ Simple(Build(x), a, a) /\ Item1(Build(x), a, a)
            /\ Item2(Build(x), a, a) /\ Item3(Build(x), a, a)
BY SimpleUp DEF Simple, BinOp, Build

\* A switch does what all of its arms do; the three depths.
LEMMA Switch1 ==
  \A arms, v, a, b :
    Path0(v, a, b) /\ (\A k \in DOMAIN arms : Path0(arms[k][2], a, b)) =>
      Item1(Switch(arms, v), a, b)
BY DEF Item1, Compound, Switch, Path0

\* See Switch1.
LEMMA Switch2 ==
  \A arms, v, a, b :
    Path1(v, a, b) /\ (\A k \in DOMAIN arms : Path1(arms[k][2], a, b)) =>
      Item2(Switch(arms, v), a, b)
BY DEF Item2, Compound, Switch, Path1

\* See Switch1.
LEMMA Switch3 ==
  \A arms, v, a, b :
    Path2(v, a, b) /\ (\A k \in DOMAIN arms : Path2(arms[k][2], a, b)) =>
      Item3(Switch(arms, v), a, b)
BY DEF Item3, Compound, Switch, Path2

\* A switch of two arms.
LEMMA Switch1Of2 ==
  ASSUME NEW a, NEW b, NEW v, Path0(v, a, b),
         NEW ts1, NEW u1, Path0(u1, a, b),
         NEW ts2, NEW u2, Path0(u2, a, b)
  PROVE  Item1(Switch(<<On(ts1, u1), On(ts2, u2)>>, v), a, b)
<1>. DEFINE arms == <<On(ts1, u1), On(ts2, u2)>>
<1>1. DOMAIN arms = 1..2
  OBVIOUS
<1>2. /\ arms[1][2] = u1
      /\ arms[2][2] = u2
  BY DEF On
<1>. HIDE DEF arms
<1>3. \A k \in DOMAIN arms : Path0(arms[k][2], a, b)
  BY <1>1, <1>2
<1>. QED  BY <1>3, Switch1 DEF arms

\* A switch of three arms.
LEMMA Switch1Of3 ==
  ASSUME NEW a, NEW b, NEW v, Path0(v, a, b),
         NEW ts1, NEW u1, Path0(u1, a, b),
         NEW ts2, NEW u2, Path0(u2, a, b),
         NEW ts3, NEW u3, Path0(u3, a, b)
  PROVE  Item1(Switch(<<On(ts1, u1), On(ts2, u2), On(ts3, u3)>>, v), a, b)
<1>. DEFINE arms == <<On(ts1, u1), On(ts2, u2), On(ts3, u3)>>
<1>1. DOMAIN arms = 1..3
  OBVIOUS
<1>2. /\ arms[1][2] = u1
      /\ arms[2][2] = u2
      /\ arms[3][2] = u3
  BY DEF On
<1>. HIDE DEF arms
<1>3. \A k \in DOMAIN arms : Path0(arms[k][2], a, b)
  BY <1>1, <1>2
<1>. QED  BY <1>3, Switch1 DEF arms

\* A switch of five arms.
LEMMA Switch1Of5 ==
  ASSUME NEW a, NEW b, NEW v, Path0(v, a, b),
         NEW ts1, NEW u1, Path0(u1, a, b),
         NEW ts2, NEW u2, Path0(u2, a, b),
         NEW ts3, NEW u3, Path0(u3, a, b),
         NEW ts4, NEW u4, Path0(u4, a, b),
         NEW ts5, NEW u5, Path0(u5, a, b)
  PROVE  Item1(Switch(<<On(ts1, u1), On(ts2, u2), On(ts3, u3), On(ts4, u4), On(ts5, u5)>>, v), a, b)
<1>. DEFINE arms == <<On(ts1, u1), On(ts2, u2), On(ts3, u3), On(ts4, u4), On(ts5, u5)>>
<1>1. DOMAIN arms = 1..5
  OBVIOUS
<1>2. /\ arms[1][2] = u1
      /\ arms[2][2] = u2
      /\ arms[3][2] = u3
      /\ arms[4][2] = u4
      /\ arms[5][2] = u5
  BY DEF On
<1>. HIDE DEF arms
<1>3. \A k \in DOMAIN arms : Path0(arms[k][2], a, b)
  BY <1>1, <1>2
<1>. QED  BY <1>3, Switch1 DEF arms

\* A test of the next token does what both of its branches do; the three depths.
LEMMA At1 ==
  \A ts, u, v, a, b :
    Path0(u, a, b) /\ Path0(v, a, b) => Item1(At(ts, u, v), a, b)
BY Switch1 DEF At, On

\* See At1.
LEMMA At2 ==
  \A ts, u, v, a, b :
    Path1(u, a, b) /\ Path1(v, a, b) => Item2(At(ts, u, v), a, b)
BY Switch2 DEF At, On

\* See At1.
LEMMA At3 ==
  \A ts, u, v, a, b :
    Path2(u, a, b) /\ Path2(v, a, b) => Item3(At(ts, u, v), a, b)
BY Switch3 DEF At, On

\* A loop leaves the brackets as a turn of it does: unchanged; the three depths.
LEMMA Loop1 ==
  \A ts, u, a :
    Path0(u, a, a) => Item1(Until(ts, u), a, a) /\ Item1(While(ts, u), a, a)
BY DEF Item1, Compound, Until, While, Path0

\* See Loop1.
LEMMA Loop2 ==
  \A ts, u, a :
    Path1(u, a, a) => Item2(Until(ts, u), a, a) /\ Item2(While(ts, u), a, a)
BY DEF Item2, Compound, Until, While, Path1

\* See Loop1.
LEMMA Loop3 ==
  \A ts, u, a :
    Path2(u, a, a) => Item3(Until(ts, u), a, a) /\ Item3(While(ts, u), a, a)
BY DEF Item3, Compound, Until, While, Path2

-----------------------------------------------------------------------------
(* The functions of Grammar, one by one.                                    *)

\* The functions that are called, and no inner loop among them.
LEMMA Names ==
  /\ "parse_addressof" \in DOMAIN Functions \ InnerLoops
  /\ "parse_array_access" \in DOMAIN Functions \ InnerLoops
  /\ "parse_assign" \in DOMAIN Functions \ InnerLoops
  /\ "parse_block" \in DOMAIN Functions \ InnerLoops
  /\ "parse_call" \in DOMAIN Functions \ InnerLoops
  /\ "parse_case" \in DOMAIN Functions \ InnerLoops
  /\ "parse_const_expr" \in DOMAIN Functions \ InnerLoops
  /\ "parse_default" \in DOMAIN Functions \ InnerLoops
  /\ "parse_deref" \in DOMAIN Functions \ InnerLoops
  /\ "parse_else" \in DOMAIN Functions \ InnerLoops
  /\ "parse_enum" \in DOMAIN Functions \ InnerLoops
  /\ "parse_expr" \in DOMAIN Functions \ InnerLoops
  /\ "parse_expr_statement" \in DOMAIN Functions \ InnerLoops
  /\ "parse_extern_function" \in DOMAIN Functions \ InnerLoops
  /\ "parse_fn_param" \in DOMAIN Functions \ InnerLoops
  /\ "parse_for" \in DOMAIN Functions \ InnerLoops
  /\ "parse_function" \in DOMAIN Functions \ InnerLoops
  /\ "parse_function_parameter_list" \in DOMAIN Functions \ InnerLoops
  /\ "parse_function_proto" \in DOMAIN Functions \ InnerLoops
  /\ "parse_identifier" \in DOMAIN Functions \ InnerLoops
  /\ "parse_if" \in DOMAIN Functions \ InnerLoops
  /\ "parse_if_arrow" \in DOMAIN Functions \ InnerLoops
  /\ "parse_if_block" \in DOMAIN Functions \ InnerLoops
  /\ "parse_indirect_member_reference" \in DOMAIN Functions \ InnerLoops
  /\ "parse_initializer" \in DOMAIN Functions \ InnerLoops
  /\ "parse_let" \in DOMAIN Functions \ InnerLoops
  /\ "parse_literal" \in DOMAIN Functions \ InnerLoops
  /\ "parse_member_reference" \in DOMAIN Functions \ InnerLoops
  /\ "parse_module_top_level_item" \in DOMAIN Functions \ InnerLoops
  /\ "parse_name_parts" \in DOMAIN Functions \ InnerLoops
  /\ "parse_non_var_arg_fn_param" \in DOMAIN Functions \ InnerLoops
  /\ "parse_postfix_expr" \in DOMAIN Functions \ InnerLoops
  /\ "parse_simple_expr" \in DOMAIN Functions \ InnerLoops
  /\ "parse_statement" \in DOMAIN Functions \ InnerLoops
  /\ "parse_struct" \in DOMAIN Functions \ InnerLoops
  /\ "parse_struct_body" \in DOMAIN Functions \ InnerLoops
  /\ "parse_switch" \in DOMAIN Functions \ InnerLoops
  /\ "parse_type_decl" \in DOMAIN Functions \ InnerLoops
  /\ "parse_type_decl_or_empty" \in DOMAIN Functions \ InnerLoops
  /\ "parse_union" \in DOMAIN Functions \ InnerLoops
  /\ "parse_value_list" \in DOMAIN Functions \ InnerLoops
  /\ "parse_while" \in DOMAIN Functions \ InnerLoops
BY DEF Functions, InnerLoops

\* The tokens that are consumed and are no brackets.
LEMMA Skipped ==
  /\ AssignTokens \cap (Brackets \cup {"eof"}) = {}
  /\ {"&"} \cap (Brackets \cup {"eof"}) = {}
  /\ {"*"} \cap (Brackets \cup {"eof"}) = {}
  /\ {","} \cap (Brackets \cup {"eof"}) = {}
  /\ {"->"} \cap (Brackets \cup {"eof"}) = {}
  /\ {"."} \cap (Brackets \cup {"eof"}) = {}
  /\ {"..."} \cap (Brackets \cup {"eof"}) = {}
  /\ {"1", "text"} \cap (Brackets \cup {"eof"}) = {}
  /\ {":"} \cap (Brackets \cup {"eof"}) = {}
  /\ {"::"} \cap (Brackets \cup {"eof"}) = {}
  /\ {";"} \cap (Brackets \cup {"eof"}) = {}
  /\ {"="} \cap (Brackets \cup {"eof"}) = {}
  /\ {"=>"} \cap (Brackets \cup {"eof"}) = {}
  /\ {"case"} \cap (Brackets \cup {"eof"}) = {}
  /\ {"default"} \cap (Brackets \cup {"eof"}) = {}
  /\ {"else"} \cap (Brackets \cup {"eof"}) = {}
  /\ {"enum"} \cap (Brackets \cup {"eof"}) = {}
  /\ {"extern"} \cap (Brackets \cup {"eof"}) = {}
  /\ {"fn"} \cap (Brackets \cup {"eof"}) = {}
  /\ {"for"} \cap (Brackets \cup {"eof"}) = {}
  /\ {"if"} \cap (Brackets \cup {"eof"}) = {}
  /\ {"is"} \cap (Brackets \cup {"eof"}) = {}
  /\ {"let"} \cap (Brackets \cup {"eof"}) = {}
  /\ {"return"} \cap (Brackets \cup {"eof"}) = {}
  /\ {"struct"} \cap (Brackets \cup {"eof"}) = {}
  /\ {"switch"} \cap (Brackets \cup {"eof"}) = {}
  /\ {"union"} \cap (Brackets \cup {"eof"}) = {}
  /\ {"while"} \cap (Brackets \cup {"eof"}) = {}
  /\ {"x"} \cap (Brackets \cup {"eof"}) = {}
BY DEF Brackets, AssignTokens

\* A token that may be there (consume_if_expected).
LEMMA OptFits ==
  ASSUME NEW t, {t} \cap (Brackets \cup {"eof"}) = {}, NEW a \in Stacks
  PROVE  Item1(Opt(t), a, a) /\ Item2(Opt(t), a, a)
<1>1. /\ Path0(<<Expect({t})>>, a, a) /\ Path1(<<Expect({t})>>, a, a)
      /\ Path0(<<>>, a, a) /\ Path1(<<>>, a, a)
  BY Of1, Of0, SkipFits
<1>. QED  BY <1>1, At1, At2 DEF Opt

\* A condition consumes both of its parentheses or none.
LEMMA ConditionFits ==
  ASSUME NEW a \in Stacks
  PROVE  Item1(Condition, a, a)
<1>1. Path0(<<Expect({"("}), Call("parse_expr"), Expect({")"})>>, a, a)
  BY Of3, OpenFits, CloseFits, PushedOnes, CallFits, Names
<1>2. Path0(<<Call("parse_expr")>>, a, a)
  BY Of1, CallFits, Names
<1>. QED  BY <1>1, <1>2, At1 DEF Condition

\* The length of an array type is in brackets.
LEMMA ArrayLengthFits ==
  ASSUME NEW a \in Stacks
  PROVE  Path1(ArrayLength, a, a)
<1>. DEFINE b == Append(a, "[")
<1>1. b \in Stacks
  BY PushedOnes
<1>2. Path0(<<Call("parse_literal"), Fail>>, b, b)
  BY <1>1, Of2, CallFits, FailFits, Names
<1>3. Path0(<<Call("parse_literal")>>, b, b)
  BY <1>1, Of1, CallFits, Names
<1>4. Item1(Expect({"["}), a, b) /\ Item1(Expect({"]"}), b, a)
  BY OpenFits, CloseFits
<1>. HIDE DEF b
<1>. QED  BY <1>1, <1>2, <1>3, <1>4, Of3, At1 DEF ArrayLength

\* A type declaration, optional or not.
LEMMA TypeDeclFits ==
  ASSUME NEW a \in Stacks, NEW e
  PROVE  Path3(TypeDecl(e), a, a)
<1>1. /\ Path0(<<>>, a, a) /\ Path1(<<>>, a, a) /\ Path2(<<>>, a, a)
      /\ Path0(<<Fail>>, a, a) /\ Path2(<<Fail>>, a, a)
  BY Of0, Of1, FailFits
<1>2. Path2(IF e THEN <<>> ELSE <<Fail>>, a, a)
  BY <1>1
<1>3. Path1(<<Expect({"*"})>>, a, a)
  BY Of1, SkipFits, Skipped
<1>4. /\ Item2(Call("parse_name_parts"), a, a)
      /\ Item2(While({"*"}, <<Expect({"*"})>>), a, a)
      /\ Item2(At({"["}, ArrayLength, <<>>), a, a)
  BY <1>1, <1>3, ArrayLengthFits, CallFits, Names, Loop2, At2
<1>5. Path2(<<Call("parse_name_parts"), While({"*"}, <<Expect({"*"})>>),
              At({"["}, ArrayLength, <<>>)>>, a, a)
  BY <1>4, Of3
<1>. QED  BY <1>2, <1>5, At3, Of1 DEF TypeDecl

\* parse_name_parts leaves the brackets as it finds them.
LEMMA NamePartsFits ==
  ASSUME NEW a \in Stacks
  PROVE  Path1(parse_name_parts, a, a)
<1>1. Path0(<<Expect({"::"}), Expect({"x"})>>, a, a)
  BY Of2, SkipFits, Skipped
<1>2. Item1(Expect({"x"}), a, a)
  BY SkipFits, Skipped
<1>3. Item1(While({"::"}, <<Expect({"::"}), Expect({"x"})>>), a, a)
  BY <1>1, Loop1
<1>. QED
  BY <1>2, <1>3, Of2 DEF parse_name_parts

\* parse_identifier leaves the brackets as it finds them.
LEMMA IdentifierFits ==
  ASSUME NEW a \in Stacks
  PROVE  Path0(parse_identifier, a, a)
BY Of1, CallFits, Names DEF parse_identifier

\* parse_literal leaves the brackets as it finds them.
LEMMA LiteralFits ==
  ASSUME NEW a \in Stacks
  PROVE  Path0(parse_literal, a, a)
BY Of1, SkipFits, Skipped DEF parse_literal

\* parse_const_expr leaves the brackets as it finds them.
LEMMA ConstExprFits ==
  ASSUME NEW a \in Stacks
  PROVE  Path1(parse_const_expr, a, a)
<1>1. Path0(<<Fail>>, a, a)
  BY Of1, FailFits
<1>2. Path0(<<Call("parse_literal")>>, a, a)
  BY Of1, CallFits, Names
<1>3. Path0(<<Call("parse_identifier")>>, a, a)
  BY Of1, CallFits, Names
<1>4. Item1(Switch(<<On({"1", "text"}, <<Call("parse_literal")>>), On({"x"},
         <<Call("parse_identifier")>>)>>, <<Fail>>), a, a)
  BY <1>1, <1>2, <1>3, Switch1Of2
<1>. QED
  BY <1>4, Of1 DEF parse_const_expr

\* parse_deref leaves the brackets as it finds them.
LEMMA DerefFits ==
  ASSUME NEW a \in Stacks
  PROVE  Path0(parse_deref, a, a)
BY Of2, SkipFits, Skipped, CallFits, Names DEF parse_deref

\* parse_addressof leaves the brackets as it finds them.
LEMMA AddressofFits ==
  ASSUME NEW a \in Stacks
  PROVE  Path0(parse_addressof, a, a)
BY Of2, SkipFits, Skipped, CallFits, Names DEF parse_addressof

\* parse_simple_expr leaves the brackets as it finds them.
LEMMA SimpleExprFits ==
  ASSUME NEW a \in Stacks
  PROVE  Path1(parse_simple_expr, a, a)
<1>1. Path0(<<Call("parse_literal"), Build("x")>>, a, a)
  BY Of2, CallFits, Names, NodeFits
<1>2. Path0(<<Call("parse_identifier"), Build("x")>>, a, a)
  BY Of2, CallFits, Names, NodeFits
<1>3. /\ Simple(Expect({"("}), a, Append(a, "("))
      /\ Simple(Call("parse_expr"), Append(a, "("), Append(a, "("))
      /\ Simple(Expect({")"}), Append(a, "("), a)
  BY OpenFits, CallFits, Names, CloseFits
<1>4. Path0(<<Expect({"("}), Call("parse_expr"), Expect({")"})>>, a, a)
  BY <1>3, PushedOnes, Of3
<1>5. Path0(<<Call("parse_addressof")>>, a, a)
  BY Of1, CallFits, Names
<1>6. Path0(<<Call("parse_deref")>>, a, a)
  BY Of1, CallFits, Names
<1>7. Item1(Switch(<<On({"1", "text"}, <<Call("parse_literal"), Build("x")>>),
         On({"x"}, <<Call("parse_identifier"), Build("x")>>), On({"("},
         <<Expect({"("}), Call("parse_expr"), Expect({")"})>>), On({"&"},
         <<Call("parse_addressof")>>), On({"*"}, <<Call("parse_deref")>>)>>, <<>>),
         a, a)
  BY <1>1, <1>2, <1>4, <1>5, <1>6, Of0, Switch1Of5
<1>. QED
  BY <1>7, Of1 DEF parse_simple_expr

\* parse_member_reference leaves the brackets as it finds them.
LEMMA MemberReferenceFits ==
  ASSUME NEW a \in Stacks
  PROVE  Path0(parse_member_reference, a, a)
BY Of2, SkipFits, Skipped, CallFits, Names DEF parse_member_reference

\* parse_indirect_member_reference leaves the brackets as it finds them.
LEMMA IndirectMemberReferenceFits ==
  ASSUME NEW a \in Stacks
  PROVE  Path0(parse_indirect_member_reference, a, a)
BY Of2, SkipFits, Skipped, CallFits, Names DEF parse_indirect_member_reference

\* parse_array_access leaves the brackets as it finds them.
LEMMA ArrayAccessFits ==
  ASSUME NEW a \in Stacks
  PROVE  Path0(parse_array_access, a, a)
<1>1. /\ Simple(Expect({"["}), a, Append(a, "["))
      /\ Simple(Call("parse_expr"), Append(a, "["), Append(a, "["))
      /\ Simple(Expect({"]"}), Append(a, "["), a)
  BY OpenFits, CallFits, Names, CloseFits
<1>. QED
  BY <1>1, PushedOnes, Of3 DEF parse_array_access

\* parse_value_list leaves the brackets as it finds them.
LEMMA ValueListFits ==
  ASSUME NEW a \in Stacks
  PROVE  Path2(parse_value_list, a, a)
<1>1. Path1(<<Call("parse_expr"), Opt(",")>>, a, a)
  BY Of2, CallFits, Names, OptFits, Skipped
<1>. QED
  BY <1>1, Of1, Loop2 DEF parse_value_list

\* parse_call leaves the brackets as it finds them.
LEMMA FnCallFits ==
  ASSUME NEW a \in Stacks
  PROVE  Path0(parse_call, a, a)
<1>1. /\ Simple(Expect({"("}), a, Append(a, "("))
      /\ Simple(Call("parse_value_list"), Append(a, "("), Append(a, "("))
      /\ Simple(Expect({")"}), Append(a, "("), a)
  BY OpenFits, CallFits, Names, CloseFits
<1>. QED
  BY <1>1, PushedOnes, Of3 DEF parse_call

\* parse_postfix_expr leaves the brackets as it finds them.
LEMMA PostfixExprFits ==
  ASSUME NEW a \in Stacks
  PROVE  Path2(parse_postfix_expr, a, a)
<1>1. Path0(<<Call("parse_array_access")>>, a, a)
  BY Of1, CallFits, Names
<1>2. Path0(<<Call("parse_member_reference")>>, a, a)
  BY Of1, CallFits, Names
<1>3. Path0(<<Call("parse_indirect_member_reference")>>, a, a)
  BY Of1, CallFits, Names
<1>4. Path0(<<Call("parse_call")>>, a, a)
  BY Of1, CallFits, Names
<1>5. Item1(Switch(<<On({"."}, <<Call("parse_member_reference")>>), On({"->"},
         <<Call("parse_indirect_member_reference")>>), On({"("},
         <<Call("parse_call")>>)>>, <<Call("parse_array_access")>>), a, a)
  BY <1>1, <1>2, <1>3, <1>4, Switch1Of3
<1>6. Path1(<<Switch(<<On({"."}, <<Call("parse_member_reference")>>), On({"->"},
         <<Call("parse_indirect_member_reference")>>), On({"("},
         <<Call("parse_call")>>)>>, <<Call("parse_array_access")>>)>>, a, a)
  BY <1>5, Of1
<1>7. Item2(Call("parse_simple_expr"), a, a)
  BY CallFits, Names
<1>8. Item2(While({".", "->", "(", "["}, <<Switch(<<On({"."},
         <<Call("parse_member_reference")>>), On({"->"},
         <<Call("parse_indirect_member_reference")>>), On({"("},
         <<Call("parse_call")>>)>>, <<Call("parse_array_access")>>)>>), a, a)
  BY <1>6, Loop2
<1>. QED
  BY <1>7, <1>8, Of2 DEF parse_postfix_expr

\* parse_designators closes the brace that its caller has consumed.
LEMMA DesignatorsFits ==
  ASSUME NEW a \in Stacks
  PROVE  Path2(parse_designators, Append(a, "{"), a)
<1>1. Path1(<<Slip("initializer")>>, Append(a, "{"), a)
  BY Of1, SlipFits, PushedOnes
<1>2. Path0(<<Expect({"}"})>>, Append(a, "{"), a)
  BY Of1, CloseFits, PushedOnes
<1>3. /\ Simple(Expect({","}), Append(a, "{"), Append(a, "{"))
      /\ Simple(Call("parse_designators"), Append(a, "{"), a)
  BY SkipFits, Skipped, BorrowFits, BorrowNames
<1>4. Path0(<<Expect({","}), Call("parse_designators")>>, Append(a, "{"), a)
  BY <1>3, PushedOnes, Of2
<1>5. /\ Item1(Expect({"."}), Append(a, "{"), Append(a, "{"))
      /\ Item1(Expect({"x"}), Append(a, "{"), Append(a, "{"))
      /\ Item1(Expect({"="}), Append(a, "{"), Append(a, "{"))
      /\ Item1(Call("parse_expr"), Append(a, "{"), Append(a, "{"))
  BY SkipFits, Skipped, CallFits, Names
<1>6. Item1(At({"}"}, <<Expect({"}"})>>, <<Expect({","}),
         Call("parse_designators")>>), Append(a, "{"), a)
  BY <1>2, <1>4, At1
<1>7. Path1(<<Expect({"."}), Expect({"x"}), Expect({"="}), Call("parse_expr"),
         At({"}"}, <<Expect({"}"})>>, <<Expect({","}),
         Call("parse_designators")>>)>>, Append(a, "{"), a)
  BY <1>5, <1>6, PushedOnes, Of5
<1>. QED
  BY <1>1, <1>7, Of1, At2, PushedOnes DEF parse_designators

\* parse_initializer leaves the brackets as it finds them.
LEMMA InitializerFits ==
  ASSUME NEW a \in Stacks
  PROVE  Path0(parse_initializer, a, a)
<1>1. /\ Simple(Expect({"{"}), a, Append(a, "{"))
      /\ Simple(Call("parse_designators"), Append(a, "{"), a)
  BY OpenFits, BorrowFits, BorrowNames
<1>. QED
  BY <1>1, PushedOnes, Of2 DEF parse_initializer

\* parse_expr leaves the brackets as it finds them.
LEMMA ExprFits ==
  ASSUME NEW a \in Stacks
  PROVE  Path1(parse_expr, a, a)
<1>1. Path0(<<Expect({"is"}), Call("parse_type_decl")>>, a, a)
  BY Of2, SkipFits, Skipped, CallFits, Names
<1>2. Path0(<<Call("parse_initializer")>>, a, a)
  BY Of1, CallFits, Names
<1>3. /\ Item1(Call("parse_postfix_expr"), a, a)
      /\ Item1(BinOp(0), a, a)
  BY CallFits, Names, NodeFits
<1>4. Item1(Switch(<<On({"is"}, <<Expect({"is"}), Call("parse_type_decl")>>),
         On({"{"}, <<Call("parse_initializer")>>)>>, <<>>), a, a)
  BY <1>1, <1>2, Of0, Switch1Of2
<1>. QED
  BY <1>3, <1>4, Of3 DEF parse_expr

\* parse_assign leaves the brackets as it finds them.
LEMMA AssignFits ==
  ASSUME NEW a \in Stacks
  PROVE  Path0(parse_assign, a, a)
BY Of2, SkipFits, Skipped, CallFits, Names DEF parse_assign

\* parse_expr_statement leaves the brackets as it finds them.
LEMMA ExprStatementFits ==
  ASSUME NEW a \in Stacks
  PROVE  Path1(parse_expr_statement, a, a)
<1>1. Path0(<<Call("parse_assign")>>, a, a)
  BY Of1, CallFits, Names
<1>2. Item1(Call("parse_expr"), a, a)
  BY CallFits, Names
<1>3. Item1(At(AssignTokens, <<Call("parse_assign")>>, <<>>), a, a)
  BY <1>1, Of0, At1
<1>. QED
  BY <1>2, <1>3, Of2 DEF parse_expr_statement

\* parse_let leaves the brackets as it finds them.
LEMMA LetFits ==
  ASSUME NEW a \in Stacks
  PROVE  Path2(parse_let, a, a)
<1>1. Path0(<<Expect({"="}), Call("parse_expr")>>, a, a)
  BY Of2, SkipFits, Skipped, CallFits, Names
<1>2. /\ Item1(Expect({":"}), a, a)
      /\ Item1(Call("parse_type_decl_or_empty"), a, a)
  BY SkipFits, Skipped, CallFits, Names
<1>3. Item1(At({"="}, <<Expect({"="}), Call("parse_expr")>>, <<>>), a, a)
  BY <1>1, Of0, At1
<1>4. Path1(<<Expect({":"}), Call("parse_type_decl_or_empty"), At({"="},
         <<Expect({"="}), Call("parse_expr")>>, <<>>)>>, a, a)
  BY <1>2, <1>3, Of3
<1>5. Path1(<<Expect({"="}), Call("parse_expr")>>, a, a)
  BY Of2, SkipFits, Skipped, CallFits, Names
<1>6. /\ Item2(Expect({"let"}), a, a)
      /\ Item2(Call("parse_identifier"), a, a)
  BY SkipFits, Skipped, CallFits, Names
<1>7. Item2(At({":"}, <<Expect({":"}), Call("parse_type_decl_or_empty"),
         At({"="}, <<Expect({"="}), Call("parse_expr")>>, <<>>)>>, <<Expect({"="}),
         Call("parse_expr")>>), a, a)
  BY <1>4, <1>5, At2
<1>. QED
  BY <1>6, <1>7, Of3 DEF parse_let

\* parse_block leaves the brackets as it finds them.
LEMMA BlockFits ==
  ASSUME NEW a \in Stacks
  PROVE  Path1(parse_block, a, a)
<1>1. Path0(<<Call("parse_statement")>>, Append(a, "{"), Append(a, "{"))
  BY Of1, CallFits, Names, PushedOnes
<1>2. /\ Item1(Expect({"{"}), a, Append(a, "{"))
      /\ Item1(Expect({"}"}), Append(a, "{"), a)
  BY OpenFits, CloseFits
<1>3. Item1(Until({"}"}, <<Call("parse_statement")>>), Append(a, "{"), Append(a,
         "{"))
  BY <1>1, Loop1
<1>. QED
  BY <1>2, <1>3, PushedOnes, Of3 DEF parse_block

\* parse_while leaves the brackets as it finds them.
LEMMA WhileFits ==
  ASSUME NEW a \in Stacks
  PROVE  Path1(parse_while, a, a)
<1>1. /\ Item1(Expect({"while"}), a, a)
      /\ Item1(Condition, a, a)
      /\ Item1(Call("parse_statement"), a, a)
  BY SkipFits, Skipped, ConditionFits, CallFits, Names
<1>. QED
  BY <1>1, Of3 DEF parse_while

\* parse_switch leaves the brackets as it finds them.
LEMMA SwitchFits ==
  ASSUME NEW a \in Stacks
  PROVE  Path0(parse_switch, a, a)
<1>1. /\ Simple(Expect({"switch"}), a, a)
      /\ Simple(Expect({"("}), a, Append(a, "("))
      /\ Simple(Call("parse_expr"), Append(a, "("), Append(a, "("))
      /\ Simple(Expect({")"}), Append(a, "("), a)
      /\ Simple(Call("parse_block"), a, a)
  BY SkipFits, Skipped, OpenFits, CallFits, Names, CloseFits
<1>. QED
  BY <1>1, PushedOnes, Of5 DEF parse_switch

\* parse_if_arrow leaves the brackets as it finds them.
LEMMA IfArrowFits ==
  ASSUME NEW a \in Stacks
  PROVE  Path0(parse_if_arrow, a, a)
<1>1. /\ Simple(Expect({"=>"}), a, a)
      /\ Simple(Expect({"("}), a, Append(a, "("))
      /\ Simple(Call("parse_function_parameter_list"), Append(a, "("), Append(a,
             "("))
      /\ Simple(Expect({")"}), Append(a, "("), a)
      /\ Simple(Call("parse_block"), a, a)
  BY SkipFits, Skipped, OpenFits, CallFits, Names, CloseFits
<1>. QED
  BY <1>1, PushedOnes, Of5 DEF parse_if_arrow

\* parse_if_block leaves the brackets as it finds them.
LEMMA IfBlockFits ==
  ASSUME NEW a \in Stacks
  PROVE  Path1(parse_if_block, a, a)
<1>1. Path0(<<Call("parse_if_arrow")>>, a, a)
  BY Of1, CallFits, Names
<1>2. Path0(<<Call("parse_statement")>>, a, a)
  BY Of1, CallFits, Names
<1>. QED
  BY <1>1, <1>2, Of1, At1 DEF parse_if_block

\* parse_case leaves the brackets as it finds them.
LEMMA CaseFits ==
  ASSUME NEW a \in Stacks
  PROVE  Path1(parse_case, a, a)
<1>1. /\ Item1(Expect({"case"}), a, a)
      /\ Item1(Call("parse_const_expr"), a, a)
      /\ Item1(Opt(":"), a, a)
      /\ Item1(Call("parse_if_block"), a, a)
  BY SkipFits, Skipped, CallFits, Names, OptFits
<1>. QED
  BY <1>1, Of4 DEF parse_case

\* parse_default leaves the brackets as it finds them.
LEMMA DefaultFits ==
  ASSUME NEW a \in Stacks
  PROVE  Path1(parse_default, a, a)
<1>1. /\ Item1(Expect({"default"}), a, a)
      /\ Item1(Opt(":"), a, a)
      /\ Item1(Call("parse_statement"), a, a)
  BY SkipFits, Skipped, OptFits, CallFits, Names
<1>. QED
  BY <1>1, Of3 DEF parse_default

\* parse_else leaves the brackets as it finds them.
LEMMA ElseFits ==
  ASSUME NEW a \in Stacks
  PROVE  Path0(parse_else, a, a)
BY Of2, SkipFits, Skipped, CallFits, Names DEF parse_else

\* parse_if leaves the brackets as it finds them.
LEMMA IfFits ==
  ASSUME NEW a \in Stacks
  PROVE  Path1(parse_if, a, a)
<1>1. Path0(<<Call("parse_else")>>, a, a)
  BY Of1, CallFits, Names
<1>2. /\ Item1(Expect({"if"}), a, a)
      /\ Item1(Condition, a, a)
  BY SkipFits, Skipped, ConditionFits
<1>3. Item1(Attempt("parse_if_block"), a, a)
  BY AttemptFits, Names
<1>4. Item1(At({"else"}, <<Call("parse_else")>>, <<>>), a, a)
  BY <1>1, Of0, At1
<1>. QED
  BY <1>2, <1>3, <1>4, Of4 DEF parse_if

\* parse_for leaves the brackets as it finds them.
LEMMA ForFits ==
  ASSUME NEW a \in Stacks
  PROVE  Path0(parse_for, a, a)
<1>1. /\ Simple(Expect({"for"}), a, a)
      /\ Simple(Expect({"("}), a, Append(a, "("))
      /\ Simple(Call("parse_statement"), Append(a, "("), Append(a, "("))
      /\ Simple(Call("parse_expr"), Append(a, "("), Append(a, "("))
      /\ Simple(Expect({";"}), Append(a, "("), Append(a, "("))
      /\ Simple(Call("parse_expr_statement"), Append(a, "("), Append(a, "("))
      /\ Simple(Expect({")"}), Append(a, "("), a)
      /\ Simple(Call("parse_statement"), a, a)
  BY SkipFits, Skipped, OpenFits, CallFits, Names, CloseFits
<1>. QED
  BY <1>1, PushedOnes, Of8 DEF parse_for

\* parse_statement leaves the brackets as it finds them.
LEMMA StatementFits ==
  ASSUME NEW a \in Stacks
  PROVE  Path1(parse_statement, a, a)
<1>1. Path0(<<Call("parse_expr_statement"), StatementEnd>>, a, a)
  BY Of2, CallFits, Names, SkipFits, Skipped DEF StatementEnd
<1>2. /\ Simple(Expect({"return"}), a, a)
      /\ Simple(Call("parse_expr"), a, a)
      /\ Simple(StatementEnd, a, a)
  BY SkipFits, Skipped, CallFits, Names DEF StatementEnd
<1>3. Path0(<<Expect({"return"}), Call("parse_expr"), StatementEnd>>, a, a)
  BY <1>2, Of3
<1>4. Path0(<<Call("parse_while")>>, a, a)
  BY Of1, CallFits, Names
<1>5. Path0(<<Call("parse_let"), StatementEnd>>, a, a)
  BY Of2, CallFits, Names, SkipFits, Skipped DEF StatementEnd
<1>6. Path0(<<Call("parse_switch")>>, a, a)
  BY Of1, CallFits, Names
<1>7. Path0(<<Call("parse_default")>>, a, a)
  BY Of1, CallFits, Names
<1>8. Path0(<<Call("parse_case")>>, a, a)
  BY Of1, CallFits, Names
<1>9. Path0(<<Call("parse_if")>>, a, a)
  BY Of1, CallFits, Names
<1>10. Path0(<<Call("parse_for")>>, a, a)
  BY Of1, CallFits, Names
<1>11. Path0(<<Call("parse_block")>>, a, a)
  BY Of1, CallFits, Names
<1>12. Item1(Switch(<<On({"return"}, <<Expect({"return"}), Call("parse_expr"),
         StatementEnd>>), On({"while"}, <<Call("parse_while")>>), On({"let"},
         <<Call("parse_let"), StatementEnd>>), On({"switch"},
         <<Call("parse_switch")>>), On({"default"}, <<Call("parse_default")>>),
         On({"case"}, <<Call("parse_case")>>), On({"if"}, <<Call("parse_if")>>),
         On({"for"}, <<Call("parse_for")>>), On({"{"}, <<Call("parse_block")>>)>>,
         <<Call("parse_expr_statement"), StatementEnd>>), a, a)
  <2>. DEFINE arms ==
         <<On({"return"}, <<Expect({"return"}), Call("parse_expr"), StatementEnd>>),
           On({"while"}, <<Call("parse_while")>>),
           On({"let"}, <<Call("parse_let"), StatementEnd>>),
           On({"switch"}, <<Call("parse_switch")>>),
           On({"default"}, <<Call("parse_default")>>),
           On({"case"}, <<Call("parse_case")>>),
           On({"if"}, <<Call("parse_if")>>),
           On({"for"}, <<Call("parse_for")>>),
           On({"{"}, <<Call("parse_block")>>)>>
  <2>1. DOMAIN arms = 1..9
    OBVIOUS
  <2>2. /\ arms[1][2] = <<Expect({"return"}), Call("parse_expr"), StatementEnd>>
        /\ arms[2][2] = <<Call("parse_while")>>
        /\ arms[3][2] = <<Call("parse_let"), StatementEnd>>
        /\ arms[4][2] = <<Call("parse_switch")>>
        /\ arms[5][2] = <<Call("parse_default")>>
        /\ arms[6][2] = <<Call("parse_case")>>
        /\ arms[7][2] = <<Call("parse_if")>>
        /\ arms[8][2] = <<Call("parse_for")>>
        /\ arms[9][2] = <<Call("parse_block")>>
    BY DEF On
  <2>. HIDE DEF arms
  <2>3. \A k \in DOMAIN arms : Path0(arms[k][2], a, a)
    BY <2>1, <2>2, <1>1, <1>3, <1>4, <1>5, <1>6, <1>7, <1>8, <1>9, <1>10, <1>11
  <2>. QED  BY <2>3, <1>1, Switch1 DEF arms
<1>. QED
  BY <1>12, Of1 DEF parse_statement

\* parse_fn_param leaves the brackets as it finds them.
LEMMA FnParamFits ==
  ASSUME NEW a \in Stacks
  PROVE  Path1(parse_fn_param, a, a)
<1>1. Path0(<<Expect({"..."})>>, a, a)
  BY Of1, SkipFits, Skipped
<1>2. Path0(<<Call("parse_non_var_arg_fn_param")>>, a, a)
  BY Of1, CallFits, Names
<1>. QED
  BY <1>1, <1>2, Of1, At1 DEF parse_fn_param

\* parse_non_var_arg_fn_param leaves the brackets as it finds them.
LEMMA NonVarArgFnParamFits ==
  ASSUME NEW a \in Stacks
  PROVE  Path0(parse_non_var_arg_fn_param, a, a)
<1>1. /\ Simple(Call("parse_identifier"), a, a)
      /\ Simple(Expect({":"}), a, a)
      /\ Simple(Call("parse_type_decl"), a, a)
  BY CallFits, Names, SkipFits, Skipped
<1>. QED
  BY <1>1, Of3 DEF parse_non_var_arg_fn_param

\* parse_function_parameter_list leaves the brackets as it finds them.
LEMMA FunctionParameterListFits ==
  ASSUME NEW a \in Stacks
  PROVE  Path2(parse_function_parameter_list, a, a)
<1>1. Path1(<<Call("parse_fn_param"), Opt(",")>>, a, a)
  BY Of2, CallFits, Names, OptFits, Skipped
<1>. QED
  BY <1>1, Of1, Loop2 DEF parse_function_parameter_list

\* parse_function_proto leaves the brackets as it finds them.
LEMMA FunctionProtoFits ==
  ASSUME NEW a \in Stacks
  PROVE  Path1(parse_function_proto, a, a)
<1>1. Path0(<<Expect({":"}), Call("parse_type_decl")>>, a, a)
  BY Of2, SkipFits, Skipped, CallFits, Names
<1>2. /\ Item1(Call("parse_identifier"), a, a)
      /\ Item1(Expect({"("}), a, Append(a, "("))
      /\ Item1(Call("parse_function_parameter_list"), Append(a, "("), Append(a,
             "("))
      /\ Item1(Expect({")"}), Append(a, "("), a)
  BY CallFits, Names, OpenFits, CloseFits
<1>3. Item1(At({":"}, <<Expect({":"}), Call("parse_type_decl")>>, <<>>), a, a)
  BY <1>1, Of0, At1
<1>. QED
  BY <1>2, <1>3, PushedOnes, Of5 DEF parse_function_proto

\* parse_extern_function leaves the brackets as it finds them.
LEMMA ExternFunctionFits ==
  ASSUME NEW a \in Stacks
  PROVE  Path0(parse_extern_function, a, a)
<1>1. /\ Simple(Expect({"extern"}), a, a)
      /\ Simple(Expect({"fn"}), a, a)
      /\ Simple(Call("parse_function_proto"), a, a)
      /\ Simple(Expect({";"}), a, a)
  BY SkipFits, Skipped, CallFits, Names
<1>. QED
  BY <1>1, Of4 DEF parse_extern_function

\* parse_function leaves the brackets as it finds them.
LEMMA FunctionFits ==
  ASSUME NEW a \in Stacks
  PROVE  Path0(parse_function, a, a)
<1>1. /\ Simple(Expect({"fn"}), a, a)
      /\ Simple(Call("parse_function_proto"), a, a)
      /\ Simple(Call("parse_block"), a, a)
  BY SkipFits, Skipped, CallFits, Names
<1>. QED
  BY <1>1, Of3 DEF parse_function

\* parse_struct_members closes the brace that its caller has consumed.
LEMMA StructMembersFits ==
  ASSUME NEW a \in Stacks
  PROVE  Path2(parse_struct_members, Append(a, "{"), a)
<1>1. Path1(<<Expect({"}"})>>, Append(a, "{"), a)
  BY Of1, CloseFits, PushedOnes
<1>2. Path0(<<Expect({"}"})>>, Append(a, "{"), a)
  BY Of1, CloseFits, PushedOnes
<1>3. /\ Simple(Expect({";"}), Append(a, "{"), Append(a, "{"))
      /\ Simple(Call("parse_struct_members"), Append(a, "{"), a)
  BY SkipFits, Skipped, BorrowFits, BorrowNames
<1>4. Path0(<<Expect({";"}), Call("parse_struct_members")>>, Append(a, "{"), a)
  BY <1>3, PushedOnes, Of2
<1>5. /\ Item1(Expect({"x"}), Append(a, "{"), Append(a, "{"))
      /\ Item1(Expect({":"}), Append(a, "{"), Append(a, "{"))
      /\ Item1(Call("parse_type_decl"), Append(a, "{"), Append(a, "{"))
  BY SkipFits, Skipped, CallFits, Names
<1>6. Item1(At({"}"}, <<Expect({"}"})>>, <<Expect({";"}),
         Call("parse_struct_members")>>), Append(a, "{"), a)
  BY <1>2, <1>4, At1
<1>7. Path1(<<Expect({"x"}), Expect({":"}), Call("parse_type_decl"), At({"}"},
         <<Expect({"}"})>>, <<Expect({";"}), Call("parse_struct_members")>>)>>,
         Append(a, "{"), a)
  BY <1>5, <1>6, PushedOnes, Of4
<1>. QED
  BY <1>1, <1>7, Of1, At2, PushedOnes DEF parse_struct_members

\* parse_struct_body leaves the brackets as it finds them.
LEMMA StructBodyFits ==
  ASSUME NEW a \in Stacks
  PROVE  Path0(parse_struct_body, a, a)
<1>1. /\ Simple(Expect({"{"}), a, Append(a, "{"))
      /\ Simple(Call("parse_struct_members"), Append(a, "{"), a)
  BY OpenFits, BorrowFits, BorrowNames
<1>. QED
  BY <1>1, PushedOnes, Of2 DEF parse_struct_body

\* parse_struct leaves the brackets as it finds them.
LEMMA StructFits ==
  ASSUME NEW a \in Stacks
  PROVE  Path0(parse_struct, a, a)
<1>1. /\ Simple(Expect({"struct"}), a, a)
      /\ Simple(Expect({"x"}), a, a)
      /\ Simple(Call("parse_struct_body"), a, a)
  BY SkipFits, Skipped, CallFits, Names
<1>. QED
  BY <1>1, Of3 DEF parse_struct

\* parse_union leaves the brackets as it finds them.
LEMMA UnionFits ==
  ASSUME NEW a \in Stacks
  PROVE  Path1(parse_union, a, a)
<1>1. /\ Simple(Expect({"x"}), Append(a, "{"), Append(a, "{"))
      /\ Simple(Expect({":"}), Append(a, "{"), Append(a, "{"))
      /\ Simple(Call("parse_type_decl"), Append(a, "{"), Append(a, "{"))
      /\ Simple(Expect({";"}), Append(a, "{"), Append(a, "{"))
  BY SkipFits, Skipped, CallFits, Names
<1>2. Path0(<<Expect({"x"}), Expect({":"}), Call("parse_type_decl"),
         Expect({";"})>>, Append(a, "{"), Append(a, "{"))
  BY <1>1, PushedOnes, Of4
<1>3. /\ Item1(Expect({"union"}), a, a)
      /\ Item1(Expect({"x"}), a, a)
      /\ Item1(Expect({"{"}), a, Append(a, "{"))
      /\ Item1(Expect({"}"}), Append(a, "{"), a)
  BY SkipFits, Skipped, OpenFits, CloseFits
<1>4. Item1(Until({"}"}, <<Expect({"x"}), Expect({":"}), Call("parse_type_decl"),
         Expect({";"})>>), Append(a, "{"), Append(a, "{"))
  BY <1>2, Loop1
<1>. QED
  BY <1>3, <1>4, PushedOnes, Of5 DEF parse_union

\* parse_enum leaves the brackets as it finds them.
LEMMA EnumFits ==
  ASSUME NEW a \in Stacks
  PROVE  Path2(parse_enum, a, a)
<1>1. Path0(<<Expect({","})>>, Append(a, "{"), Append(a, "{"))
  BY Of1, SkipFits, Skipped, PushedOnes
<1>2. Path0(<<Call("parse_struct_body")>>, Append(a, "{"), Append(a, "{"))
  BY Of1, CallFits, Names, PushedOnes
<1>3. Item1(Expect({"x"}), Append(a, "{"), Append(a, "{"))
  BY SkipFits, Skipped
<1>4. Item1(At({","}, <<Expect({","})>>, <<Call("parse_struct_body")>>),
         Append(a, "{"), Append(a, "{"))
  BY <1>1, <1>2, At1
<1>5. Path1(<<Expect({"x"}), At({","}, <<Expect({","})>>,
         <<Call("parse_struct_body")>>)>>, Append(a, "{"), Append(a, "{"))
  BY <1>3, <1>4, PushedOnes, Of2
<1>6. /\ Item2(Expect({"enum"}), a, a)
      /\ Item2(Expect({"x"}), a, a)
      /\ Item2(Expect({"{"}), a, Append(a, "{"))
      /\ Item2(Expect({"}"}), Append(a, "{"), a)
  BY SkipFits, Skipped, OpenFits, CloseFits
<1>7. Item2(Until({"}"}, <<Expect({"x"}), At({","}, <<Expect({","})>>,
         <<Call("parse_struct_body")>>)>>), Append(a, "{"), Append(a, "{"))
  BY <1>5, Loop2
<1>. QED
  BY <1>6, <1>7, PushedOnes, Of5 DEF parse_enum

\* parse_module_top_level_item leaves the brackets as it finds them.
LEMMA ModuleTopLevelItemFits ==
  ASSUME NEW a \in Stacks
  PROVE  Path1(parse_module_top_level_item, a, a)
<1>1. Path0(<<Fail>>, a, a)
  BY Of1, FailFits
<1>2. Path0(<<Call("parse_extern_function")>>, a, a)
  BY Of1, CallFits, Names
<1>3. Path0(<<Call("parse_function")>>, a, a)
  BY Of1, CallFits, Names
<1>4. Path0(<<Call("parse_struct")>>, a, a)
  BY Of1, CallFits, Names
<1>5. Path0(<<Call("parse_union")>>, a, a)
  BY Of1, CallFits, Names
<1>6. Path0(<<Call("parse_enum")>>, a, a)
  BY Of1, CallFits, Names
<1>7. Item1(Switch(<<On({"extern"}, <<Call("parse_extern_function")>>),
         On({"fn"}, <<Call("parse_function")>>), On({"struct"},
         <<Call("parse_struct")>>), On({"union"}, <<Call("parse_union")>>),
         On({"enum"}, <<Call("parse_enum")>>)>>, <<Fail>>), a, a)
  BY <1>1, <1>2, <1>3, <1>4, <1>5, <1>6, Switch1Of5
<1>. QED
  BY <1>7, Of1 DEF parse_module_top_level_item

\* parse leaves the brackets as it finds them.
LEMMA FileFits ==
  ASSUME NEW a \in Stacks
  PROVE  Path1(parse, a, a)
<1>1. Path0(<<Call("parse_module_top_level_item")>>, a, a)
  BY Of1, CallFits, Names
<1>. QED
  BY <1>1, Of1, Loop1 DEF parse

-----------------------------------------------------------------------------
\* Every parse function leaves the brackets as it finds them; only the two inner
\* loops close the brace they start in.
LEMMA FunctionsFit ==
  ASSUME NEW a \in Stacks, NEW f \in DOMAIN Functions
  PROVE  Path3(Functions[f], Before(f, a), a)
<1>1. CASE f \in {"parse_identifier", "parse_literal", "parse_deref",
                   "parse_addressof", "parse_member_reference",
                   "parse_indirect_member_reference", "parse_array_access",
                   "parse_call"}
  <2>1. /\ Path3(parse_identifier, a, a)
        /\ Path3(parse_literal, a, a)
        /\ Path3(parse_deref, a, a)
        /\ Path3(parse_addressof, a, a)
        /\ Path3(parse_member_reference, a, a)
        /\ Path3(parse_indirect_member_reference, a, a)
        /\ Path3(parse_array_access, a, a)
        /\ Path3(parse_call, a, a)
    BY IdentifierFits, LiteralFits, DerefFits, AddressofFits,
        MemberReferenceFits, IndirectMemberReferenceFits, ArrayAccessFits,
        FnCallFits, Path0Up, Path1Up, Path2Up
  <2>2. /\ Functions["parse_identifier"] = parse_identifier
        /\ Functions["parse_literal"] = parse_literal
        /\ Functions["parse_deref"] = parse_deref
        /\ Functions["parse_addressof"] = parse_addressof
        /\ Functions["parse_member_reference"] = parse_member_reference
        /\ Functions["parse_indirect_member_reference"] = parse_indirect_member_reference
        /\ Functions["parse_array_access"] = parse_array_access
        /\ Functions["parse_call"] = parse_call
    BY DEF Functions
  <2>3. Before(f, a) = a
    BY <1>1 DEF Before, InnerLoops
  <2>. QED  BY <1>1, <2>1, <2>2, <2>3
<1>2. CASE f \in {"parse_initializer", "parse_assign", "parse_switch",
                   "parse_if_arrow", "parse_else", "parse_for",
                   "parse_non_var_arg_fn_param", "parse_extern_function"}
  <2>1. /\ Path3(parse_initializer, a, a)
        /\ Path3(parse_assign, a, a)
        /\ Path3(parse_switch, a, a)
        /\ Path3(parse_if_arrow, a, a)
        /\ Path3(parse_else, a, a)
        /\ Path3(parse_for, a, a)
        /\ Path3(parse_non_var_arg_fn_param, a, a)
        /\ Path3(parse_extern_function, a, a)
    BY InitializerFits, AssignFits, SwitchFits, IfArrowFits, ElseFits, ForFits,
        NonVarArgFnParamFits, ExternFunctionFits, Path0Up, Path1Up, Path2Up
  <2>2. /\ Functions["parse_initializer"] = parse_initializer
        /\ Functions["parse_assign"] = parse_assign
        /\ Functions["parse_switch"] = parse_switch
        /\ Functions["parse_if_arrow"] = parse_if_arrow
        /\ Functions["parse_else"] = parse_else
        /\ Functions["parse_for"] = parse_for
        /\ Functions["parse_non_var_arg_fn_param"] = parse_non_var_arg_fn_param
        /\ Functions["parse_extern_function"] = parse_extern_function
    BY DEF Functions
  <2>3. Before(f, a) = a
    BY <1>2 DEF Before, InnerLoops
  <2>. QED  BY <1>2, <2>1, <2>2, <2>3
<1>3. CASE f \in {"parse_function", "parse_struct_body", "parse_struct"}
  <2>1. /\ Path3(parse_function, a, a)
        /\ Path3(parse_struct_body, a, a)
        /\ Path3(parse_struct, a, a)
    BY FunctionFits, StructBodyFits, StructFits, Path0Up, Path1Up, Path2Up
  <2>2. /\ Functions["parse_function"] = parse_function
        /\ Functions["parse_struct_body"] = parse_struct_body
        /\ Functions["parse_struct"] = parse_struct
    BY DEF Functions
  <2>3. Before(f, a) = a
    BY <1>3 DEF Before, InnerLoops
  <2>. QED  BY <1>3, <2>1, <2>2, <2>3
<1>4. CASE f \in {"parse_name_parts", "parse_const_expr", "parse_simple_expr",
                   "parse_expr", "parse_expr_statement", "parse_block",
                   "parse_while", "parse_if_block"}
  <2>1. /\ Path3(parse_name_parts, a, a)
        /\ Path3(parse_const_expr, a, a)
        /\ Path3(parse_simple_expr, a, a)
        /\ Path3(parse_expr, a, a)
        /\ Path3(parse_expr_statement, a, a)
        /\ Path3(parse_block, a, a)
        /\ Path3(parse_while, a, a)
        /\ Path3(parse_if_block, a, a)
    BY NamePartsFits, ConstExprFits, SimpleExprFits, ExprFits,
        ExprStatementFits, BlockFits, WhileFits, IfBlockFits, Path1Up, Path2Up
  <2>2. /\ Functions["parse_name_parts"] = parse_name_parts
        /\ Functions["parse_const_expr"] = parse_const_expr
        /\ Functions["parse_simple_expr"] = parse_simple_expr
        /\ Functions["parse_expr"] = parse_expr
        /\ Functions["parse_expr_statement"] = parse_expr_statement
        /\ Functions["parse_block"] = parse_block
        /\ Functions["parse_while"] = parse_while
        /\ Functions["parse_if_block"] = parse_if_block
    BY DEF Functions
  <2>3. Before(f, a) = a
    BY <1>4 DEF Before, InnerLoops
  <2>. QED  BY <1>4, <2>1, <2>2, <2>3
<1>5. CASE f \in {"parse_case", "parse_default", "parse_if", "parse_statement",
                   "parse_fn_param", "parse_function_proto", "parse_union",
                   "parse_module_top_level_item"}
  <2>1. /\ Path3(parse_case, a, a)
        /\ Path3(parse_default, a, a)
        /\ Path3(parse_if, a, a)
        /\ Path3(parse_statement, a, a)
        /\ Path3(parse_fn_param, a, a)
        /\ Path3(parse_function_proto, a, a)
        /\ Path3(parse_union, a, a)
        /\ Path3(parse_module_top_level_item, a, a)
    BY CaseFits, DefaultFits, IfFits, StatementFits, FnParamFits,
        FunctionProtoFits, UnionFits, ModuleTopLevelItemFits, Path1Up, Path2Up
  <2>2. /\ Functions["parse_case"] = parse_case
        /\ Functions["parse_default"] = parse_default
        /\ Functions["parse_if"] = parse_if
        /\ Functions["parse_statement"] = parse_statement
        /\ Functions["parse_fn_param"] = parse_fn_param
        /\ Functions["parse_function_proto"] = parse_function_proto
        /\ Functions["parse_union"] = parse_union
        /\ Functions["parse_module_top_level_item"] = parse_module_top_level_item
    BY DEF Functions
  <2>3. Before(f, a) = a
    BY <1>5 DEF Before, InnerLoops
  <2>. QED  BY <1>5, <2>1, <2>2, <2>3
<1>6. CASE f \in {"parse"}
  <2>1. /\ Path3(parse, a, a)
    BY FileFits, Path1Up, Path2Up
  <2>2. /\ Functions["parse"] = parse
    BY DEF Functions
  <2>3. Before(f, a) = a
    BY <1>6 DEF Before, InnerLoops
  <2>. QED  BY <1>6, <2>1, <2>2, <2>3
<1>7. CASE f \in {"parse_value_list", "parse_postfix_expr", "parse_let",
                   "parse_function_parameter_list", "parse_enum"}
  <2>1. /\ Path3(parse_value_list, a, a)
        /\ Path3(parse_postfix_expr, a, a)
        /\ Path3(parse_let, a, a)
        /\ Path3(parse_function_parameter_list, a, a)
        /\ Path3(parse_enum, a, a)
    BY ValueListFits, PostfixExprFits, LetFits, FunctionParameterListFits,
        EnumFits, Path2Up
  <2>2. /\ Functions["parse_value_list"] = parse_value_list
        /\ Functions["parse_postfix_expr"] = parse_postfix_expr
        /\ Functions["parse_let"] = parse_let
        /\ Functions["parse_function_parameter_list"] = parse_function_parameter_list
        /\ Functions["parse_enum"] = parse_enum
    BY DEF Functions
  <2>3. Before(f, a) = a
    BY <1>7 DEF Before, InnerLoops
  <2>. QED  BY <1>7, <2>1, <2>2, <2>3
<1>8. CASE f \in {"parse_type_decl", "parse_type_decl_or_empty"}
  <2>1. /\ Path3(parse_type_decl, a, a)
        /\ Path3(parse_type_decl_or_empty, a, a)
    BY TypeDeclFits DEF parse_type_decl, parse_type_decl_or_empty
  <2>2. /\ Functions["parse_type_decl"] = parse_type_decl
        /\ Functions["parse_type_decl_or_empty"] = parse_type_decl_or_empty
    BY DEF Functions
  <2>3. Before(f, a) = a
    BY <1>8 DEF Before, InnerLoops
  <2>. QED  BY <1>8, <2>1, <2>2, <2>3
<1>9. CASE f \in InnerLoops
  <2>1. /\ Path3(parse_designators, Append(a, "{"), a)
        /\ Path3(parse_struct_members, Append(a, "{"), a)
    BY DesignatorsFits, StructMembersFits, Path2Up
  <2>2. /\ Functions["parse_designators"] = parse_designators
        /\ Functions["parse_struct_members"] = parse_struct_members
    BY DEF Functions
  <2>. QED  BY <1>9, <2>1, <2>2 DEF Before, InnerLoops
<1>. QED
  BY <1>1, <1>2, <1>3, <1>4, <1>5, <1>6, <1>7, <1>8, <1>9 DEF Functions,
      InnerLoops

-----------------------------------------------------------------------------
(* Lists that fit.                                                          *)

\* A list is a sequence of its items.
LEMMA ListIsSeq ==
  ASSUME NEW s, IsList(s)
  PROVE  s \in Seq({s[k] : k \in 1..Len(s)})
BY DEF IsList

\* A sequence is a list.
LEMMA SeqIsList ==
  ASSUME NEW X, NEW s \in Seq(X)
  PROVE  IsList(s)
BY DEF IsList

\* Nothing left to do leaves the brackets as they are.
LEMMA PathNil ==
  ASSUME NEW a, NEW b, Path3(<<>>, a, b)
  PROVE  a = b
BY DEF Path3, Along

\* What is left to do is its first item and what fits after it.
LEMMA PathHead ==
  ASSUME NEW s, NEW a, NEW b, Path3(s, a, b), s # <<>>
  PROVE  /\ a \in Stacks /\ b \in Stacks
         /\ \E c \in Stacks : Item3(Head(s), a, c) /\ Path3(Tail(s), c, b)
<1>1. PICK W \in [1..Len(s) + 1 -> Stacks] :
        /\ W[1] = a /\ W[Len(s) + 1] = b
        /\ \A k \in 1..Len(s) : Item3(s[k], W[k], W[k + 1])
  BY DEF Path3, Along
<1>2. IsList(s) /\ Len(s) \in Nat /\ Len(s) > 0
  BY ListIsSeq, EmptySeq DEF Path3, Along, IsList
<1>. DEFINE S == {s[k] : k \in 1..Len(s)}  V == [k \in 1..Len(s) |-> W[k + 1]]
<1>3. s \in Seq(S)
  BY <1>2, ListIsSeq
<1>4. /\ Head(s) = s[1] /\ Tail(s) \in Seq(S) /\ Len(Tail(s)) = Len(s) - 1
      /\ \A k \in 1..Len(s) - 1 : Tail(s)[k] = s[k + 1]
  <2>. HIDE DEF S
  <2>. QED  BY <1>2, <1>3
<1>5. /\ V \in [1..Len(s) -> Stacks] /\ V[1] = W[2] /\ V[Len(s)] = b
      /\ \A k \in 1..Len(s) : V[k] = W[k + 1]
  BY <1>1, <1>2
<1>. HIDE DEF S, V
<1>6. IsList(Tail(s))
  BY <1>4, SeqIsList
<1>7. Along(Item3, Tail(s), W[2], b)
  <2>1. \A k \in 1..Len(Tail(s)) : Item3(Tail(s)[k], V[k], V[k + 1])
    BY <1>1, <1>2, <1>4, <1>5
  <2>. QED  BY <1>2, <1>4, <1>5, <1>6, <2>1 DEF Along
<1>8. W[2] \in Stacks /\ Item3(s[1], a, W[2]) /\ a \in Stacks /\ b \in Stacks
  BY <1>1, <1>2
<1>. QED  BY <1>4, <1>7, <1>8 DEF Path3

\* What fits up to a stack and from it on fits one after the other.
LEMMA PathConcat ==
  ASSUME NEW s, NEW t, NEW a, NEW b, NEW c, Path3(s, a, b), Path3(t, b, c)
  PROVE  Path3(s \o t, a, c)
<1>1. PICK V \in [1..Len(s) + 1 -> Stacks] :
        /\ V[1] = a /\ V[Len(s) + 1] = b
        /\ \A k \in 1..Len(s) : Item3(s[k], V[k], V[k + 1])
  BY DEF Path3, Along
<1>2. PICK W \in [1..Len(t) + 1 -> Stacks] :
        /\ W[1] = b /\ W[Len(t) + 1] = c
        /\ \A k \in 1..Len(t) : Item3(t[k], W[k], W[k + 1])
  BY DEF Path3, Along
<1>. DEFINE S == {s[k] : k \in 1..Len(s)} \cup {t[k] : k \in 1..Len(t)}
            n == Len(s) + Len(t)
            X == [k \in 1..n + 1 |-> IF k <= Len(s) THEN V[k] ELSE W[k - Len(s)]]
<1>3. IsList(s) /\ IsList(t) /\ Len(s) \in Nat /\ Len(t) \in Nat
  BY DEF Path3, Along, IsList
<1>4. s \in Seq(S) /\ t \in Seq(S)
  <2>1. (\A k \in 1..Len(s) : s[k] \in S) /\ (\A k \in 1..Len(t) : t[k] \in S)
    OBVIOUS
  <2>. HIDE DEF S
  <2>. QED  BY <1>3, <2>1 DEF IsList
<1>5. /\ s \o t \in Seq(S) /\ Len(s \o t) = n
      /\ \A k \in 1..n : (s \o t)[k] = IF k <= Len(s) THEN s[k] ELSE t[k - Len(s)]
  <2>. HIDE DEF S
  <2>. QED  BY <1>3, <1>4, ConcatProperties
<1>7. /\ X \in [1..n + 1 -> Stacks] /\ X[1] = a /\ X[n + 1] = c
      /\ \A k \in 1..n + 1 : X[k] = IF k <= Len(s) THEN V[k] ELSE W[k - Len(s)]
  BY <1>1, <1>2, <1>3
<1>. HIDE DEF X, S
<1>6. IsList(s \o t)
  BY <1>5, SeqIsList
<1>8. ASSUME NEW k \in 1..n PROVE Item3((s \o t)[k], X[k], X[k + 1])
  <2>1. CASE k <= Len(s) - 1
    BY <2>1, <1>1, <1>3, <1>5, <1>7
  <2>2. CASE k = Len(s)
    <3>1. X[k] = V[k] /\ X[k + 1] = V[k + 1] /\ (s \o t)[k] = s[k]
      BY <2>2, <1>1, <1>2, <1>3, <1>5, <1>7
    <3>. QED  BY <3>1, <2>2, <1>1, <1>3
  <2>3. CASE k >= Len(s) + 1
    <3>1. /\ X[k] = W[k - Len(s)] /\ X[k + 1] = W[k - Len(s) + 1]
          /\ (s \o t)[k] = t[k - Len(s)] /\ k - Len(s) \in 1..Len(t)
      BY <2>3, <1>3, <1>5, <1>7
    <3>. QED  BY <3>1, <1>2
  <2>. QED  BY <2>1, <2>2, <2>3, <1>3
<1>. QED  BY <1>5, <1>6, <1>7, <1>8 DEF Path3, Along

\* The rest of a list that fits, fits some stack.
LEMMA PathSuffix ==
  ASSUME NEW s, NEW a, NEW b, Path3(s, a, b), NEW n \in 1..Len(s)
  PROVE  \E c \in Stacks : Path3(SubSeq(s, n + 1, Len(s)), c, b)
<1>1. PICK W \in [1..Len(s) + 1 -> Stacks] :
        /\ W[1] = a /\ W[Len(s) + 1] = b
        /\ \A k \in 1..Len(s) : Item3(s[k], W[k], W[k + 1])
  BY DEF Path3, Along
<1>. DEFINE S == {s[k] : k \in 1..Len(s)}
            t == SubSeq(s, n + 1, Len(s))
            V == [k \in 1..Len(s) - n + 1 |-> W[k + n]]
<1>2. s \in Seq(S) /\ Len(s) \in Nat
  BY ListIsSeq DEF Path3, Along, IsList
<1>3. /\ t \in Seq(S) /\ Len(t) = Len(s) - n
      /\ \A k \in 1..Len(s) - n : t[k] = s[k + n]
  <2>. HIDE DEF S
  <2>. QED  BY <1>2
<1>5. n \in Nat /\ n + 1 \in 1..Len(s) + 1 /\ Len(s) - n + 1 \in 1..Len(s) + 1
  BY <1>2
<1>6. W[n + 1] \in Stacks
  BY <1>1, <1>5
<1>9. /\ V \in [1..Len(s) - n + 1 -> Stacks] /\ V[1] = W[n + 1]
      /\ V[Len(s) - n + 1] = b
      /\ \A k \in 1..Len(s) - n : V[k] = W[k + n] /\ V[k + 1] = W[k + n + 1]
  <2>1. \A k \in 1..Len(s) - n + 1 : k + n \in 1..Len(s) + 1
    BY <1>2
  <2>2. V \in [1..Len(s) - n + 1 -> Stacks]
    BY <2>1
  <2>3. V[1] = W[1 + n] /\ V[Len(s) - n + 1] = W[Len(s) - n + 1 + n]
    BY <1>2
  <2>4. ASSUME NEW k \in 1..Len(s) - n
        PROVE  V[k] = W[k + n] /\ V[k + 1] = W[k + n + 1]
    <3>1. k \in 1..Len(s) - n + 1 /\ k + 1 \in 1..Len(s) - n + 1 /\ k + 1 + n = k + n + 1
      BY <1>2
    <3>. QED  BY <3>1
  <2>5. 1 + n = n + 1 /\ Len(s) - n + 1 + n = Len(s) + 1
    BY <1>2
  <2>. QED  BY <1>1, <2>2, <2>3, <2>4, <2>5
<1>. HIDE DEF S, V, t
<1>4. IsList(t)
  BY <1>3, SeqIsList
<1>7. \A k \in 1..Len(t) : Item3(t[k], V[k], V[k + 1])
  <2>1. \A k \in 1..Len(s) - n : k + n \in 1..Len(s)
    BY <1>2
  <2>. QED  BY <1>1, <1>3, <1>9, <2>1
<1>8. Path3(t, W[n + 1], b)
  BY <1>2, <1>3, <1>4, <1>9, <1>7 DEF Path3, Along
<1>. QED  BY <1>6, <1>8 DEF t

\* Closed, the history of brackets, does what an item that fits says of the token.
LEMMA ReadsClosed ==
  ASSUME NEW ts, NEW a \in Stacks, NEW b \in Stacks, Reads(ts, a, b), NEW t \in ts
  PROVE  Closed(a, t) = b /\ t # "eof"
<1>1. CASE ts \cap (Brackets \cup {"eof"}) = {} /\ a = b
  BY <1>1 DEF Brackets, Closed, Opener
<1>2. CASE \E o \in Openers : ts = {o} /\ b = Append(a, o)
  <2>1. t \in Openers /\ b = Append(a, t)
    BY <1>2
  <2>2. t \in {"(", "[", "{"} /\ t # "eof" /\ t \notin DOMAIN Opener
    BY <2>1 DEF Openers, Opener
  <2>. QED  BY <2>1, <2>2 DEF Closed
<1>3. ASSUME NEW c \in DOMAIN Opener, ts = {c}, a = Append(b, Opener[c])
      PROVE  Closed(a, t) = b /\ t # "eof"
  <2>1. t = c /\ c \in {")", "]", "}"}
    BY <1>3 DEF Opener
  <2>2. Opener[c] \in Openers
    BY <2>1 DEF Opener, Openers
  <2>. DEFINE o == Opener[c]
  <2>. HIDE DEF o
  <2>3. Append(b, o) # <<>> /\ Last(Append(b, o)) = o /\ Front(Append(b, o)) = b
    <3>. USE <2>2 DEF o, Stacks
    <3>1. b \in Seq(Openers) /\ o \in Openers
      BY DEF o
    <3>. HIDE DEF o
    <3>2. Append(b, o) \in Seq(Openers) /\ Len(Append(b, o)) = Len(b) + 1
      BY <3>1
    <3>3. Append(b, o)[Len(b) + 1] = o
      BY <3>1
    <3>4. Front(Append(b, o)) = b
      BY <3>1, <3>2 DEF Front
    <3>. QED  BY <3>2, <3>3, <3>4 DEF Last
  <2>4. c \notin {"(", "[", "{"} /\ c \in DOMAIN Opener
    BY <2>1
  <2>5. Closed(a, c) = IF a # <<>> /\ Last(a) = o THEN Front(a) ELSE Append(a, c)
    BY <2>4 DEF Closed, o
  <2>6. a = Append(b, o)
    BY <1>3 DEF o
  <2>. QED  BY <2>1, <2>3, <2>5, <2>6
<1>. QED  BY <1>1, <1>2, <1>3 DEF Reads

\* Closed keeps a sequence of brackets.
LEMMA ClosedType ==
  ASSUME NEW us \in Seq(Brackets), NEW t
  PROVE  Closed(us, t) \in Seq(Brackets)
<1>1. CASE t \in {"(", "[", "{"}
  <2>1. t \in Brackets
    BY <1>1 DEF Brackets
  <2>3. t \notin DOMAIN Opener
    BY <1>1 DEF Opener
  <2>2. Closed(us, t) = Append(us, t)
    BY <1>1, <2>3 DEF Closed
  <2>. QED  BY <2>1, <2>2
<1>2. CASE t \in DOMAIN Opener
  <2>1. t \in Brackets
    BY <1>2 DEF Opener, Brackets
  <2>2. Append(us, t) \in Seq(Brackets)
    BY <2>1
  <2>3. us # <<>> => Front(us) \in Seq(Brackets)
    BY DEF Front
  <2>4. t \notin {"(", "[", "{"}
    BY <1>2 DEF Opener
  <2>5. Closed(us, t) \in {Front(us), Append(us, t)} /\ (us = <<>> => Closed(us, t) = Append(us, t))
    BY <1>2, <2>4 DEF Closed
  <2>. QED  BY <2>2, <2>3, <2>5
<1>. QED  BY <1>1, <1>2 DEF Closed

-----------------------------------------------------------------------------
(* The invariant.                                                           *)

\* What is left to do fits the brackets that are open.
CallsFit ==
  \E a \in Stacks : /\ Path3(todo, a, <<>>)
                    /\ slips = {} /\ result # "error" => unclosed = a

ParserInv ==
  /\ TypeOK
  /\ tok \in Following(input, pos)
  /\ CallsFit
  /\ slips = {} => unclosed \in Stacks
  /\ result = "ok" => todo = <<>>

\* The function that starts leaves no bracket open.
LEMMA InitInv == Init => ParserInv
<1>. SUFFICES ASSUME Init PROVE ParserInv
  OBVIOUS
<1>1. input.max \in Nat /\ input.start \in DOMAIN Functions
  BY InputsAssumption DEF Init
<1>2. <<>> \in Stacks /\ <<>> \in Seq(Brackets)
  BY DEF Stacks
<1>3. TypeOK
  BY <1>1, <1>2 DEF Init, TypeOK, Following
<1>4. Item3(Call(input.start), Before(input.start, <<>>), <<>>)
  BY <1>1, SimpleUp DEF Simple, Call
<1>5. Before(input.start, <<>>) = <<>>
  BY InputsAssumption DEF Init, Before
<1>6. Path3(todo, <<>>, <<>>)
  BY <1>2, <1>4, <1>5, Of1 DEF Init
<1>. QED  BY <1>2, <1>3, <1>6 DEF Init, ParserInv, CallsFit

\* The item that is run next, the brackets it finds and those it leaves.
LEMMA NextItem ==
  ASSUME ParserInv, todo # <<>>, result = "run"
  PROVE  \E a \in Stacks, b \in Stacks :
           /\ Item3(Head(todo), a, b) /\ Path3(Rest, b, <<>>)
           /\ slips = {} => unclosed = a
<1>1. PICK a \in Stacks : /\ Path3(todo, a, <<>>)
                          /\ slips = {} /\ result # "error" => unclosed = a
  BY DEF ParserInv, CallsFit
<1>2. PICK b \in Stacks : Item3(Head(todo), a, b) /\ Path3(Tail(todo), b, <<>>)
  BY <1>1, PathHead
<1>. QED  BY <1>1, <1>2 DEF Rest

\* A step that consumes nothing and leaves a list that fits keeps the invariant.
LEMMA KeepsFitting ==
  ASSUME ParserInv, UNCHANGED <<input, cursor, result, slips>>,
         NEW a \in Stacks, Path3(todo', a, <<>>), slips = {} => unclosed = a,
         result # "ok"
  PROVE  ParserInv'
BY DEF ParserInv, TypeOK, CallsFit, cursor, Following

\* So does a step that consumes a token, where the list fits the brackets after it.
LEMMA AdvanceInv ==
  ASSUME ParserInv, Advance, tok # "eof", UNCHANGED <<input, result, slips>>,
         NEW a \in Stacks, Path3(todo', a, <<>>),
         slips = {} => Closed(unclosed, tok) = a, result # "ok"
  PROVE  ParserInv'
<1>1. input.max \in Nat
  BY InputsAssumption DEF ParserInv, TypeOK
<1>2. pos < input.max /\ pos \in 0..input.max
  BY <1>1 DEF ParserInv, TypeOK, Following
<1>3. pos' \in 0..input.max /\ tok' \in Following(input, pos)' /\ tok' \in input.tokens \cup {"eof"}
  BY <1>1, <1>2 DEF Advance, Following
<1>4. unclosed' \in Seq(Brackets)
  BY ClosedType DEF Advance, ParserInv, TypeOK
<1>. QED  BY <1>3, <1>4 DEF ParserInv, TypeOK, CallsFit, Advance

\* Consume keeps the invariant: an item that fits says which bracket it closes.
LEMMA ConsumeInv == ParserInv /\ Consume => ParserInv'
<1>. SUFFICES ASSUME ParserInv, Consume PROVE ParserInv'
  OBVIOUS
<1>1. PICK a \in Stacks, b \in Stacks :
        /\ Item3(Head(todo), a, b) /\ Path3(Rest, b, <<>>)
        /\ slips = {} => unclosed = a
  BY NextItem DEF Consume, Doing
<1>2. Reads(Arg, a, b)
  BY <1>1 DEF Consume, Doing, Arg, Item3, Compound, Simple
<1>3. Closed(a, tok) = b /\ tok # "eof"
  BY <1>2, ReadsClosed DEF Consume, Matches
<1>. QED  BY <1>1, <1>3, AdvanceInv DEF Consume, Doing

\* So does Refuse: what is left after a dropped error still fits some stack.
LEMMA RefuseInv == ParserInv /\ Refuse => ParserInv'
<1>. SUFFICES ASSUME ParserInv, Refuse PROVE ParserInv'
  OBVIOUS
<1>. DEFINE at == SelectInSeq(todo, LAMBDA item : item = Attempted)
<1>1. PICK a \in Stacks : Path3(todo, a, <<>>)
  BY DEF ParserInv, CallsFit
<1>2. Len(todo) \in Nat
  BY <1>1 DEF Path3, Along, IsList
<1>3. at # 0 => at \in 1..Len(todo)
  <2>. DEFINE I == {i \in 1..Len(todo) : todo[i] = Attempted}
  <2>1. at = IF I # {} THEN Min(I) ELSE 0
    BY DEF SelectInSeq
  <2>2. I # {} => Min(I) \in I
    <3>1. I \in SUBSET Nat
      BY <1>2
    <3>. HIDE DEF I
    <3>. QED  BY <3>1, LeastNat DEF Min
  <2>. QED  BY <2>1, <2>2
<1>. HIDE DEF at
<1>4. \/ result' = "error" /\ todo' = <<>> /\ UNCHANGED slips
      \/ /\ at # 0 /\ todo' = SubSeq(todo, at + 1, Len(todo))
         /\ slips' = slips \cup {"then"} /\ UNCHANGED result
  BY DEF Refuse, at
<1>5. UNCHANGED <<input, tok, pos, unclosed>> /\ result = "run"
  BY DEF Refuse, cursor, Doing
<1>6. <<>> \in Stacks
  BY DEF Stacks
<1>7. CASE result' = "error" /\ todo' = <<>> /\ UNCHANGED slips
  BY <1>5, <1>6, <1>7, Of0 DEF ParserInv, TypeOK, CallsFit, Following
<1>8. CASE /\ at # 0 /\ todo' = SubSeq(todo, at + 1, Len(todo))
           /\ slips' = slips \cup {"then"} /\ UNCHANGED result
  <2>1. PICK c \in Stacks : Path3(todo', c, <<>>)
    BY <1>1, <1>3, <1>8, PathSuffix
  <2>. QED  BY <1>5, <1>8, <2>1 DEF ParserInv, TypeOK, CallsFit, Following
<1>. QED  BY <1>4, <1>7, <1>8

\* So does Descend, by what FunctionsFit says of the function called.
LEMMA DescendInv == ParserInv /\ Descend => ParserInv'
<1>. SUFFICES ASSUME ParserInv, Descend PROVE ParserInv'
  OBVIOUS
<1>1. PICK a \in Stacks, b \in Stacks :
        /\ Item3(Head(todo), a, b) /\ Path3(Rest, b, <<>>)
        /\ slips = {} => unclosed = a
  BY NextItem DEF Descend, Doing
<1>2. UNCHANGED <<input, cursor, result, slips>> /\ result # "ok"
  BY DEF Descend, Doing
<1>3. CASE Doing("call") /\ todo' = Functions[Arg] \o Rest
  <2>1. Arg \in DOMAIN Functions /\ a = Before(Arg, b)
    BY <1>1, <1>3 DEF Doing, Arg, Item3, Compound, Simple
  <2>2. Path3(Functions[Arg], a, b)
    BY <2>1, FunctionsFit
  <2>. QED  BY <1>1, <1>2, <1>3, <2>2, PathConcat, KeepsFitting
<1>4. CASE Doing("attempt") /\ todo' = <<Call(Arg), Attempted>> \o Rest
  <2>1. Arg \in DOMAIN Functions \ InnerLoops /\ a = b
    BY <1>1, <1>4 DEF Doing, Arg, Item3, Compound, Simple
  <2>2. Item3(Call(Arg), a, b) /\ Item3(Attempted, b, b)
    BY <2>1, CallFits, SimpleUp DEF Simple, Attempted
  <2>3. Path3(<<Call(Arg), Attempted>>, a, b)
    BY <2>1, <2>2, Of2
  <2>. QED  BY <1>1, <1>2, <1>4, <2>3, PathConcat, KeepsFitting
<1>5. CASE Doing("attempted") /\ todo' = Rest
  <2>1. a = b
    BY <1>1, <1>5 DEF Doing, Item3, Compound, Simple
  <2>. QED  BY <1>1, <1>2, <1>5, <2>1, KeepsFitting
<1>. QED  BY <1>3, <1>4, <1>5 DEF Descend

\* So does Branch: each arm does what the switch does.
LEMMA BranchInv == ParserInv /\ Branch => ParserInv'
<1>. SUFFICES ASSUME ParserInv, Branch PROVE ParserInv'
  OBVIOUS
<1>1. PICK a \in Stacks, b \in Stacks :
        /\ Item3(Head(todo), a, b) /\ Path3(Rest, b, <<>>)
        /\ slips = {} => unclosed = a
  BY NextItem DEF Branch, Doing
<1>2. UNCHANGED <<input, cursor, result, slips>> /\ result # "ok"
  BY DEF Branch, Doing
<1>3. /\ Path2(Head(todo)[3], a, b)
      /\ \A k \in DOMAIN Arg : Path2(Arg[k][2], a, b)
  BY <1>1 DEF Branch, Doing, Arg, Item3, Compound, Simple, Path2
<1>4. \E s : Path3(s, a, b) /\ todo' = s \o Rest
  BY <1>3, Path2Up DEF Branch
<1>. QED  BY <1>1, <1>2, <1>4, PathConcat, KeepsFitting

\* So does Loop: a turn leaves the stack for the next.
LEMMA LoopInv == ParserInv /\ Loop => ParserInv'
<1>. SUFFICES ASSUME ParserInv, Loop PROVE ParserInv'
  OBVIOUS
<1>0. todo # <<>>
  BY DEF Loop, Doing
<1>1. PICK a \in Stacks : /\ Path3(todo, a, <<>>)
                          /\ slips = {} /\ result # "error" => unclosed = a
  BY DEF ParserInv, CallsFit
<1>2. PICK b \in Stacks : Item3(Head(todo), a, b) /\ Path3(Rest, b, <<>>)
  BY <1>0, <1>1, PathHead DEF Rest
<1>3. UNCHANGED <<input, cursor, result, slips>> /\ result = "run"
  BY DEF Loop, Doing
<1>4. Path3(Head(todo)[3], a, a) /\ a = b
  BY <1>2, Path2Up DEF Loop, Doing, Item3, Compound, Simple, Path2
<1>5. Path3(Head(todo)[3] \o todo, a, <<>>)
  BY <1>1, <1>4, PathConcat
<1>6. Path3(todo', a, <<>>)
  BY <1>2, <1>4, <1>5 DEF Loop
<1>. QED  BY <1>1, <1>3, <1>6, KeepsFitting

\* So does BinOpOperator: no operator is a bracket.
LEMMA BinOpOperatorInv == ParserInv /\ BinOpOperator => ParserInv'
<1>. SUFFICES ASSUME ParserInv, BinOpOperator PROVE ParserInv'
  OBVIOUS
<1>1. PICK a \in Stacks, b \in Stacks :
        /\ Item3(Head(todo), a, b) /\ Path3(Rest, b, <<>>)
        /\ slips = {} => unclosed = a
  BY NextItem DEF BinOpOperator, Doing
<1>2. a = b
  BY <1>1 DEF BinOpOperator, Doing, Item3, Compound, Simple
<1>3. tok \notin Brackets \cup {"eof"}
  BY DEF BinOpOperator, BinOpTokens, Brackets
<1>4. \A us : Closed(us, tok) = us
  BY <1>3 DEF Closed, Brackets, Opener
<1>. DEFINE rhs == <<Call("parse_postfix_expr"), Climb(Arg, tok)>>
<1>5. Path3(rhs, a, a)
  <2>1. Item3(Climb(Arg, tok), a, a)
    BY SimpleUp DEF Simple, Climb
  <2>. QED  BY <2>1, Of2, CallFits, Names
<1>6. Path3(rhs \o Rest, a, <<>>)
  BY <1>1, <1>2, <1>5, PathConcat
<1>7. Path3(todo', a, <<>>)
  BY <1>1, <1>2, <1>6 DEF BinOpOperator
<1>. QED  BY <1>1, <1>3, <1>4, <1>7, AdvanceInv DEF BinOpOperator, Doing

\* So does BinOpDone.
LEMMA BinOpDoneInv == ParserInv /\ BinOpDone => ParserInv'
<1>. SUFFICES ASSUME ParserInv, BinOpDone PROVE ParserInv'
  OBVIOUS
<1>1. PICK a \in Stacks, b \in Stacks :
        /\ Item3(Head(todo), a, b) /\ Path3(Rest, b, <<>>)
        /\ slips = {} => unclosed = a
  BY NextItem DEF BinOpDone, Doing
<1>2. a = b
  BY <1>1 DEF BinOpDone, Doing, Item3, Compound, Simple
<1>. QED  BY <1>1, <1>2, KeepsFitting DEF BinOpDone, Doing

\* So does BinOpClimb.
LEMMA BinOpClimbInv == ParserInv /\ BinOpClimb => ParserInv'
<1>. SUFFICES ASSUME ParserInv, BinOpClimb PROVE ParserInv'
  OBVIOUS
<1>1. PICK a \in Stacks, b \in Stacks :
        /\ Item3(Head(todo), a, b) /\ Path3(Rest, b, <<>>)
        /\ slips = {} => unclosed = a
  BY NextItem DEF BinOpClimb, Doing
<1>2. a = b
  BY <1>1 DEF BinOpClimb, Doing, Item3, Compound, Simple
<1>. DEFINE op == Head(todo)[3]
            rhs == IF get_token_precedence(op) < get_token_precedence(tok)
                   THEN <<BinOp(TighterThan(op))>> ELSE <<>>
            node == <<Build(op), BinOp(Arg)>>
<1>3. Path3(rhs, a, a)
  BY Of0, Of1, NodeFits
<1>4. Path3(node, a, a)
  BY Of2, NodeFits
<1>5. todo' = (rhs \o node) \o Rest \/ todo' = rhs \o (node \o Rest)
  BY DEF BinOpClimb
<1>. HIDE DEF rhs, node
<1>6. Path3(todo', a, <<>>)
  BY <1>1, <1>2, <1>3, <1>4, <1>5, PathConcat
<1>. QED  BY <1>1, <1>6, KeepsFitting DEF BinOpClimb, Doing

\* So does BuildNode.
LEMMA BuildNodeInv == ParserInv /\ BuildNode => ParserInv'
<1>. SUFFICES ASSUME ParserInv, BuildNode PROVE ParserInv'
  OBVIOUS
<1>1. PICK a \in Stacks, b \in Stacks :
        /\ Item3(Head(todo), a, b) /\ Path3(Rest, b, <<>>)
        /\ slips = {} => unclosed = a
  BY NextItem DEF BuildNode, Doing
<1>2. a = b
  BY <1>1 DEF BuildNode, Doing, Item3, Compound, Simple
<1>. QED  BY <1>1, <1>2, KeepsFitting DEF BuildNode, Doing

\* So does NoteSlip: from there on nothing is claimed.
LEMMA NoteSlipInv == ParserInv /\ NoteSlip => ParserInv'
<1>. SUFFICES ASSUME ParserInv, NoteSlip PROVE ParserInv'
  OBVIOUS
<1>1. PICK a \in Stacks, b \in Stacks :
        /\ Item3(Head(todo), a, b) /\ Path3(Rest, b, <<>>)
        /\ slips = {} => unclosed = a
  BY NextItem DEF NoteSlip, Doing
<1>2. Arg = "initializer"
  BY <1>1 DEF NoteSlip, Doing, Arg, Item3, Compound, Simple
<1>. QED  BY <1>1, <1>2 DEF NoteSlip, Doing, ParserInv, TypeOK, CallsFit, Following, cursor

\* So does Finish.
LEMMA FinishInv == ParserInv /\ Finish => ParserInv'
BY DEF Finish, ParserInv, TypeOK, CallsFit, Following, cursor

\* What is left to do on the C++ call stack closes just the brackets that are
\* open, in their order, for every file, every set of tokens and every function
\* that parsing may start at (class AstGen).
THEOREM CallsKeepFitting == Spec => []ParserInv
<1>1. ParserInv /\ [Next]_vars => ParserInv'
  <2>. SUFFICES ASSUME ParserInv, [Next]_vars PROVE ParserInv'
    OBVIOUS
  <2>1. CASE Next
    BY <2>1, ConsumeInv, RefuseInv, DescendInv, BranchInv, LoopInv,
       BinOpOperatorInv, BinOpDoneInv, BinOpClimbInv, BuildNodeInv, NoteSlipInv,
       FinishInv DEF Next
  <2>2. CASE UNCHANGED vars
    BY <2>2 DEF vars, ParserInv, TypeOK, CallsFit, Following
  <2>. QED  BY <2>1, <2>2
<1>. QED  BY InitInv, <1>1, PTL DEF Spec

\* The cursor stays in the file: TokenCursor increments _index unchecked, and no
\* parse function consumes a token at the end of the file.
THEOREM ParserTypes == Spec => []TypeOK
<1>1. ParserInv => TypeOK
  BY DEF ParserInv
<1>. QED  BY CallsKeepFitting, <1>1, PTL

\* A bracket consumed as a closing one closes the innermost open one and an
\* accepted program leaves none open, unless one of the two slips was met: the
\* pairing that AstGen spreads over a dozen functions is complete.
THEOREM BracketsAlwaysMatch == Spec => []BracketsMatch
<1>1. ParserInv => BracketsMatch
  <2>. SUFFICES ASSUME ParserInv, slips = {}
                PROVE  /\ ToSet(unclosed) \subseteq {"(", "[", "{"}
                       /\ result = "ok" => unclosed = <<>>
    BY DEF BracketsMatch
  <2>1. ToSet(unclosed) \subseteq {"(", "[", "{"}
    <3>1. unclosed \in Seq(Openers)
      BY DEF ParserInv, Stacks
    <3>2. \A k \in DOMAIN unclosed : unclosed[k] \in Openers
      BY <3>1
    <3>. QED  BY <3>2 DEF ToSet, Openers
  <2>2. result = "ok" => unclosed = <<>>
    BY PathNil DEF ParserInv, CallsFit
  <2>. QED  BY <2>1, <2>2
<1>. QED  BY CallsKeepFitting, <1>1, PTL

-----------------------------------------------------------------------------
(* Operators and their operands.                                            *)

\* What may wait for its right-hand side, and the operators that may.
Waiters == BinOpTokens \cup {"("}
Binary == BinOpTokens \ {"&&"}

Readers == [out : Seq({"x"} \cup Waiters), ops : Seq(Waiters), operand : BOOLEAN, ok : BOOLEAN]

Empty == [out |-> <<>>, ops |-> <<>>, operand |-> TRUE, ok |-> TRUE]

\* How tightly the operators bind: an opening parenthesis least of all, with
\* the `&&` that has no entry in the table.
LEMMA Precedences ==
  /\ \A t : get_token_precedence(t) \in Int
  /\ \A t \in Binary : get_token_precedence(t) \in {10, 20, 40}
  /\ get_token_precedence("(") = -1
  /\ get_token_precedence(";") = -1
  /\ get_token_precedence("&&") = -1
  /\ \A t : t \notin Binary => get_token_precedence(t) \in {-1, 10}
<1>1. \A t \in DOMAIN init_bin_op_lookup : init_bin_op_lookup[t] \in {10, 20, 40}
  BY DEF init_bin_op_lookup
<1>2. \A t \in {"+", "*", "/", "-", ">", ">=", "<", "<=", "||", "==", "!="} :
        t \in DOMAIN init_bin_op_lookup
  BY DEF init_bin_op_lookup
<1>3. /\ "(" \notin DOMAIN init_bin_op_lookup
      /\ ";" \notin DOMAIN init_bin_op_lookup
      /\ "&&" \notin DOMAIN init_bin_op_lookup
  BY DEF init_bin_op_lookup
<1>4. \A t \in DOMAIN init_bin_op_lookup : t \notin Binary => init_bin_op_lookup[t] = 10
  BY DEF init_bin_op_lookup, Binary, BinOpTokens
<1>5. \A t \in Binary : t \in DOMAIN init_bin_op_lookup
  BY <1>2 DEF Binary, BinOpTokens
<1>6. \A t : get_token_precedence(t) = IF t \in DOMAIN init_bin_op_lookup
                                       THEN init_bin_op_lookup[t] ELSE -1
  BY DEF get_token_precedence
<1>7. -1 \in Int /\ {10, 20, 40} \subseteq Int
  OBVIOUS
<1>. QED  BY <1>1, <1>3, <1>4, <1>5, <1>6, <1>7

\* The last operator that waits for more than one of precedence p.
LEMMA WaitingIs ==
  ASSUME NEW ops \in Seq(Waiters), NEW n \in 0..Len(ops), NEW p \in Int,
         n > 0 => get_token_precedence(ops[n]) < p,
         \A i \in n + 1..Len(ops) : get_token_precedence(ops[i]) >= p
  PROVE  Waiting(ops, p) = n
<1>. DEFINE I == {i \in 1..Len(ops) : get_token_precedence(ops[i]) < p}
<1>1. Waiting(ops, p) = IF I # {} THEN Max(I) ELSE 0
  BY DEF Waiting, SelectLastInSeq
<1>2. \A i \in I : i \in 1..n
  <2>. SUFFICES ASSUME NEW i \in 1..Len(ops), get_token_precedence(ops[i]) < p, i \notin 1..n
                PROVE  FALSE
    OBVIOUS
  <2>1. get_token_precedence(ops[i]) \in Int
    BY Precedences
  <2>2. i \in n + 1..Len(ops)
    OBVIOUS
  <2>. QED  BY <2>1, <2>2
<1>3. n > 0 => n \in I
  OBVIOUS
<1>4. I # {} => Max(I) \in I /\ \A y \in I : Max(I) >= y
  <2>1. I \in SUBSET (1..Len(ops)) /\ Len(ops) \in Nat
    OBVIOUS
  <2>. HIDE DEF I
  <2>. QED  BY <2>1, MaxOfIndices
<1>. HIDE DEF I
<1>5. CASE n = 0
  BY <1>1, <1>2, <1>5
<1>6. CASE n > 0
  BY <1>1, <1>2, <1>3, <1>4, <1>6
<1>. QED  BY <1>5, <1>6

\* There is such an index whatever waits.
LEMMA WaitingType ==
  ASSUME NEW ops \in Seq(Waiters), NEW p \in Int
  PROVE  Waiting(ops, p) \in 0..Len(ops)
<1>. DEFINE I == {i \in 1..Len(ops) : get_token_precedence(ops[i]) < p}
<1>1. Waiting(ops, p) = IF I # {} THEN Max(I) ELSE 0
  BY DEF Waiting, SelectLastInSeq
<1>4. I # {} => Max(I) \in 1..Len(ops)
  <2>1. I \in SUBSET (1..Len(ops)) /\ Len(ops) \in Nat
    OBVIOUS
  <2>. HIDE DEF I
  <2>. QED  BY <2>1, MaxOfIndices
<1>. QED  BY <1>1, <1>4

\* The operators above the first n, the last of them first.
LEMMA AppliedIs ==
  ASSUME NEW ops \in Seq(Waiters), NEW n \in 0..Len(ops)
  PROVE  /\ Applied(ops, n) \in Seq(Waiters)
         /\ Len(Applied(ops, n)) = Len(ops) - n
         /\ \A i \in 1..Len(ops) - n : Applied(ops, n)[i] = ops[Len(ops) - i + 1]
<1>. DEFINE t == SubSeq(ops, n + 1, Len(ops))
<1>1. t \in Seq(Waiters) /\ Len(t) = Len(ops) - n /\ \A i \in 1..Len(ops) - n : t[i] = ops[n + i]
  OBVIOUS
<1>. HIDE DEF t
<1>2. Applied(ops, n) = [i \in 1..Len(t) |-> t[(Len(t) - i) + 1]]
  BY DEF Applied, Reverse, t
<1>3. \A i \in 1..Len(t) : /\ (Len(t) - i) + 1 \in 1..Len(t)
                           /\ t[(Len(t) - i) + 1] = ops[Len(ops) - i + 1]
  <2>. TAKE i \in 1..Len(t)
  <2>1. (Len(t) - i) + 1 \in 1..Len(ops) - n /\ n + ((Len(t) - i) + 1) = Len(ops) - i + 1
    BY <1>1
  <2>. QED  BY <1>1, <2>1
<1>4. \A i \in 1..Len(t) : t[(Len(t) - i) + 1] \in Waiters
  BY <1>1, <1>3
<1>5. Len(t) \in Nat
  BY <1>1
<1>6. Applied(ops, n) \in Seq(Waiters) /\ Len(Applied(ops, n)) = Len(t)
  BY <1>2, <1>4, <1>5
<1>. QED  BY <1>1, <1>2, <1>3, <1>6

\* Above all of them there are none.
LEMMA AppliedNone ==
  ASSUME NEW ops \in Seq(Waiters)
  PROVE  Applied(ops, Len(ops)) = <<>>
BY AppliedIs

\* One more of them is the one below, applied last.
LEMMA AppliedNext ==
  ASSUME NEW ops \in Seq(Waiters), NEW n \in 1..Len(ops)
  PROVE  Applied(ops, n - 1) = Append(Applied(ops, n), ops[n])
<1>. DEFINE u == Applied(ops, n)  v == Applied(ops, n - 1)  w == Append(u, ops[n])
<1>1. /\ u \in Seq(Waiters) /\ Len(u) = Len(ops) - n
      /\ \A i \in 1..Len(ops) - n : u[i] = ops[Len(ops) - i + 1]
  BY AppliedIs
<1>2. /\ v \in Seq(Waiters) /\ Len(v) = Len(ops) - (n - 1)
      /\ \A i \in 1..Len(ops) - (n - 1) : v[i] = ops[Len(ops) - i + 1]
  <2>1. n - 1 \in 0..Len(ops)
    OBVIOUS
  <2>. QED  BY <2>1, AppliedIs
<1>. HIDE DEF u, v
<1>3. ops[n] \in Waiters
  OBVIOUS
<1>4. /\ w \in Seq(Waiters) /\ Len(w) = Len(u) + 1 /\ w[Len(u) + 1] = ops[n]
      /\ \A i \in 1..Len(u) : w[i] = u[i]
  BY <1>1, <1>3
<1>. HIDE DEF w
<1>5. Len(v) = Len(w)
  BY <1>1, <1>2, <1>4
<1>6. \A i \in 1..Len(v) : v[i] = w[i]
  <2>. TAKE i \in 1..Len(v)
  <2>1. CASE i = Len(u) + 1
    BY <2>1, <1>1, <1>2, <1>4
  <2>2. CASE i # Len(u) + 1
    BY <2>2, <1>1, <1>2, <1>4
  <2>. QED  BY <2>1, <2>2
<1>7. v = w
  BY <1>2, <1>4, <1>5, <1>6
<1>. QED  BY <1>7 DEF u, v, w

\* All of them, the last first.
LEMMA AppliedAll ==
  ASSUME NEW ops \in Seq(Waiters)
  PROVE  Applied(ops, 0) = Reverse(ops)
<1>1. SubSeq(ops, 0 + 1, Len(ops)) = ops
  OBVIOUS
<1>. QED  BY <1>1 DEF Applied
-----------------------------------------------------------------------------
\* One token more in the reference reading.
LEMMA ShiftIs ==
  ASSUME NEW s \in Readers, NEW t
  PROVE  LET n == Waiting(s.ops, IF t = ")" THEN 0 ELSE get_token_precedence(t))
         IN /\ n \in 0..Len(s.ops)
            /\ t = "x" /\ s.operand =>
                 Shift(s, t) = [out |-> Append(s.out, t), ops |-> s.ops,
                                operand |-> FALSE, ok |-> s.ok]
            /\ t = "(" /\ s.operand =>
                 Shift(s, t) = [out |-> s.out, ops |-> Append(s.ops, t),
                                operand |-> TRUE, ok |-> s.ok]
            /\ t \in BinOpTokens /\ ~s.operand =>
                 Shift(s, t) = [out |-> s.out \o Applied(s.ops, n),
                                ops |-> Append(SubSeq(s.ops, 1, n), t),
                                operand |-> TRUE, ok |-> s.ok]
            /\ t = ")" /\ ~s.operand /\ n > 0 =>
                 Shift(s, t) = [out |-> s.out \o Applied(s.ops, n),
                                ops |-> SubSeq(s.ops, 1, n - 1),
                                operand |-> s.operand, ok |-> s.ok]
            /\ ~(\/ t \in {"x", "("} /\ s.operand
                 \/ t \in BinOpTokens /\ ~s.operand
                 \/ t = ")" /\ ~s.operand /\ n > 0) =>
                 Shift(s, t) = [out |-> s.out, ops |-> s.ops,
                                operand |-> s.operand, ok |-> FALSE]
<1>. DEFINE n == Waiting(s.ops, IF t = ")" THEN 0 ELSE get_token_precedence(t))
<1>1. n \in 0..Len(s.ops)
  <2>. DEFINE p == get_token_precedence(t)
  <2>3. p \in Int
    BY Precedences
  <2>. HIDE DEF p
  <2>4. (IF t = ")" THEN 0 ELSE p) \in Int
    BY <2>3
  <2>1. (IF t = ")" THEN 0 ELSE get_token_precedence(t)) \in Int
    BY <2>4 DEF p
  <2>2. s.ops \in Seq(Waiters)
    BY DEF Readers
  <2>. QED  BY <2>1, <2>2, WaitingType
<1>2. /\ s = [out |-> s.out, ops |-> s.ops, operand |-> s.operand, ok |-> s.ok]
  BY DEF Readers
<1>. HIDE DEF n
<1>3. BinOpTokens \cap {"x", "(", ")"} = {}
  BY DEF BinOpTokens
<1>4. Shift(s, t) =
        CASE t = "x" /\ s.operand ->
                [s EXCEPT !.out = Append(s.out, t), !.operand = FALSE]
          [] t = "(" /\ s.operand -> [s EXCEPT !.ops = Append(s.ops, t)]
          [] t \in BinOpTokens /\ ~s.operand ->
                [s EXCEPT !.out = s.out \o Applied(s.ops, n), !.operand = TRUE,
                          !.ops = Append(SubSeq(s.ops, 1, n), t)]
          [] t = ")" /\ ~s.operand /\ n > 0 ->
                [s EXCEPT !.out = s.out \o Applied(s.ops, n), !.ops = SubSeq(s.ops, 1, n - 1)]
          [] OTHER -> [s EXCEPT !.ok = FALSE]
  BY DEF Shift, n
<1>5. CASE t = "x" /\ s.operand
  BY <1>1, <1>2, <1>3, <1>4, <1>5 DEF n
<1>6. CASE t = "(" /\ s.operand
  BY <1>1, <1>2, <1>3, <1>4, <1>6 DEF n
<1>7. CASE t \in BinOpTokens /\ ~s.operand
  BY <1>1, <1>2, <1>3, <1>4, <1>7 DEF n
<1>8. CASE t = ")" /\ ~s.operand /\ n > 0
  BY <1>1, <1>2, <1>3, <1>4, <1>8 DEF n
<1>9. CASE ~(\/ t \in {"x", "("} /\ s.operand
             \/ t \in BinOpTokens /\ ~s.operand
             \/ t = ")" /\ ~s.operand /\ n > 0)
  <2>1. Shift(s, t) = [s EXCEPT !.ok = FALSE]
    BY <1>4, <1>9
  <2>. QED  BY <1>1, <1>2, <2>1, <1>9 DEF n
<1>. QED  BY <1>5, <1>6, <1>7, <1>8, <1>9

\* What has been read stays of one form.
LEMMA ShiftType ==
  ASSUME NEW s \in Readers, NEW t
  PROVE  Shift(s, t) \in Readers /\ (~s.ok => ~Shift(s, t).ok)
<1>. DEFINE n == Waiting(s.ops, IF t = ")" THEN 0 ELSE get_token_precedence(t))
            a == Applied(s.ops, n)
<1>1. n \in 0..Len(s.ops)
  BY ShiftIs
<1>. HIDE DEF n
<1>2. s.ops \in Seq(Waiters) /\ s.out \in Seq({"x"} \cup Waiters)
      /\ s.operand \in BOOLEAN /\ s.ok \in BOOLEAN
  BY DEF Readers
<1>3. a \in Seq(Waiters)
  BY <1>1, <1>2, AppliedIs
<1>4. a \in Seq({"x"} \cup Waiters)
  BY <1>3
<1>. HIDE DEF a
<1>5. s.out \o a \in Seq({"x"} \cup Waiters)
  BY <1>2, <1>4
<1>6. SubSeq(s.ops, 1, n) \in Seq(Waiters) /\ SubSeq(s.ops, 1, n - 1) \in Seq(Waiters)
  BY <1>1, <1>2
<1>7. CASE t = "x" /\ s.operand
  <2>1. Append(s.out, t) \in Seq({"x"} \cup Waiters)
    BY <1>2, <1>7
  <2>2. Shift(s, t) = [out |-> Append(s.out, t), ops |-> s.ops,
                       operand |-> FALSE, ok |-> s.ok]
    BY <1>7, ShiftIs
  <2>. QED  BY <1>2, <2>1, <2>2 DEF Readers
<1>8. CASE t = "(" /\ s.operand
  <2>1. Append(s.ops, t) \in Seq(Waiters)
    BY <1>2, <1>8 DEF Waiters
  <2>2. Shift(s, t) = [out |-> s.out, ops |-> Append(s.ops, t),
                       operand |-> TRUE, ok |-> s.ok]
    BY <1>8, ShiftIs
  <2>. QED  BY <1>2, <2>1, <2>2 DEF Readers
<1>9. CASE t \in BinOpTokens /\ ~s.operand
  <2>1. Append(SubSeq(s.ops, 1, n), t) \in Seq(Waiters)
    BY <1>6, <1>9 DEF Waiters
  <2>2. Shift(s, t) = [out |-> s.out \o a, ops |-> Append(SubSeq(s.ops, 1, n), t),
                       operand |-> TRUE, ok |-> s.ok]
    BY <1>9, ShiftIs DEF a, n
  <2>. QED  BY <1>2, <1>5, <2>1, <2>2 DEF Readers
<1>10. CASE t = ")" /\ ~s.operand /\ n > 0
  <2>2. Shift(s, t) = [out |-> s.out \o a, ops |-> SubSeq(s.ops, 1, n - 1),
                       operand |-> s.operand, ok |-> s.ok]
    BY <1>10, ShiftIs DEF a, n
  <2>. QED  BY <1>2, <1>5, <1>6, <2>2 DEF Readers
<1>11. CASE ~(\/ t \in {"x", "("} /\ s.operand
              \/ t \in BinOpTokens /\ ~s.operand
              \/ t = ")" /\ ~s.operand /\ n > 0)
  <2>1. Shift(s, t) = [out |-> s.out, ops |-> s.ops, operand |-> s.operand, ok |-> FALSE]
    BY <1>11, ShiftIs DEF n
  <2>. QED  BY <1>2, <2>1 DEF Readers
<1>. QED  BY <1>7, <1>8, <1>9, <1>10, <1>11

AlikeFrom(f, g, n) ==
  /\ f[{}] = g[{}]
  /\ \A s \in SUBSET (1..n) : s # {} /\ f[s \ {Max(s)}] = g[s \ {Max(s)}] => f[s] = g[s]

\* A fold over a sequence and over the sequence with one item more agree on the
\* indices of the first.
LEMMA FoldsAgree ==
  ASSUME NEW n \in Nat, NEW f, NEW g, AlikeFrom(f, g, n)
  PROVE  \A s \in SUBSET (1..n) : f[s] = g[s]
<1>. DEFINE same == [s \in SUBSET (1..n) |-> f[s] = g[s]]
<1>1. \A s \in SUBSET (1..n) : s \ {Max(s)} \in SUBSET (1..n)
  OBVIOUS
<1>2. \A s \in SUBSET (1..n) : same[s] <=> f[s] = g[s]
  OBVIOUS
<1>3. same[{}] \in {TRUE}
  BY DEF AlikeFrom
<1>4. \A s \in SUBSET (1..n) : s # {} /\ same[s \ {Max(s)}] \in {TRUE} => same[s] \in {TRUE}
  <2>. TAKE s \in SUBSET (1..n)
  <2>1. same[s] = (f[s] = g[s]) /\ same[s \ {Max(s)}] = (f[s \ {Max(s)}] = g[s \ {Max(s)}])
    BY <1>1
  <2>. QED  BY <2>1 DEF AlikeFrom
<1>. HIDE DEF same
<1>5. \A s \in SUBSET (1..n) : same[s] \in {TRUE}
  BY <1>3, <1>4, FoldInduct
<1>. QED  BY <1>2, <1>5

\* The function that Shifted's fold evaluates, over a sequence of n tokens.
IsReading(f, ts) ==
  /\ f = [s \in SUBSET (1..Len(ts)) |->
            IF s = {} THEN Empty ELSE Shift(f[s \ {Max(s)}], ts[Max(s)])]
  /\ Shifted(ts) = f[1..Len(ts)]

\* There is such a function, and all its values are of one form.
LEMMA ReadingExists ==
  ASSUME NEW ts, Len(ts) \in Nat, DOMAIN ts = 1..Len(ts)
  PROVE  \E f : IsReading(f, ts) /\ \A s \in SUBSET (1..Len(ts)) : f[s] \in Readers
<1>. DEFINE n == Len(ts)
            Op(a, i) == Shift(a, ts[i])
            step == [x \in Readers \X (1..n) |-> Op(x[1], x[2])]
            FoldStep(f, s) == IF s = {} THEN Empty ELSE Op(f[s \ {Max(s)}], Max(s))
            iter == CHOOSE f : f = [s \in SUBSET DOMAIN ts |-> FoldStep(f, s)]
<1>1. n \in Nat /\ DOMAIN ts = 1..n
  OBVIOUS
<1>2. Empty \in Readers
  BY DEF Empty, Readers
<1>3. \A a \in Readers, i \in 1..n : Op(a, i) \in Readers
  BY ShiftType
<1>4. \A a \in Readers, i \in 1..n : step[<<a, i>>] = Op(a, i)
  OBVIOUS
<1>5. Shifted(ts) = iter[DOMAIN ts]
  BY DEF Shifted, FoldLeft, MapThenFoldSet, Empty
<1>6. \A s \in SUBSET (1..n) : s # {} => Max(s) \in 1..n
  BY <1>1, MaxOfIndices
<1>7. \A s : s \in SUBSET (1..n) => s \ {Max(s)} \in SUBSET (1..n)
  OBVIOUS
<1>. HIDE DEF Op, step, n
<1>8. \E f : f = [s \in SUBSET DOMAIN ts |-> FoldStep(f, s)]
  <2>1. PICK f : IsFold(f, n, Empty, step)
    BY <1>1, FoldExists
  <2>2. \A s \in SUBSET (1..n) :
          f[s] = IF s = {} THEN Empty ELSE step[<<f[s \ {Max(s)}], Max(s)>>]
    BY <2>1 DEF IsFold
  <2>3. \A s \in SUBSET (1..n) : f[s] \in Readers
    <3>1. f[{}] \in Readers
      BY <1>2, <2>2
    <3>2. ASSUME NEW s \in SUBSET (1..n), s # {}, f[s \ {Max(s)}] \in Readers PROVE f[s] \in Readers
      <4>1. f[s] = step[<<f[s \ {Max(s)}], Max(s)>>] /\ Max(s) \in 1..n
        BY <1>6, <2>2, <3>2
      <4>2. f[s] = Op(f[s \ {Max(s)}], Max(s))
        BY <1>4, <3>2, <4>1
      <4>. QED  BY <1>3, <3>2, <4>1, <4>2
    <3>. QED  BY <1>1, <3>1, <3>2, FoldInduct
  <2>4. \A s \in SUBSET (1..n) : f[s] = FoldStep(f, s)
    BY <1>4, <1>6, <1>7, <2>2, <2>3
  <2>5. f = [s \in SUBSET (1..n) |-> f[s]]
    BY <2>1 DEF IsFold
  <2>. HIDE DEF FoldStep
  <2>6. f = [s \in SUBSET DOMAIN ts |-> FoldStep(f, s)]
    BY <1>1, <2>4, <2>5
  <2>. QED  BY <2>6
<1>9. iter = [s \in SUBSET DOMAIN ts |-> FoldStep(iter, s)]
  <2>. HIDE DEF FoldStep
  <2>. QED  BY <1>8
<1>. HIDE DEF iter
<1>10. \A s \in SUBSET (1..n) : iter[s] = FoldStep(iter, s)
  <2>. HIDE DEF FoldStep
  <2>. QED  BY <1>1, <1>9
<1>11. \A s \in SUBSET (1..n) : iter[s] \in Readers
  <2>1. iter[{}] \in Readers
    BY <1>2, <1>10
  <2>2. \A s \in SUBSET (1..n) : s # {} /\ iter[s \ {Max(s)}] \in Readers => iter[s] \in Readers
    BY <1>3, <1>6, <1>10
  <2>. QED  BY <1>1, <2>1, <2>2, FoldInduct
<1>12. IsReading(iter, ts)
  BY <1>1, <1>5, <1>9 DEF IsReading, Op, n
<1>. QED  BY <1>11, <1>12 DEF n

\* What the reference reading does with a file, token by token.
LEMMA ShiftedNext ==
  ASSUME NEW T, NEW ts \in Seq(T), NEW t \in T
  PROVE  /\ Shifted(ts) \in Readers
         /\ Shifted(<<>>) = Empty
         /\ Shifted(Append(ts, t)) = Shift(Shifted(ts), t)
<1>. DEFINE n == Len(ts)  us == Append(ts, t)
<1>1. /\ n \in Nat /\ DOMAIN ts = 1..n /\ Len(us) = n + 1 /\ DOMAIN us = 1..n + 1
      /\ us[n + 1] = t /\ \A i \in 1..n : us[i] = ts[i]
  OBVIOUS
<1>. HIDE DEF us, n
<1>2. PICK f : IsReading(f, ts) /\ \A s \in SUBSET (1..n) : f[s] \in Readers
  BY <1>1, ReadingExists DEF n
<1>3. PICK g : IsReading(g, us)
  BY <1>1, ReadingExists
<1>4. /\ \A s \in SUBSET (1..n) :
           f[s] = IF s = {} THEN Empty ELSE Shift(f[s \ {Max(s)}], ts[Max(s)])
      /\ Shifted(ts) = f[1..n]
  BY <1>1, <1>2 DEF IsReading, n
<1>5. /\ \A s \in SUBSET (1..n + 1) :
           g[s] = IF s = {} THEN Empty ELSE Shift(g[s \ {Max(s)}], us[Max(s)])
      /\ Shifted(us) = g[1..n + 1]
  BY <1>1, <1>3 DEF IsReading
<1>6. \A s \in SUBSET (1..n) : s # {} => Max(s) \in 1..n /\ s \in SUBSET (1..n + 1)
  <2>. TAKE s \in SUBSET (1..n)
  <2>1. n \in Nat
    BY <1>1
  <2>2. s # {} => Max(s) \in s
    BY <2>1, MaxOfIndices
  <2>3. \A i \in 1..n : i \in 1..n + 1
    BY <2>1
  <2>4. s \subseteq 1..n
    OBVIOUS
  <2>. QED  BY <2>2, <2>3, <2>4, Zenon
<1>7. f[{}] = g[{}]
  BY <1>4, <1>5
<1>8. \A s \in SUBSET (1..n) : s # {} /\ f[s \ {Max(s)}] = g[s \ {Max(s)}] => f[s] = g[s]
  BY <1>1, <1>4, <1>5, <1>6
<1>9. f[1..n] = g[1..n]
  <2>1. n \in Nat
    BY <1>1
  <2>3. AlikeFrom(f, g, n)
    BY <1>7, <1>8 DEF AlikeFrom
  <2>2. \A s \in SUBSET (1..n) : f[s] = g[s]
    BY <2>1, <2>3, FoldsAgree
  <2>. QED  BY <2>2
<1>10. Max(1..n + 1) = n + 1
  <2>. DEFINE m == n + 1  r == 1..m
  <2>1. m \in Nat /\ m \in r /\ r \in SUBSET (1..m)
    BY <1>1
  <2>2. Max(r) \in r /\ \A y \in r : Max(r) >= y
    <3>. HIDE DEF m, r
    <3>. QED  BY <2>1, MaxOfIndices
  <2>3. Max(r) \in 1..m /\ Max(r) >= m
    BY <2>1, <2>2
  <2>4. Max(r) = m
    BY <2>1, <2>3
  <2>. QED  BY <2>4
<1>11. (1..n + 1) \ {n + 1} = 1..n /\ 1..n + 1 # {}
  <2>1. n \in Nat
    BY <1>1
  <2>. QED  BY <2>1
<1>12. Shifted(us) = Shift(g[1..n], t)
  BY <1>1, <1>5, <1>10, <1>11
<1>13. Shifted(<<>>) = Empty
  <2>. DEFINE e == <<>>
  <2>1. Len(e) = 0 /\ DOMAIN e = 1..0 /\ 1..0 = {}
    OBVIOUS
  <2>. HIDE DEF e
  <2>2. PICK h : IsReading(h, e)
    BY <2>1, ReadingExists
  <2>3. Shifted(e) = Empty
    BY <2>1, <2>2 DEF IsReading
  <2>. QED  BY <2>3 DEF e
<1>. QED  BY <1>2, <1>4, <1>9, <1>12, <1>13 DEF us

-----------------------------------------------------------------------------
(* What is left to do, seen from the operators that wait.                   *)

\* Where the parser is in a statement: before it, before an operand, after an
\* identifier's tokens, after an operand, at an operator that goes into the tree,
\* after it, after an expression, after the statement; and in what the reference
\* does not read, inside an expression statement or from the first token on.
Phases == {"start", "operand", "name", "postfix", "build", "operator", "done", "end",
           "void", "lost"}

\* A phase, and the operators and parentheses that wait for their right-hand side.
Places == Phases \X Seq(Waiters)

End == <<"end", <<>>>>

Operand(a) == a[1] = "operand" \/ a = <<"start", <<>>>>

\* What waits is not to be applied before an operator of precedence p.
Below(w, p) == w = <<>> \/ get_token_precedence(Last(w)) < p

\* The reference reads none of ts at a.
Foreign(ts, a) ==
  /\ a[1] \notin {"void", "lost", "end"}
  /\ \/ ts \cap (Waiters \cup {"x", ")"}) = {}
     \/ ts = {"("} /\ a[1] = "postfix"
     \/ ts = {"*"} /\ Operand(a)

\* What is not read may lead anywhere in the statement.
Onward(a, b) ==
  /\ b[1] # "start"
  /\ b[1] \in {"end", "lost"} => a = <<"start", <<>>>>

\* Consuming one of ts.
Takes(ts, a, b) ==
  \/ Foreign(ts, a) /\ Onward(a, b)
  \/ ts = {"x"} /\ Operand(a) /\ b = <<"name", a[2]>>
  \/ ts = {"("} /\ Operand(a) /\ b = <<"operand", Append(a[2], "(")>>
  \/ ts = {")"} /\ a = <<"done", Append(b[2], "(")>> /\ b[1] = "postfix"

\* The functions that the reference reads nothing of, by the token they expect.
Strangers ==
  [parse_literal |-> {"1", "text"}, parse_addressof |-> {"&"}, parse_deref |-> {"*"},
   parse_member_reference |-> {"."}, parse_indirect_member_reference |-> {"->"},
   parse_call |-> {"("}, parse_array_access |-> {"["}, parse_initializer |-> {"{"},
   parse_assign |-> AssignTokens, parse_while |-> {"while"}, parse_let |-> {"let"},
   parse_switch |-> {"switch"}, parse_default |-> {"default"},
   parse_case |-> {"case"}, parse_if |-> {"if"}, parse_for |-> {"for"},
   parse_block |-> {"{"}]

\* A call.
Calls(f, a, b) ==
  \/ f \in {"parse_identifier", "parse_name_parts"} /\ Operand(a) /\ b = <<"name", a[2]>>
  \/ f \in {"parse_postfix_expr", "parse_simple_expr"} /\ Operand(a)
     /\ b = <<"postfix", a[2]>>
  \/ f \in {"parse_expr", "parse_expr_statement"} /\ Operand(a) /\ Below(a[2], 0)
     /\ b = <<"done", a[2]>>
  \/ f = "parse_statement" /\ a = <<"start", <<>>>> /\ b = End
  \/ f \in DOMAIN Strangers /\ Foreign(Strangers[f], a) /\ Onward(a, b)

\* An item without a body leads from a to b.
Leads(i, a, b) ==
  \/ a[1] = "void" /\ i[1] # "attempted" /\ Onward(a, b)
  \/ i = StatementEnd /\ (a[1] = "void" \/ a = <<"done", <<>>>>) /\ b = End
  \/ a[1] = "lost" /\ i[1] # "attempted" /\ b[1] # "start"
  \/ i[1] = "expect" /\ Takes(i[2], a, b)
  \/ i[1] = "call" /\ Calls(i[2], a, b)
  \/ i[1] = "binop" /\ i[2] \in Nat /\ Below(a[2], i[2]) /\ a[1] \in {"postfix", "operator"}
     /\ b = <<"done", a[2]>>
  \/ i[1] = "climb" /\ i[2] \in Nat /\ Below(b[2], i[2]) /\ i[3] \in Binary
     /\ a = <<"postfix", Append(b[2], i[3])>> /\ b[1] = "done"
  \/ i = Build("x") /\ a[1] = "name" /\ b = <<"postfix", a[2]>>
  \/ i[1] = "build" /\ i[2] \in Binary /\ a[1] \in {"build", "done"}
     /\ a[2] = Append(b[2], i[2]) /\ b[1] = "operator"

\* The items of s lead from a to b, one after the other.
Passes(E(_, _, _), s, a, b) ==
  /\ IsList(s)
  /\ \E W \in [1..Len(s) + 1 -> Places] :
       /\ W[1] = a /\ W[Len(s) + 1] = b
       /\ \A k \in 1..Len(s) : E(s[k], W[k], W[k + 1])

\* An item may have a body.  Without an operand parse_simple_expr does nothing.
Parts(E(_, _, _), i, a, b) ==
  \/ Leads(i, a, b)
  \/ i[1] = "while" /\ a = b /\ a[1] \in {"name", "postfix"} /\ Passes(E, i[3], a, a)
  \/ /\ i[1] = "switch" /\ a[1] \notin {"void", "lost", "end"} /\ Onward(a, b)
     /\ \A k \in DOMAIN i[2] : Passes(E, i[2][k][2], a, b)
     /\ \/ Passes(E, i[3], a, b)
        \/ /\ i[3] = <<>> /\ Operand(a) /\ b = <<"postfix", a[2]>>
           /\ \A t \in {"x", "("} : \E k \in DOMAIN i[2] : t \in i[2][k][1]

Way0(s, a, b) == Passes(Leads, s, a, b)
Part1(i, a, b) == Parts(Leads, i, a, b)
Way1(s, a, b) == Passes(Part1, s, a, b)
Part2(i, a, b) == Parts(Part1, i, a, b)
Way2(s, a, b) == Passes(Part2, s, a, b)

-----------------------------------------------------------------------------
(* How ways are put together.                                               *)

\* Nothing to do leads where it starts.
LEMMA WayOf0 ==
  ASSUME NEW a \in Places
  PROVE  Way0(<<>>, a, a) /\ Way1(<<>>, a, a) /\ Way2(<<>>, a, a)
<1>. DEFINE s == <<>>  W == <<a>>
<1>1. IsList(s) /\ Len(s) = 0
  BY DEF IsList
<1>2. W \in [1..1 -> Places] /\ W[1] = a
  OBVIOUS
<1>. HIDE DEF s, W
<1>. QED  BY <1>1, <1>2 DEF Way0, Way1, Way2, Passes, s

\* A list of one item.
LEMMA WayOf1 ==
  ASSUME NEW x, NEW a \in Places, NEW b \in Places
  PROVE  /\ Leads(x, a, b) => Way0(<<x>>, a, b)
         /\ Part1(x, a, b) => Way1(<<x>>, a, b)
         /\ Part2(x, a, b) => Way2(<<x>>, a, b)
<1>. DEFINE s == <<x>>  W == <<a, b>>
<1>1. IsList(s) /\ Len(s) = 1 /\ s[1] = x
  BY DEF IsList
<1>2. W \in [1..2 -> Places] /\ W[1] = a /\ W[2] = b
  OBVIOUS
<1>. HIDE DEF s, W
<1>. QED  BY <1>1, <1>2 DEF Way0, Way1, Way2, Passes, s

\* A list of two items, the second from where the first leads.
LEMMA WayOf2 ==
  ASSUME NEW x, NEW y, NEW a \in Places, NEW b \in Places, NEW c \in Places
  PROVE  /\ Leads(x, a, b) /\ Leads(y, b, c) => Way0(<<x, y>>, a, c)
         /\ Part1(x, a, b) /\ Part1(y, b, c) => Way1(<<x, y>>, a, c)
         /\ Part2(x, a, b) /\ Part2(y, b, c) => Way2(<<x, y>>, a, c)
<1>. DEFINE s == <<x, y>>  W == <<a, b, c>>
<1>1. IsList(s) /\ Len(s) = 2 /\ s[1] = x /\ s[2] = y
  BY DEF IsList
<1>2. W \in [1..3 -> Places] /\ W[1] = a /\ W[2] = b /\ W[3] = c
  OBVIOUS
<1>. HIDE DEF s, W
<1>. QED  BY <1>1, <1>2 DEF Way0, Way1, Way2, Passes, s

\* A list of three items.
LEMMA WayOf3 ==
  ASSUME NEW x, NEW y, NEW z,
         NEW a \in Places, NEW b \in Places, NEW c \in Places, NEW d \in Places
  PROVE  /\ Leads(x, a, b) /\ Leads(y, b, c) /\ Leads(z, c, d) =>
            Way0(<<x, y, z>>, a, d)
         /\ Part1(x, a, b) /\ Part1(y, b, c) /\ Part1(z, c, d) =>
            Way1(<<x, y, z>>, a, d)
         /\ Part2(x, a, b) /\ Part2(y, b, c) /\ Part2(z, c, d) =>
            Way2(<<x, y, z>>, a, d)
<1>. DEFINE s == <<x, y, z>>  W == <<a, b, c, d>>
<1>1. IsList(s) /\ Len(s) = 3 /\ s[1] = x /\ s[2] = y /\ s[3] = z
  BY DEF IsList
<1>2. W \in [1..4 -> Places] /\ W[1] = a /\ W[2] = b /\ W[3] = c /\ W[4] = d
  OBVIOUS
<1>. HIDE DEF s, W
<1>. QED  BY <1>1, <1>2 DEF Way0, Way1, Way2, Passes, s

\* What leads without a body leads at every depth of nesting.
LEMMA LeadsUp ==
  \A i, a, b : Leads(i, a, b) => Part1(i, a, b) /\ Part2(i, a, b)
BY DEF Part1, Part2, Parts

\* So does a list of what has no body.
LEMMA Way0Up == \A s, a, b : Way0(s, a, b) => Way1(s, a, b)
BY LeadsUp DEF Way0, Way1, Passes

\* What leads with bodies at one depth leads with bodies at two.
LEMMA Part1Up == \A i, a, b : Part1(i, a, b) => Part2(i, a, b)
<1>. TAKE i, a, b
<1>1. \A s, c : Passes(Leads, s, a, c) => Passes(Part1, s, a, c)
  BY Way0Up DEF Way0, Way1
<1>. QED  BY <1>1 DEF Part1, Part2, Parts

\* So does a list of it.
LEMMA Way1Up == \A s, a, b : Way1(s, a, b) => Way2(s, a, b)
BY Part1Up DEF Way1, Way2, Passes

\* What is left to do is its first item and what comes after it.
LEMMA WayHead ==
  ASSUME NEW s, NEW a, NEW b, Way2(s, a, b), s # <<>>
  PROVE  /\ a \in Places /\ b \in Places
         /\ \E c \in Places : Part2(Head(s), a, c) /\ Way2(Tail(s), c, b)
<1>1. PICK W \in [1..Len(s) + 1 -> Places] :
        /\ W[1] = a /\ W[Len(s) + 1] = b
        /\ \A k \in 1..Len(s) : Part2(s[k], W[k], W[k + 1])
  BY DEF Way2, Passes
<1>2. IsList(s) /\ Len(s) \in Nat /\ Len(s) > 0
  BY ListIsSeq, EmptySeq DEF Way2, Passes, IsList
<1>. DEFINE S == {s[k] : k \in 1..Len(s)}  V == [k \in 1..Len(s) |-> W[k + 1]]
<1>3. s \in Seq(S)
  BY <1>2, ListIsSeq
<1>4. /\ Head(s) = s[1] /\ Tail(s) \in Seq(S) /\ Len(Tail(s)) = Len(s) - 1
      /\ \A k \in 1..Len(s) - 1 : Tail(s)[k] = s[k + 1]
  <2>. HIDE DEF S
  <2>. QED  BY <1>2, <1>3
<1>5. /\ V \in [1..Len(s) -> Places] /\ V[1] = W[2] /\ V[Len(s)] = b
      /\ \A k \in 1..Len(s) : V[k] = W[k + 1]
  BY <1>1, <1>2
<1>. HIDE DEF S, V
<1>6. IsList(Tail(s))
  BY <1>4, SeqIsList
<1>7. Passes(Part2, Tail(s), W[2], b)
  <2>1. \A k \in 1..Len(Tail(s)) : Part2(Tail(s)[k], V[k], V[k + 1])
    BY <1>1, <1>2, <1>4, <1>5
  <2>. QED  BY <1>2, <1>4, <1>5, <1>6, <2>1 DEF Passes
<1>8. W[2] \in Places /\ Part2(s[1], a, W[2]) /\ a \in Places /\ b \in Places
  BY <1>1, <1>2
<1>. QED  BY <1>4, <1>7, <1>8 DEF Way2

\* What leads to a place and what leads on from it, one after the other.
LEMMA WayConcat ==
  ASSUME NEW s, NEW t, NEW a, NEW b, NEW c, Way2(s, a, b), Way2(t, b, c)
  PROVE  Way2(s \o t, a, c)
<1>1. PICK V \in [1..Len(s) + 1 -> Places] :
        /\ V[1] = a /\ V[Len(s) + 1] = b
        /\ \A k \in 1..Len(s) : Part2(s[k], V[k], V[k + 1])
  BY DEF Way2, Passes
<1>2. PICK W \in [1..Len(t) + 1 -> Places] :
        /\ W[1] = b /\ W[Len(t) + 1] = c
        /\ \A k \in 1..Len(t) : Part2(t[k], W[k], W[k + 1])
  BY DEF Way2, Passes
<1>. DEFINE S == {s[k] : k \in 1..Len(s)} \cup {t[k] : k \in 1..Len(t)}
            n == Len(s) + Len(t)
            X == [k \in 1..n + 1 |-> IF k <= Len(s) THEN V[k] ELSE W[k - Len(s)]]
<1>3. IsList(s) /\ IsList(t) /\ Len(s) \in Nat /\ Len(t) \in Nat
  BY DEF Way2, Passes, IsList
<1>4. s \in Seq(S) /\ t \in Seq(S)
  <2>1. (\A k \in 1..Len(s) : s[k] \in S) /\ (\A k \in 1..Len(t) : t[k] \in S)
    OBVIOUS
  <2>. HIDE DEF S
  <2>. QED  BY <1>3, <2>1 DEF IsList
<1>5. /\ s \o t \in Seq(S) /\ Len(s \o t) = n
      /\ \A k \in 1..n : (s \o t)[k] = IF k <= Len(s) THEN s[k] ELSE t[k - Len(s)]
  <2>. HIDE DEF S
  <2>. QED  BY <1>3, <1>4, ConcatProperties
<1>7. /\ X \in [1..n + 1 -> Places] /\ X[1] = a /\ X[n + 1] = c
      /\ \A k \in 1..n + 1 : X[k] = IF k <= Len(s) THEN V[k] ELSE W[k - Len(s)]
  BY <1>1, <1>2, <1>3
<1>. HIDE DEF X, S
<1>6. IsList(s \o t)
  BY <1>5, SeqIsList
<1>8. ASSUME NEW k \in 1..n PROVE Part2((s \o t)[k], X[k], X[k + 1])
  <2>1. CASE k <= Len(s) - 1
    BY <2>1, <1>1, <1>3, <1>5, <1>7
  <2>2. CASE k = Len(s)
    <3>1. X[k] = V[k] /\ X[k + 1] = V[k + 1] /\ (s \o t)[k] = s[k]
      BY <2>2, <1>1, <1>2, <1>3, <1>5, <1>7
    <3>. QED  BY <3>1, <2>2, <1>1, <1>3
  <2>3. CASE k >= Len(s) + 1
    <3>1. /\ X[k] = W[k - Len(s)] /\ X[k + 1] = W[k - Len(s) + 1]
          /\ (s \o t)[k] = t[k - Len(s)] /\ k - Len(s) \in 1..Len(t)
      BY <2>3, <1>3, <1>5, <1>7
    <3>. QED  BY <3>1, <1>2
  <2>. QED  BY <2>1, <2>2, <2>3, <1>3
<1>. QED  BY <1>5, <1>6, <1>7, <1>8 DEF Way2, Passes

\* Nothing leads to the start, and to the end or out of the statement only the
\* semicolon and what starts it.
LEMMA LeadsFrom ==
  ASSUME NEW i, NEW a, NEW b, Part2(i, a, b)
  PROVE  /\ b[1] # "start" /\ a[1] # "end"
         /\ b[1] = "lost" => a = <<"start", <<>>>> \/ a[1] = "lost"
         /\ b[1] = "end" => a = <<"start", <<>>>> \/ a[1] = "lost" \/ i = Expect({";"})
         /\ i # Attempted
<1>1. Attempted[1] = "attempted" /\ <<"start", <<>>>>[1] = "start"
  BY DEF Attempted
<1>2. Operand(a) => a[1] \in {"operand", "start"} /\ (a[1] = "start" => a = <<"start", <<>>>>)
  BY DEF Operand
<1>3. CASE i[1] = "expect" /\ Takes(i[2], a, b)
  <2>1. \/ a[1] \notin {"void", "lost", "end"} /\ Onward(a, b)
        \/ a[1] \in {"start", "operand", "done"} /\ b[1] \in {"name", "operand", "postfix"}
    BY <1>1, <1>2, <1>3 DEF Takes, Foreign
  <2>. QED  BY <1>1, <1>3, <2>1 DEF Onward
<1>4. CASE i[1] = "call" /\ Calls(i[2], a, b)
  <2>1. \/ a[1] \notin {"void", "lost", "end"} /\ Onward(a, b)
        \/ a[1] \in {"start", "operand"} /\ b[1] \in {"name", "postfix", "done"}
        \/ a = <<"start", <<>>>> /\ b[1] = "end"
    BY <1>1, <1>2, <1>4 DEF Calls, Foreign, End
  <2>. QED  BY <1>1, <1>4, <2>1 DEF Onward
<1>5. CASE /\ Leads(i, a, b)
           /\ ~(i[1] = "expect" /\ Takes(i[2], a, b)) /\ ~(i[1] = "call" /\ Calls(i[2], a, b))
  <2>1. /\ StatementEnd = Expect({";"}) /\ StatementEnd[1] = "expect"
        /\ Build("x")[1] = "build" /\ End[1] = "end"
    BY DEF StatementEnd, Expect, Build, End
  <2>2. \/ a[1] = "void" /\ i[1] # "attempted" /\ Onward(a, b)
        \/ i = StatementEnd /\ a[1] \in {"void", "done"} /\ b = End
        \/ a[1] = "lost" /\ i[1] # "attempted" /\ b[1] # "start"
        \/ i[1] = "binop" /\ a[1] \in {"postfix", "operator"} /\ b[1] = "done"
        \/ i[1] = "climb" /\ a[1] = "postfix" /\ b[1] = "done"
        \/ i = Build("x") /\ a[1] = "name" /\ b[1] = "postfix"
        \/ i[1] = "build" /\ a[1] \in {"build", "done"} /\ b[1] = "operator"
    <3>. HIDE DEF End
    <3>. QED  BY <1>5 DEF Leads
  <2>. QED  BY <1>1, <2>1, <2>2 DEF Onward
<1>6. CASE ~Leads(i, a, b)
  <2>1. \/ i[1] = "while" /\ a = b /\ a[1] \in {"name", "postfix"}
        \/ i[1] = "switch" /\ a[1] \notin {"void", "lost", "end"} /\ Onward(a, b)
    BY <1>6 DEF Part2, Parts
  <2>. QED  BY <1>1, <2>1 DEF Onward
<1>. QED  BY <1>3, <1>4, <1>5, <1>6

\* In the middle of a statement the semicolon is the last thing to do.
LEMMA WayEnds ==
  ASSUME NEW s, NEW a, Way2(s, a, End), a[1] \notin {"start", "lost", "end"}
  PROVE  s # <<>> /\ Last(s) = StatementEnd
<1>1. PICK W \in [1..Len(s) + 1 -> Places] :
        /\ W[1] = a /\ W[Len(s) + 1] = End
        /\ \A k \in 1..Len(s) : Part2(s[k], W[k], W[k + 1])
  BY DEF Way2, Passes
<1>2. Len(s) \in Nat
  BY DEF Way2, Passes, IsList
<1>3. Len(s) # 0
  BY <1>1 DEF End
<1>. DEFINE B == {k \in 1..Len(s) : W[k][1] \in {"start", "lost"}}
<1>4. CASE B = {}
  <2>1. Len(s) \in 1..Len(s) /\ Len(s) \notin B
    BY <1>2, <1>3, <1>4
  <2>2. Part2(s[Len(s)], W[Len(s)], End) /\ W[Len(s)][1] \notin {"start", "lost"}
    BY <1>1, <2>1
  <2>5. End[1] = "end" /\ <<"start", <<>>>>[1] = "start"
    BY DEF End
  <2>3. s[Len(s)] = Expect({";"})
    BY <2>2, <2>5, LeadsFrom
  <2>4. s # <<>>
    BY <1>3
  <2>. QED  BY <2>3, <2>4 DEF Last, StatementEnd
<1>5. CASE B # {}
  <2>1. B \in SUBSET Nat
    BY <1>2
  <2>2. PICK k \in B : \A y \in B : k <= y
    <3>. HIDE DEF B
    <3>. QED  BY <1>5, <2>1, LeastNat
  <2>3. k # 1
    BY <1>1, <2>2
  <2>4. k \in 1..Len(s) /\ k - 1 \in 1..Len(s) /\ k - 1 \notin B /\ (k - 1) + 1 = k
    BY <1>2, <2>2, <2>3
  <2>5. Part2(s[k - 1], W[k - 1], W[k])
    BY <1>1, <2>4
  <2>7. <<"start", <<>>>>[1] = "start"
    OBVIOUS
  <2>6. W[k][1] = "lost" /\ W[k - 1] # <<"start", <<>>>> /\ W[k - 1][1] # "lost"
    BY <2>2, <2>4, <2>5, <2>7, LeadsFrom
  <2>. QED  BY <2>5, <2>6, LeadsFrom
<1>. QED  BY <1>4, <1>5

\* After it there is nothing to do.
LEMMA WayNil ==
  ASSUME NEW s, NEW a, NEW b, Way2(s, a, b)
  PROVE  /\ s = <<>> => a = b
         /\ a[1] = "end" => s = <<>>
<1>1. s = <<>> => a = b
  BY DEF Way2, Passes
<1>2. a[1] = "end" => s = <<>>
  BY WayHead, LeadsFrom
<1>. QED  BY <1>1, <1>2

-----------------------------------------------------------------------------
(* The functions of Grammar, as far as the reference reads what they consume. *)

\* s consumes one of ts first.
Begins(s, ts) ==
  /\ Len(s) >= 1 /\ s[1] = Expect(ts)
  /\ \A k \in 1..Len(s) : s[k][1] # "attempted"

\* A list of one item.
LEMMA Begins1 ==
  \A ts : Begins(<<Expect(ts)>>, ts)
BY DEF Begins, Expect

\* A list of two items.
LEMMA Begins2 ==
  ASSUME NEW ts, NEW x, x[1] # "attempted"
  PROVE  Begins(<<Expect(ts), x>>, ts)
<1>. DEFINE s == <<Expect(ts), x>>
<1>1. Len(s) = 2 /\ s[1] = Expect(ts) /\ s[2] = x /\ Expect(ts)[1] # "attempted"
  BY DEF Expect
<1>. HIDE DEF s
<1>2. Begins(s, ts)
  BY <1>1 DEF Begins
<1>. QED  BY <1>2 DEF s

\* A list of three items.
LEMMA Begins3 ==
  ASSUME NEW ts, NEW x, NEW y, x[1] # "attempted", y[1] # "attempted"
  PROVE  Begins(<<Expect(ts), x, y>>, ts)
<1>. DEFINE s == <<Expect(ts), x, y>>
<1>1. /\ Len(s) = 3 /\ s[1] = Expect(ts) /\ s[2] = x /\ s[3] = y
      /\ Expect(ts)[1] # "attempted"
  BY DEF Expect
<1>. HIDE DEF s
<1>2. Begins(s, ts)
  BY <1>1 DEF Begins
<1>. QED  BY <1>2 DEF s

\* A list of four items.
LEMMA Begins4 ==
  ASSUME NEW ts, NEW x, NEW y, NEW z,
         x[1] # "attempted", y[1] # "attempted", z[1] # "attempted"
  PROVE  Begins(<<Expect(ts), x, y, z>>, ts)
<1>. DEFINE s == <<Expect(ts), x, y, z>>
<1>1. /\ Len(s) = 4 /\ s[1] = Expect(ts) /\ s[2] = x /\ s[3] = y /\ s[4] = z
      /\ Expect(ts)[1] # "attempted"
  BY DEF Expect
<1>. HIDE DEF s
<1>2. Begins(s, ts)
  BY <1>1 DEF Begins
<1>. QED  BY <1>2 DEF s

\* A list of five items.
LEMMA Begins5 ==
  ASSUME NEW ts, NEW x, NEW y, NEW z, NEW t,
         x[1] # "attempted", y[1] # "attempted", z[1] # "attempted", t[1] # "attempted"
  PROVE  Begins(<<Expect(ts), x, y, z, t>>, ts)
<1>. DEFINE s == <<Expect(ts), x, y, z, t>>
<1>1. /\ Len(s) = 5 /\ s[1] = Expect(ts) /\ s[2] = x /\ s[3] = y /\ s[4] = z /\ s[5] = t
      /\ Expect(ts)[1] # "attempted"
  BY DEF Expect
<1>. HIDE DEF s
<1>2. Begins(s, ts)
  BY <1>1 DEF Begins
<1>. QED  BY <1>2 DEF s

\* No item of Grammar says that an error is dropped here: only a call in progress does.
LEMMA NoneAttempted ==
  /\ \A ts : Expect(ts)[1] # "attempted"
  /\ \A f : Call(f)[1] # "attempted" /\ Attempt(f)[1] # "attempted"
  /\ \A ts, s : Until(ts, s)[1] # "attempted"
  /\ \A ts, s, t : At(ts, s, t)[1] # "attempted"
  /\ \A t : Opt(t)[1] # "attempted"
  /\ Condition[1] # "attempted" /\ StatementEnd[1] # "attempted"
BY DEF Expect, Call, Attempt, Until, At, Opt, Switch, Condition, StatementEnd

\* What the strangers consume first.
LEMMA StrangersBegin ==
  ASSUME NEW f \in DOMAIN Strangers
  PROVE  f \in DOMAIN Functions \ InnerLoops /\ Begins(Functions[f], Strangers[f])
<1>1. CASE f \in {"parse_literal", "parse_addressof", "parse_deref", "parse_member_reference",
                  "parse_indirect_member_reference", "parse_initializer"}
  <2>1. /\ Begins(parse_literal, {"1", "text"})
        /\ Begins(parse_addressof, {"&"})
        /\ Begins(parse_deref, {"*"})
        /\ Begins(parse_member_reference, {"."})
        /\ Begins(parse_indirect_member_reference, {"->"})
        /\ Begins(parse_initializer, {"{"})
    BY Begins1, Begins2, NoneAttempted DEF parse_literal, parse_addressof, parse_deref,
       parse_member_reference, parse_indirect_member_reference, parse_initializer
  <2>2. /\ Functions["parse_literal"] = parse_literal
        /\ Functions["parse_addressof"] = parse_addressof
        /\ Functions["parse_deref"] = parse_deref
        /\ Functions["parse_member_reference"] = parse_member_reference
        /\ Functions["parse_indirect_member_reference"] = parse_indirect_member_reference
        /\ Functions["parse_initializer"] = parse_initializer
    BY DEF Functions
  <2>3. /\ Strangers["parse_literal"] = {"1", "text"}
        /\ Strangers["parse_addressof"] = {"&"}
        /\ Strangers["parse_deref"] = {"*"}
        /\ Strangers["parse_member_reference"] = {"."}
        /\ Strangers["parse_indirect_member_reference"] = {"->"}
        /\ Strangers["parse_initializer"] = {"{"}
    BY DEF Strangers
  <2>. QED  BY <1>1, <2>1, <2>2, <2>3, Names
<1>2. CASE f \in {"parse_call", "parse_array_access", "parse_assign", "parse_while", "parse_let",
                  "parse_switch"}
  <2>1. /\ Begins(parse_call, {"("})
        /\ Begins(parse_array_access, {"["})
        /\ Begins(parse_assign, AssignTokens)
        /\ Begins(parse_while, {"while"})
        /\ Begins(parse_let, {"let"})
        /\ Begins(parse_switch, {"switch"})
    BY Begins2, Begins3, Begins5, NoneAttempted DEF parse_call, parse_array_access,
       parse_assign, parse_while, parse_let, parse_switch
  <2>2. /\ Functions["parse_call"] = parse_call
        /\ Functions["parse_array_access"] = parse_array_access
        /\ Functions["parse_assign"] = parse_assign
        /\ Functions["parse_while"] = parse_while
        /\ Functions["parse_let"] = parse_let
        /\ Functions["parse_switch"] = parse_switch
    BY DEF Functions
  <2>3. /\ Strangers["parse_call"] = {"("}
        /\ Strangers["parse_array_access"] = {"["}
        /\ Strangers["parse_assign"] = AssignTokens
        /\ Strangers["parse_while"] = {"while"}
        /\ Strangers["parse_let"] = {"let"}
        /\ Strangers["parse_switch"] = {"switch"}
    BY DEF Strangers
  <2>. QED  BY <1>2, <2>1, <2>2, <2>3, Names
<1>3. CASE f \in {"parse_default", "parse_case", "parse_if", "parse_for", "parse_block"}
  <2>1. /\ Begins(parse_default, {"default"})
        /\ Begins(parse_case, {"case"})
        /\ Begins(parse_if, {"if"})
        /\ Begins(parse_for, {"for"})
        /\ Begins(parse_block, {"{"})
    <3>1. Begins(parse_default, {"default"}) /\ Begins(parse_block, {"{"})
      BY Begins3, NoneAttempted DEF parse_default, parse_block
    <3>2. Begins(parse_case, {"case"}) /\ Begins(parse_if, {"if"})
      BY Begins4, NoneAttempted DEF parse_case, parse_if
    <3>3. Begins(parse_for, {"for"})
      <4>1. /\ Len(parse_for) = 8 /\ parse_for[1] = Expect({"for"})
            /\ parse_for[2] = Expect({"("}) /\ parse_for[3] = Call("parse_statement")
            /\ parse_for[4] = Call("parse_expr") /\ parse_for[5] = Expect({";"})
            /\ parse_for[6] = Call("parse_expr_statement") /\ parse_for[7] = Expect({")"})
            /\ parse_for[8] = Call("parse_statement")
        BY DEF parse_for
      <4>2. ASSUME NEW k \in 1..8 PROVE parse_for[k][1] # "attempted"
        <5>1. k \in {1, 2, 3, 4, 5, 6, 7, 8}
          OBVIOUS
        <5>2. parse_for[k] \in {Expect({"for"}), Expect({"("}), Expect({";"}), Expect({")"})}
                \/ \E g : parse_for[k] = Call(g)
          BY <4>1, <5>1
        <5>. QED  BY <5>2, NoneAttempted
      <4>3. Len(parse_for) = 8
        BY <4>1
      <4>4. \A k \in 1..Len(parse_for) : parse_for[k][1] # "attempted"
        BY <4>2, <4>3, Zenon
      <4>5. Len(parse_for) >= 1
        BY <4>3
      <4>. QED  BY <4>1, <4>4, <4>5, Zenon DEF Begins
    <3>. QED  BY <3>1, <3>2, <3>3
  <2>2. /\ Functions["parse_default"] = parse_default
        /\ Functions["parse_case"] = parse_case
        /\ Functions["parse_if"] = parse_if
        /\ Functions["parse_for"] = parse_for
        /\ Functions["parse_block"] = parse_block
    BY DEF Functions
  <2>3. /\ Strangers["parse_default"] = {"default"}
        /\ Strangers["parse_case"] = {"case"}
        /\ Strangers["parse_if"] = {"if"}
        /\ Strangers["parse_for"] = {"for"}
        /\ Strangers["parse_block"] = {"{"}
    BY DEF Strangers
  <2>. QED  BY <1>3, <2>1, <2>2, <2>3, Names
<1>. QED  BY <1>1, <1>2, <1>3 DEF Strangers

\* A list that begins with a token the reference does not read may lead anywhere.
LEMMA StrangeWay ==
  ASSUME NEW s, NEW ts, NEW a \in Places, NEW b \in Places, IsList(s), Begins(s, ts),
         Foreign(ts, a), Onward(a, b)
  PROVE  Way2(s, a, b)
<1>. DEFINE m == IF a = <<"start", <<>>>> THEN <<"lost", <<>>>> ELSE <<"void", <<>>>>
            n == Len(s)
            W == [k \in 1..n + 1 |-> IF k = 1 THEN a ELSE IF k = n + 1 THEN b ELSE m]
<1>1. n \in Nat /\ n >= 1 /\ s[1] = Expect(ts) /\ \A k \in 1..n : s[k][1] # "attempted"
  BY DEF IsList, Begins
<1>2. m \in Places
  <2>1. <<>> \in Seq(Waiters)
    OBVIOUS
  <2>2. <<"lost", <<>>>> \in Places /\ <<"void", <<>>>> \in Places
    BY <2>1 DEF Places, Phases
  <2>. QED  BY <2>2
<1>3. Onward(a, m) /\ Leads(s[1], a, m) /\ Leads(s[1], a, b)
  <2>1. Onward(a, m)
    BY DEF Onward
  <2>2. s[1][1] = "expect" /\ s[1][2] = ts
    BY <1>1 DEF Expect
  <2>. QED  BY <2>1, <2>2 DEF Leads, Takes
<1>4. ASSUME NEW x, x[1] # "attempted" PROVE Leads(x, m, m) /\ Leads(x, m, b)
  <2>1. CASE a = <<"start", <<>>>>
    <3>1. m[1] = "lost" /\ b[1] # "start"
      BY <2>1 DEF Onward
    <3>. HIDE DEF m
    <3>. QED  BY <1>4, <3>1 DEF Leads
  <2>2. CASE a # <<"start", <<>>>>
    <3>1. m[1] = "void" /\ Onward(m, m) /\ Onward(m, b)
      BY <2>2 DEF Onward
    <3>. HIDE DEF m
    <3>. QED  BY <1>4, <3>1 DEF Leads
  <2>. QED  BY <2>1, <2>2
<1>. HIDE DEF m
<1>5. /\ W \in [1..n + 1 -> Places] /\ W[1] = a /\ W[n + 1] = b
      /\ \A k \in 2..n : W[k] = m
  BY <1>1, <1>2
<1>. HIDE DEF W
<1>6. ASSUME NEW k \in 1..n PROVE Leads(s[k], W[k], W[k + 1])
  <2>1. k + 1 \in 2..n \/ k + 1 = n + 1
    BY <1>1
  <2>2. CASE k = 1
    BY <1>3, <1>5, <2>1, <2>2
  <2>3. CASE k # 1
    <3>1. W[k] = m /\ s[k][1] # "attempted"
      BY <1>1, <1>5, <2>3
    <3>. QED  BY <1>4, <1>5, <2>1, <3>1
  <2>. QED  BY <2>2, <2>3
<1>7. Way0(s, a, b)
  BY <1>5, <1>6 DEF Way0, Passes, n
<1>. QED  BY <1>7, Way0Up, Way1Up

\* The places named here.
LEMMA PlacesAre ==
  /\ \A a \in Places : a[1] \in Phases /\ a[2] \in Seq(Waiters) /\ a = <<a[1], a[2]>>
  /\ \A p \in Phases, w \in Seq(Waiters) :
       <<p, w>> \in Places /\ <<p, w>>[1] = p /\ <<p, w>>[2] = w
  /\ <<>> \in Seq(Waiters) /\ End \in Places
  /\ \A w \in Seq(Waiters), t \in Waiters : Append(w, t) \in Seq(Waiters)
<1>1. <<>> \in Seq(Waiters)
  OBVIOUS
<1>2. End \in Places
  BY <1>1 DEF End, Places, Phases
<1>3. \A w \in Seq(Waiters), t \in Waiters : Append(w, t) \in Seq(Waiters)
  OBVIOUS
<1>4. \A a \in Places : a[1] \in Phases /\ a[2] \in Seq(Waiters) /\ a = <<a[1], a[2]>>
  BY DEF Places
<1>5. \A p \in Phases, w \in Seq(Waiters) :
        <<p, w>> \in Places /\ <<p, w>>[1] = p /\ <<p, w>>[2] = w
  BY DEF Places
<1>. QED  BY <1>1, <1>2, <1>3, <1>4, <1>5

\* The names of the phases.
LEMMA PhasesAre ==
  /\ "start" \in Phases /\ "operand" \in Phases /\ "name" \in Phases /\ "postfix" \in Phases
  /\ "build" \in Phases /\ "operator" \in Phases /\ "done" \in Phases /\ "end" \in Phases
  /\ "void" \in Phases /\ "lost" \in Phases
BY DEF Phases

\* What the calls of an expression lead to.
LEMMA CallLeads ==
  ASSUME NEW a \in Places, Operand(a)
  PROVE  /\ Leads(Call("parse_identifier"), a, <<"name", a[2]>>)
         /\ Leads(Call("parse_name_parts"), a, <<"name", a[2]>>)
         /\ Leads(Call("parse_simple_expr"), a, <<"postfix", a[2]>>)
         /\ Leads(Call("parse_postfix_expr"), a, <<"postfix", a[2]>>)
         /\ Below(a[2], 0) => /\ Leads(Call("parse_expr"), a, <<"done", a[2]>>)
                              /\ Leads(Call("parse_expr_statement"), a, <<"done", a[2]>>)
<1>1. \A f, b : Calls(f, a, b) => Leads(Call(f), a, b)
  BY DEF Leads, Call
<1>2. /\ Calls("parse_identifier", a, <<"name", a[2]>>)
      /\ Calls("parse_name_parts", a, <<"name", a[2]>>)
      /\ Calls("parse_simple_expr", a, <<"postfix", a[2]>>)
      /\ Calls("parse_postfix_expr", a, <<"postfix", a[2]>>)
      /\ Below(a[2], 0) => /\ Calls("parse_expr", a, <<"done", a[2]>>)
                           /\ Calls("parse_expr_statement", a, <<"done", a[2]>>)
  BY DEF Calls
<1>. QED  BY <1>1, <1>2

\* What a stranger leads to.
LEMMA StrangerLeads ==
  ASSUME NEW a, NEW b, Onward(a, b)
  PROVE  /\ \A f \in DOMAIN Strangers : Foreign(Strangers[f], a) => Leads(Call(f), a, b)
         /\ \A ts : Foreign(ts, a) => Leads(Expect(ts), a, b)
BY DEF Leads, Call, Expect, Calls, Takes

\* The strangers by name, and the tokens they start with.
LEMMA StrangeTokens ==
  /\ DOMAIN Strangers =
       {"parse_literal", "parse_addressof", "parse_deref", "parse_member_reference",
        "parse_indirect_member_reference", "parse_call", "parse_array_access",
        "parse_initializer", "parse_assign", "parse_while", "parse_let", "parse_switch",
        "parse_default", "parse_case", "parse_if", "parse_for", "parse_block"}
  /\ \A a : a[1] \notin {"void", "lost", "end"} =>
       /\ \A f \in DOMAIN Strangers \ {"parse_call", "parse_deref"} : Foreign(Strangers[f], a)
       /\ a[1] = "postfix" => Foreign(Strangers["parse_call"], a)
       /\ Operand(a) => Foreign(Strangers["parse_deref"], a)
       /\ Foreign({"::"}, a) /\ Foreign({"is"}, a) /\ Foreign({"return"}, a)
<1>1. DOMAIN Strangers =
       {"parse_literal", "parse_addressof", "parse_deref", "parse_member_reference",
        "parse_indirect_member_reference", "parse_call", "parse_array_access",
        "parse_initializer", "parse_assign", "parse_while", "parse_let", "parse_switch",
        "parse_default", "parse_case", "parse_if", "parse_for", "parse_block"}
  BY DEF Strangers
<1>2. \A f \in DOMAIN Strangers \ {"parse_call", "parse_deref"} :
        Strangers[f] \cap (Waiters \cup {"x", ")"}) = {}
  <2>. DEFINE known == Waiters \cup {"x", ")"}
  <2>1. Strangers["parse_assign"] \cap known = {}
    BY DEF Strangers, AssignTokens, Waiters, BinOpTokens
  <2>2. /\ Strangers["parse_literal"] = {"1", "text"}
        /\ Strangers["parse_addressof"] = {"&"}
        /\ Strangers["parse_member_reference"] = {"."}
        /\ Strangers["parse_indirect_member_reference"] = {"->"}
        /\ Strangers["parse_array_access"] = {"["}
    BY DEF Strangers
  <2>3. /\ {"1", "text"} \cap known = {}
        /\ {"&"} \cap known = {}
        /\ {"."} \cap known = {}
        /\ {"->"} \cap known = {}
        /\ {"["} \cap known = {}
    BY DEF Waiters, BinOpTokens
  <2>4. /\ Strangers["parse_initializer"] = {"{"}
        /\ Strangers["parse_while"] = {"while"}
        /\ Strangers["parse_let"] = {"let"}
        /\ Strangers["parse_switch"] = {"switch"}
        /\ Strangers["parse_default"] = {"default"}
    BY DEF Strangers
  <2>5. /\ {"{"} \cap known = {}
        /\ {"while"} \cap known = {}
        /\ {"let"} \cap known = {}
        /\ {"switch"} \cap known = {}
        /\ {"default"} \cap known = {}
    BY DEF Waiters, BinOpTokens
  <2>6. /\ Strangers["parse_case"] = {"case"}
        /\ Strangers["parse_if"] = {"if"}
        /\ Strangers["parse_for"] = {"for"}
        /\ Strangers["parse_block"] = {"{"}
    BY DEF Strangers
  <2>7. /\ {"case"} \cap known = {}
        /\ {"if"} \cap known = {}
        /\ {"for"} \cap known = {}
        /\ {"{"} \cap known = {}
    BY DEF Waiters, BinOpTokens
  <2>. HIDE DEF known
  <2>8. /\ \A f \in {"parse_literal", "parse_addressof", "parse_member_reference",
                   "parse_indirect_member_reference", "parse_array_access"} :
             Strangers[f] \cap known = {}
        /\ \A f \in {"parse_initializer", "parse_while", "parse_let", "parse_switch",
                   "parse_default"} :
             Strangers[f] \cap known = {}
        /\ \A f \in {"parse_case", "parse_if", "parse_for", "parse_block"} :
             Strangers[f] \cap known = {}
    BY <2>2, <2>3, <2>4, <2>5, <2>6, <2>7
  <2>9. \A f \in DOMAIN Strangers \ {"parse_call", "parse_deref"} : Strangers[f] \cap known = {}
    BY <1>1, <2>1, <2>8
  <2>. QED  BY <2>9 DEF known
<1>3. Strangers["parse_call"] = {"("} /\ Strangers["parse_deref"] = {"*"}
  BY DEF Strangers
<1>4. \A t \in {"::", "is", "return"} : {t} \cap (Waiters \cup {"x", ")"}) = {}
  BY DEF Waiters, BinOpTokens
<1>. QED  BY <1>1, <1>2, <1>3, <1>4 DEF Foreign

\* A switch leads where all of its arms lead; the two depths.
LEMMA SwitchLeads ==
  ASSUME NEW arms, NEW v, NEW a, NEW b, a[1] \notin {"void", "lost", "end"}, Onward(a, b)
  PROVE  /\ Way0(v, a, b) /\ (\A k \in DOMAIN arms : Way0(arms[k][2], a, b)) =>
              Part1(Switch(arms, v), a, b)
         /\ Way1(v, a, b) /\ (\A k \in DOMAIN arms : Way1(arms[k][2], a, b)) =>
              Part2(Switch(arms, v), a, b)
         /\ /\ v = <<>> /\ Operand(a) /\ b = <<"postfix", a[2]>>
            /\ \A t \in {"x", "("} : \E k \in DOMAIN arms : t \in arms[k][1]
            /\ \A k \in DOMAIN arms : Way0(arms[k][2], a, b)
            => Part1(Switch(arms, v), a, b)
<1>1. LET i == Switch(arms, v) IN i[1] = "switch" /\ i[2] = arms /\ i[3] = v
  BY DEF Switch
<1>. QED  BY <1>1 DEF Part1, Part2, Parts, Way0, Way1

\* The tokens of a name.
LEMMA NamePartsWay ==
  ASSUME NEW a \in Places, Operand(a)
  PROVE  /\ Way2(parse_name_parts, a, <<"name", a[2]>>)
         /\ Way2(parse_identifier, a, <<"name", a[2]>>)
<1>. DEFINE n == <<"name", a[2]>>  v == <<"void", <<>>>>
            body == <<Expect({"::"}), Expect({"x"})>>  loop == While({"::"}, body)
<1>1. n \in Places /\ v \in Places /\ n[1] = "name" /\ v[1] = "void"
  BY PlacesAre, PhasesAre
<1>2. Leads(Expect({"x"}), a, n)
  BY DEF Leads, Takes, Expect
<1>. HIDE DEF n, v
<1>3. Onward(n, v) /\ Onward(v, n)
  BY <1>1 DEF Onward
<1>4. Leads(Expect({"::"}), n, v)
  BY <1>1, <1>3, StrangerLeads, StrangeTokens
<1>5. Leads(Expect({"x"}), v, n)
  BY <1>1, <1>3, NoneAttempted DEF Leads
<1>6. Way0(body, n, n)
  BY <1>1, <1>4, <1>5, WayOf2
<1>. HIDE DEF body
<1>7. loop[1] = "while" /\ loop[3] = body
  BY DEF While
<1>. HIDE DEF loop
<1>8. Part1(loop, n, n)
  BY <1>1, <1>6, <1>7 DEF Part1, Parts, Way0
<1>9. Way1(<<Expect({"x"}), loop>>, a, n)
  BY <1>1, <1>2, <1>8, LeadsUp, WayOf2
<1>10. Way2(parse_name_parts, a, n)
  BY <1>9, Way1Up DEF parse_name_parts, loop, body
<1>11. Way2(parse_identifier, a, n)
  BY <1>1, CallLeads, WayOf1, Way0Up, Way1Up DEF parse_identifier, n
<1>. QED  BY <1>10, <1>11 DEF n

\* An operand, a name or an expression in parentheses, or none.
LEMMA SimpleExprWay ==
  ASSUME NEW a \in Places, Operand(a)
  PROVE  Way2(parse_simple_expr, a, <<"postfix", a[2]>>)
<1>. DEFINE b == <<"postfix", a[2]>>  n == <<"name", a[2]>>  w == Append(a[2], "(")
            o == <<"operand", w>>  d == <<"done", w>>
            s1 == <<Call("parse_literal"), Build("x")>>
            s2 == <<Call("parse_identifier"), Build("x")>>
            s3 == <<Expect({"("}), Call("parse_expr"), Expect({")"})>>
            s4 == <<Call("parse_addressof")>>
            s5 == <<Call("parse_deref")>>
            arms == <<On({"1", "text"}, s1), On({"x"}, s2), On({"("}, s3), On({"&"}, s4),
                      On({"*"}, s5)>>
<1>1. /\ w \in Seq(Waiters) /\ Last(w) = "(" /\ w # <<>>
  <2>1. a[2] \in Seq(Waiters) /\ "(" \in Waiters
    BY PlacesAre DEF Waiters
  <2>. QED  BY <2>1 DEF Last
<1>. HIDE DEF w
<1>2. /\ b \in Places /\ n \in Places /\ o \in Places /\ d \in Places
      /\ b[1] = "postfix" /\ b[2] = a[2] /\ n[1] = "name" /\ n[2] = a[2]
      /\ o[1] = "operand" /\ o[2] = w /\ d = <<"done", w>>
  BY <1>1, PlacesAre, PhasesAre
<1>3. a[1] \in {"start", "operand"} /\ a[1] \notin {"void", "lost", "end"}
  BY DEF Operand
<1>4. Onward(a, b) /\ Onward(a, n)
  BY <1>2 DEF Onward
<1>5. Way0(s1, a, b) /\ Way0(s2, a, b)
  <2>1. Leads(Call("parse_literal"), a, n)
    BY <1>3, <1>4, StrangerLeads, StrangeTokens
  <2>2. Leads(Call("parse_identifier"), a, n)
    BY CallLeads
  <2>3. Leads(Build("x"), n, b)
    BY <1>2 DEF Leads
  <2>. QED  BY <1>2, <2>1, <2>2, <2>3, WayOf2
<1>6. Way0(s3, a, b)
  <2>1. Leads(Expect({"("}), a, o)
    BY DEF Leads, Takes, Expect, w
  <2>2. Below(o[2], 0)
    <3>1. get_token_precedence(Last(w)) = -1
      BY <1>1, Precedences
    <3>. QED  BY <1>2, <3>1 DEF Below
  <2>3. Leads(Call("parse_expr"), o, d)
    <3>1. Operand(o)
      BY <1>2 DEF Operand
    <3>. QED  BY <1>2, <2>2, <3>1, CallLeads
  <2>4. Leads(Expect({")"}), d, b)
    BY <1>2 DEF Leads, Takes, Expect, w
  <2>. QED  BY <1>2, <2>1, <2>3, <2>4, WayOf3
<1>7. Way0(s4, a, b) /\ Way0(s5, a, b)
  <2>1. Leads(Call("parse_addressof"), a, b) /\ Leads(Call("parse_deref"), a, b)
    BY <1>3, <1>4, StrangerLeads, StrangeTokens
  <2>. QED  BY <1>2, <2>1, WayOf1
<1>8. /\ DOMAIN arms = 1..5
      /\ arms[1][2] = s1 /\ arms[2][2] = s2 /\ arms[3][2] = s3 /\ arms[4][2] = s4
      /\ arms[5][2] = s5 /\ arms[2][1] = {"x"} /\ arms[3][1] = {"("}
  BY DEF On
<1>9. Part1(Switch(arms, <<>>), a, b)
  <2>. DEFINE v == <<>>
  <2>1. v = <<>> /\ b = <<"postfix", a[2]>>
    OBVIOUS
  <2>. HIDE DEF arms, s1, s2, s3, s4, s5, v, b
  <2>2. \A k \in DOMAIN arms : Way0(arms[k][2], a, b)
    BY <1>5, <1>6, <1>7, <1>8
  <2>3. \A t \in {"x", "("} : \E k \in DOMAIN arms : t \in arms[k][1]
    BY <1>8
  <2>4. Part1(Switch(arms, v), a, b)
    BY <1>3, <1>4, <2>1, <2>2, <2>3, SwitchLeads
  <2>. QED  BY <2>4 DEF v
<1>. HIDE DEF arms, b
<1>10. Way1(<<Switch(arms, <<>>)>>, a, b)
  BY <1>2, <1>9, WayOf1
<1>. QED  BY <1>10, Way1Up DEF parse_simple_expr, arms, b

\* What may follow an operand.
LEMMA PostfixExprWay ==
  ASSUME NEW a \in Places, Operand(a)
  PROVE  Way2(parse_postfix_expr, a, <<"postfix", a[2]>>)
<1>. DEFINE b == <<"postfix", a[2]>>
            s1 == <<Call("parse_member_reference")>>
            s2 == <<Call("parse_indirect_member_reference")>>
            s3 == <<Call("parse_call")>>
            v == <<Call("parse_array_access")>>
            arms == <<On({"."}, s1), On({"->"}, s2), On({"("}, s3)>>
            loop == While({".", "->", "(", "["}, <<Switch(arms, v)>>)
<1>1. b \in Places /\ b[1] = "postfix" /\ Onward(b, b)
  BY PlacesAre, PhasesAre DEF Onward
<1>2. Leads(Call("parse_simple_expr"), a, b)
  BY CallLeads
<1>. HIDE DEF b
<1>3. Way0(s1, b, b) /\ Way0(s2, b, b) /\ Way0(s3, b, b) /\ Way0(v, b, b)
  <2>1. /\ Leads(Call("parse_member_reference"), b, b)
        /\ Leads(Call("parse_indirect_member_reference"), b, b)
        /\ Leads(Call("parse_call"), b, b)
        /\ Leads(Call("parse_array_access"), b, b)
    BY <1>1, StrangerLeads, StrangeTokens
  <2>. QED  BY <1>1, <2>1, WayOf1
<1>4. DOMAIN arms = 1..3 /\ arms[1][2] = s1 /\ arms[2][2] = s2 /\ arms[3][2] = s3
  BY DEF On
<1>5. Part1(Switch(arms, v), b, b)
  <2>. HIDE DEF arms, s1, s2, s3, v
  <2>1. \A k \in DOMAIN arms : Way0(arms[k][2], b, b)
    BY <1>3, <1>4
  <2>. QED  BY <1>1, <1>3, <2>1, SwitchLeads
<1>. HIDE DEF arms, v
<1>6. Way1(<<Switch(arms, v)>>, b, b)
  BY <1>1, <1>5, WayOf1
<1>7. loop[1] = "while" /\ loop[3] = <<Switch(arms, v)>>
  BY DEF While
<1>. HIDE DEF loop
<1>8. Part2(loop, b, b)
  BY <1>1, <1>6, <1>7 DEF Part2, Parts, Way1
<1>9. Way2(<<Call("parse_simple_expr"), loop>>, a, b)
  BY <1>1, <1>2, <1>8, LeadsUp, WayOf2
<1>. QED  BY <1>9 DEF parse_postfix_expr, b, loop, arms, v

\* An expression, and what may follow it.
LEMMA ExprWay ==
  ASSUME NEW a \in Places, Operand(a), Below(a[2], 0)
  PROVE  /\ Way2(parse_expr, a, <<"done", a[2]>>)
         /\ Way2(parse_expr_statement, a, <<"done", a[2]>>)
<1>. DEFINE p == <<"postfix", a[2]>>  d == <<"done", a[2]>>  v == <<"void", <<>>>>
            s1 == <<Expect({"is"}), Call("parse_type_decl")>>
            s2 == <<Call("parse_initializer")>>
            s3 == <<Call("parse_assign")>>
            arms == <<On({"is"}, s1), On({"{"}, s2)>>
            more == <<On(AssignTokens, s3)>>
<1>1. /\ p \in Places /\ d \in Places /\ v \in Places /\ p[1] = "postfix" /\ p[2] = a[2]
      /\ d[1] = "done" /\ d[2] = a[2] /\ v[1] = "void"
  BY PlacesAre, PhasesAre
<1>2. Leads(Call("parse_postfix_expr"), a, p) /\ Leads(Call("parse_expr"), a, d)
  BY CallLeads
<1>3. Leads(BinOp(0), p, d)
  BY <1>1 DEF Leads, BinOp
<1>. HIDE DEF p, d, v
<1>4. Onward(d, d) /\ Onward(d, v) /\ Onward(v, d)
  BY <1>1 DEF Onward
<1>5. Way0(s1, d, d) /\ Way0(s2, d, d) /\ Way0(s3, d, d)
  <2>1. Leads(Expect({"is"}), d, v)
    BY <1>1, <1>4, StrangerLeads, StrangeTokens
  <2>2. Leads(Call("parse_type_decl"), v, d)
    BY <1>1, <1>4, NoneAttempted DEF Leads
  <2>3. Leads(Call("parse_initializer"), d, d) /\ Leads(Call("parse_assign"), d, d)
    BY <1>1, <1>4, StrangerLeads, StrangeTokens
  <2>. QED  BY <1>1, <2>1, <2>2, <2>3, WayOf1, WayOf2
<1>6. /\ DOMAIN arms = 1..2 /\ arms[1][2] = s1 /\ arms[2][2] = s2
      /\ DOMAIN more = 1..1 /\ more[1][2] = s3
  BY DEF On
<1>. HIDE DEF arms, more, s1, s2, s3
<1>7. Way0(<<>>, d, d)
  BY <1>1, WayOf0
<1>8. Part1(Switch(arms, <<>>), d, d) /\ Part1(Switch(more, <<>>), d, d)
  <2>1. \A k \in DOMAIN arms : Way0(arms[k][2], d, d)
    BY <1>5, <1>6
  <2>2. \A k \in DOMAIN more : Way0(more[k][2], d, d)
    BY <1>5, <1>6
  <2>. DEFINE e == <<>>
  <2>3. Way0(e, d, d)
    BY <1>7
  <2>. HIDE DEF e
  <2>4. Part1(Switch(arms, e), d, d) /\ Part1(Switch(more, e), d, d)
    BY <1>1, <1>4, <2>1, <2>2, <2>3, SwitchLeads
  <2>. QED  BY <2>4 DEF e
<1>9. Way1(<<Call("parse_postfix_expr"), BinOp(0), Switch(arms, <<>>)>>, a, d)
  BY <1>1, <1>2, <1>3, <1>8, LeadsUp, WayOf3
<1>10. Way1(<<Call("parse_expr"), Switch(more, <<>>)>>, a, d)
  BY <1>1, <1>2, <1>8, LeadsUp, WayOf2
<1>11. Way2(parse_expr, a, d)
  BY <1>9, Way1Up DEF parse_expr, arms, s1, s2
<1>12. Way2(parse_expr_statement, a, d)
  BY <1>10, Way1Up DEF parse_expr_statement, At, more, s3
<1>. QED  BY <1>11, <1>12 DEF d

\* A statement is an expression and a semicolon, or nothing the reference reads.
LEMMA StatementWay ==
  Way2(parse_statement, <<"start", <<>>>>, End)
<1>. DEFINE a == <<"start", <<>>>>  d == <<"done", <<>>>>  v == <<"void", <<>>>>
            s1 == <<Expect({"return"}), Call("parse_expr"), StatementEnd>>
            s2 == <<Call("parse_while")>>
            s3 == <<Call("parse_let"), StatementEnd>>
            s4 == <<Call("parse_switch")>>
            s5 == <<Call("parse_default")>>
            s6 == <<Call("parse_case")>>
            s7 == <<Call("parse_if")>>
            s8 == <<Call("parse_for")>>
            s9 == <<Call("parse_block")>>
            s == <<Call("parse_expr_statement"), StatementEnd>>
            arms == <<On({"return"}, s1), On({"while"}, s2), On({"let"}, s3),
                      On({"switch"}, s4), On({"default"}, s5), On({"case"}, s6),
                      On({"if"}, s7), On({"for"}, s8), On({"{"}, s9)>>
<1>1. /\ a \in Places /\ d \in Places /\ v \in Places /\ End \in Places
      /\ a[1] = "start" /\ a[2] = <<>> /\ d = <<"done", a[2]>> /\ v[1] = "void" /\ End[1] = "end"
      /\ Operand(a) /\ Onward(a, End) /\ Onward(a, v) /\ Onward(v, v) /\ Below(a[2], 0)
  <2>1. a \in Places /\ d \in Places /\ v \in Places /\ End \in Places
    BY PlacesAre, PhasesAre
  <2>2. a[1] = "start" /\ a[2] = <<>> /\ v[1] = "void" /\ End[1] = "end"
    BY DEF End
  <2>. QED  BY <2>1, <2>2 DEF Operand, Onward, Below
<1>2. Leads(StatementEnd, v, End) /\ Leads(StatementEnd, d, End)
  BY <1>1 DEF Leads
<1>3. Leads(Call("parse_expr_statement"), a, d)
  BY <1>1, CallLeads
<1>. HIDE DEF a, d, v
<1>4. Way0(s1, a, End)
  <2>1. Leads(Expect({"return"}), a, v)
    BY <1>1, StrangerLeads, StrangeTokens
  <2>2. Leads(Call("parse_expr"), v, v)
    BY <1>1, NoneAttempted DEF Leads
  <2>. QED  BY <1>1, <1>2, <2>1, <2>2, WayOf3
<1>5. Way0(s3, a, End)
  <2>1. Leads(Call("parse_let"), a, v)
    BY <1>1, StrangerLeads, StrangeTokens
  <2>. QED  BY <1>1, <1>2, <2>1, WayOf2
<1>6. /\ Way0(s2, a, End) /\ Way0(s4, a, End) /\ Way0(s5, a, End) /\ Way0(s6, a, End)
      /\ Way0(s7, a, End) /\ Way0(s8, a, End) /\ Way0(s9, a, End)
  <2>1. /\ Leads(Call("parse_while"), a, End) /\ Leads(Call("parse_switch"), a, End)
        /\ Leads(Call("parse_default"), a, End) /\ Leads(Call("parse_case"), a, End)
        /\ Leads(Call("parse_if"), a, End) /\ Leads(Call("parse_for"), a, End)
        /\ Leads(Call("parse_block"), a, End)
    BY <1>1, StrangerLeads, StrangeTokens
  <2>. QED  BY <1>1, <2>1, WayOf1
<1>7. Way0(s, a, End)
  BY <1>1, <1>2, <1>3, WayOf2
<1>8. /\ DOMAIN arms = 1..9
      /\ arms[1][2] = s1 /\ arms[2][2] = s2 /\ arms[3][2] = s3 /\ arms[4][2] = s4
      /\ arms[5][2] = s5 /\ arms[6][2] = s6 /\ arms[7][2] = s7 /\ arms[8][2] = s8
      /\ arms[9][2] = s9
  BY DEF On
<1>9. Part1(Switch(arms, s), a, End)
  <2>. HIDE DEF arms, s, s1, s2, s3, s4, s5, s6, s7, s8, s9
  <2>1. \A k \in DOMAIN arms : Way0(arms[k][2], a, End)
    BY <1>4, <1>5, <1>6, <1>8
  <2>. QED  BY <1>1, <1>7, <2>1, SwitchLeads
<1>. HIDE DEF arms, s
<1>10. Way1(<<Switch(arms, s)>>, a, End)
  BY <1>1, <1>9, WayOf1
<1>. QED  BY <1>10, Way1Up DEF parse_statement, arms, s, a

\* What a function does is what its call leads to.
LEMMA FunctionsLead ==
  ASSUME NEW f, NEW a \in Places, NEW b \in Places, Calls(f, a, b)
  PROVE  Way2(Functions[f], a, b)
<1>1. /\ Functions["parse_identifier"] = parse_identifier
      /\ Functions["parse_name_parts"] = parse_name_parts
      /\ Functions["parse_simple_expr"] = parse_simple_expr
      /\ Functions["parse_postfix_expr"] = parse_postfix_expr
      /\ Functions["parse_expr"] = parse_expr
      /\ Functions["parse_expr_statement"] = parse_expr_statement
      /\ Functions["parse_statement"] = parse_statement
  BY DEF Functions
<1>2. CASE f \in {"parse_identifier", "parse_name_parts"} /\ Operand(a) /\ b = <<"name", a[2]>>
  BY <1>1, <1>2, NamePartsWay
<1>3. CASE f \in {"parse_postfix_expr", "parse_simple_expr"} /\ Operand(a)
           /\ b = <<"postfix", a[2]>>
  BY <1>1, <1>3, SimpleExprWay, PostfixExprWay
<1>4. CASE f \in {"parse_expr", "parse_expr_statement"} /\ Operand(a) /\ Below(a[2], 0)
           /\ b = <<"done", a[2]>>
  BY <1>1, <1>4, ExprWay
<1>5. CASE f = "parse_statement" /\ a = <<"start", <<>>>> /\ b = End
  BY <1>1, <1>5, StatementWay
<1>6. CASE f \in DOMAIN Strangers /\ Foreign(Strangers[f], a) /\ Onward(a, b)
  <2>1. f \in DOMAIN Functions \ InnerLoops /\ Begins(Functions[f], Strangers[f])
    BY <1>6, StrangersBegin
  <2>2. IsList(Functions[f])
    <3>1. <<>> \in Stacks
      BY DEF Stacks
    <3>. QED  BY <2>1, <3>1, FunctionsFit DEF Path3, Along
  <2>. QED  BY <1>6, <2>1, <2>2, StrangeWay
<1>. QED  BY <1>2, <1>3, <1>4, <1>5, <1>6 DEF Calls

-----------------------------------------------------------------------------
(* What has been read at a place.                                           *)

\* w waits, the operators above it can be applied, and the tree lacks just these.
Standing(s, w, tr) ==
  /\ Len(w) <= Len(s.ops) /\ \A i \in 1..Len(w) : s.ops[i] = w[i]
  /\ \A i \in Len(w) + 1..Len(s.ops) : s.ops[i] \in Binary
  /\ tr = s.out \o Applied(s.ops, Len(w))

\* s is what the reference made of the tokens consumed, tr the tree and t the
\* token ahead.  Where it misses an operand it will refuse what comes.
Agrees(a, s, tr, t) ==
  /\ s.ok /\ a[1] \notin {"void", "lost", "end"}
  /\ Operand(a) => s.operand /\ s.ops = a[2] /\ tr = s.out
  /\ a[1] = "start" => a = <<"start", <<>>>>
  /\ a[1] = "name" => ~s.operand /\ s.ops = a[2] /\ s.out = Append(tr, "x")
  /\ a[1] = "postfix" => IF s.operand THEN t \notin {"x", "("}
                         ELSE s.ops = a[2] /\ tr = s.out
  /\ a[1] = "build" /\ ~s.operand =>
       /\ Standing(s, a[2], tr)
       /\ t \in Binary => \A i \in Len(a[2])..Len(s.ops) :
                            get_token_precedence(s.ops[i]) >= get_token_precedence(t)
  /\ a[1] = "operator" /\ ~s.operand =>
       /\ Standing(s, a[2], tr)
       /\ t \in Binary => \A i \in Len(a[2]) + 1..Len(s.ops) :
                            get_token_precedence(s.ops[i]) >= get_token_precedence(t)
  /\ a[1] = "done" /\ ~s.operand => Standing(s, a[2], tr) /\ t \notin BinOpTokens

\* A token that no place takes is not one the reference takes.
LEMMA ForeignShift ==
  ASSUME NEW s \in Readers, NEW a \in Places, NEW ts, NEW t \in ts, NEW tr,
         Foreign(ts, a), Agrees(a, s, tr, t)
  PROVE  ~Shift(s, t).ok
<1>1. /\ BinOpTokens \subseteq Waiters /\ "(" \in Waiters
      /\ "*" \in BinOpTokens /\ "(" \notin BinOpTokens
  BY DEF Waiters, BinOpTokens
<1>2. ~(\/ t \in {"x", "("} /\ s.operand
        \/ t \in BinOpTokens /\ ~s.operand
        \/ t = ")" /\ ~s.operand)
  <2>1. CASE ts \cap (Waiters \cup {"x", ")"}) = {}
    BY <1>1, <2>1
  <2>2. CASE ts = {"("} /\ a[1] = "postfix"
    BY <1>1, <2>2 DEF Agrees
  <2>3. CASE ts = {"*"} /\ Operand(a)
    BY <1>1, <2>3 DEF Agrees
  <2>. QED  BY <2>1, <2>2, <2>3 DEF Foreign
<1>3. Shift(s, t) = [out |-> s.out, ops |-> s.ops, operand |-> s.operand, ok |-> FALSE]
  BY <1>2, ShiftIs
<1>. QED  BY <1>3

\* Where an operand is missing the reference refuses an operator and a closing
\* parenthesis.
LEMMA MissingShift ==
  ASSUME NEW s \in Readers, NEW t \in BinOpTokens \cup {")"}, s.operand
  PROVE  ~Shift(s, t).ok
<1>1. t \notin {"x", "("}
  BY DEF BinOpTokens
<1>2. Shift(s, t) = [out |-> s.out, ops |-> s.ops, operand |-> s.operand, ok |-> FALSE]
  BY <1>1, ShiftIs
<1>. QED  BY <1>2

\* An operand.
LEMMA OperandShift ==
  ASSUME NEW s \in Readers, NEW a \in Places, NEW tr, NEW t, Operand(a), Agrees(a, s, tr, "x")
  PROVE  Agrees(<<"name", a[2]>>, Shift(s, "x"), tr, t)
<1>1. s.operand /\ s.ops = a[2] /\ tr = s.out /\ s.ok
  BY DEF Agrees
<1>2. Shift(s, "x") = [out |-> Append(s.out, "x"), ops |-> s.ops, operand |-> FALSE, ok |-> s.ok]
  BY <1>1, ShiftIs
<1>. DEFINE u == Shift(s, "x")  b == <<"name", a[2]>>
<1>3. u.ok /\ ~u.operand /\ u.ops = a[2] /\ u.out = Append(tr, "x")
  BY <1>1, <1>2
<1>4. b[1] = "name" /\ b[2] = a[2] /\ ~Operand(b)
  BY DEF Operand
<1>. HIDE DEF u, b
<1>5. Agrees(b, u, tr, t)
  BY <1>3, <1>4 DEF Agrees
<1>. QED  BY <1>5 DEF u, b

\* An opening parenthesis.
LEMMA OpenShift ==
  ASSUME NEW s \in Readers, NEW a \in Places, NEW tr, NEW t, Operand(a), Agrees(a, s, tr, "(")
  PROVE  Agrees(<<"operand", Append(a[2], "(")>>, Shift(s, "("), tr, t)
<1>1. s.operand /\ s.ops = a[2] /\ tr = s.out /\ s.ok
  BY DEF Agrees
<1>2. Shift(s, "(") = [out |-> s.out, ops |-> Append(s.ops, "("), operand |-> TRUE, ok |-> s.ok]
  BY <1>1, ShiftIs
<1>. DEFINE u == Shift(s, "(")  b == <<"operand", Append(a[2], "(")>>
<1>3. u.ok /\ u.operand /\ u.ops = Append(a[2], "(") /\ u.out = tr
  BY <1>1, <1>2
<1>4. b[1] = "operand" /\ b[2] = Append(a[2], "(")
  OBVIOUS
<1>. HIDE DEF u, b
<1>5. Agrees(b, u, tr, t)
  BY <1>3, <1>4 DEF Agrees
<1>. QED  BY <1>5 DEF u, b

\* What stands on w is w and what is above it.
LEMMA StandingIs ==
  ASSUME NEW s \in Readers, NEW w \in Seq(Waiters), NEW tr, Standing(s, w, tr)
  PROVE  /\ s.ops \in Seq(Waiters) /\ s.out \in Seq({"x"} \cup Waiters)
         /\ Len(w) \in 0..Len(s.ops) /\ SubSeq(s.ops, 1, Len(w)) = w
         /\ w # <<>> => Len(w) > 0 /\ s.ops[Len(w)] = Last(w)
<1>1. s.ops \in Seq(Waiters) /\ s.out \in Seq({"x"} \cup Waiters)
  BY DEF Readers
<1>2. Len(w) \in 0..Len(s.ops) /\ \A i \in 1..Len(w) : s.ops[i] = w[i]
  BY <1>1 DEF Standing
<1>3. SubSeq(s.ops, 1, Len(w)) = w
  <2>. DEFINE v == SubSeq(s.ops, 1, Len(w))
  <2>1. v \in Seq(Waiters) /\ Len(v) = Len(w) /\ \A i \in 1..Len(w) : v[i] = s.ops[i]
    BY <1>1, <1>2
  <2>. HIDE DEF v
  <2>2. v = w
    BY <1>2, <2>1
  <2>. QED  BY <2>2 DEF v
<1>4. w # <<>> => Len(w) > 0 /\ s.ops[Len(w)] = Last(w)
  BY <1>2 DEF Last
<1>. QED  BY <1>1, <1>2, <1>3, <1>4

\* A closing parenthesis applies what stands on the opening one.
LEMMA CloseShift ==
  ASSUME NEW s \in Readers, NEW w \in Seq(Waiters), NEW tr, NEW t,
         s.ok, ~s.operand, Standing(s, Append(w, "("), tr)
  PROVE  Agrees(<<"postfix", w>>, Shift(s, ")"), tr, t)
<1>. DEFINE v == Append(w, "(")  n == Len(w) + 1
<1>0. "(" \in Waiters
  BY DEF Waiters
<1>1. v \in Seq(Waiters) /\ Len(v) = n /\ Last(v) = "(" /\ v # <<>> /\ Len(w) \in Nat
      /\ \A i \in 1..Len(w) : v[i] = w[i]
  <2>. DEFINE p == "("
  <2>1. p \in Waiters
    BY <1>0
  <2>. HIDE DEF p
  <2>2. /\ Append(w, p) \in Seq(Waiters) /\ Len(Append(w, p)) = Len(w) + 1 /\ Len(w) \in Nat
        /\ Append(w, p)[Len(w) + 1] = p /\ \A i \in 1..Len(w) : Append(w, p)[i] = w[i]
    BY <2>1
  <2>3. Append(w, p) # <<>>
    BY <2>2
  <2>. QED  BY <2>2, <2>3 DEF p, Last
<1>2. /\ s.ops \in Seq(Waiters) /\ n \in 0..Len(s.ops) /\ s.ops[n] = "("
      /\ \A i \in 1..Len(w) : s.ops[i] = w[i]
      /\ \A i \in n + 1..Len(s.ops) : s.ops[i] \in Binary
      /\ tr = s.out \o Applied(s.ops, n)
  <2>1. Standing(s, v, tr)
    OBVIOUS
  <2>. HIDE DEF v
  <2>2. /\ s.ops \in Seq(Waiters) /\ Len(v) \in 0..Len(s.ops) /\ s.ops[Len(v)] = Last(v)
    BY <1>1, <2>1, StandingIs
  <2>3. /\ \A i \in 1..Len(v) : s.ops[i] = v[i]
        /\ \A i \in Len(v) + 1..Len(s.ops) : s.ops[i] \in Binary
        /\ tr = s.out \o Applied(s.ops, Len(v))
    BY <2>1 DEF Standing
  <2>. QED  BY <1>1, <2>2, <2>3
<1>3. Waiting(s.ops, 0) = n
  <2>1. get_token_precedence(s.ops[n]) < 0
    <3>1. get_token_precedence("(") = -1
      BY Precedences
    <3>2. get_token_precedence(s.ops[n]) = -1
      BY <1>2, <3>1, Zenon
    <3>. QED  BY <3>2
  <2>2. \A i \in n + 1..Len(s.ops) : get_token_precedence(s.ops[i]) >= 0
    <3>. TAKE i \in n + 1..Len(s.ops)
    <3>1. s.ops[i] \in Binary
      BY <1>2, Zenon
    <3>2. get_token_precedence(s.ops[i]) \in {10, 20, 40}
      BY <3>1, Precedences, Zenon
    <3>. QED  BY <3>2
  <2>. QED  BY <1>2, <2>1, <2>2, WaitingIs
<1>4. n > 0 /\ n - 1 = Len(w)
  BY <1>1
<1>. HIDE DEF n, v
<1>5. Shift(s, ")") = [out |-> tr, ops |-> SubSeq(s.ops, 1, Len(w)),
                       operand |-> s.operand, ok |-> s.ok]
  <2>1. Waiting(s.ops, IF ")" = ")" THEN 0 ELSE get_token_precedence(")")) = n
    BY <1>3
  <2>. QED  BY <1>2, <1>4, <2>1, ShiftIs
<1>6. SubSeq(s.ops, 1, Len(w)) = w
  <2>. DEFINE u == SubSeq(s.ops, 1, Len(w))
  <2>1. u \in Seq(Waiters) /\ Len(u) = Len(w) /\ \A i \in 1..Len(w) : u[i] = s.ops[i]
    BY <1>1, <1>2, <1>4
  <2>. HIDE DEF u
  <2>2. u = w
    BY <1>1, <1>2, <2>1
  <2>. QED  BY <2>2 DEF u
<1>. DEFINE u == Shift(s, ")")  b == <<"postfix", w>>
<1>7. u.ok /\ ~u.operand /\ u.ops = w /\ u.out = tr
  BY <1>5, <1>6
<1>8. b[1] = "postfix" /\ b[2] = w /\ ~Operand(b)
  BY DEF Operand
<1>. HIDE DEF u, b
<1>9. Agrees(b, u, tr, t)
  BY <1>7, <1>8 DEF Agrees
<1>. QED  BY <1>9 DEF u, b

\* An operator that binds more tightly than what waits, and less than what
\* stands on it, joins what waits.
LEMMA OperatorShift ==
  ASSUME NEW s \in Readers, NEW w \in Seq(Waiters), NEW tr, NEW t, NEW op \in Binary,
         s.ok, ~s.operand, Standing(s, w, tr), Below(w, get_token_precedence(op)),
         \A i \in Len(w) + 1..Len(s.ops) :
           get_token_precedence(s.ops[i]) >= get_token_precedence(op)
  PROVE  Agrees(<<"operand", Append(w, op)>>, Shift(s, op), tr, t)
<1>1. /\ s.ops \in Seq(Waiters) /\ Len(w) \in 0..Len(s.ops) /\ SubSeq(s.ops, 1, Len(w)) = w
      /\ w # <<>> => Len(w) > 0 /\ s.ops[Len(w)] = Last(w)
      /\ tr = s.out \o Applied(s.ops, Len(w))
  BY StandingIs DEF Standing
<1>. DEFINE p == get_token_precedence(op)
<1>2. p \in Int
  BY Precedences
<1>3. Len(w) > 0 => get_token_precedence(s.ops[Len(w)]) < p
  <2>1. Len(w) > 0 => w # <<>>
    OBVIOUS
  <2>. QED  BY <1>1, <2>1 DEF Below
<1>4. \A i \in Len(w) + 1..Len(s.ops) : get_token_precedence(s.ops[i]) >= p
  OBVIOUS
<1>. HIDE DEF p
<1>5. Waiting(s.ops, p) = Len(w)
  BY <1>1, <1>2, <1>3, <1>4, WaitingIs
<1>6. op # ")" /\ op \in BinOpTokens
  BY DEF Binary, BinOpTokens
<1>7. Shift(s, op) = [out |-> tr, ops |-> Append(w, op), operand |-> TRUE, ok |-> s.ok]
  <2>1. Waiting(s.ops, IF op = ")" THEN 0 ELSE get_token_precedence(op)) = Len(w)
    BY <1>5, <1>6 DEF p
  <2>. DEFINE n == Waiting(s.ops, IF op = ")" THEN 0 ELSE get_token_precedence(op))
  <2>2. Shift(s, op) = [out |-> s.out \o Applied(s.ops, n),
                        ops |-> Append(SubSeq(s.ops, 1, n), op),
                        operand |-> TRUE, ok |-> s.ok]
    BY <1>6, ShiftIs
  <2>3. n = Len(w)
    BY <2>1
  <2>. HIDE DEF n
  <2>4. SubSeq(s.ops, 1, n) = w /\ s.out \o Applied(s.ops, n) = tr
    BY <1>1, <2>3
  <2>. QED  BY <2>2, <2>4
<1>. DEFINE u == Shift(s, op)  b == <<"operand", Append(w, op)>>
<1>8. u.ok /\ u.operand /\ u.ops = Append(w, op) /\ u.out = tr
  BY <1>7
<1>9. b[1] = "operand" /\ b[2] = Append(w, op)
  OBVIOUS
<1>. HIDE DEF u, b
<1>10. Agrees(b, u, tr, t)
  BY <1>8, <1>9 DEF Agrees
<1>. QED  BY <1>10 DEF u, b

\* An operator that is consumed and dropped leaves the reference without an operand.
LEMMA DropShift ==
  ASSUME NEW s \in Readers, NEW w, NEW tr, NEW t, NEW op \in BinOpTokens, s.ok, ~s.operand
  PROVE  Agrees(<<"done", w>>, Shift(s, op), tr, t)
<1>. DEFINE u == Shift(s, op)  b == <<"done", w>>
<1>1. u.ok /\ u.operand
  <2>. DEFINE n == Waiting(s.ops, IF op = ")" THEN 0 ELSE get_token_precedence(op))
  <2>1. Shift(s, op) = [out |-> s.out \o Applied(s.ops, n),
                        ops |-> Append(SubSeq(s.ops, 1, n), op),
                        operand |-> TRUE, ok |-> s.ok]
    BY ShiftIs
  <2>. HIDE DEF n
  <2>. QED  BY <2>1
<1>2. b[1] = "done" /\ ~Operand(b)
  BY DEF Operand
<1>. HIDE DEF u, b
<1>3. Agrees(b, u, tr, t)
  BY <1>1, <1>2 DEF Agrees
<1>. QED  BY <1>3 DEF u, b

\* After an operand nothing stands on what waits.
LEMMA PostfixStanding ==
  ASSUME NEW s \in Readers, NEW w \in Seq(Waiters), s.ops = w
  PROVE  Standing(s, w, s.out)
<1>1. s.ops \in Seq(Waiters) /\ s.out \in Seq({"x"} \cup Waiters)
  BY DEF Readers
<1>2. Applied(s.ops, Len(s.ops)) = <<>>
  BY <1>1, AppliedNone
<1>3. s.out \o <<>> = s.out
  BY <1>1
<1>. QED  BY <1>1, <1>2, <1>3 DEF Standing

\* The operator that waits for what has just been read goes into the tree.
LEMMA BuildStanding ==
  ASSUME NEW s \in Readers, NEW w \in Seq(Waiters), NEW op \in Binary, NEW tr,
         Standing(s, Append(w, op), tr)
  PROVE  Standing(s, w, Append(tr, op))
<1>. DEFINE v == Append(w, op)  n == Len(w) + 1
<1>0. op \in Waiters
  BY DEF Binary, Waiters
<1>1. /\ v \in Seq(Waiters) /\ Len(v) = n /\ v[n] = op /\ Len(w) \in Nat
      /\ \A i \in 1..Len(w) : v[i] = w[i]
  BY <1>0
<1>2. Standing(s, v, tr)
  OBVIOUS
<1>. HIDE DEF v
<1>3. /\ s.ops \in Seq(Waiters) /\ s.out \in Seq({"x"} \cup Waiters) /\ n \in 0..Len(s.ops)
      /\ \A i \in 1..n : s.ops[i] = v[i]
      /\ \A i \in n + 1..Len(s.ops) : s.ops[i] \in Binary
      /\ tr = s.out \o Applied(s.ops, n)
  <2>1. s.ops \in Seq(Waiters) /\ s.out \in Seq({"x"} \cup Waiters) /\ Len(v) \in 0..Len(s.ops)
    BY <1>1, <1>2, StandingIs
  <2>2. /\ \A i \in 1..Len(v) : s.ops[i] = v[i]
        /\ \A i \in Len(v) + 1..Len(s.ops) : s.ops[i] \in Binary
        /\ tr = s.out \o Applied(s.ops, Len(v))
    BY <1>2 DEF Standing
  <2>. QED  BY <1>1, <2>1, <2>2
<1>4. n \in 1..Len(s.ops) /\ n - 1 = Len(w) /\ s.ops[n] = op
  BY <1>1, <1>3
<1>5. Applied(s.ops, Len(w)) = Append(Applied(s.ops, n), op)
  BY <1>3, <1>4, AppliedNext
<1>6. Applied(s.ops, n) \in Seq(Waiters)
  BY <1>3, AppliedIs
<1>7. s.out \o Append(Applied(s.ops, n), op) = Append(s.out \o Applied(s.ops, n), op)
  <2>. DEFINE u == Applied(s.ops, n)  T == {"x"} \cup Waiters
  <2>1. u \in Seq(T) /\ s.out \in Seq(T) /\ op \in T
    BY <1>0, <1>3, <1>6
  <2>. HIDE DEF u, T
  <2>. DEFINE a == s.out \o Append(u, op)  b == Append(s.out \o u, op)  m == Len(s.out) + Len(u)
  <2>3. /\ Append(u, op) \in Seq(T) /\ Len(Append(u, op)) = Len(u) + 1
        /\ Append(u, op)[Len(u) + 1] = op /\ \A i \in 1..Len(u) : Append(u, op)[i] = u[i]
        /\ Len(u) \in Nat /\ Len(s.out) \in Nat
    BY <2>1
  <2>4. /\ a \in Seq(T) /\ Len(a) = m + 1
        /\ \A i \in 1..m + 1 : a[i] = IF i <= Len(s.out) THEN s.out[i]
                                       ELSE Append(u, op)[i - Len(s.out)]
    <3>. DEFINE y == Append(u, op)  x == s.out
    <3>1. y \in Seq(T) /\ x \in Seq(T) /\ Len(y) = Len(u) + 1
          /\ Len(u) \in Nat /\ Len(x) \in Nat
      BY <2>1, <2>3
    <3>. HIDE DEF y, x
    <3>2. /\ x \o y \in Seq(T) /\ Len(x \o y) = Len(x) + Len(y)
          /\ \A i \in 1..Len(x) + Len(y) :
               (x \o y)[i] = IF i <= Len(x) THEN x[i] ELSE y[i - Len(x)]
      BY <3>1, ConcatProperties
    <3>3. Len(x) + Len(y) = (Len(x) + Len(u)) + 1
      BY <3>1
    <3>. QED  BY <3>2, <3>3 DEF y, x
  <2>5. /\ b \in Seq(T) /\ Len(b) = m + 1
        /\ \A i \in 1..m + 1 : b[i] = IF i = m + 1 THEN op ELSE
                                       IF i <= Len(s.out) THEN s.out[i] ELSE u[i - Len(s.out)]
    BY <2>1, <2>3
  <2>. HIDE DEF a, b, m
  <2>6. \A i \in 1..m + 1 : a[i] = b[i]
    <3>. TAKE i \in 1..m + 1
    <3>1. CASE i = m + 1
      BY <2>3, <2>4, <2>5, <3>1 DEF m
    <3>2. CASE i # m + 1 /\ i <= Len(s.out)
      BY <2>3, <2>4, <2>5, <3>2 DEF m
    <3>3. CASE i # m + 1 /\ ~(i <= Len(s.out))
      <4>1. i - Len(s.out) \in 1..Len(u)
        BY <2>3, <3>3 DEF m
      <4>. QED  BY <2>3, <2>4, <2>5, <3>3, <4>1
    <3>. QED  BY <3>1, <3>2, <3>3
  <2>7. a = b
    BY <2>4, <2>5, <2>6
  <2>2. s.out \o Append(u, op) = Append(s.out \o u, op)
    BY <2>7 DEF a, b
  <2>. QED  BY <2>2 DEF u
<1>8. \A i \in Len(w) + 1..Len(s.ops) : s.ops[i] \in Binary
  <2>. TAKE i \in Len(w) + 1..Len(s.ops)
  <2>1. CASE i = n
    BY <1>4, <2>1
  <2>2. CASE i # n
    BY <1>1, <1>3, <2>2
  <2>. QED  BY <2>1, <2>2
<1>9. Len(w) <= Len(s.ops) /\ \A i \in 1..Len(w) : s.ops[i] = w[i]
  BY <1>1, <1>3
<1>. QED  BY <1>3, <1>5, <1>7, <1>8, <1>9 DEF Standing

-----------------------------------------------------------------------------
(* The invariant of the precedences.                                        *)

\* A token consumed is not the reference's, and another one was after it.
Over == read # <<>> /\ ~Shifted(read).ok /\ ~WellFormed(Front(read))

\* A token consumed is not the reference's, and a semicolon is still to come.
Doomed == ~Shifted(read).ok /\ todo # <<>> /\ Last(todo) = StatementEnd

\* The statement has been read.
Ended ==
  /\ todo = <<>> /\ read # <<>>
  /\ WellFormed(Front(read)) => tree = Postfix(Front(read))

\* What is left to do starts where the reference is.
Going ==
  \E a \in Places : /\ Way2(todo, a, End) /\ Agrees(a, Shifted(read), tree, tok)
                    /\ a[1] = "start" => read = <<>>

GroupInv ==
  /\ read \in Seq(input.tokens \cup {"eof"})
  /\ ~input.trace => read = <<>>
  /\ input.trace /\ result # "error" => Over \/ Doomed \/ Ended \/ Going

\* At first nothing has been read.
LEMMA GroupInit == Init => GroupInv
<1>. SUFFICES ASSUME Init PROVE GroupInv
  OBVIOUS
<1>. DEFINE a == <<"start", <<>>>>
<1>1. read = <<>> /\ tree = <<>> /\ todo = <<Call(input.start)>> /\ input \in Inputs
  BY DEF Init
<1>2. <<>> \in Seq(input.tokens \cup {"eof"})
  OBVIOUS
<1>3. ASSUME input.trace PROVE Going
  <2>1. a \in Places /\ End \in Places /\ a[1] = "start" /\ a[2] = <<>> /\ Operand(a)
    BY PlacesAre, PhasesAre DEF Operand
  <2>2. input.start = "parse_statement"
    BY <1>1, <1>3, TraceAssumption
  <2>3. Calls("parse_statement", a, End)
    BY DEF Calls
  <2>4. Leads(Call("parse_statement"), a, End)
    BY <2>3 DEF Leads, Call
  <2>5. Way2(todo, a, End)
    BY <1>1, <2>1, <2>2, <2>4, LeadsUp, WayOf1
  <2>. HIDE DEF a
  <2>6. Shifted(read) = Empty
    <3>1. read \in Seq({"x"}) /\ "x" \in {"x"}
      BY <1>1, <1>2
    <3>. QED  BY <1>1, <3>1, ShiftedNext, Zenon
  <2>7. Agrees(a, Empty, tree, tok)
    <3>1. Empty.ok /\ Empty.operand /\ Empty.ops = <<>> /\ Empty.out = <<>>
      BY DEF Empty
    <3>2. a = <<"start", <<>>>>
      BY DEF a
    <3>. QED  BY <1>1, <2>1, <3>1, <3>2 DEF Agrees
  <2>. QED  BY <1>1, <2>1, <2>5, <2>6, <2>7 DEF Going
<1>. QED  BY <1>1, <1>2, <1>3 DEF GroupInv

\* What has been read, and what one token more makes of it.
LEMMA ReadNext ==
  ASSUME ParserInv, GroupInv, input.trace, Advance, UNCHANGED input
  PROVE  /\ read' \in Seq(input'.tokens \cup {"eof"}) /\ read' # <<>> /\ Front(read') = read
         /\ Shifted(read) \in Readers
         /\ Shifted(read') = Shift(Shifted(read), tok)
         /\ Over \/ Doomed => Over'
<1>. DEFINE T == input.tokens \cup {"eof"}
<1>1. read \in Seq(T) /\ tok \in T /\ read' = Append(read, tok)
  BY DEF GroupInv, ParserInv, TypeOK, Advance
<1>2. input'.tokens \cup {"eof"} = T
  OBVIOUS
<1>. HIDE DEF T
<1>3. read' \in Seq(T) /\ read' # <<>>
  BY <1>1
<1>4. Front(read') = read
  <2>. DEFINE u == Append(read, tok)
  <2>1. /\ u \in Seq(T) /\ Len(u) = Len(read) + 1 /\ Len(read) \in Nat
        /\ \A i \in 1..Len(read) : u[i] = read[i]
    BY <1>1
  <2>2. Front(u) = SubSeq(u, 1, Len(u) - 1)
    BY DEF Front
  <2>. HIDE DEF u
  <2>3. /\ Len(u) - 1 = Len(read) /\ SubSeq(u, 1, Len(read)) \in Seq(T)
        /\ Len(SubSeq(u, 1, Len(read))) = Len(read)
        /\ \A i \in 1..Len(read) : SubSeq(u, 1, Len(read))[i] = u[i]
    BY <2>1
  <2>4. SubSeq(u, 1, Len(read)) = read
    BY <1>1, <2>1, <2>3
  <2>. QED  BY <1>1, <2>2, <2>3, <2>4 DEF u
<1>5. Shifted(read) \in Readers /\ Shifted(read') = Shift(Shifted(read), tok)
  BY <1>1, ShiftedNext
<1>6. ASSUME Over \/ Doomed PROVE Over'
  <2>1. ~Shifted(read).ok
    BY <1>6 DEF Over, Doomed
  <2>2. ~Shifted(read').ok /\ ~WellFormed(Front(read'))
    BY <1>4, <1>5, <2>1, ShiftType DEF WellFormed
  <2>. QED  BY <1>3, <2>2 DEF Over
<1>. QED  BY <1>2, <1>3, <1>4, <1>5, <1>6

\* The list of what is left to do is one.
LEMMA TodoIsList == ParserInv => IsList(todo)
BY DEF ParserInv, CallsFit, Path3, Along

\* What comes last still does.
LEMMA LastKept ==
  ASSUME NEW s, NEW t, IsList(s), IsList(t), t # <<>>
  PROVE  s \o t # <<>> /\ Last(s \o t) = Last(t)
<1>. DEFINE S == {s[k] : k \in 1..Len(s)} \cup {t[k] : k \in 1..Len(t)}
<1>1. s \in Seq(S) /\ t \in Seq(S)
  <2>1. (\A k \in 1..Len(s) : s[k] \in S) /\ (\A k \in 1..Len(t) : t[k] \in S)
    OBVIOUS
  <2>. HIDE DEF S
  <2>. QED  BY <2>1 DEF IsList
<1>. HIDE DEF S
<1>2. Len(s) \in Nat /\ Len(t) \in Nat /\ Len(t) > 0
  BY <1>1
<1>3. /\ Len(s \o t) = Len(s) + Len(t)
      /\ \A k \in 1..Len(s) + Len(t) : (s \o t)[k] = IF k <= Len(s) THEN s[k] ELSE t[k - Len(s)]
  BY <1>1, ConcatProperties
<1>4. (s \o t)[Len(s) + Len(t)] = t[Len(t)]
  <2>1. Len(s) + Len(t) \in 1..Len(s) + Len(t) /\ ~(Len(s) + Len(t) <= Len(s))
        /\ (Len(s) + Len(t)) - Len(s) = Len(t)
    BY <1>2
  <2>. QED  BY <1>3, <2>1
<1>5. s \o t # <<>>
  <2>1. Len(s \o t) # 0
    BY <1>2, <1>3
  <2>. QED  BY <2>1
<1>. QED  BY <1>3, <1>4, <1>5 DEF Last

\* Two lists in a row are one.
LEMMA ConcatIsList ==
  ASSUME NEW s, NEW t, IsList(s), IsList(t)
  PROVE  IsList(s \o t)
<1>. DEFINE S == {s[k] : k \in 1..Len(s)} \cup {t[k] : k \in 1..Len(t)}
<1>1. s \in Seq(S) /\ t \in Seq(S)
  <2>1. (\A k \in 1..Len(s) : s[k] \in S) /\ (\A k \in 1..Len(t) : t[k] \in S)
    OBVIOUS
  <2>. HIDE DEF S
  <2>. QED  BY <2>1 DEF IsList
<1>. HIDE DEF S
<1>2. s \o t \in Seq(S)
  BY <1>1, ConcatProperties
<1>. QED  BY <1>2, SeqIsList

\* The tail of a list is one.
LEMMA TailIsList ==
  ASSUME NEW t, IsList(t), t # <<>>
  PROVE  /\ IsList(Tail(t)) /\ t[1] = Head(t)
         /\ IF Tail(t) = <<>> THEN Last(t) = Head(t) ELSE Last(t) = Last(Tail(t))
<1>. DEFINE S == {t[k] : k \in 1..Len(t)}
<1>1. t \in Seq(S)
  BY ListIsSeq
<1>. HIDE DEF S
<1>2. /\ Len(t) \in Nat /\ Len(t) > 0 /\ Tail(t) \in Seq(S) /\ Len(Tail(t)) = Len(t) - 1
      /\ Head(t) = t[1] /\ \A k \in 1..Len(t) - 1 : Tail(t)[k] = t[k + 1]
  BY <1>1
<1>3. CASE Tail(t) = <<>>
  <2>1. Len(t) = 1
    BY <1>2, <1>3
  <2>. QED  BY <1>2, <1>3, <2>1, SeqIsList DEF Last
<1>4. CASE Tail(t) # <<>>
  <2>1. Len(t) - 1 \in 1..Len(t) - 1
    BY <1>2, <1>4
  <2>2. Tail(t)[Len(t) - 1] = t[Len(t)]
    BY <1>2, <2>1
  <2>. QED  BY <1>2, <1>4, <2>2, SeqIsList DEF Last
<1>. QED  BY <1>3, <1>4

\* A step that consumes nothing leaves the semicolon to come.
LEMMA StillDoomed ==
  ASSUME ParserInv, Doomed, UNCHANGED read, Head(todo)[1] # "expect",
         NEW s, IsList(s), todo' = s \o Rest \/ todo' = s \o todo \/ todo' = Rest
  PROVE  Doomed'
<1>1. IsList(todo) /\ todo # <<>> /\ Last(todo) = StatementEnd
  BY TodoIsList DEF Doomed
<1>2. IsList(Rest) /\ IF Rest = <<>> THEN Last(todo) = Head(todo) ELSE Last(todo) = Last(Rest)
  BY <1>1, TailIsList DEF Rest
<1>3. Rest # <<>> /\ Last(Rest) = StatementEnd
  <2>1. StatementEnd[1] = "expect"
    BY DEF StatementEnd, Expect
  <2>. HIDE DEF StatementEnd
  <2>2. Rest # <<>>
    BY <1>1, <1>2, <2>1
  <2>. QED  BY <1>1, <1>2, <2>2
<1>4. todo' # <<>> /\ Last(todo') = StatementEnd
  BY <1>1, <1>2, <1>3, LastKept
<1>. QED  BY <1>4 DEF Doomed

\* A step that consumes nothing and gets on keeps the invariant.
LEMMA GetsOn ==
  ASSUME GroupInv, UNCHANGED <<input, read>>, input.trace => Over' \/ Doomed' \/ Ended' \/ Going'
  PROVE  GroupInv'
BY DEF GroupInv

\* Under way: the first item, and the place that it leads to.
LEMMA GoingHead ==
  ASSUME Going, todo # <<>>
  PROVE  \E a \in Places, c \in Places :
           /\ Part2(Head(todo), a, c) /\ Way2(Rest, c, End) /\ Way2(todo, a, End)
           /\ Agrees(a, Shifted(read), tree, tok) /\ (a[1] = "start" => read = <<>>)
           /\ a[1] \notin {"void", "lost", "end"} /\ c[1] # "start"
<1>1. PICK a \in Places : /\ Way2(todo, a, End) /\ Agrees(a, Shifted(read), tree, tok)
                          /\ a[1] = "start" => read = <<>>
  BY DEF Going
<1>2. PICK c \in Places : Part2(Head(todo), a, c) /\ Way2(Tail(todo), c, End)
  BY <1>1, WayHead
<1>3. a[1] \notin {"void", "lost", "end"}
  BY <1>1 DEF Agrees
<1>4. c[1] # "start"
  BY <1>2, LeadsFrom
<1>. QED  BY <1>1, <1>2, <1>3, <1>4 DEF Rest

\* There is always something to do under way.
LEMMA GoingHasTodo == Going => todo # <<>>
<1>. SUFFICES ASSUME Going, todo = <<>> PROVE FALSE
  OBVIOUS
<1>1. PICK a \in Places : Way2(todo, a, End) /\ Agrees(a, Shifted(read), tree, tok)
  BY DEF Going
<1>2. a = End
  BY <1>1, WayNil
<1>. QED  BY <1>1, <1>2 DEF Agrees, End

\* What an item of one kind can be.
LEMMA LeadsKind ==
  ASSUME NEW i, NEW a, NEW c, Part2(i, a, c), a[1] \notin {"void", "lost", "end"}
  PROVE  /\ i[1] = "expect" => \/ Takes(i[2], a, c)
                               \/ i = StatementEnd /\ a = <<"done", <<>>>> /\ c = End
         /\ i[1] = "call" => Calls(i[2], a, c)
         /\ i[1] = "binop" => i[2] \in Nat /\ Below(a[2], i[2])
                              /\ a[1] \in {"postfix", "operator"} /\ c = <<"done", a[2]>>
         /\ i[1] = "climb" => i[2] \in Nat /\ Below(c[2], i[2]) /\ i[3] \in Binary
                              /\ a = <<"postfix", Append(c[2], i[3])>> /\ c[1] = "done"
         /\ i[1] = "build" =>
              \/ i = Build("x") /\ a[1] = "name" /\ c = <<"postfix", a[2]>>
              \/ i[2] \in Binary /\ a[1] \in {"build", "done"}
                 /\ a[2] = Append(c[2], i[2]) /\ c[1] = "operator"
         /\ i[1] = "while" => a = c /\ Way1(i[3], a, a)
         /\ i[1] = "switch" =>
              /\ \A k \in DOMAIN i[2] : Way1(i[2][k][2], a, c)
              /\ \/ Way1(i[3], a, c)
                 \/ /\ i[3] = <<>> /\ Operand(a) /\ c = <<"postfix", a[2]>>
                    /\ \A t \in {"x", "("} : \E k \in DOMAIN i[2] : t \in i[2][k][1]
         /\ i[1] \notin {"attempt", "attempted", "until", "slip"}
<1>1. StatementEnd[1] = "expect" /\ Build("x")[1] = "build"
  BY DEF StatementEnd, Expect, Build
<1>2. CASE Leads(i, a, c)
  BY <1>1, <1>2 DEF Leads
<1>3. CASE i[1] = "while" /\ a = c /\ Passes(Part1, i[3], a, a)
  BY <1>3 DEF Way1
<1>4. CASE /\ i[1] = "switch"
           /\ \A k \in DOMAIN i[2] : Passes(Part1, i[2][k][2], a, c)
           /\ \/ Passes(Part1, i[3], a, c)
              \/ /\ i[3] = <<>> /\ Operand(a) /\ c = <<"postfix", a[2]>>
                 /\ \A t \in {"x", "("} : \E k \in DOMAIN i[2] : t \in i[2][k][1]
  BY <1>4 DEF Way1
<1>. QED  BY <1>2, <1>3, <1>4 DEF Part2, Parts

\* A token that no place takes has been consumed, or an operand was missing.
LEMMA NowDoomed ==
  ASSUME ~Shifted(read').ok, NEW c \in Places, Way2(todo', c, End),
         c[1] \notin {"start", "lost", "end"}
  PROVE  Doomed'
BY WayEnds DEF Doomed

\* Consume keeps the invariant: where the parser is, it takes what the reference takes.
LEMMA ConsumeGroups == ParserInv /\ GroupInv /\ Consume => GroupInv'
<1>. SUFFICES ASSUME ParserInv, GroupInv, Consume PROVE GroupInv'
  OBVIOUS
<1>1. /\ Advance /\ todo' = Rest /\ tok \in Arg /\ todo # <<>> /\ result = "run"
      /\ Head(todo)[1] = "expect" /\ Arg = Head(todo)[2]
      /\ UNCHANGED <<input, result, tree>>
  BY DEF Consume, Doing, Matches, Arg
<1>2. CASE ~input.trace
  <2>1. read' = <<>> /\ ~input'.trace
    BY <1>1, <1>2 DEF Advance, GroupInv
  <2>2. read' \in Seq(input'.tokens \cup {"eof"})
    BY <2>1
  <2>. QED  BY <2>1, <2>2 DEF GroupInv
<1>3. CASE input.trace
  <2>1. /\ read' \in Seq(input'.tokens \cup {"eof"}) /\ read' # <<>> /\ Front(read') = read
        /\ Shifted(read) \in Readers
        /\ Shifted(read') = Shift(Shifted(read), tok)
        /\ Over \/ Doomed => Over'
    BY <1>1, <1>3, ReadNext
  <2>2. SUFFICES Over' \/ Doomed' \/ Ended' \/ Going'
    BY <1>1, <1>3, <2>1 DEF GroupInv
  <2>3. Over \/ Doomed \/ Going
    BY <1>1, <1>3 DEF GroupInv, Ended
  <2>4. SUFFICES ASSUME Going PROVE Over' \/ Doomed' \/ Ended' \/ Going'
    BY <2>1, <2>3
  <2>5. PICK a \in Places, c \in Places :
           /\ Part2(Head(todo), a, c) /\ Way2(Rest, c, End) /\ Way2(todo, a, End)
           /\ Agrees(a, Shifted(read), tree, tok) /\ (a[1] = "start" => read = <<>>)
           /\ a[1] \notin {"void", "lost", "end"} /\ c[1] # "start"
    BY <1>1, <2>4, GoingHead
  <2>. DEFINE s == Shifted(read)
  <2>6. s \in Readers /\ Agrees(a, s, tree, tok) /\ s.ok
    BY <2>1, <2>5 DEF Agrees
  <2>7. Shifted(read') = Shift(s, tok) /\ Way2(todo', c, End)
    BY <1>1, <2>1, <2>5
  <2>8. \/ Takes(Arg, a, c)
        \/ Arg = {";"} /\ a = <<"done", <<>>>> /\ c = End
    <3>1. \/ Takes(Arg, a, c)
          \/ Head(todo) = StatementEnd /\ a = <<"done", <<>>>> /\ c = End
      BY <1>1, <2>5, LeadsKind
    <3>2. StatementEnd[2] = {";"}
      BY DEF StatementEnd, Expect
    <3>. HIDE DEF StatementEnd, End
    <3>. QED  BY <1>1, <3>1, <3>2, Zenon
  <2>9. a[2] \in Seq(Waiters) /\ c[2] \in Seq(Waiters) /\ a = <<a[1], a[2]>> /\ c = <<c[1], c[2]>>
    BY PlacesAre
  <2>. HIDE DEF s
  <2>10. CASE Foreign(Arg, a) /\ Onward(a, c)
    <3>1. ~Shifted(read').ok
      BY <1>1, <2>6, <2>7, <2>10, ForeignShift
    <3>2. CASE a[1] = "start"
      <4>1. Front(read') = <<>>
        BY <2>1, <2>5, <3>2
      <4>2. Shifted(<<>>) = Empty
        <5>1. <<>> \in Seq({"x"}) /\ "x" \in {"x"}
          OBVIOUS
        <5>. QED  BY <5>1, ShiftedNext, Zenon
      <4>3. ~WellFormed(<<>>)
        BY <4>2 DEF WellFormed, Empty
      <4>. QED  BY <2>1, <3>1, <4>1, <4>3 DEF Over
    <3>3. CASE a[1] # "start"
      <4>1. c[1] \notin {"start", "lost", "end"}
        <5>1. <<"start", <<>>>>[1] = "start"
          OBVIOUS
        <5>. QED  BY <2>10, <3>3, <5>1 DEF Onward
      <4>. QED  BY <2>7, <3>1, <4>1, NowDoomed
    <3>. QED  BY <3>2, <3>3
  <2>11. CASE Arg = {"x"} /\ Operand(a) /\ c = <<"name", a[2]>>
    <3>1. tok = "x"
      BY <1>1, <2>11
    <3>2. Agrees(c, Shift(s, tok), tree, tok')
      BY <2>6, <2>11, <3>1, OperandShift
    <3>. QED  BY <1>1, <2>5, <2>7, <3>2 DEF Going
  <2>12. CASE Arg = {"("} /\ Operand(a) /\ c = <<"operand", Append(a[2], "(")>>
    <3>1. tok = "("
      BY <1>1, <2>12
    <3>2. Agrees(c, Shift(s, tok), tree, tok')
      BY <2>6, <2>12, <3>1, OpenShift
    <3>. QED  BY <1>1, <2>5, <2>7, <3>2 DEF Going
  <2>13. CASE Arg = {")"} /\ a = <<"done", Append(c[2], "(")>> /\ c[1] = "postfix"
    <3>1. tok = ")"
      BY <1>1, <2>13
    <3>2. CASE s.operand
      <4>1. ~Shifted(read').ok
        BY <2>6, <2>7, <3>1, <3>2, MissingShift
      <4>. QED  BY <2>7, <2>13, <4>1, NowDoomed
    <3>3. CASE ~s.operand
      <4>1. a[1] = "done" /\ a[2] = Append(c[2], "(")
        BY <2>13
      <4>2. Standing(s, Append(c[2], "("), tree)
        BY <2>6, <3>3, <4>1 DEF Agrees
      <4>3. Agrees(<<"postfix", c[2]>>, Shift(s, ")"), tree, tok')
        BY <2>6, <2>9, <3>3, <4>2, CloseShift
      <4>4. Agrees(c, Shift(s, tok), tree, tok')
        BY <2>9, <2>13, <3>1, <4>3
      <4>. QED  BY <1>1, <2>5, <2>7, <4>4 DEF Going
    <3>. QED  BY <3>2, <3>3
  <2>14. CASE Arg = {";"} /\ a = <<"done", <<>>>> /\ c = End
    <3>1. todo' = <<>>
      <4>1. End[1] = "end"
        BY DEF End
      <4>. QED  BY <2>7, <2>14, <4>1, WayNil
    <3>2. ASSUME WellFormed(read) PROVE tree = Postfix(read)
      <4>1. ~s.operand
        BY <3>2 DEF WellFormed, s
      <4>2. a[1] = "done" /\ a[2] = <<>>
        BY <2>14
      <4>3. Standing(s, <<>>, tree)
        BY <2>6, <4>1, <4>2 DEF Agrees
      <4>4. s.ops \in Seq(Waiters)
        BY <2>6 DEF Readers
      <4>5. tree = s.out \o Applied(s.ops, 0)
        <5>1. Len(<<>>) = 0
          OBVIOUS
        <5>. QED  BY <4>3, <5>1 DEF Standing
      <4>6. Applied(s.ops, 0) = Reverse(s.ops)
        BY <4>4, AppliedAll
      <4>. QED  BY <4>5, <4>6 DEF Postfix, s
    <3>. QED  BY <1>1, <2>1, <3>1, <3>2 DEF Ended
  <2>. QED  BY <2>8, <2>10, <2>11, <2>12, <2>13, <2>14 DEF Takes
<1>. QED  BY <1>2, <1>3

\* So does Refuse: no error of the statement is dropped, and one that is dropped
\* leaves the semicolon to come.
LEMMA RefuseGroups == ParserInv /\ GroupInv /\ Refuse => GroupInv'
<1>. SUFFICES ASSUME ParserInv, GroupInv, Refuse PROVE GroupInv'
  OBVIOUS
<1>. DEFINE at == SelectInSeq(todo, LAMBDA item : item = Attempted)
<1>1. IsList(todo) /\ Len(todo) \in Nat
  BY TodoIsList DEF IsList
<1>2. at # 0 => at \in 1..Len(todo) /\ todo[at] = Attempted
  <2>. DEFINE I == {i \in 1..Len(todo) : todo[i] = Attempted}
  <2>1. at = IF I # {} THEN Min(I) ELSE 0
    BY DEF SelectInSeq
  <2>2. I # {} => Min(I) \in I
    <3>1. I \in SUBSET Nat
      BY <1>1
    <3>. HIDE DEF I
    <3>. QED  BY <3>1, LeastNat DEF Min
  <2>. QED  BY <2>1, <2>2
<1>. HIDE DEF at
<1>3. /\ \/ result' = "error" /\ todo' = <<>>
         \/ at # 0 /\ todo' = SubSeq(todo, at + 1, Len(todo))
      /\ UNCHANGED <<input, read>> /\ todo # <<>>
  BY DEF Refuse, at, cursor, Doing
<1>4. CASE result' = "error"
  BY <1>3, <1>4 DEF GroupInv
<1>5. CASE at # 0 /\ todo' = SubSeq(todo, at + 1, Len(todo))
  <2>1. ASSUME Over PROVE Over'
    BY <1>3, <2>1 DEF Over
  <2>2. ASSUME Doomed PROVE Doomed'
    <3>. DEFINE S == {todo[k] : k \in 1..Len(todo)}  n == Len(todo)  u == SubSeq(todo, at + 1, n)
    <3>1. todo \in Seq(S) /\ n \in Nat
      BY <1>1, ListIsSeq
    <3>2. todo[n] = StatementEnd
      BY <2>2 DEF Doomed, Last
    <3>3. StatementEnd # Attempted
      <4>1. StatementEnd[1] = "expect" /\ Attempted[1] = "attempted"
        BY DEF StatementEnd, Expect, Attempted
      <4>. QED  BY <4>1
    <3>4. at \in 1..n /\ at # n
      BY <1>2, <1>5, <3>2, <3>3
    <3>. HIDE DEF n, S
    <3>5. /\ u \in Seq(S) /\ Len(u) = n - at
          /\ \A i \in 1..n - at : u[i] = todo[at + i]
      BY <3>1, <3>4 DEF n
    <3>6. n - at \in 1..n - at /\ at + (n - at) = n
      BY <3>1, <3>4
    <3>7. u # <<>> /\ Last(u) = StatementEnd
      <4>1. Len(u) # 0
        BY <3>5, <3>6
      <4>2. u[Len(u)] = StatementEnd
        BY <3>2, <3>5, <3>6
      <4>. HIDE DEF u
      <4>3. u # <<>>
        BY <4>1
      <4>. QED  BY <4>2, <4>3 DEF Last
    <3>8. todo' = u
      BY <1>5 DEF u, n
    <3>. QED  BY <1>3, <2>2, <3>7, <3>8 DEF Doomed
  <2>3. ~Ended
    BY <1>3 DEF Ended
  <2>4. ~Going
    <3>. SUFFICES ASSUME Going PROVE FALSE
      OBVIOUS
    <3>1. PICK a \in Places : Way2(todo, a, End)
      BY DEF Going
    <3>2. \A k \in 1..Len(todo) : \E b, c : Part2(todo[k], b, c)
      BY <3>1 DEF Way2, Passes
    <3>3. todo[at] = Attempted /\ \E b, c : Part2(todo[at], b, c)
      BY <1>2, <1>5, <3>2
    <3>. QED  BY <3>3, LeadsFrom
  <2>5. result # "error"
    BY DEF Refuse, Doing
  <2>. QED  BY <1>3, <2>1, <2>2, <2>3, <2>4, <2>5, GetsOn DEF GroupInv
<1>. QED  BY <1>3, <1>4, <1>5

\* So does Descend: what a function does is what its call leads to.
LEMMA DescendGroups == ParserInv /\ GroupInv /\ Descend => GroupInv'
<1>. SUFFICES ASSUME ParserInv, GroupInv, Descend PROVE GroupInv'
  OBVIOUS
<1>1. /\ UNCHANGED <<input, tok, read, tree>> /\ result = "run" /\ todo # <<>>
      /\ Head(todo)[1] \in {"call", "attempt", "attempted"} /\ Arg = Head(todo)[2]
  BY DEF Descend, Doing, cursor, Arg
<1>2. ASSUME Over PROVE Over'
  BY <1>1, <1>2 DEF Over
<1>3. ASSUME Doomed PROVE Doomed'
  <2>1. CASE Doing("call") /\ todo' = Functions[Arg] \o Rest
    <3>1. PICK a \in Stacks, b \in Stacks : Item3(Head(todo), a, b)
      BY <1>1, NextItem
    <3>2. Arg \in DOMAIN Functions
      BY <2>1, <3>1 DEF Doing, Arg, Item3, Compound, Simple
    <3>3. IsList(Functions[Arg])
      BY <3>2, FunctionsFit DEF Path3, Along
    <3>. QED  BY <1>1, <1>3, <2>1, <3>3, StillDoomed DEF Doing
  <2>2. CASE Doing("attempt") /\ todo' = <<Call(Arg), Attempted>> \o Rest
    <3>1. IsList(<<Call(Arg), Attempted>>)
      BY DEF IsList
    <3>. QED  BY <1>1, <1>3, <2>2, <3>1, StillDoomed DEF Doing
  <2>3. CASE Doing("attempted") /\ todo' = Rest
    <3>1. IsList(<<>>)
      BY DEF IsList
    <3>. QED  BY <1>1, <1>3, <2>3, <3>1, StillDoomed DEF Doing
  <2>. QED  BY <2>1, <2>2, <2>3 DEF Descend
<1>4. ASSUME Going PROVE Going'
  <2>1. PICK a \in Places, c \in Places :
           /\ Part2(Head(todo), a, c) /\ Way2(Rest, c, End) /\ Way2(todo, a, End)
           /\ Agrees(a, Shifted(read), tree, tok) /\ (a[1] = "start" => read = <<>>)
           /\ a[1] \notin {"void", "lost", "end"} /\ c[1] # "start"
    BY <1>1, <1>4, GoingHead
  <2>2. Head(todo)[1] = "call" /\ Calls(Arg, a, c)
    BY <1>1, <2>1, LeadsKind
  <2>3. todo' = Functions[Arg] \o Rest
    BY <2>2 DEF Descend, Doing
  <2>4. Way2(Functions[Arg], a, c)
    BY <2>2, FunctionsLead
  <2>5. Way2(todo', a, End)
    BY <2>1, <2>3, <2>4, WayConcat
  <2>. QED  BY <1>1, <2>1, <2>5 DEF Going
<1>. QED  BY <1>1, <1>2, <1>3, <1>4, GetsOn DEF GroupInv, Ended

\* So does Branch: every arm leads where the switch does.
LEMMA BranchGroups == ParserInv /\ GroupInv /\ Branch => GroupInv'
<1>. SUFFICES ASSUME ParserInv, GroupInv, Branch PROVE GroupInv'
  OBVIOUS
<1>1. /\ UNCHANGED <<input, tok, read, tree>> /\ result = "run" /\ todo # <<>>
      /\ Head(todo)[1] = "switch" /\ Arg = Head(todo)[2]
  BY DEF Branch, Doing, cursor, Arg
<1>2. ASSUME Over PROVE Over'
  BY <1>1, <1>2 DEF Over
<1>3. ASSUME Doomed PROVE Doomed'
  <2>1. PICK a \in Stacks, b \in Stacks : Item3(Head(todo), a, b)
    BY <1>1, NextItem
  <2>2. /\ Path2(Head(todo)[3], a, b)
        /\ \A k \in DOMAIN Arg : Path2(Arg[k][2], a, b)
    BY <1>1, <2>1 DEF Item3, Compound, Simple, Path2
  <2>3. \E s : IsList(s) /\ todo' = s \o Rest
    BY <2>2 DEF Branch, Path2, Along
  <2>. QED  BY <1>1, <1>3, <2>3, StillDoomed
<1>4. ASSUME Going PROVE Going'
  <2>1. PICK a \in Places, c \in Places :
           /\ Part2(Head(todo), a, c) /\ Way2(Rest, c, End) /\ Way2(todo, a, End)
           /\ Agrees(a, Shifted(read), tree, tok) /\ (a[1] = "start" => read = <<>>)
           /\ a[1] \notin {"void", "lost", "end"} /\ c[1] # "start"
    BY <1>1, <1>4, GoingHead
  <2>2. /\ \A k \in DOMAIN Arg : Way1(Arg[k][2], a, c)
        /\ \/ Way1(Head(todo)[3], a, c)
           \/ /\ Head(todo)[3] = <<>> /\ Operand(a) /\ c = <<"postfix", a[2]>>
              /\ \A t \in {"x", "("} : \E k \in DOMAIN Arg : t \in Arg[k][1]
    BY <1>1, <2>1, LeadsKind
  <2>3. CASE \E s : Way1(s, a, c) /\ todo' = s \o Rest
    <3>1. Way2(todo', a, End)
      BY <2>1, <2>3, Way1Up, WayConcat
    <3>. QED  BY <1>1, <2>1, <3>1 DEF Going
  <2>4. CASE ~\E s : Way1(s, a, c) /\ todo' = s \o Rest
    <3>1. /\ \A k \in DOMAIN Arg : tok \notin Arg[k][1]
          /\ todo' = Head(todo)[3] \o Rest
      BY <2>2, <2>4 DEF Branch
    <3>2. /\ Head(todo)[3] = <<>> /\ Operand(a) /\ c = <<"postfix", a[2]>>
          /\ \A t \in {"x", "("} : \E k \in DOMAIN Arg : t \in Arg[k][1]
      BY <2>2, <2>4, <3>1
    <3>3. tok \notin {"x", "("}
      BY <3>1, <3>2
    <3>4. Way2(todo', c, End)
      BY <2>1, <3>1, <3>2, WayOf0, WayConcat
    <3>. DEFINE s == Shifted(read)
    <3>5. s.ok /\ s.operand
      BY <2>1, <3>2 DEF Agrees
    <3>. HIDE DEF s
    <3>6. c[1] = "postfix" /\ ~Operand(c)
      BY <3>2 DEF Operand
    <3>7. Agrees(c, s, tree, tok)
      BY <3>3, <3>5, <3>6 DEF Agrees
    <3>. QED  BY <1>1, <2>1, <3>4, <3>7 DEF Going, s
  <2>. QED  BY <2>3, <2>4
<1>. QED  BY <1>1, <1>2, <1>3, <1>4, GetsOn DEF GroupInv, Ended

\* So does Loop: a turn leads back to where it starts.
LEMMA LoopGroups == ParserInv /\ GroupInv /\ Loop => GroupInv'
<1>. SUFFICES ASSUME ParserInv, GroupInv, Loop PROVE GroupInv'
  OBVIOUS
<1>1. /\ UNCHANGED <<input, tok, read, tree>> /\ result = "run" /\ todo # <<>>
      /\ Head(todo)[1] \in {"until", "while"}
      /\ todo' = Head(todo)[3] \o todo \/ todo' = Rest
  BY DEF Loop, Doing, cursor
<1>2. ASSUME Over PROVE Over'
  BY <1>1, <1>2 DEF Over
<1>3. ASSUME Doomed PROVE Doomed'
  <2>1. PICK a \in Stacks, b \in Stacks : Item3(Head(todo), a, b)
    BY <1>1, NextItem
  <2>2. IsList(Head(todo)[3])
    BY <1>1, <2>1 DEF Item3, Compound, Simple, Along
  <2>. QED  BY <1>1, <1>3, <2>2, StillDoomed
<1>4. ASSUME Going PROVE Going'
  <2>1. PICK a \in Places, c \in Places :
           /\ Part2(Head(todo), a, c) /\ Way2(Rest, c, End) /\ Way2(todo, a, End)
           /\ Agrees(a, Shifted(read), tree, tok) /\ (a[1] = "start" => read = <<>>)
           /\ a[1] \notin {"void", "lost", "end"} /\ c[1] # "start"
    BY <1>1, <1>4, GoingHead
  <2>2. a = c /\ Way1(Head(todo)[3], a, a)
    BY <1>1, <2>1, LeadsKind
  <2>3. Way2(todo', a, End)
    BY <1>1, <2>1, <2>2, Way1Up, WayConcat
  <2>. QED  BY <1>1, <2>1, <2>3 DEF Going
<1>. QED  BY <1>1, <1>2, <1>3, <1>4, GetsOn DEF GroupInv, Ended

\* Where an operand is missing an operator is refused, and the semicolon is still to come.
LEMMA MissingDooms ==
  ASSUME ParserInv, Advance, UNCHANGED input, input.trace, GroupInv, tok \in BinOpTokens,
         Shifted(read).operand, NEW c \in Places, Way2(Rest, c, End),
         c[1] \notin {"start", "lost", "end"}, todo # <<>>,
         NEW s, IsList(s), todo' = s \o Rest \/ todo' = Rest
  PROVE  Doomed'
<1>1. ~Shifted(read').ok
  BY ReadNext, MissingShift
<1>2. Rest # <<>> /\ Last(Rest) = StatementEnd
  BY WayEnds
<1>3. IsList(Rest)
  BY TodoIsList, TailIsList DEF Rest
<1>4. todo' # <<>> /\ Last(todo') = StatementEnd
  BY <1>2, <1>3, LastKept
<1>. QED  BY <1>1, <1>4 DEF Doomed

\* So does BinOpOperator: an operator that binds more loosely than what waits is dropped, and
\* leaves the reference without an operand; another one waits on what waits already.
LEMMA BinOpOperatorGroups == ParserInv /\ GroupInv /\ BinOpOperator => GroupInv'
<1>. SUFFICES ASSUME ParserInv, GroupInv, BinOpOperator PROVE GroupInv'
  OBVIOUS
<1>. DEFINE p == get_token_precedence(tok)
            rhs == <<Call("parse_postfix_expr"), Climb(Arg, tok)>>
<1>1. /\ Advance /\ todo # <<>> /\ result = "run" /\ tok \in BinOpTokens
      /\ Head(todo)[1] = "binop" /\ Arg = Head(todo)[2]
      /\ UNCHANGED <<input, result, tree>>
      /\ todo' = IF p < Arg THEN Rest ELSE rhs \o Rest
  BY DEF BinOpOperator, Doing, Arg
<1>2. CASE ~input.trace
  <2>1. read' = <<>> /\ ~input'.trace
    BY <1>1, <1>2 DEF Advance, GroupInv
  <2>2. read' \in Seq(input'.tokens \cup {"eof"})
    BY <2>1
  <2>. QED  BY <2>1, <2>2 DEF GroupInv
<1>3. CASE input.trace
  <2>1. /\ read' \in Seq(input'.tokens \cup {"eof"}) /\ read' # <<>> /\ Front(read') = read
        /\ Shifted(read) \in Readers
        /\ Shifted(read') = Shift(Shifted(read), tok)
        /\ Over \/ Doomed => Over'
    BY <1>1, <1>3, ReadNext
  <2>2. SUFFICES Over' \/ Doomed' \/ Ended' \/ Going'
    BY <1>1, <1>3, <2>1 DEF GroupInv
  <2>3. Over \/ Doomed \/ Going
    BY <1>1, <1>3 DEF GroupInv, Ended
  <2>4. SUFFICES ASSUME Going PROVE Over' \/ Doomed' \/ Ended' \/ Going'
    BY <2>1, <2>3
  <2>5. PICK a \in Places, c \in Places :
           /\ Part2(Head(todo), a, c) /\ Way2(Rest, c, End) /\ Way2(todo, a, End)
           /\ Agrees(a, Shifted(read), tree, tok) /\ (a[1] = "start" => read = <<>>)
           /\ a[1] \notin {"void", "lost", "end"} /\ c[1] # "start"
    BY <1>1, <2>4, GoingHead
  <2>. DEFINE s == Shifted(read)  w == a[2]
  <2>6. s \in Readers /\ Agrees(a, s, tree, tok) /\ s.ok /\ w \in Seq(Waiters)
    BY <2>1, <2>5, PlacesAre DEF Agrees
  <2>7. Shifted(read') = Shift(s, tok)
    BY <2>1
  <2>8. Arg \in Nat /\ Below(w, Arg) /\ a[1] \in {"postfix", "operator"} /\ c = <<"done", w>>
    BY <1>1, <2>5, LeadsKind
  <2>9. c[1] = "done" /\ c[2] = w
    BY <2>8
  <2>10. CASE s.operand
    <3>1. IsList(rhs)
      BY DEF IsList
    <3>. QED  BY <1>1, <1>3, <2>5, <2>9, <2>10, <3>1, MissingDooms
  <2>. HIDE DEF s, w, p, rhs
  <2>11. CASE ~s.operand /\ p < Arg
    <3>1. Agrees(c, Shift(s, tok), tree, tok')
      BY <1>1, <2>6, <2>8, <2>11, DropShift
    <3>. QED  BY <1>1, <2>5, <2>7, <2>11, <3>1 DEF Going
  <2>12. CASE ~s.operand /\ ~(p < Arg)
    <3>1. p \in Int
      BY Precedences DEF p
    <3>2. tok \in Binary
      <4>1. p >= 0
        BY <2>8, <2>12, <3>1
      <4>2. tok # "&&"
        <5>1. get_token_precedence("&&") = -1
          BY Precedences, Zenon
        <5>2. tok = "&&" => p = -1
          BY <5>1 DEF p
        <5>. QED  BY <4>1, <5>2
      <4>. QED  BY <1>1, <4>2 DEF Binary
    <3>3. /\ Standing(s, w, tree)
          /\ \A i \in Len(w) + 1..Len(s.ops) : get_token_precedence(s.ops[i]) >= p
      <4>1. CASE a[1] = "postfix"
        <5>1. s.ops = w /\ tree = s.out
          BY <2>6, <2>12, <4>1 DEF Agrees, w
        <5>2. Standing(s, w, tree)
          BY <2>6, <5>1, PostfixStanding
        <5>3. Len(w) \in Nat
          BY <2>6
        <5>. QED  BY <5>1, <5>2, <5>3
      <4>2. CASE a[1] = "operator"
        BY <2>6, <2>12, <3>2, <4>2 DEF Agrees, w, p
      <4>. QED  BY <2>8, <4>1, <4>2
    <3>4. Below(w, p)
      <4>1. w # <<>> => get_token_precedence(Last(w)) < Arg
        BY <2>8 DEF Below
      <4>2. get_token_precedence(Last(w)) \in Int
        BY Precedences
      <4>. QED  BY <2>8, <2>12, <3>1, <4>1, <4>2 DEF Below
    <3>. DEFINE v == Append(w, tok)  o == <<"operand", v>>  b == <<"postfix", v>>
    <3>5. Agrees(o, Shift(s, tok), tree, tok')
      BY <2>6, <2>12, <3>2, <3>3, <3>4, OperatorShift DEF p
    <3>6. v \in Seq(Waiters)
      <4>1. tok \in Waiters
        BY <1>1 DEF Waiters
      <4>. QED  BY <2>6, <4>1, PlacesAre
    <3>7. /\ o \in Places /\ b \in Places /\ o[1] = "operand" /\ o[2] = v
          /\ b = <<"postfix", o[2]>> /\ b = <<"postfix", Append(c[2], tok)>>
      BY <2>9, <3>6, PlacesAre, PhasesAre
    <3>. HIDE DEF v, o, b
    <3>8. Leads(Call("parse_postfix_expr"), o, b)
      BY <3>7, CallLeads DEF Operand
    <3>9. Leads(Climb(Arg, tok), b, c)
      <4>. DEFINE i == Climb(Arg, tok)
      <4>1. i[1] = "climb" /\ i[2] = Arg /\ i[3] = tok
        BY DEF Climb
      <4>. HIDE DEF i
      <4>2. Leads(i, b, c)
        BY <2>8, <2>9, <3>2, <3>7, <4>1 DEF Leads
      <4>. QED  BY <4>2 DEF i
    <3>10. Way2(rhs, o, c)
      BY <3>7, <3>8, <3>9, LeadsUp, WayOf2 DEF rhs
    <3>11. Way2(todo', o, End)
      BY <1>1, <2>5, <2>12, <3>10, WayConcat
    <3>. QED  BY <1>1, <2>7, <3>5, <3>7, <3>11 DEF Going
  <2>. QED  BY <2>10, <2>11, <2>12
<1>. QED  BY <1>2, <1>3

\* So does BinOpDone: no operator is left that is to take what stands on what waits.
LEMMA BinOpDoneGroups == ParserInv /\ GroupInv /\ BinOpDone => GroupInv'
<1>. SUFFICES ASSUME ParserInv, GroupInv, BinOpDone PROVE GroupInv'
  OBVIOUS
<1>1. /\ UNCHANGED <<input, tok, read, tree>> /\ result = "run" /\ todo # <<>>
      /\ Head(todo)[1] = "binop" /\ Arg = Head(todo)[2] /\ tok \notin BinOpTokens
      /\ todo' = Rest
  BY DEF BinOpDone, Doing, cursor, Arg
<1>2. ASSUME Over PROVE Over'
  BY <1>1, <1>2 DEF Over
<1>3. ASSUME Doomed PROVE Doomed'
  <2>1. IsList(<<>>)
    BY DEF IsList
  <2>. QED  BY <1>1, <1>3, <2>1, StillDoomed
<1>4. ASSUME Going, input.trace PROVE Going'
  <2>1. PICK a \in Places, c \in Places :
           /\ Part2(Head(todo), a, c) /\ Way2(Rest, c, End) /\ Way2(todo, a, End)
           /\ Agrees(a, Shifted(read), tree, tok) /\ (a[1] = "start" => read = <<>>)
           /\ a[1] \notin {"void", "lost", "end"} /\ c[1] # "start"
    BY <1>1, <1>4, GoingHead
  <2>. DEFINE s == Shifted(read)  w == a[2]
  <2>2. a[1] \in {"postfix", "operator"} /\ c = <<"done", w>>
    BY <1>1, <2>1, LeadsKind
  <2>3. s \in Readers /\ Agrees(a, s, tree, tok) /\ s.ok /\ w \in Seq(Waiters)
    <3>1. read \in Seq(input.tokens \cup {"eof"}) /\ "eof" \in input.tokens \cup {"eof"}
      BY DEF GroupInv
    <3>2. Shifted(read) \in Readers
      BY <3>1, ShiftedNext, Zenon
    <3>. QED  BY <2>1, <3>2, PlacesAre DEF Agrees
  <2>4. c[1] = "done" /\ c[2] = w /\ ~Operand(c)
    BY <2>2 DEF Operand
  <2>. HIDE DEF s, w
  <2>5. ~s.operand => Standing(s, w, tree)
    <3>1. CASE a[1] = "postfix"
      BY <2>3, <3>1, PostfixStanding DEF Agrees, w
    <3>2. CASE a[1] = "operator"
      BY <2>3, <3>2 DEF Agrees, w
    <3>. QED  BY <2>2, <3>1, <3>2
  <2>6. Agrees(c, s, tree, tok)
    BY <1>1, <2>3, <2>4, <2>5 DEF Agrees
  <2>. QED  BY <1>1, <2>1, <2>6 DEF Going, s
<1>. QED  BY <1>1, <1>2, <1>3, <1>4, GetsOn DEF GroupInv, Ended

\* So does BinOpClimb: the operator goes into the tree after its right-hand side, which takes
\* the operators that bind more tightly.
LEMMA BinOpClimbGroups == ParserInv /\ GroupInv /\ BinOpClimb => GroupInv'
<1>. SUFFICES ASSUME ParserInv, GroupInv, BinOpClimb PROVE GroupInv'
  OBVIOUS
<1>. DEFINE op == Head(todo)[3]
            p == get_token_precedence(op)
            rhs == IF p < get_token_precedence(tok) THEN <<BinOp(p + 1)>> ELSE <<>>
            node == <<Build(op), BinOp(Arg)>>
<1>1. /\ UNCHANGED <<input, tok, read, tree>> /\ result = "run" /\ todo # <<>>
      /\ Head(todo)[1] = "climb" /\ Arg = Head(todo)[2]
      /\ todo' = (rhs \o node) \o Rest \/ todo' = rhs \o (node \o Rest)
  BY DEF BinOpClimb, Doing, cursor, Arg, TighterThan
<1>2. ASSUME Over PROVE Over'
  BY <1>1, <1>2 DEF Over
<1>3. IsList(rhs) /\ IsList(node) /\ node # <<>>
  BY DEF IsList
<1>. HIDE DEF op, p, rhs, node
<1>4. ASSUME Doomed PROVE Doomed'
  <2>1. IsList(todo) /\ todo # <<>> /\ Last(todo) = StatementEnd
    BY <1>4, TodoIsList DEF Doomed
  <2>2. IsList(Rest) /\ IF Rest = <<>> THEN Last(todo) = Head(todo) ELSE Last(todo) = Last(Rest)
    BY <2>1, TailIsList DEF Rest
  <2>3. Rest # <<>> /\ Last(Rest) = StatementEnd
    <3>1. StatementEnd[1] = "expect"
      BY DEF StatementEnd, Expect
    <3>. HIDE DEF StatementEnd
    <3>2. Rest # <<>>
      BY <1>1, <2>1, <2>2, <3>1
    <3>. QED  BY <2>1, <2>2, <3>2
  <2>4. IsList(rhs \o node) /\ IsList(node \o Rest)
    BY <1>3, <2>2, ConcatIsList
  <2>5. node \o Rest # <<>> /\ Last(node \o Rest) = StatementEnd
    BY <1>3, <2>2, <2>3, LastKept
  <2>6. todo' # <<>> /\ Last(todo') = StatementEnd
    BY <1>1, <1>3, <2>2, <2>3, <2>4, <2>5, LastKept
  <2>. QED  BY <1>1, <1>4, <2>6 DEF Doomed
<1>5. ASSUME Going, input.trace PROVE Going'
  <2>1. PICK a \in Places, c \in Places :
           /\ Part2(Head(todo), a, c) /\ Way2(Rest, c, End) /\ Way2(todo, a, End)
           /\ Agrees(a, Shifted(read), tree, tok) /\ (a[1] = "start" => read = <<>>)
           /\ a[1] \notin {"void", "lost", "end"} /\ c[1] # "start"
    BY <1>1, <1>5, GoingHead
  <2>. DEFINE s == Shifted(read)  w == c[2]  v == Append(w, op)
              d == <<"done", v>>  o == <<"operator", w>>  b == <<"build", v>>
  <2>2. /\ Arg \in Nat /\ Below(w, Arg) /\ op \in Binary
        /\ a = <<"postfix", v>> /\ c[1] = "done"
    BY <1>1, <2>1, LeadsKind DEF op
  <2>3. s \in Readers /\ Agrees(a, s, tree, tok) /\ s.ok /\ w \in Seq(Waiters)
    <3>1. read \in Seq(input.tokens \cup {"eof"}) /\ "eof" \in input.tokens \cup {"eof"}
      BY DEF GroupInv
    <3>2. Shifted(read) \in Readers
      BY <3>1, ShiftedNext, Zenon
    <3>. QED  BY <2>1, <3>2, PlacesAre DEF Agrees
  <2>4. /\ v \in Seq(Waiters) /\ Len(w) \in Nat /\ Len(v) = Len(w) + 1 /\ v[Len(v)] = op
        /\ v # <<>> /\ Last(v) = op
    <3>1. op \in Waiters
      BY <2>2 DEF Binary, Waiters
    <3>2. /\ v \in Seq(Waiters) /\ Len(w) \in Nat /\ Len(v) = Len(w) + 1 /\ v[Len(v)] = op
      BY <2>3, <3>1
    <3>. HIDE DEF v
    <3>3. v # <<>>
      BY <3>2
    <3>. QED  BY <3>2, <3>3 DEF Last
  <2>5. /\ d \in Places /\ o \in Places /\ b \in Places /\ d[1] = "done" /\ o[1] = "operator"
        /\ b[1] = "build" /\ d[2] = v /\ b[2] = v /\ o[2] = w /\ a[1] = "postfix" /\ a[2] = v
    BY <2>2, <2>3, <2>4, PlacesAre, PhasesAre
  <2>6. v = Append(o[2], op) /\ c = <<"done", o[2]>> /\ d = <<"done", a[2]>>
    BY <2>2, <2>5, PlacesAre
  <2>. HIDE DEF s, w, v, d, o, b
  <2>7. p \in Nat
    <3>1. get_token_precedence(op) \in {10, 20, 40}
      BY <2>2, Precedences, Zenon
    <3>. QED  BY <3>1 DEF p
  <2>8. \A x \in {b, d} : Leads(Build(op), x, o)
    <3>. DEFINE i == Build(op)
    <3>1. i[1] = "build" /\ i[2] = op
      BY DEF Build
    <3>. HIDE DEF i
    <3>2. \A x \in {b, d} : Leads(i, x, o)
      BY <2>2, <2>5, <2>6, <3>1 DEF Leads
    <3>. QED  BY <3>2 DEF i
  <2>9. Leads(BinOp(Arg), o, c)
    <3>. DEFINE i == BinOp(Arg)
    <3>1. i[1] = "binop" /\ i[2] = Arg
      BY DEF BinOp
    <3>. HIDE DEF i
    <3>2. Leads(i, o, c)
      BY <2>2, <2>5, <2>6, <3>1 DEF Leads
    <3>. QED  BY <3>2 DEF i
  <2>10. \A x \in {b, d} : Way2(node, x, c)
    BY <2>5, <2>8, <2>9, LeadsUp, WayOf2 DEF node
  <2>11. \A x \in {b, d} : Way2(node \o Rest, x, End)
    BY <2>1, <2>10, WayConcat
  <2>12. CASE p < get_token_precedence(tok)
    <3>1. Leads(BinOp(p + 1), a, d)
      <4>. DEFINE i == BinOp(p + 1)  q == p + 1
      <4>1. i[1] = "binop" /\ i[2] = q /\ q \in Nat /\ p < q
        BY <2>7 DEF BinOp
      <4>. HIDE DEF i, q
      <4>2. Below(a[2], q)
        BY <2>4, <2>5, <4>1 DEF Below, p
      <4>3. Leads(i, a, d)
        BY <2>5, <2>6, <4>1, <4>2 DEF Leads
      <4>. QED  BY <4>3 DEF i
    <3>2. Way2(rhs, a, d)
      BY <2>5, <2>12, <3>1, LeadsUp, WayOf1 DEF rhs
    <3>3. Way2((rhs \o node) \o Rest, a, End) /\ Way2(rhs \o (node \o Rest), a, End)
      BY <2>1, <2>10, <2>11, <3>2, WayConcat
    <3>. QED  BY <1>1, <2>1, <3>3 DEF Going
  <2>13. CASE ~(p < get_token_precedence(tok))
    <3>1. Way2(rhs, b, b)
      BY <2>5, <2>13, WayOf0 DEF rhs
    <3>2. Way2(todo', b, End)
      BY <1>1, <2>1, <2>10, <2>11, <3>1, WayConcat
    <3>3. ASSUME ~s.operand
          PROVE  /\ Standing(s, v, tree)
                 /\ \A i \in Len(v)..Len(s.ops) :
                      get_token_precedence(s.ops[i]) >= get_token_precedence(tok)
      <4>1. s.ops = v /\ tree = s.out
        BY <2>3, <2>5, <3>3 DEF Agrees
      <4>2. Standing(s, v, tree)
        BY <2>3, <2>4, <4>1, PostfixStanding
      <4>3. \A i \in Len(v)..Len(s.ops) : s.ops[i] = op
        BY <2>4, <4>1
      <4>4. get_token_precedence(tok) \in Int
        BY Precedences
      <4>5. p >= get_token_precedence(tok)
        BY <2>7, <2>13, <4>4
      <4>. QED  BY <4>2, <4>3, <4>5 DEF p
    <3>4. Agrees(b, s, tree, tok)
      <4>1. ~Operand(b)
        BY <2>5 DEF Operand
      <4>. QED  BY <2>3, <2>5, <3>3, <4>1 DEF Agrees
    <3>. QED  BY <1>1, <2>5, <3>2, <3>4 DEF Going, s
  <2>. QED  BY <2>12, <2>13
<1>. QED  BY <1>1, <1>2, <1>4, <1>5, GetsOn DEF GroupInv, Ended

\* So does BuildNode: an operand, or the operator that its right-hand side has just left.
LEMMA BuildNodeGroups == ParserInv /\ GroupInv /\ BuildNode => GroupInv'
<1>. SUFFICES ASSUME ParserInv, GroupInv, BuildNode PROVE GroupInv'
  OBVIOUS
<1>1. /\ UNCHANGED <<input, tok, read>> /\ result = "run" /\ todo # <<>>
      /\ Head(todo)[1] = "build" /\ Arg = Head(todo)[2] /\ todo' = Rest
      /\ input.trace => tree' = Append(tree, Arg)
  BY DEF BuildNode, Doing, cursor, Arg
<1>2. ASSUME Over PROVE Over'
  BY <1>1, <1>2 DEF Over
<1>3. ASSUME Doomed PROVE Doomed'
  <2>1. IsList(<<>>)
    BY DEF IsList
  <2>. QED  BY <1>1, <1>3, <2>1, StillDoomed
<1>4. ASSUME Going, input.trace PROVE Going'
  <2>1. PICK a \in Places, c \in Places :
           /\ Part2(Head(todo), a, c) /\ Way2(Rest, c, End) /\ Way2(todo, a, End)
           /\ Agrees(a, Shifted(read), tree, tok) /\ (a[1] = "start" => read = <<>>)
           /\ a[1] \notin {"void", "lost", "end"} /\ c[1] # "start"
    BY <1>1, <1>4, GoingHead
  <2>. DEFINE s == Shifted(read)  w == c[2]
  <2>2. s \in Readers /\ Agrees(a, s, tree, tok) /\ s.ok /\ w \in Seq(Waiters)
    <3>1. read \in Seq(input.tokens \cup {"eof"}) /\ "eof" \in input.tokens \cup {"eof"}
      BY DEF GroupInv
    <3>2. Shifted(read) \in Readers
      BY <3>1, ShiftedNext, Zenon
    <3>. QED  BY <2>1, <3>2, PlacesAre DEF Agrees
  <2>3. \/ Head(todo) = Build("x") /\ a[1] = "name" /\ c = <<"postfix", a[2]>>
        \/ Arg \in Binary /\ a[1] \in {"build", "done"}
           /\ a[2] = Append(w, Arg) /\ c[1] = "operator"
    BY <1>1, <2>1, LeadsKind
  <2>. HIDE DEF s, w
  <2>4. CASE Head(todo) = Build("x") /\ a[1] = "name" /\ c = <<"postfix", a[2]>>
    <3>1. Arg = "x"
      BY <1>1, <2>4 DEF Build
    <3>2. ~s.operand /\ s.ops = a[2] /\ s.out = Append(tree, "x")
      BY <2>2, <2>4 DEF Agrees
    <3>3. c[1] = "postfix" /\ c[2] = a[2] /\ ~Operand(c)
      BY <2>4 DEF Operand
    <3>4. tree' = s.out
      BY <1>1, <1>4, <3>1, <3>2
    <3>5. Agrees(c, s, tree', tok)
      BY <2>2, <3>2, <3>3, <3>4 DEF Agrees
    <3>. QED  BY <1>1, <2>1, <3>5 DEF Going, s
  <2>5. CASE Arg \in Binary /\ a[1] \in {"build", "done"}
             /\ a[2] = Append(w, Arg) /\ c[1] = "operator"
    <3>1. ~Operand(c)
      BY <2>5 DEF Operand
    <3>2. ASSUME ~s.operand PROVE Standing(s, a[2], tree)
      BY <2>2, <2>5, <3>2 DEF Agrees
    <3>3. ~s.operand => Standing(s, w, tree')
      <4>1. tree' = Append(tree, Arg)
        BY <1>1, <1>4
      <4>2. Arg \in Binary /\ a[2] = Append(w, Arg)
        BY <2>5
      <4>. QED  BY <2>2, <3>2, <4>1, <4>2, BuildStanding
    <3>4. ASSUME ~s.operand, tok \in Binary
          PROVE  \A i \in Len(w) + 1..Len(s.ops) :
                   get_token_precedence(s.ops[i]) >= get_token_precedence(tok)
      <4>1. a[1] = "build"
        <5>1. tok \in BinOpTokens
          BY <3>4 DEF Binary
        <5>. QED  BY <2>2, <2>5, <3>4, <5>1 DEF Agrees
      <4>2. Len(a[2]) = Len(w) + 1
        <5>1. Arg \in Waiters
          BY <2>5 DEF Binary, Waiters
        <5>2. Len(Append(w, Arg)) = Len(w) + 1
          BY <2>2, <5>1
        <5>. QED  BY <2>5, <5>2
      <4>3. \A i \in Len(a[2])..Len(s.ops) :
              get_token_precedence(s.ops[i]) >= get_token_precedence(tok)
        BY <2>2, <3>4, <4>1 DEF Agrees
      <4>. QED  BY <4>2, <4>3
    <3>5. Agrees(c, s, tree', tok)
      BY <2>2, <2>5, <3>1, <3>3, <3>4 DEF Agrees, w
    <3>. QED  BY <1>1, <2>1, <3>5 DEF Going, s
  <2>. QED  BY <2>3, <2>4, <2>5
<1>. QED  BY <1>1, <1>2, <1>3, <1>4, GetsOn DEF GroupInv, Ended

\* So does NoteSlip: a statement that gets on meets no slip.
LEMMA NoteSlipGroups == ParserInv /\ GroupInv /\ NoteSlip => GroupInv'
<1>. SUFFICES ASSUME ParserInv, GroupInv, NoteSlip PROVE GroupInv'
  OBVIOUS
<1>1. /\ UNCHANGED <<input, tok, read, tree>> /\ result = "run" /\ todo # <<>>
      /\ Head(todo)[1] = "slip" /\ todo' = Rest
  BY DEF NoteSlip, Doing, cursor
<1>2. ASSUME Over PROVE Over'
  BY <1>1, <1>2 DEF Over
<1>3. ASSUME Doomed PROVE Doomed'
  <2>1. IsList(<<>>)
    BY DEF IsList
  <2>. QED  BY <1>1, <1>3, <2>1, StillDoomed
<1>4. ~Going
  BY <1>1, GoingHead, LeadsKind
<1>. QED  BY <1>1, <1>2, <1>3, <1>4, GetsOn DEF GroupInv, Ended

\* So does Finish.
LEMMA FinishGroups == ParserInv /\ GroupInv /\ Finish => GroupInv'
<1>. SUFFICES ASSUME ParserInv, GroupInv, Finish PROVE GroupInv'
  OBVIOUS
<1>1. /\ UNCHANGED <<input, tok, read, tree, todo>> /\ result = "run" /\ todo = <<>>
  BY DEF Finish, cursor
<1>2. ~Going /\ ~Doomed
  BY <1>1, GoingHasTodo DEF Doomed
<1>3. Over \/ Ended => Over' \/ Ended'
  BY <1>1 DEF Over, Ended
<1>. QED  BY <1>1, <1>2, <1>3, GetsOn DEF GroupInv

\* The stack of pending operators that defines the reference and parse_bin_op's
\* recursion agree: whatever the tokens are and however many, a statement that is
\* accepted and is a well-formed expression with a semicolon has the tree its
\* operators' precedences ask for (parse_bin_op, parse_simple_expr).
THEOREM GroupsByPrecedence == Spec => []GroupedByPrecedence
<1>1. Init => GroupInv
  BY GroupInit
<1>2. ParserInv /\ GroupInv /\ [Next]_vars => GroupInv'
  <2>. SUFFICES ASSUME ParserInv, GroupInv, [Next]_vars PROVE GroupInv'
    OBVIOUS
  <2>1. CASE Next
    BY <2>1, ConsumeGroups, RefuseGroups, DescendGroups, BranchGroups, LoopGroups,
       BinOpOperatorGroups, BinOpDoneGroups, BinOpClimbGroups, BuildNodeGroups,
       NoteSlipGroups, FinishGroups DEF Next
  <2>2. CASE UNCHANGED vars
    <3>1. UNCHANGED <<input, read, tok, tree, todo, result>>
      BY <2>2 DEF vars
    <3>. QED  BY <3>1 DEF GroupInv, Over, Doomed, Ended, Going
  <2>. QED  BY <2>1, <2>2
<1>3. ParserInv /\ GroupInv => GroupedByPrecedence
  <2>. SUFFICES ASSUME ParserInv, GroupInv, result = "ok", read # <<>>, WellFormed(Front(read))
                PROVE  tree = Postfix(Front(read))
    BY DEF GroupedByPrecedence
  <2>1. input.trace /\ todo = <<>>
    BY DEF GroupInv, ParserInv
  <2>2. ~Over /\ ~Doomed /\ ~Going
    BY <2>1, GoingHasTodo DEF Over, Doomed
  <2>. QED  BY <2>1, <2>2 DEF GroupInv, Ended
<1>. QED  BY <1>1, <1>2, <1>3, CallsKeepFitting, PTL DEF Spec
=============================================================================
