---------------------------- MODULE IntegerProofs ----------------------------
(***************************************************************************)
(* Facts about integers.                                                   *)
(*                                                                         *)
(* 1. What recursive functions compute, without an induction rule: the     *)
(* naturals are well-founded, so a set of them that is not empty has a     *)
(* least element, and a claim that fails somewhere fails somewhere first.  *)
(* A recursive definition chooses a function that satisfies its equation;  *)
(* the lemmas here show that there is one to choose.  The other proofs     *)
(* rest on them.                                                           *)
(*                                                                         *)
(* 2. When widening an integer keeps its value and when a signed           *)
(* comparison of unsigned integers is right, for every width.  Module      *)
(* ValueCode calls the use of another type's sign a slip, and only for the *)
(* patterns from the half range on: the theorems are the reason why that   *)
(* is all it leaves out.                                                   *)
(***************************************************************************)
EXTENDS Ints, FiniteSetsExt, WellFoundedInduction, TLAPS

-----------------------------------------------------------------------------
(* Recursive functions and folds.                                           *)

\* A set of naturals that is not empty has a least element.
LEMMA LeastNat ==
  ASSUME NEW T \in SUBSET Nat, T # {}
  PROVE  \E x \in T : \A y \in T : x <= y
<1>1. IsWellFoundedOn(OpToRel(<, Nat), Nat)
  BY NatLessThanWellFounded
<1>2. PICK x \in T : \A y \in T : ~ (<<y, x>> \in OpToRel(<, Nat))
  BY <1>1, WFMin
<1>3. \A y \in T : ~(y < x)
  BY <1>2 DEF OpToRel
<1>. QED  BY <1>3

\* A walk down the numbers lo..n stops at s with the answer stop[s], or goes on
\* from next[s], which is smaller.
IsWalk(f, lo, n, ends, answer, next) ==
  f = [s \in lo..n |-> IF s \in ends THEN answer[s] ELSE f[next[s]]]

\* Every such walk ends, so there is a function that is one.
LEMMA WalkExists ==
  ASSUME NEW lo \in Int, NEW n \in Int, NEW ends, NEW answer, NEW next,
         \A s \in lo..n : s \notin ends => next[s] \in lo..s - 1
  PROVE  \E f : IsWalk(f, lo, n, ends, answer, next)
<1>. DEFINE T == {m \in Nat : lo + m - 1 <= n /\ ~\E f : IsWalk(f, lo, lo + m - 1, ends, answer, next)}
<1>1. CASE n < lo
  <2>1. lo..n = {}
    BY <1>1
  <2>. DEFINE g == [s \in lo..n |-> s]
  <2>2. IsWalk(g, lo, n, ends, answer, next)
    BY <2>1 DEF IsWalk
  <2>. QED  BY <2>2
<1>2. CASE T = {} /\ n >= lo
  <2>1. n - lo + 1 \in Nat /\ lo + (n - lo + 1) - 1 = n /\ n <= n
    BY <1>2
  <2>2. n - lo + 1 \notin T
    BY <1>2
  <2>. QED  BY <2>1, <2>2
<1>3. CASE T # {}
  <2>1. PICK m \in T : \A y \in T : m <= y
    BY <1>3, LeastNat
  <2>2. m # 0
    <3>1. lo..(lo + 0 - 1) = {}
      OBVIOUS
    <3>. DEFINE g == [s \in lo..(lo + 0 - 1) |-> s]
    <3>2. IsWalk(g, lo, lo + 0 - 1, ends, answer, next)
      BY <3>1 DEF IsWalk
    <3>. QED  BY <3>2
  <2>. DEFINE k == lo + m - 1
  <2>3. m \in Nat /\ m - 1 \in Nat /\ m - 1 \notin T /\ k \in lo..n /\ lo + (m - 1) - 1 = k - 1
    BY <2>1, <2>2
  <2>4. PICK f : IsWalk(f, lo, k - 1, ends, answer, next)
    BY <2>3
  <2>5. k \in Int /\ k \in lo..n /\ \A g : ~IsWalk(g, lo, k, ends, answer, next)
    BY <2>1, <2>3
  <2>. HIDE DEF k
  <2>. DEFINE last == IF k \in ends THEN answer[k] ELSE f[next[k]]
              g == [s \in lo..k |-> IF s = k THEN last ELSE f[s]]
  <2>6. ASSUME NEW s \in lo..k
        PROVE  g[s] = IF s \in ends THEN answer[s] ELSE g[next[s]]
    <3>1. s \notin ends => next[s] \in lo..k - 1 /\ next[s] \in lo..k /\ next[s] # k
      BY <2>5
    <3>2. s \notin ends => g[next[s]] = f[next[s]]
      BY <3>1
    <3>3. CASE s = k
      BY <3>2, <3>3
    <3>4. CASE s # k
      <4>1. s \in lo..k - 1
        BY <3>4, <2>5
      <4>2. f[s] = IF s \in ends THEN answer[s] ELSE f[next[s]]
        BY <4>1, <2>4 DEF IsWalk
      <4>. QED  BY <3>2, <4>2, <3>4
    <3>. QED  BY <3>3, <3>4
  <2>7. g = [s \in lo..k |-> g[s]]
    OBVIOUS
  <2>. HIDE DEF g
  <2>8. IsWalk(g, lo, k, ends, answer, next)
    BY <2>6, <2>7 DEF IsWalk
  <2>. QED  BY <2>5, <2>8
<1>. QED  BY <1>1, <1>2, <1>3

\* A walk up a chain of parents: -1 and 0 end it, and so does the first member
\* of has on the way.
IsChainWalk(f, n, parent, has, answer, none, bad) ==
  f = [s \in -1..n |-> IF s = -1 THEN bad
                       ELSE IF s = 0 THEN none
                       ELSE IF s \in has THEN answer[s] ELSE f[parent[s]]]

\* A chain of parents that come before their children is such a walk.
LEMMA ChainWalkExists ==
  ASSUME NEW n \in Nat, NEW parent, NEW has, NEW answer, NEW none, NEW bad,
         \A s \in 1..n : parent[s] \in -1..s - 1
  PROVE  \E f : IsChainWalk(f, n, parent, has, answer, none, bad)
<1>. DEFINE ends == {-1, 0} \cup has
            result == [s \in -1..n |-> IF s = -1 THEN bad ELSE IF s = 0 THEN none ELSE answer[s]]
<1>1. \A s \in -1..n : s \notin ends => parent[s] \in -1..s - 1
  OBVIOUS
<1>2. -1 \in Int /\ n \in Int
  OBVIOUS
<1>3. PICK f : IsWalk(f, -1, n, ends, result, parent)
  <2>. HIDE DEF ends, result
  <2>. QED  BY <1>1, <1>2, WalkExists
<1>4. \A s \in -1..n : (IF s \in ends THEN result[s] ELSE f[parent[s]])
                         = IF s = -1 THEN bad
                           ELSE IF s = 0 THEN none
                           ELSE IF s \in has THEN answer[s] ELSE f[parent[s]]
  OBVIOUS
<1>. HIDE DEF ends, result
<1>5. f = [s \in -1..n |-> IF s \in ends THEN result[s] ELSE f[parent[s]]]
  BY <1>3 DEF IsWalk
<1>6. IsChainWalk(f, n, parent, has, answer, none, bad)
  BY <1>4, <1>5 DEF IsChainWalk
<1>. QED  BY <1>6

-----------------------------------------------------------------------------
(* Folds: FoldLeft of SequencesExt recurses over the sets of indices and    *)
(* takes the largest index off each.                                        *)

\* The largest of a set of indices.
LEMMA MaxOfIndices ==
  ASSUME NEW n \in Nat, NEW s \in SUBSET (1..n), s # {}
  PROVE  Max(s) \in s /\ \A y \in s : Max(s) >= y
<1>. DEFINE T == {n - y : y \in s}
<1>1. \A y \in s : y \in Int /\ n - y \in Nat
  OBVIOUS
<1>2. PICK x \in T : \A y \in T : x <= y
  <2>1. T \in SUBSET Nat /\ T # {}
    BY <1>1
  <2>. HIDE DEF T
  <2>. QED  BY <2>1, LeastNat
<1>3. PICK z \in s : x = n - z
  BY <1>2
<1>4. \A y \in s : n - y \in T
  OBVIOUS
<1>5. \A y \in s : z >= y
  <2>. SUFFICES ASSUME NEW y \in s PROVE z >= y
    OBVIOUS
  <2>1. x <= n - y
    BY <1>2, <1>4
  <2>. QED  BY <1>3, <2>1
<1>. QED  BY <1>3, <1>5 DEF Max

\* What holds of the fold of no index, and of every fold if it does of the one
\* without the last index, holds of all.
LEMMA FoldInduct ==
  ASSUME NEW n \in Nat, NEW f, NEW S, f[{}] \in S,
         \A s \in SUBSET (1..n) : s # {} /\ f[s \ {Max(s)}] \in S => f[s] \in S
  PROVE  \A s \in SUBSET (1..n) : f[s] \in S
<1>. DEFINE T == {m \in Nat : \E s \in SUBSET (1..n) : s \subseteq 1..m /\ f[s] \notin S}
<1>1. CASE T = {}
  BY <1>1
<1>2. CASE T # {}
  <2>1. PICK m \in T : \A y \in T : m <= y
    <3>1. T \in SUBSET Nat
      OBVIOUS
    <3>. HIDE DEF T
    <3>. QED  BY <1>2, <3>1, LeastNat
  <2>2. PICK s \in SUBSET (1..n) : s \subseteq 1..m /\ f[s] \notin S
    BY <2>1
  <2>3. s # {}
    BY <2>2
  <2>4. Max(s) \in s /\ \A y \in s : Max(s) >= y
    BY <2>3, MaxOfIndices
  <2>. DEFINE r == s \ {Max(s)}
  <2>5. m \in Nat /\ m >= 1 /\ m - 1 \in Nat
    <3>1. m \in Nat
      BY <2>1
    <3>2. \E y : y \in 1..m
      BY <2>2, <2>3
    <3>. QED  BY <3>1, <3>2
  <2>6. r \in SUBSET (1..n) /\ r \subseteq 1..m - 1
    <3>1. \A y \in r : y \in 1..m /\ y <= Max(s) /\ y # Max(s) /\ Max(s) \in 1..m
      BY <2>2, <2>4
    <3>2. \A y \in r : y \in 1..m - 1
      <4>. HIDE DEF r
      <4>. QED  BY <2>5, <3>1
    <3>. QED  BY <2>2, <3>2
  <2>7. m - 1 \notin T
    <3>. HIDE DEF T
    <3>. QED  BY <2>1, <2>5
  <2>8. f[r] \in S
    BY <2>5, <2>6, <2>7
  <2>. QED  BY <2>2, <2>3, <2>8
<1>. QED  BY <1>1, <1>2

IsFold(f, n, base, step) ==
  f = [s \in SUBSET (1..n) |->
         IF s = {} THEN base ELSE step[<<f[s \ {Max(s)}], Max(s)>>]]

\* There is a function that folds a step over the indices up to n.
LEMMA FoldExists ==
  ASSUME NEW n \in Nat, NEW base, NEW step
  PROVE  \E f : IsFold(f, n, base, step)
<1>. DEFINE T == {m \in Nat : ~\E f : IsFold(f, m, base, step)}
<1>1. CASE T = {}
  BY <1>1
<1>2. CASE T # {}
  <2>1. PICK m \in T : \A y \in T : m <= y
    <3>1. T \in SUBSET Nat
      OBVIOUS
    <3>. HIDE DEF T
    <3>. QED  BY <1>2, <3>1, LeastNat
  <2>2. m # 0
    <3>1. 1..0 = {} /\ SUBSET (1..0) = {{}}
      OBVIOUS
    <3>. DEFINE g == [s \in SUBSET (1..0) |-> base]
    <3>2. \A s \in SUBSET (1..0) : s = {}
      BY <3>1
    <3>3. IsFold(g, 0, base, step)
      BY <3>2 DEF IsFold
    <3>. QED  BY <2>1, <3>3
  <2>3. m \in Nat /\ m - 1 \in Nat /\ m - 1 \notin T
    <3>1. m \in Nat
      BY <2>1
    <3>. HIDE DEF T
    <3>2. m - 1 \in Nat /\ ~(m <= m - 1)
      BY <2>2, <3>1
    <3>. QED  BY <2>1, <3>1, <3>2
  <2>4. PICK f : IsFold(f, m - 1, base, step)
    BY <2>3
  <2>. DEFINE g == [s \in SUBSET (1..m) |->
                      IF m \in s THEN step[<<f[s \ {m}], m>>] ELSE f[s]]
  <2>5. ASSUME NEW s \in SUBSET (1..m)
        PROVE  g[s] = IF s = {} THEN base ELSE step[<<g[s \ {Max(s)}], Max(s)>>]
    <3>1. \A r \in SUBSET (1..m) : m \notin r => r \in SUBSET (1..m - 1)
      BY <2>3
    <3>2. CASE m \in s
      <4>1. Max(s) = m
        <5>1. Max(s) \in s /\ \A y \in s : Max(s) >= y
          BY <2>3, <3>2, MaxOfIndices
        <5>2. Max(s) \in 1..m /\ Max(s) >= m
          BY <3>2, <5>1
        <5>. QED  BY <2>3, <5>2
      <4>2. s \ {m} \in SUBSET (1..m) /\ m \notin s \ {m}
        OBVIOUS
      <4>3. g[s \ {m}] = f[s \ {m}]
        BY <4>2
      <4>. QED  BY <3>2, <4>1, <4>3
    <3>3. CASE m \notin s
      <4>1. s \in SUBSET (1..m - 1)
        BY <3>1, <3>3
      <4>2. f[s] = IF s = {} THEN base ELSE step[<<f[s \ {Max(s)}], Max(s)>>]
        BY <2>4, <4>1 DEF IsFold
      <4>3. s \ {Max(s)} \in SUBSET (1..m) /\ m \notin s \ {Max(s)}
        BY <3>3
      <4>4. g[s \ {Max(s)}] = f[s \ {Max(s)}]
        BY <4>3
      <4>. QED  BY <3>3, <4>2, <4>4
    <3>. QED  BY <3>2, <3>3
  <2>6. g = [s \in SUBSET (1..m) |-> g[s]]
    OBVIOUS
  <2>. HIDE DEF g
  <2>7. IsFold(g, m, base, step)
    BY <2>5, <2>6 DEF IsFold
  <2>. QED  BY <2>1, <2>7
<1>. QED  BY <1>1, <1>2

-----------------------------------------------------------------------------
(* Integers of fixed width.                                                 *)

Halves == Nat \ {0}

\* A pattern read with its sign lies in the signed range, and two patterns
\* that read the same are the same.
LEMMA SignedInRange ==
  ASSUME NEW h \in Halves, NEW n \in Patterns(h)
  PROVE  Signed(n, h) \in SignedRange(h)
  BY DEF Halves, Patterns, SignedRange, Signed

LEMMA SignedInjective ==
  ASSUME NEW h \in Halves, NEW n \in Patterns(h), NEW m \in Patterns(h),
         Signed(n, h) = Signed(m, h)
  PROVE  n = m
  BY DEF Halves, Patterns, Signed

\* CreateSExt (widen in codegen_binop.cpp, trunc in codegen_assign.cpp) gives a
\* pattern of the wider type that stands for the same signed number.
LEMMA SExtKeepsSigned ==
  ASSUME NEW h \in Halves, NEW g \in Halves, h <= g, NEW n \in Patterns(h)
  PROVE  /\ SExt(n, h, g) \in Patterns(g)
         /\ Signed(SExt(n, h, g), g) = Signed(n, h)
  <1>1. CASE n < h
    BY <1>1 DEF Halves, Patterns, Signed, SExt
  <1>2. CASE n >= h
    <2>1. SExt(n, h, g) = n + 2 * g - 2 * h
      BY <1>2 DEF Halves, Patterns, SExt
    <2>2. SExt(n, h, g) \in Patterns(g) /\ SExt(n, h, g) >= g
      BY <1>2, <2>1 DEF Halves, Patterns
    <2> QED BY <1>2, <2>1, <2>2 DEF Halves, Patterns, Signed
  <1> QED BY <1>1, <1>2 DEF Halves, Patterns

\* CreateZExt keeps the unsigned number.
LEMMA ZExtKeepsUnsigned ==
  ASSUME NEW h \in Halves, NEW g \in Halves, h <= g, NEW n \in Patterns(h)
  PROVE  ZExt(n, h, g) \in Patterns(g) /\ ZExt(n, h, g) = n
  BY DEF Halves, Patterns, ZExt

\* codegen_arithmetic_binop and codegen_assign widen an operand by the sign of
\* another type: to a wider type the two ways agree on a pattern exactly when it
\* is below the half range of its own type, and ValueCode's slip "sign" is the
\* other case.
THEOREM WrongSignMatters ==
  ASSUME NEW h \in Halves, NEW g \in Halves, h < g, NEW n \in Patterns(h)
  PROVE  ExtOrTrunc(n, h, g, TRUE) = ExtOrTrunc(n, h, g, FALSE) <=> n < h
  <1>1. ExtOrTrunc(n, h, g, TRUE) = SExt(n, h, g) /\ ExtOrTrunc(n, h, g, FALSE) = n
    BY DEF Halves, ExtOrTrunc, ZExt
  <1>2. CASE n < h
    BY <1>1, <1>2 DEF SExt
  <1>3. CASE ~(n < h)
    <2>1. SExt(n, h, g) = n + 2 * g - 2 * h
      BY <1>3 DEF SExt
    <2>2. n + 2 * g - 2 * h # n
      BY DEF Halves, Patterns
    <2> QED BY <1>1, <1>3, <2>1, <2>2
  <1> QED BY <1>2, <1>3

\* Widening to a type at least as wide with the sign of the operand's own type
\* keeps what the operand stands for.
THEOREM WideningKeepsValue ==
  ASSUME NEW h \in Halves, NEW g \in Halves, h <= g, NEW n \in Patterns(h),
         NEW signed \in BOOLEAN
  PROVE  /\ ExtOrTrunc(n, h, g, signed) \in Patterns(g)
         /\ Decode(ExtOrTrunc(n, h, g, signed), g, signed) = Decode(n, h, signed)
  <1>1. ExtOrTrunc(n, h, g, signed) = IF signed THEN SExt(n, h, g) ELSE ZExt(n, h, g)
    BY DEF Halves, ExtOrTrunc
  <1>2. CASE signed
    BY <1>1, <1>2, SExtKeepsSigned DEF Decode
  <1>3. CASE ~signed
    BY <1>1, <1>3, ZExtKeepsUnsigned DEF Decode
  <1> QED BY <1>2, <1>3

\* CreateICmpSLT and its kin compare unsigned operands as signed ones: the
\* answer is the right one exactly when both or neither are below the half range.
THEOREM SignedComparisonOfUnsigned ==
  ASSUME NEW h \in Halves, NEW n \in Patterns(h), NEW m \in Patterns(h), n # m
  PROVE  (Signed(n, h) < Signed(m, h) <=> n < m) <=> (n < h <=> m < h)
  <1>1. CASE n < h /\ m < h
    BY <1>1 DEF Halves, Patterns, Signed
  <1>2. CASE ~(n < h) /\ ~(m < h)
    BY <1>2 DEF Halves, Patterns, Signed
  <1>3. CASE n < h /\ ~(m < h)
    BY <1>3 DEF Halves, Patterns, Signed
  <1>4. CASE ~(n < h) /\ m < h
    BY <1>4 DEF Halves, Patterns, Signed
  <1> QED BY <1>1, <1>2, <1>3, <1>4
=============================================================================
