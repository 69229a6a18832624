---------------------------- MODULE ScopesProofs ----------------------------
(***************************************************************************)
(* Theorems about module Scopes, for every reservation, every bound on the *)
(* number of scopes and every set of names, types and values.              *)
(*                                                                         *)
(* The invariant that carries the first ones is IInv: how open, current    *)
(* and the parent pointers hang together also once the vector has moved,   *)
(* when a pointer is either what it was or Freed.  ChainIsPushOrder alone  *)
(* is not inductive: it says nothing of a vector that is over its          *)
(* reservation.  LInv adds what the lookups need: a parent comes before    *)
(* its child, so the walks end.  On it rests the refinement: the table is  *)
(* a block-structured environment for as long as its vector stays put.     *)
(***************************************************************************)
EXTENDS Scopes, ScopeOpsProofs, SequenceTheorems

USE DEF Root, NoParent, Freed

Linked ==
  /\ Len(open) >= 1
  /\ open[1] = Root
  /\ \A i \in 1..Len(open) : open[i] \in 1..Len(scopes)
  /\ \A i, j \in 1..Len(open) : i < j => open[i] < open[j]
  /\ \A i \in 2..Len(open) : scopes[open[i]].parent \in {open[i - 1], Freed}
  /\ current \in {open[Len(open)], Freed}

Flagged ==
  \A s \in 1..Len(scopes) :
    scopes[s].is_in_scope <=> \E i \in 1..Len(open) : open[i] = s

Unmoved ==
  WithinReserve => /\ current # Freed
                   /\ \A s \in 1..Len(scopes) : scopes[s].parent # Freed

IInv == TypeOK /\ Linked /\ Flagged /\ Unmoved

-----------------------------------------------------------------------------
(* The steps.                                                               *)

\* A current scope that is no freed pointer is the innermost open one.
LEMMA CurrentIsOpen ==
  ASSUME IInv, current # Freed
  PROVE  /\ current \in 1..Len(scopes)
         /\ current = open[Len(open)]
         /\ Len(open) \in 1..Len(open)
BY DEF IInv, Linked, TypeOK

\* Every step that only writes the current scope keeps the invariant.
LEMMA WriteKeepsIInv ==
  ASSUME IInv, current # Freed,
         Writes(scopes, current, scopes'),
         scopes'[current].is_in_scope = scopes[current].is_in_scope,
         UNCHANGED <<current, crashed, open>>
  PROVE  IInv'
<1>1. \A s \in 1..Len(scopes) :
        /\ scopes'[s].parent = scopes[s].parent
        /\ scopes'[s].is_in_scope = scopes[s].is_in_scope
  BY DEF Writes
<1>2. TypeOK'
  BY DEF IInv, TypeOK, Writes
<1>3. Linked'
  BY <1>1 DEF IInv, Linked, Writes, TypeOK
<1>4. Flagged'
  BY <1>1 DEF IInv, Flagged, Writes
<1>5. Unmoved'
  BY <1>1 DEF IInv, Unmoved, Writes, WithinReserve
<1> QED BY <1>2, <1>3, <1>4, <1>5 DEF IInv

\* A push opens the new scope below the current one; once the vector has moved
\* only current_scope is a good pointer.
LEMMA PushKeepsIInv ==
  ASSUME IInv, current # Freed, Push
  PROVE  IInv'
<1> DEFINE n == Len(scopes)
<1>0. /\ scopes \in Seq(Scope) /\ open \in Seq(Nat) /\ n \in Nat
      /\ crashed \in BOOLEAN
      /\ current \in 1..n
      /\ current = open[Len(open)]
      /\ Len(open) \in Nat /\ Len(open) >= 1
  BY CurrentIsOpen DEF IInv, TypeOK, Linked
<1>1. /\ scopes' \in Seq(Scope)
      /\ Len(scopes') = n + 1
      /\ scopes'[n + 1].is_in_scope
      /\ scopes'[n + 1].parent = IF n = Reserve THEN Dangles(current) ELSE current
      /\ \A i \in 1..n :
           /\ scopes'[i].parent = IF n = Reserve THEN Dangles(scopes[i].parent)
                                                 ELSE scopes[i].parent
           /\ scopes'[i].is_in_scope = scopes[i].is_in_scope
  <2>1. current \in Nat \cup {Freed}
    BY <1>0
  <2>2. scopes' = PushScope(scopes, current)
    BY DEF Push
  <2> QED BY <1>0, <2>1, <2>2, PushResult
<1>2. /\ open' = Append(open, n + 1)
      /\ current' = n + 1
      /\ crashed' = crashed
  BY DEF Push
<1>3. /\ open' \in Seq(Nat)
      /\ Len(open') = Len(open) + 1
      /\ open'[Len(open) + 1] = n + 1
      /\ \A i \in 1..Len(open) : open'[i] = open[i]
  BY <1>0, <1>2
<1>4. TypeOK'
  BY <1>0, <1>1, <1>2, <1>3 DEF TypeOK
<1>5. Linked'
  <2>1. Len(open') >= 1 /\ open'[1] = Root
    BY <1>0, <1>3 DEF IInv, Linked
  <2>0. /\ \A i \in 1..Len(open) : open[i] \in 1..n
        /\ \A i, j \in 1..Len(open) : i < j => open[i] < open[j]
        /\ \A i \in 2..Len(open) : scopes[open[i]].parent \in {open[i - 1], Freed}
    BY DEF IInv, Linked
  <2>2. ASSUME NEW i \in 1..Len(open') PROVE open'[i] \in 1..Len(scopes')
    <3>1. CASE i = Len(open) + 1
      BY <1>0, <1>1, <1>3, <3>1
    <3>2. CASE i \in 1..Len(open)
      <4>1. open'[i] = open[i] /\ open[i] \in 1..n
        BY <1>3, <2>0, <3>2
      <4> QED BY <1>0, <1>1, <4>1
    <3> QED BY <1>0, <1>3, <3>1, <3>2
  <2>3. ASSUME NEW i \in 1..Len(open'), NEW j \in 1..Len(open'), i < j
        PROVE  open'[i] < open'[j]
    <3>1. CASE j = Len(open) + 1
      <4>1. i \in 1..Len(open)
        BY <1>0, <1>3, <2>3, <3>1
      <4> QED BY <1>0, <1>3, <2>0, <3>1, <4>1
    <3>2. CASE j \in 1..Len(open)
      <4>1. i \in 1..Len(open)
        BY <1>0, <1>3, <2>3, <3>2
      <4> QED BY <1>3, <2>0, <2>3, <3>2, <4>1
    <3> QED BY <1>0, <1>3, <3>1, <3>2
  <2>4. ASSUME NEW i \in 2..Len(open')
        PROVE  scopes'[open'[i]].parent \in {open'[i - 1], Freed}
    <3>1. CASE i = Len(open')
      BY <1>0, <1>1, <1>3, <3>1 DEF Dangles
    <3>2. CASE i \in 2..Len(open)
      <4>1. i \in 1..Len(open) /\ i - 1 \in 1..Len(open)
        BY <1>0, <3>2
      <4>2. /\ open'[i] = open[i] /\ open'[i - 1] = open[i - 1]
            /\ open[i] \in 1..n /\ open[i - 1] \in 1..n
            /\ scopes[open[i]].parent \in {open[i - 1], Freed}
        BY <1>3, <2>0, <3>2, <4>1
      <4> QED BY <1>1, <4>2 DEF Dangles
    <3> QED BY <1>0, <1>3, <3>1, <3>2
  <2>5. current' \in {open'[Len(open')], Freed}
    BY <1>0, <1>2, <1>3
  <2> QED BY <2>1, <2>2, <2>3, <2>4, <2>5 DEF Linked
<1>6. Flagged'
  <2> SUFFICES ASSUME NEW s \in 1..(n + 1)
               PROVE  scopes'[s].is_in_scope
                        <=> \E i \in 1..(Len(open) + 1) : open'[i] = s
    BY <1>1, <1>3 DEF Flagged
  <2>1. CASE s = n + 1
    BY <1>0, <1>1, <1>3, <2>1
  <2>2. CASE s \in 1..n
    <3>1. scopes[s].is_in_scope <=> \E i \in 1..Len(open) : open[i] = s
      BY <2>2 DEF IInv, Flagged
    <3>2. (\E i \in 1..(Len(open) + 1) : open'[i] = s)
            <=> \E i \in 1..Len(open) : open[i] = s
      <4>1. \A i \in 1..(Len(open) + 1) :
              open'[i] = IF i = Len(open) + 1 THEN n + 1 ELSE open[i]
        <5>1. \A i \in 1..(Len(open) + 1) : i = Len(open) + 1 \/ i \in 1..Len(open)
          BY <1>0
        <5>2. \A i \in 1..Len(open) : i # Len(open) + 1
          BY <1>0
        <5> QED BY <5>1, <5>2, <1>3
      <4>2. s # n + 1
        BY <1>0, <2>2
      <4>3. \A i : i \in 1..(Len(open) + 1) /\ i # Len(open) + 1 <=> i \in 1..Len(open)
        BY <1>0
      <4> QED BY <4>1, <4>2, <4>3
    <3> QED BY <1>1, <2>2, <3>1, <3>2
  <2> QED BY <1>0, <2>1, <2>2
<1>7. Unmoved'
  <2> SUFFICES ASSUME n + 1 <= Reserve
               PROVE  /\ current' # Freed
                      /\ \A s \in 1..(n + 1) : scopes'[s].parent # Freed
    BY <1>1 DEF Unmoved, WithinReserve
  <2>1. n # Reserve /\ n <= Reserve
    BY <1>0, ReserveAssumption
  <2>2. \A s \in 1..n : scopes[s].parent # Freed
    BY <2>1 DEF IInv, Unmoved, WithinReserve
  <2>3. current # Freed /\ current' # Freed
    BY <1>0, <1>2
  <2>4. ASSUME NEW s \in 1..(n + 1) PROVE scopes'[s].parent # Freed
    <3>1. CASE s = n + 1
      BY <1>1, <2>1, <2>3, <3>1
    <3>2. CASE s \in 1..n
      BY <1>1, <2>1, <2>2, <3>2
    <3> QED BY <1>0, <3>1, <3>2
  <2> QED BY <2>3, <2>4
<1> QED BY <1>4, <1>5, <1>6, <1>7 DEF IInv

\* A pop makes the parent current, which the chain says is the scope opened
\* before; for the root, or after a move, there is none to make current.
LEMMA PopKeepsIInv ==
  ASSUME IInv, current # Freed, Pop
  PROVE  IInv'
<1> DEFINE m == Len(open)
<1>0. /\ scopes \in Seq(Scope) /\ open \in Seq(Nat)
      /\ crashed \in BOOLEAN
      /\ current \in 1..Len(scopes)
      /\ current = open[m]
      /\ m \in Nat /\ m >= 2
  BY CurrentIsOpen DEF IInv, TypeOK, Linked, Pop
<1>1. /\ Writes(scopes, current, scopes')
      /\ ~scopes'[current].is_in_scope
  BY <1>0, PopResult DEF Pop
<1>2. /\ scopes' \in Seq(Scope)
      /\ Len(scopes') = Len(scopes)
      /\ \A s \in 1..Len(scopes) :
           /\ scopes'[s].parent = scopes[s].parent
           /\ s # current => scopes'[s].is_in_scope = scopes[s].is_in_scope
  BY <1>1 DEF Writes
<1>3. /\ open' \in Seq(Nat)
      /\ Len(open') = m - 1
      /\ \A i \in 1..(m - 1) : open'[i] = open[i]
  BY <1>0 DEF Pop
<1>4. current' = scopes[current].parent /\ crashed' = crashed
  BY DEF Pop
<1>5. current' \in {open[m - 1], Freed} /\ open[m - 1] \in 1..Len(scopes)
  BY <1>0, <1>4 DEF IInv, Linked
<1>6. TypeOK'
  BY <1>0, <1>2, <1>3, <1>4, <1>5 DEF TypeOK
<1>7. Linked'
  <2>1. /\ \A i \in 1..m : open[i] \in 1..Len(scopes)
        /\ \A i, j \in 1..m : i < j => open[i] < open[j]
        /\ \A i \in 2..m : scopes[open[i]].parent \in {open[i - 1], Freed}
        /\ open[1] = Root
    BY DEF IInv, Linked
  <2>2. \A i \in 1..(m - 1) : i \in 1..m
    BY <1>0
  <2>3. Len(open') >= 1 /\ open'[1] = Root
    BY <1>0, <1>3, <2>1
  <2>4. /\ \A i \in 1..Len(open') : open'[i] \in 1..Len(scopes')
        /\ \A i, j \in 1..Len(open') : i < j => open'[i] < open'[j]
    BY <1>2, <1>3, <2>1, <2>2
  <2>5. ASSUME NEW i \in 2..Len(open')
        PROVE  scopes'[open'[i]].parent \in {open'[i - 1], Freed}
    <3>1. i \in 2..m /\ i \in 1..(m - 1) /\ i - 1 \in 1..(m - 1)
      BY <1>0, <1>3
    <3> QED BY <1>2, <1>3, <2>1, <2>2, <3>1
  <2>6. current' \in {open'[Len(open')], Freed}
    <3>1. m - 1 \in 1..(m - 1)
      BY <1>0
    <3> QED BY <1>3, <1>5, <3>1
  <2> QED BY <2>3, <2>4, <2>5, <2>6 DEF Linked
<1>8. Flagged'
  <2> SUFFICES ASSUME NEW s \in 1..Len(scopes)
               PROVE  scopes'[s].is_in_scope
                        <=> \E i \in 1..(m - 1) : open[i] = s
    BY <1>2, <1>3 DEF Flagged
  <2>1. scopes[s].is_in_scope <=> \E i \in 1..m : open[i] = s
    BY DEF IInv, Flagged
  <2>2. ASSUME NEW i \in 1..(m - 1) PROVE open[i] # open[m]
    <3>1. i \in 1..m /\ m \in 1..m /\ i < m
      BY <1>0
    <3>2. open[i] < open[m] /\ open[i] \in 1..Len(scopes) /\ open[m] \in 1..Len(scopes)
      BY <3>1 DEF IInv, Linked
    <3> QED BY <3>2
  <2>3. CASE s = current
    BY <1>0, <1>1, <2>2, <2>3
  <2>4. CASE s # current
    BY <1>0, <1>2, <2>1, <2>4
  <2> QED BY <2>3, <2>4
<1>9. Unmoved'
  BY <1>0, <1>2, <1>4 DEF IInv, Unmoved, WithinReserve
<1> QED BY <1>6, <1>7, <1>8, <1>9 DEF IInv

\* Sema2's constructor leaves one open scope, the root, with the built-in types.
LEMMA InitIInv == Init => IInv
<1> SUFFICES ASSUME Init PROVE IInv
  OBVIOUS
<1>1. /\ NewScope(NoParent) \in Scope
      /\ NewScope(NoParent).parent = NoParent
      /\ NewScope(NoParent).is_in_scope
  BY NewScopeType
<1> DEFINE root == [NewScope(NoParent) EXCEPT !.types = Builtins]
<1>2. /\ root \in Scope
      /\ root.parent = NoParent
      /\ root.is_in_scope
  BY <1>1, BuiltinsAssumption DEF Scope
<1>3. scopes = <<root>>
  BY DEF Init, InitialScopes
<1> HIDE DEF root
<1>4. /\ scopes \in Seq(Scope) /\ Len(scopes) = 1 /\ scopes[1] = root
      /\ open \in Seq(Nat) /\ Len(open) = 1 /\ open[1] = 1
      /\ current = 1 /\ crashed = FALSE
  BY <1>2, <1>3 DEF Init
<1>5. TypeOK
  BY <1>4 DEF TypeOK
<1>6. Linked /\ Flagged /\ Unmoved
  BY <1>2, <1>4 DEF Linked, Flagged, Unmoved
<1> QED BY <1>5, <1>6 DEF IInv

\* Every operation of Sema2 on the table keeps the invariant.
LEMMA StepIInv == IInv /\ [Next]_vars => IInv'
<1> SUFFICES ASSUME IInv, [Next]_vars PROVE IInv'
  OBVIOUS
<1>1. CASE UNCHANGED vars
  BY <1>1 DEF vars, IInv, TypeOK, Linked, Flagged, Unmoved, WithinReserve
<1>2. CASE UseFreed \/ Lookup
  BY <1>2 DEF UseFreed, Lookup, IInv, TypeOK, Linked, Flagged, Unmoved, WithinReserve
<1>3. CASE current # Freed /\ Push
  BY <1>3, PushKeepsIInv
<1>4. CASE current # Freed /\ Pop
  BY <1>4, PopKeepsIInv
<1>5. ASSUME current # Freed, NEW n \in Names, NEW v \in Values, AddValueIdentifier(n, v)
      PROVE  IInv'
  <2>1. Writes(scopes, current, scopes')
        /\ scopes'[current].is_in_scope = scopes[current].is_in_scope
    BY <1>5, CurrentIsOpen, AddValueResult DEF AddValueIdentifier, IInv, TypeOK
  <2> QED BY <1>5, <2>1, WriteKeepsIInv DEF AddValueIdentifier
<1>6. ASSUME current # Freed, NEW t \in TypeNames, AddTypeIdentifier(t)
      PROVE  IInv'
  <2>1. Writes(scopes, current, scopes')
        /\ scopes'[current].is_in_scope = scopes[current].is_in_scope
    BY <1>6, CurrentIsOpen, AddTypeResult DEF AddTypeIdentifier, IInv, TypeOK
  <2> QED BY <1>6, <2>1, WriteKeepsIInv DEF AddTypeIdentifier
<1>7. ASSUME current # Freed, NEW r \in Returns \cup {None}, SetReturn(r)
      PROVE  IInv'
  <2>1. Writes(scopes, current, scopes')
        /\ scopes'[current].is_in_scope = scopes[current].is_in_scope
    BY <1>7, CurrentIsOpen, SetReturnResult DEF SetReturn, IInv, TypeOK
  <2> QED BY <1>7, <2>1, WriteKeepsIInv DEF SetReturn
<1> QED BY <1>1, <1>2, <1>3, <1>4, <1>5, <1>6, <1>7 DEF Next, Live

-----------------------------------------------------------------------------
(***************************************************************************)
(* The invariant holds throughout: how open scopes, flags and parent       *)
(* pointers hang together, whatever the caller of Sema2 does.              *)
(***************************************************************************)
THEOREM InvariantHolds == Spec => []IInv
BY InitIInv, StepIInv, PTL DEF Spec

(***************************************************************************)
(* Type correctness of the scope table, for every reservation.             *)
(***************************************************************************)
THEOREM TypeCorrect == Spec => []TypeOK
<1>1. IInv => TypeOK
  BY DEF IInv
<1> QED BY <1>1, InvariantHolds, PTL

(***************************************************************************)
(* Until the vector moves, the parent pointers of the open scopes are the  *)
(* history of pushes and is_in_scope tells the open scopes.                *)
(***************************************************************************)
THEOREM ChainHolds == Spec => []ChainIsPushOrder
<1>1. IInv => ChainIsPushOrder
  <2> SUFFICES ASSUME IInv, WithinReserve
               PROVE  /\ Linked /\ Flagged
                      /\ current = open[Len(open)]
                      /\ \A i \in 2..Len(open) : scopes[open[i]].parent = open[i - 1]
    BY DEF ChainIsPushOrder, Linked, Flagged
  <2>1. current # Freed /\ \A s \in 1..Len(scopes) : scopes[s].parent # Freed
    BY DEF IInv, Unmoved
  <2>2. \A i \in 2..Len(open) : open[i] \in 1..Len(scopes)
    BY DEF IInv, Linked, TypeOK
  <2> QED BY <2>1, <2>2 DEF IInv, Linked
<1> QED BY <1>1, InvariantHolds, PTL

\* What a step does to a scope that exists: it stays in the vector and keeps its
\* names' values, and unless the vector moves it is unchanged if it was closed.
Survives(s) ==
  /\ s \in DOMAIN scopes'
  /\ \A n \in Names :
       scopes[s].names[n] # None => scopes'[s].names[n] = scopes[s].names[n]
  /\ ~scopes[s].is_in_scope /\ Len(scopes') <= Reserve => scopes'[s] = scopes[s]

\* A write to the current scope, which is open, leaves the closed ones alone.
LEMMA WriteSurvives ==
  ASSUME IInv, current # Freed, NEW s \in 1..Len(scopes),
         Writes(scopes, current, scopes'),
         \A m \in Names : scopes[current].names[m] # None =>
                            scopes'[current].names[m] = scopes[current].names[m]
  PROVE  Survives(s)
<1>1. scopes[current].is_in_scope
  BY CurrentIsOpen DEF IInv, Flagged
<1>2. s \in DOMAIN scopes'
  BY DEF Writes
<1>3. CASE s = current
  BY <1>1, <1>2, <1>3 DEF Survives
<1>4. CASE s # current
  BY <1>2, <1>4 DEF Survives, Writes
<1> QED BY <1>3, <1>4

\* No operation takes a scope out of the vector or a binding out of a scope.
LEMMA ScopesSurvive ==
  ASSUME IInv, [Next]_vars, NEW s \in 1..Len(scopes)
  PROVE  Survives(s)
<1>0. scopes \in Seq(Scope)
  BY DEF IInv, TypeOK
<1>1. CASE UNCHANGED vars \/ UseFreed \/ Lookup
  BY <1>0, <1>1 DEF vars, UseFreed, Lookup, Survives
<1>2. CASE current # Freed /\ Push
  <2>1. current \in Nat \cup {Freed}
    BY DEF IInv, TypeOK
  <2>2. scopes' = PushScope(scopes, current)
    BY <1>2 DEF Push
  <2>3. /\ scopes' \in Seq(Scope)
        /\ Len(scopes') = Len(scopes) + 1
        /\ scopes'[s].names = scopes[s].names
        /\ Len(scopes) # Reserve => scopes'[s] = scopes[s]
    BY <1>0, <2>1, <2>2, PushResult
  <2>4. s \in DOMAIN scopes'
    BY <1>0, <2>3
  <2>5. Len(scopes') <= Reserve => Len(scopes) # Reserve
    BY <1>0, <2>3, ReserveAssumption
  <2> QED BY <2>3, <2>4, <2>5 DEF Survives
<1>3. CASE current # Freed /\ Pop
  BY <1>0, <1>3, CurrentIsOpen, PopResult, WriteSurvives DEF Pop
<1>4. ASSUME current # Freed, NEW n \in Names, NEW v \in Values, AddValueIdentifier(n, v)
      PROVE  Survives(s)
  BY <1>0, <1>4, CurrentIsOpen, AddValueResult, WriteSurvives DEF AddValueIdentifier
<1>5. ASSUME current # Freed, NEW t \in TypeNames, AddTypeIdentifier(t)
      PROVE  Survives(s)
  BY <1>0, <1>5, CurrentIsOpen, AddTypeResult, WriteSurvives DEF AddTypeIdentifier
<1>6. ASSUME current # Freed, NEW r \in Returns \cup {None}, SetReturn(r)
      PROVE  Survives(s)
  BY <1>0, <1>6, CurrentIsOpen, SetReturnResult, WriteSurvives DEF SetReturn
<1> QED BY <1>1, <1>2, <1>3, <1>4, <1>5, <1>6 DEF Next, Live

(***************************************************************************)
(* In one scope the first declaration of a name stays, whatever follows,   *)
(* the move of the vector included.                                        *)
(***************************************************************************)
THEOREM FirstDeclarationStays == Spec => FirstDeclarationWins
<1>1. IInv /\ [Next]_vars =>
        [\A s \in 1..Len(scopes), n \in Names :
           scopes[s].names[n] # None =>
             /\ s \in DOMAIN scopes'
             /\ scopes'[s].names[n] = scopes[s].names[n]]_vars
  BY ScopesSurvive DEF Survives
<1> QED BY <1>1, InvariantHolds, PTL DEF Spec, FirstDeclarationWins

(***************************************************************************)
(* A closed scope is never written again while the vector stays put.       *)
(***************************************************************************)
THEOREM ClosedScopesStay == Spec => ClosedScopesFrozen
<1>1. IInv /\ [Next]_vars =>
        [\A s \in 1..Len(scopes) :
           ~scopes[s].is_in_scope /\ Len(scopes') <= Reserve =>
             s \in DOMAIN scopes' /\ scopes'[s] = scopes[s]]_vars
  BY ScopesSurvive DEF Survives
<1> QED BY <1>1, InvariantHolds, PTL DEF Spec, ClosedScopesFrozen

-----------------------------------------------------------------------------
(* The lookups read no freed scope.                                         *)

\* The root has no parent.
LEMMA InitDescending == Init => Descending(scopes)
<1>. SUFFICES ASSUME Init PROVE Descending(scopes)
  OBVIOUS
<1>1. scopes = <<[NewScope(NoParent) EXCEPT !.types = Builtins]>>
  BY DEF Init, InitialScopes
<1>2. Len(scopes) = 1 /\ scopes[1].parent = NoParent
  BY <1>1 DEF NewScope
<1>. QED  BY <1>2 DEF Descending

\* A write leaves every parent alone.
LEMMA WriteDescending ==
  ASSUME Descending(scopes), Writes(scopes, current, scopes')
  PROVE  Descending(scopes')
  BY DEF Descending, Writes

\* The parent of a scope that is pushed is in the vector already; a move of the
\* vector only takes parents away.
LEMMA StepDescending ==
  ASSUME IInv, Descending(scopes), [Next]_vars
  PROVE  Descending(scopes')
<1>0. scopes \in Seq(Scope)
  BY DEF IInv, TypeOK
<1>1. CASE UNCHANGED vars \/ UseFreed \/ Lookup
  BY <1>1 DEF vars, UseFreed, Lookup
<1>2. CASE current # Freed /\ Push
  <2>1. current \in Nat \cup {Freed} /\ current \in 1..Len(scopes)
    BY <1>2, CurrentIsOpen DEF IInv, TypeOK
  <2>2. scopes' = PushScope(scopes, current)
    BY <1>2 DEF Push
  <2>3. /\ Len(scopes') = Len(scopes) + 1
        /\ scopes'[Len(scopes) + 1].parent \in {current, Freed}
        /\ \A i \in 1..Len(scopes) : scopes'[i].parent \in {scopes[i].parent, NoParent, Freed}
    BY <1>0, <2>1, <2>2, PushResult DEF Dangles
  <2>4. ASSUME NEW s \in 1..Len(scopes') PROVE scopes'[s].parent \in Freed..s - 1
    <3>1. CASE s = Len(scopes) + 1
      BY <1>0, <2>1, <2>3, <3>1
    <3>2. CASE s \in 1..Len(scopes)
      <4>1. scopes[s].parent \in Freed..s - 1
        BY <3>2 DEF Descending
      <4>. QED  BY <2>3, <3>2, <4>1
    <3>. QED  BY <1>0, <2>3, <3>1, <3>2
  <2>. QED  BY <2>4 DEF Descending
<1>3. CASE current # Freed /\ Pop
  BY <1>0, <1>3, CurrentIsOpen, PopResult, WriteDescending DEF Pop
<1>4. ASSUME current # Freed, NEW n \in Names, NEW v \in Values, AddValueIdentifier(n, v)
      PROVE  Descending(scopes')
  BY <1>0, <1>4, CurrentIsOpen, AddValueResult, WriteDescending DEF AddValueIdentifier
<1>5. ASSUME current # Freed, NEW t \in TypeNames, AddTypeIdentifier(t)
      PROVE  Descending(scopes')
  BY <1>0, <1>5, CurrentIsOpen, AddTypeResult, WriteDescending DEF AddTypeIdentifier
<1>6. ASSUME current # Freed, NEW r \in Returns \cup {None}, SetReturn(r)
      PROVE  Descending(scopes')
  BY <1>0, <1>6, CurrentIsOpen, SetReturnResult, WriteDescending DEF SetReturn
<1>. QED  BY <1>1, <1>2, <1>3, <1>4, <1>5, <1>6 DEF Next, Live

\* No freed scope has been read while the vector stays put.
Sound == WithinReserve => ~crashed

\* A lookup only crashes where a pointer of the table is freed.
LEMMA StepSound ==
  ASSUME IInv, Descending(scopes), Sound, [Next]_vars
  PROVE  Sound'
<1>0. scopes \in Seq(Scope)
  BY DEF IInv, TypeOK
<1>1. CASE Lookup /\ current # Freed
  <2>1. scopes' = scopes
    BY <1>1 DEF Lookup
  <2>2. current \in 1..Len(scopes)
    BY <1>1, CurrentIsOpen
  <2>3. ~WithinReserve
    <3>. SUFFICES ASSUME WithinReserve PROVE FALSE
      OBVIOUS
    <3>1. \A s \in 1..Len(scopes) : scopes[s].parent # Freed
      BY DEF IInv, Unmoved
    <3>. QED  BY <1>0, <1>1, <2>2, <3>1, NoFreedRead DEF Lookup
  <2>. QED  BY <2>1, <2>3 DEF Sound, WithinReserve
<1>2. CASE UseFreed /\ current = Freed
  BY <1>2 DEF UseFreed, IInv, Unmoved, Sound, WithinReserve
<1>3. CASE UNCHANGED crashed
  <2>1. ~crashed' \/ UNCHANGED vars
    BY <1>3 DEF Next
  <2>. QED  BY <2>1 DEF Sound, vars, WithinReserve
<1>. QED  BY <1>1, <1>2, <1>3 DEF Next, Live, vars, Push, Pop, AddValueIdentifier,
             AddTypeIdentifier, SetReturn

LInv == IInv /\ Descending(scopes) /\ Sound

(***************************************************************************)
(* Every parent comes before its child, whatever the caller does, and no   *)
(* lookup has read a freed scope while the vector stays put.               *)
(***************************************************************************)
THEOREM LookupsAreSound == Spec => []LInv
<1>1. Init => LInv
  BY InitIInv, InitDescending DEF LInv, Sound, Init
<1>2. LInv /\ [Next]_vars => LInv'
  BY StepIInv, StepDescending, StepSound DEF LInv
<1>. QED  BY <1>1, <1>2, PTL DEF Spec

(***************************************************************************)
(* Within the reservation no pointer is freed and nothing freed is read:   *)
(* the lookups and pop_scope are safe without a check of their own.        *)
(***************************************************************************)
THEOREM NoLookupDangles == Spec => []NoDanglingWithinReserve
<1>1. LInv => NoDanglingWithinReserve
  BY DEF LInv, IInv, Unmoved, Sound, NoDanglingWithinReserve
<1>. QED  BY <1>1, LookupsAreSound, PTL

-----------------------------------------------------------------------------
(* The refinement: what the lookups answer in each open scope.              *)

\* What can be seen in the scopes of o.
EnvOf(ss, o) == [i \in 1..Len(o) |-> [n \in Names |-> LookupValue(ss, o[i], n)]]

\* It is what the refinement maps the table to.
LEMMA EnvIs == env = EnvOf(scopes, open) /\ env' = EnvOf(scopes', open')
BY DEF env, viewOf, EnvOf

\* It is a sequence with a view for each scope of o.
LEMMA EnvShape ==
  ASSUME NEW ss, NEW o \in Seq(Nat)
  PROVE  /\ \E S : EnvOf(ss, o) \in Seq(S)
         /\ Len(EnvOf(ss, o)) = Len(o)
         /\ \A i \in 1..Len(o) : EnvOf(ss, o)[i] = [n \in Names |-> LookupValue(ss, o[i], n)]
<1>. DEFINE e == EnvOf(ss, o)
            S == {e[i] : i \in 1..Len(o)}
<1>1. Len(o) \in Nat
  OBVIOUS
<1>2. e \in [1..Len(o) -> S]
  BY DEF EnvOf
<1>3. e \in Seq(S) /\ Len(e) = Len(o)
  <2>. HIDE DEF e, S
  <2>. QED  BY <1>1, <1>2
<1>4. \A i \in 1..Len(o) : e[i] = [n \in Names |-> LookupValue(ss, o[i], n)]
  BY DEF EnvOf
<1>. QED  BY <1>3, <1>4

\* A table that keeps names and parents keeps what can be seen.
LEMMA SameTableSameEnv ==
  ASSUME NEW ss \in Seq(Scope), Descending(ss), NEW tt \in Seq(Scope), Descending(tt),
         Len(tt) >= Len(ss), NEW o \in Seq(Nat), \A i \in 1..Len(o) : o[i] \in 1..Len(ss),
         \A i \in 1..Len(ss) : tt[i].parent = ss[i].parent /\ tt[i].names = ss[i].names
  PROVE  EnvOf(tt, o) = EnvOf(ss, o)
<1>1. ASSUME NEW i \in 1..Len(o), NEW n \in Names
      PROVE  LookupValue(tt, o[i], n) = LookupValue(ss, o[i], n)
  <2>1. Len(ss) \in Nat /\ Len(ss) <= Len(ss) /\ Len(ss) <= Len(tt) /\ o[i] \in Freed..Len(ss)
    OBVIOUS
  <2>. QED  BY <2>1, SameBelow
<1>. QED  BY <1>1 DEF EnvOf

\* push_scope opens a block: the new scope has no names, so its view is that of
\* its parent, the scope that was current.
LEMMA PushOpens ==
  ASSUME LInv, current # Freed, Push, Len(scopes') <= Reserve
  PROVE  Lexical!Open
<1>0. /\ scopes \in Seq(Scope) /\ open \in Seq(Nat) /\ Descending(scopes)
      /\ current \in 1..Len(scopes) /\ current \in Nat \cup {Freed}
      /\ current = open[Len(open)]
      /\ Len(open) \in 1..Len(open)
      /\ \A i \in 1..Len(open) : open[i] \in 1..Len(scopes)
  BY CurrentIsOpen DEF LInv, IInv, TypeOK, Linked
<1>. DEFINE n == Len(scopes)
            ss == scopes'
            e == EnvOf(scopes, open)
<1>1. /\ ss \in Seq(Scope)
      /\ Len(ss) = n + 1
      /\ n # Reserve
      /\ ss = Append(scopes, NewScope(current))
  <2>1. ss = PushScope(scopes, current)
    BY DEF Push
  <2>2. ss \in Seq(Scope) /\ Len(ss) = n + 1
    BY <1>0, <2>1, PushResult
  <2>3. n # Reserve
    BY <1>0, <2>2, ReserveAssumption
  <2>. QED  BY <2>1, <2>2, <2>3 DEF PushScope
<1>2. /\ \A i \in 1..n : ss[i] = scopes[i]
      /\ ss[n + 1] = NewScope(current)
      /\ n \in Nat
  BY <1>0, <1>1
<1>3. Descending(ss)
  BY <1>0, <1>1, <1>2, NewScopeType DEF Descending
<1>. HIDE DEF n, ss
<1>4. \A i \in 1..n : ss[i].parent = scopes[i].parent /\ ss[i].names = scopes[i].names
  BY <1>2
<1>5. EnvOf(ss, open) = e
  <2>1. Len(ss) >= Len(scopes)
    BY <1>1, <1>2 DEF n
  <2>2. \A i \in 1..Len(scopes) : ss[i].parent = scopes[i].parent /\ ss[i].names = scopes[i].names
    BY <1>4 DEF n
  <2>. QED  BY <1>0, <1>1, <1>3, <2>1, <2>2, SameTableSameEnv
<1>6. [m \in Names |-> LookupValue(ss, n + 1, m)] = e[Len(open)]
  <2>1. ASSUME NEW m \in Names PROVE LookupValue(ss, n + 1, m) = LookupValue(ss, current, m)
    <3>1. ss[n + 1].names[m] = None /\ ss[n + 1].parent = current
      BY <1>2 DEF NewScope
    <3>2. n + 1 \in 1..Len(ss)
      BY <1>1, <1>2
    <3>. QED  BY <1>1, <1>3, <3>1, <3>2, ValueWalk
  <2>2. e[Len(open)] = [m \in Names |-> LookupValue(ss, current, m)]
    <3>1. EnvOf(ss, open)[Len(open)] = [m \in Names |-> LookupValue(ss, open[Len(open)], m)]
      BY <1>0, EnvShape
    <3>. QED  BY <1>0, <1>5, <3>1
  <2>. QED  BY <2>1, <2>2
<1>7. /\ open' \in Seq(Nat)
      /\ Len(open') = Len(open) + 1
      /\ open'[Len(open) + 1] = n + 1
      /\ \A i \in 1..Len(open) : open'[i] = open[i]
  BY <1>0, <1>2 DEF Push, n
<1>8. EnvOf(ss, open') = Append(e, e[Len(e)])
  <2>. DEFINE f == EnvOf(ss, open')
  <2>1. PICK S : e \in Seq(S)
    BY <1>0, EnvShape
  <2>2. PICK Z : f \in Seq(Z)
    BY <1>7, EnvShape
  <2>3. /\ Len(e) = Len(open) /\ Len(f) = Len(open) + 1
        /\ \A i \in 1..Len(open) : f[i] = e[i]
        /\ f[Len(open) + 1] = e[Len(open)]
    <3>1. /\ Len(e) = Len(open) /\ Len(f) = Len(open')
          /\ \A i \in 1..Len(open) : EnvOf(ss, open)[i] = [m \in Names |-> LookupValue(ss, open[i], m)]
          /\ \A i \in 1..Len(open') : f[i] = [m \in Names |-> LookupValue(ss, open'[i], m)]
      BY <1>0, <1>7, EnvShape
    <3>2. \A i \in 1..Len(open) : i \in 1..Len(open')
      BY <1>0, <1>7
    <3>3. Len(open) + 1 \in 1..Len(open')
      BY <1>0, <1>7
    <3>. HIDE DEF e, f
    <3>. QED  BY <1>5, <1>6, <1>7, <3>1, <3>2, <3>3 DEF e
  <2>. HIDE DEF e, f
  <2>4. e \in Seq(S \cup Z) /\ f \in Seq(S \cup Z) /\ e[Len(e)] \in S \cup Z
    <3>1. Len(e) \in 1..Len(e)
      BY <1>0, <2>3
    <3>. QED  BY <2>1, <2>2, <3>1
  <2>5. /\ Append(e, e[Len(e)]) \in Seq(S \cup Z)
        /\ Len(Append(e, e[Len(e)])) = Len(f)
        /\ \A i \in 1..Len(f) : Append(e, e[Len(e)])[i] = f[i]
    BY <2>3, <2>4
  <2>6. f = Append(e, e[Len(e)])
    BY <2>4, <2>5, SeqEqual
  <2>. QED  BY <2>6 DEF f
<1>. QED  BY <1>8, EnvIs DEF Lexical!Open, ss, e

\* pop_scope closes the block: the flag it clears is not read by a lookup.
LEMMA PopCloses ==
  ASSUME LInv, current # Freed, Pop
  PROVE  Lexical!Close
<1>0. /\ scopes \in Seq(Scope) /\ open \in Seq(Nat) /\ Descending(scopes)
      /\ current \in 1..Len(scopes)
      /\ Len(open) \in Nat /\ Len(open) > 1
      /\ \A i \in 1..Len(open) : open[i] \in 1..Len(scopes)
  BY CurrentIsOpen DEF LInv, IInv, TypeOK, Linked, Pop
<1>. DEFINE e == EnvOf(scopes, open)
            m == Len(open) - 1
<1>1. /\ Writes(scopes, current, scopes')
      /\ scopes'[current].names = scopes[current].names
  BY <1>0, PopResult DEF Pop
<1>2. /\ scopes' \in Seq(Scope) /\ Descending(scopes') /\ Len(scopes') >= Len(scopes)
      /\ \A i \in 1..Len(scopes) :
           scopes'[i].parent = scopes[i].parent /\ scopes'[i].names = scopes[i].names
  BY <1>0, <1>1, WriteDescending DEF Writes
<1>3. EnvOf(scopes', open) = e
  BY <1>0, <1>2, SameTableSameEnv
<1>4. open' = SubSeq(open, 1, m) /\ m \in Nat /\ m < Len(open)
  BY <1>0 DEF Pop
<1>. HIDE DEF m
<1>5. /\ open' \in Seq(Nat) /\ Len(open') = m
      /\ \A i \in 1..m : open'[i] = open[i]
  BY <1>0, <1>4
<1>6. EnvOf(scopes', open') = SubSeq(e, 1, m)
  <2>1. EnvOf(scopes', open') = [i \in 1..m |-> e[i]]
    <3>1. \A i \in 1..m : i \in 1..Len(open)
      BY <1>0, <1>4
    <3>2. \A i \in 1..Len(open) : e[i] = [n \in Names |-> LookupValue(scopes', open[i], n)]
      BY <1>0, <1>3, EnvShape
    <3>. HIDE DEF e
    <3>. QED  BY <1>5, <3>1, <3>2 DEF EnvOf
  <2>2. Len(e) = Len(open)
    BY <1>0, EnvShape
  <2>3. SubSeq(e, 1, m) = [i \in 1..m |-> e[i]]
    <3>1. PICK S : e \in Seq(S)
      BY <1>0, EnvShape
    <3>. HIDE DEF e
    <3>. QED  BY <1>0, <1>4, <2>2, <3>1
  <2>. QED  BY <2>1, <2>3
<1>7. Len(env) > 1 /\ m = Len(env) - 1
  BY <1>0, EnvShape, EnvIs DEF m
<1>. QED  BY <1>6, <1>7, EnvIs DEF Lexical!Close

\* add_value_identifier declares in the innermost block, or does nothing to a
\* name the scope has: the scopes around it do not walk through it.
LEMMA AddValueDeclares ==
  ASSUME LInv, current # Freed, NEW n \in Names, NEW v \in Values, AddValueIdentifier(n, v)
  PROVE  Lexical!Declare(n, v) \/ env' = env
<1>0. /\ scopes \in Seq(Scope) /\ open \in Seq(Nat) /\ Descending(scopes)
      /\ current \in 1..Len(scopes)
      /\ current = open[Len(open)]
      /\ Len(open) \in 1..Len(open)
      /\ \A i \in 1..Len(open) : open[i] \in 1..Len(scopes)
      /\ \A i, j \in 1..Len(open) : i < j => open[i] < open[j]
      /\ open' = open
  BY CurrentIsOpen DEF LInv, IInv, TypeOK, Linked, AddValueIdentifier
<1>. DEFINE ss == scopes'
            c == current
            L == Len(open)
            e == EnvOf(scopes, open)
            new == EnvOf(ss, open)
<1>1. /\ Writes(scopes, c, ss)
      /\ \A m \in Names : ss[c].names[m] =
           IF m = n /\ scopes[c].names[m] = None THEN v ELSE scopes[c].names[m]
  BY <1>0, AddValueResult DEF AddValueIdentifier
<1>2. /\ ss \in Seq(Scope) /\ Descending(ss) /\ Len(ss) = Len(scopes)
      /\ \A i \in 1..Len(scopes) : ss[i].parent = scopes[i].parent
      /\ \A i \in 1..Len(scopes) : i # c => ss[i] = scopes[i]
  BY <1>0, <1>1, WriteDescending DEF Writes
<1>. HIDE DEF ss, c
<1>3. env = e /\ env' = new
  BY <1>0, EnvIs DEF ss
<1>4. /\ Len(e) = L /\ Len(new) = L
      /\ \A i \in 1..L : e[i] = [m \in Names |-> LookupValue(scopes, open[i], m)]
      /\ \A i \in 1..L : new[i] = [m \in Names |-> LookupValue(ss, open[i], m)]
  BY <1>0, EnvShape
<1>5. CASE scopes[c].names[n] # None
  <2>1. ASSUME NEW m \in Names, NEW i \in 1..L
        PROVE  LookupValue(ss, open[i], m) = LookupValue(scopes, open[i], m)
    <3>1. \A j \in 1..Len(scopes) : ss[j].names[m] = scopes[j].names[m]
      BY <1>1, <1>2, <1>5
    <3>2. /\ Len(scopes) \in Nat /\ Len(scopes) <= Len(scopes) /\ Len(scopes) <= Len(ss)
          /\ open[i] \in Freed..Len(scopes)
      BY <1>0, <1>2
    <3>. QED  BY <1>0, <1>2, <3>1, <3>2, SameBelow
  <2>2. new = e
    BY <2>1 DEF EnvOf
  <2>. QED  BY <1>3, <2>2
<1>6. CASE scopes[c].names[n] = None
  <2>1. ASSUME NEW m \in Names, NEW i \in 1..L, i # L \/ m # n
        PROVE  LookupValue(ss, open[i], m) = LookupValue(scopes, open[i], m)
    <3>1. CASE m # n
      <4>1. \A j \in 1..Len(scopes) : ss[j].names[m] = scopes[j].names[m]
        BY <1>1, <1>2, <3>1
      <4>2. /\ Len(scopes) \in Nat /\ Len(scopes) <= Len(scopes) /\ Len(scopes) <= Len(ss)
            /\ open[i] \in Freed..Len(scopes)
        BY <1>0, <1>2
      <4>. QED  BY <1>0, <1>2, <4>1, <4>2, SameBelow
    <3>2. CASE i # L
      <4>1. i < L /\ c = open[L] /\ c \in 1..Len(scopes) /\ open[i] \in 1..Len(scopes)
        BY <1>0, <3>2 DEF c
      <4>2. open[i] < c
        BY <1>0, <4>1
      <4>. DEFINE k == c - 1
      <4>3. /\ k \in Nat /\ k <= Len(scopes) /\ k <= Len(ss)
            /\ open[i] \in Freed..k
            /\ \A j \in 1..k : j \in 1..Len(scopes) /\ j # c
        BY <1>0, <1>2, <4>1, <4>2
      <4>. HIDE DEF k
      <4>4. \A j \in 1..k : ss[j].parent = scopes[j].parent /\ ss[j].names[m] = scopes[j].names[m]
        BY <1>2, <4>3
      <4>. QED  BY <1>0, <1>2, <4>3, <4>4, SameBelow
    <3>. QED  BY <2>1, <3>1, <3>2
  <2>2. LookupValue(ss, c, n) = v
    <3>1. v # None
      BY NoneAssumption
    <3>2. c \in 1..Len(ss) /\ ss[c].names[n] = v
      BY <1>0, <1>1, <1>2, <1>6 DEF c
    <3>. QED  BY <1>2, <3>1, <3>2, ValueWalk
  <2>3. ASSUME NEW i \in 1..L
        PROVE  new[i] = IF i = L THEN [e[i] EXCEPT ![n] = v] ELSE e[i]
    <3>1. CASE i # L
      BY <1>4, <2>1, <3>1
    <3>2. CASE i = L
      <4>1. open[L] = c
        BY <1>0 DEF c
      <4>2. \A m \in Names : LookupValue(ss, open[L], m) =
                               IF m = n THEN v ELSE LookupValue(scopes, open[L], m)
        BY <2>1, <2>2, <3>2, <4>1
      <4>3. new[L] = [m \in Names |-> LookupValue(ss, open[L], m)]
            /\ e[L] = [m \in Names |-> LookupValue(scopes, open[L], m)]
        BY <1>0, <1>4
      <4>. HIDE DEF new, e
      <4>4. [e[L] EXCEPT ![n] = v]
              = [m \in Names |-> IF m = n THEN v ELSE LookupValue(scopes, open[L], m)]
        BY <4>3
      <4>5. new[L] = [m \in Names |-> IF m = n THEN v ELSE LookupValue(scopes, open[L], m)]
        BY <4>2, <4>3
      <4>. QED  BY <3>2, <4>4, <4>5
    <3>. QED  BY <3>1, <3>2
  <2>4. new = [e EXCEPT ![L][n] = v]
    <3>1. new = [i \in 1..L |-> new[i]] /\ e = [i \in 1..L |-> e[i]]
      BY DEF EnvOf
    <3>. HIDE DEF new, e, L
    <3>2. [e EXCEPT ![L][n] = v] = [i \in 1..L |-> IF i = L THEN [e[L] EXCEPT ![n] = v] ELSE e[i]]
      BY <3>1
    <3>. QED  BY <2>3, <3>1, <3>2
  <2>5. env' = [env EXCEPT ![Len(env)][n] = v]
    BY <1>3, <1>4, <2>4
  <2>. QED  BY <2>5 DEF Lexical!Declare
<1>. QED  BY <1>5, <1>6

\* A step that writes neither a name nor a parent changes nothing that is seen.
LEMMA WriteHides ==
  ASSUME LInv, current # Freed, Writes(scopes, current, scopes'),
         scopes'[current].names = scopes[current].names, open' = open
  PROVE  env' = env
<1>0. /\ scopes \in Seq(Scope) /\ open \in Seq(Nat) /\ Descending(scopes)
      /\ \A i \in 1..Len(open) : open[i] \in 1..Len(scopes)
  BY CurrentIsOpen DEF LInv, IInv, TypeOK, Linked
<1>1. /\ scopes' \in Seq(Scope) /\ Descending(scopes') /\ Len(scopes') >= Len(scopes)
      /\ \A i \in 1..Len(scopes) :
           scopes'[i].parent = scopes[i].parent /\ scopes'[i].names = scopes[i].names
  BY <1>0, WriteDescending DEF Writes
<1>2. EnvOf(scopes', open) = EnvOf(scopes, open)
  BY <1>0, <1>1, SameTableSameEnv
<1>. QED  BY <1>2, EnvIs

\* Each step maps to one of the environment, or to a stutter.
LEMMA StepRefines ==
  ASSUME LInv, [Next]_vars, Len(scopes') <= Reserve
  PROVE  Lexical!Next \/ env' = env
<1>0. scopes \in Seq(Scope)
  BY DEF LInv, IInv, TypeOK
<1>1. CASE UNCHANGED vars \/ UseFreed \/ Lookup
  BY <1>1, EnvIs DEF vars, UseFreed, Lookup
<1>2. CASE current # Freed /\ Push
  BY <1>2, PushOpens DEF Lexical!Next
<1>3. CASE current # Freed /\ Pop
  BY <1>3, PopCloses DEF Lexical!Next
<1>4. ASSUME current # Freed, NEW n \in Names, NEW v \in Values, AddValueIdentifier(n, v)
      PROVE  Lexical!Next \/ env' = env
  BY <1>4, AddValueDeclares DEF Lexical!Next
<1>5. ASSUME current # Freed, NEW t \in TypeNames, AddTypeIdentifier(t)
      PROVE  env' = env
  BY <1>0, <1>5, CurrentIsOpen, AddTypeResult, WriteHides DEF AddTypeIdentifier, LInv
<1>6. ASSUME current # Freed, NEW r \in Returns \cup {None}, SetReturn(r)
      PROVE  env' = env
  BY <1>0, <1>6, CurrentIsOpen, SetReturnResult, WriteHides DEF SetReturn, LInv
<1>. QED  BY <1>1, <1>2, <1>3, <1>4, <1>5, <1>6 DEF Next, Live

\* The root scope is an environment of one empty block: built-in types are no
\* values.
LEMMA InitRefines == Init => Lexical!Init
<1>. SUFFICES ASSUME Init PROVE Lexical!Init
  OBVIOUS
<1>1. scopes = InitialScopes /\ open = <<1>> /\ scopes \in Seq(Scope) /\ Descending(scopes)
  BY InitIInv, InitDescending DEF Init, IInv, TypeOK
<1>2. /\ Len(scopes) = 1
      /\ scopes[1].parent = NoParent
      /\ \A n \in Names : scopes[1].names[n] = None
  BY <1>1 DEF InitialScopes, NewScope
<1>3. \A n \in Names : LookupValue(scopes, 1, n) = None
  <2>1. 1 \in 1..Len(scopes) /\ scopes[1].parent = 0
    BY <1>2
  <2>2. ASSUME NEW n \in Names PROVE LookupValue(scopes, 1, n) = None
    <3>1. /\ LookupValue(scopes, NoParent, n) = None
          /\ LookupValue(scopes, 1, n) = IF scopes[1].names[n] # None THEN scopes[1].names[n]
                                         ELSE LookupValue(scopes, scopes[1].parent, n)
      BY <1>1, <2>1, ValueWalk
    <3>. QED  BY <1>2, <2>1, <3>1
  <2>. QED  BY <2>2
<1>4. env = [i \in 1..1 |-> [n \in Names |-> None]]
  BY <1>1, <1>3 DEF env, viewOf
<1>5. [i \in 1..1 |-> [n \in Names |-> None]] = << [n \in Names |-> None] >>
  OBVIOUS
<1>. QED  BY <1>4, <1>5 DEF Lexical!Init

(***************************************************************************)
(* The parent-linked scopes implement the stack of views for as long as    *)
(* the vector stays put: opening a block changes nothing that is seen, a   *)
(* declaration only the innermost view, and closing brings back the view   *)
(* of the block around it.                                                 *)
(***************************************************************************)
THEOREM ScopesImplementLexicalEnv == Spec => ImplementsLexicalEnv
<1>1. LInv /\ [Next]_vars => [Len(scopes') <= Reserve => Lexical!Next]_env
  BY StepRefines
<1>. QED  BY <1>1, InitRefines, LookupsAreSound, PTL DEF Spec, ImplementsLexicalEnv
=============================================================================
