--------------------------- MODULE ScopeOpsProofs ---------------------------
(***************************************************************************)
(* Lemmas about the operators of ScopeOps, for every table.  The lookups   *)
(* are recursive; they are what their definitions say where every parent   *)
(* comes before its child, which is what push_scope makes of the vector.   *)
(***************************************************************************)
EXTENDS ScopeOps, IntegerProofs

USE DEF Root, NoParent, Freed

-----------------------------------------------------------------------------
(* What each operator returns and leaves alone.                             *)

\* A scope that the constructor makes is a scope.
LEMMA NewScopeType ==
  ASSUME NEW p \in Nat \cup {Freed}
  PROVE  /\ NewScope(p) \in Scope
         /\ NewScope(p).parent = p
         /\ NewScope(p).is_in_scope
BY DEF NewScope, Scope

\* Writing one scope of the vector leaves its length and the others alone.
LEMMA Update ==
  ASSUME NEW ss \in Seq(Scope), NEW c \in 1..Len(ss), NEW sc \in Scope
  PROVE  LET new == [ss EXCEPT ![c] = sc]
         IN /\ new \in Seq(Scope)
            /\ Len(new) = Len(ss)
            /\ new[c] = sc
            /\ \A i \in 1..Len(ss) : i # c => new[i] = ss[i]
OBVIOUS

\* push_scope adds one scope, linked to the current one, and changes no other
\* but for the parent pointers of a vector that moves.
LEMMA PushResult ==
  ASSUME NEW ss \in Seq(Scope), NEW c \in Nat \cup {Freed}
  PROVE  LET new == PushScope(ss, c)
         IN /\ new \in Seq(Scope)
            /\ Len(new) = Len(ss) + 1
            /\ new[Len(ss) + 1].is_in_scope
            /\ new[Len(ss) + 1].parent = IF Len(ss) = Reserve THEN Dangles(c) ELSE c
            /\ \A i \in 1..Len(ss) :
                 /\ new[i].parent = IF Len(ss) = Reserve THEN Dangles(ss[i].parent)
                                                         ELSE ss[i].parent
                 /\ new[i].names = ss[i].names
                 /\ new[i].is_in_scope = ss[i].is_in_scope
                 /\ Len(ss) # Reserve => new[i] = ss[i]
            /\ Len(ss) # Reserve => new[Len(ss) + 1] = NewScope(c)
<1> DEFINE app == Append(ss, NewScope(c))
<1>1. /\ app \in Seq(Scope)
      /\ Len(app) = Len(ss) + 1
      /\ app[Len(ss) + 1] = NewScope(c)
      /\ \A i \in 1..Len(ss) : app[i] = ss[i]
  BY NewScopeType
<1>2. CASE Len(ss) = Reserve
  <2> DEFINE new == [i \in 1..Len(app) |-> [app[i] EXCEPT !.parent = Dangles(@)]]
  <2>1. PushScope(ss, c) = new
    BY <1>2 DEF PushScope, Relocated
  <2>2. \A i \in 1..Len(app) : new[i] \in Scope
    <3> SUFFICES ASSUME NEW i \in 1..Len(app) PROVE [app[i] EXCEPT !.parent = Dangles(@)] \in Scope
      OBVIOUS
    <3>1. app[i] \in Scope
      BY <1>1
    <3> QED BY <3>1 DEF Scope, Dangles
  <2>3. new \in Seq(Scope) /\ Len(new) = Len(ss) + 1
    BY <1>1, <2>2
  <2>4. \A i \in 1..Len(app) :
          /\ new[i].parent = Dangles(app[i].parent)
          /\ new[i].names = app[i].names
          /\ new[i].is_in_scope = app[i].is_in_scope
    <3> SUFFICES ASSUME NEW i \in 1..Len(app)
                 PROVE  LET r == [app[i] EXCEPT !.parent = Dangles(@)]
                        IN /\ r.parent = Dangles(app[i].parent)
                           /\ r.names = app[i].names
                           /\ r.is_in_scope = app[i].is_in_scope
      OBVIOUS
    <3>1. app[i] \in Scope
      BY <1>1
    <3> QED BY <3>1 DEF Scope
  <2>5. /\ new[Len(ss) + 1].is_in_scope
        /\ new[Len(ss) + 1].parent = Dangles(c)
    BY <1>1, <2>4, NewScopeType
  <2>6. \A i \in 1..Len(ss) :
          /\ new[i].parent = Dangles(ss[i].parent)
          /\ new[i].names = ss[i].names
          /\ new[i].is_in_scope = ss[i].is_in_scope
    BY <1>1, <2>4
  <2> HIDE DEF new
  <2> QED BY <1>2, <2>1, <2>3, <2>5, <2>6
<1>3. CASE Len(ss) # Reserve
  BY <1>1, <1>3, NewScopeType DEF PushScope
<1> QED BY <1>2, <1>3

\* What the operators that write one scope have in common.
Writes(ss, c, new) ==
  /\ new \in Seq(Scope)
  /\ Len(new) = Len(ss)
  /\ \A i \in 1..Len(ss) : i # c => new[i] = ss[i]
  /\ new[c].parent = ss[c].parent

\* add_value_identifier writes the current scope only, and in it keeps every
\* name that has a value.
LEMMA AddValueResult ==
  ASSUME NEW ss \in Seq(Scope), NEW c \in 1..Len(ss), NEW n \in Names, NEW v \in Values
  PROVE  LET new == AddValue(ss, c, n, v)
         IN /\ Writes(ss, c, new)
            /\ new[c].is_in_scope = ss[c].is_in_scope
            /\ \A m \in Names : new[c].names[m] =
                 IF m = n /\ ss[c].names[m] = None THEN v ELSE ss[c].names[m]
            /\ new[c].types = ss[c].types
            /\ new[c].expected_return = ss[c].expected_return
<1> DEFINE val == IF ss[c].names[n] = None THEN v ELSE ss[c].names[n]
           nms == [ss[c].names EXCEPT ![n] = val]
           sc == [ss[c] EXCEPT !.names = nms]
           new == AddValue(ss, c, n, v)
<1>1. ss[c] \in Scope
  OBVIOUS
<1>2. ss[c].names \in [Names -> Values \cup {None}]
  BY <1>1 DEF Scope
<1>3. val \in Values \cup {None}
  BY <1>2
<1>4. /\ nms \in [Names -> Values \cup {None}]
      /\ \A m \in Names : nms[m] =
           IF m = n /\ ss[c].names[m] = None THEN v ELSE ss[c].names[m]
  BY <1>2, <1>3
<1>5. new = [ss EXCEPT ![c] = sc]
  BY DEF AddValue
<1> HIDE DEF val, nms, new
<1>6. /\ sc \in Scope
      /\ sc.parent = ss[c].parent
      /\ sc.is_in_scope = ss[c].is_in_scope
      /\ sc.names = nms
      /\ sc.types = ss[c].types
      /\ sc.expected_return = ss[c].expected_return
  BY <1>1, <1>4 DEF Scope
<1> HIDE DEF sc
<1>7. /\ Writes(ss, c, new)
      /\ new[c] = sc
  BY <1>5, <1>6, Update DEF Writes
<1> QED BY <1>4, <1>6, <1>7 DEF new

\* add_type_identifier writes the current scope's types only.
LEMMA AddTypeResult ==
  ASSUME NEW ss \in Seq(Scope), NEW c \in 1..Len(ss), NEW t \in TypeNames
  PROVE  LET new == AddType(ss, c, t)
         IN /\ Writes(ss, c, new)
            /\ new[c].is_in_scope = ss[c].is_in_scope
            /\ new[c].names = ss[c].names
            /\ new[c].types = ss[c].types \cup {t}
            /\ new[c].expected_return = ss[c].expected_return
<1> DEFINE sc == [ss[c] EXCEPT !.types = @ \cup {t}]
<1>1. ss[c] \in Scope
  OBVIOUS
<1>2. /\ sc \in Scope
      /\ sc.parent = ss[c].parent
      /\ sc.is_in_scope = ss[c].is_in_scope
      /\ sc.names = ss[c].names
      /\ sc.types = ss[c].types \cup {t}
      /\ sc.expected_return = ss[c].expected_return
  BY <1>1 DEF Scope
<1>3. AddType(ss, c, t) = [ss EXCEPT ![c] = sc]
  BY DEF AddType
<1> HIDE DEF sc
<1> QED BY <1>2, <1>3, Update DEF Writes

\* set_expected_return and clear_expected_return write that field only.
LEMMA SetReturnResult ==
  ASSUME NEW ss \in Seq(Scope), NEW c \in 1..Len(ss), NEW r \in Returns \cup {None}
  PROVE  LET new == SetExpectedReturn(ss, c, r)
         IN /\ Writes(ss, c, new)
            /\ new[c].is_in_scope = ss[c].is_in_scope
            /\ new[c].names = ss[c].names
            /\ new[c].types = ss[c].types
            /\ new[c].expected_return = r
<1> DEFINE sc == [ss[c] EXCEPT !.expected_return = r]
<1>1. ss[c] \in Scope
  OBVIOUS
<1>2. /\ sc \in Scope
      /\ sc.parent = ss[c].parent
      /\ sc.is_in_scope = ss[c].is_in_scope
      /\ sc.names = ss[c].names
      /\ sc.types = ss[c].types
      /\ sc.expected_return = r
  BY <1>1 DEF Scope
<1>3. SetExpectedReturn(ss, c, r) = [ss EXCEPT ![c] = sc]
  BY DEF SetExpectedReturn
<1> HIDE DEF sc
<1> QED BY <1>2, <1>3, Update DEF Writes

\* pop_scope clears the flag of the current scope and keeps its names.
LEMMA PopResult ==
  ASSUME NEW ss \in Seq(Scope), NEW c \in 1..Len(ss)
  PROVE  LET new == PopScope(ss, c)
         IN /\ Writes(ss, c, new)
            /\ ~new[c].is_in_scope
            /\ new[c].names = ss[c].names
            /\ new[c].types = ss[c].types
            /\ new[c].expected_return = ss[c].expected_return
<1> DEFINE sc == [ss[c] EXCEPT !.is_in_scope = FALSE]
<1>1. ss[c] \in Scope
  OBVIOUS
<1>2. /\ sc \in Scope
      /\ sc.parent = ss[c].parent
      /\ sc.is_in_scope = FALSE
      /\ sc.names = ss[c].names
      /\ sc.types = ss[c].types
      /\ sc.expected_return = ss[c].expected_return
  BY <1>1 DEF Scope
<1>3. PopScope(ss, c) = [ss EXCEPT ![c] = sc]
  BY DEF PopScope
<1> HIDE DEF sc
<1> QED BY <1>2, <1>3, Update DEF Writes

-----------------------------------------------------------------------------
(* The lookups.                                                             *)

\* Every parent was pushed before its child, the walks of the lookups end.
Descending(ss) == \A s \in 1..Len(ss) : ss[s].parent \in Freed..s - 1

IsLookup(f, ss, has, answer) ==
  f = [s \in Freed..Len(ss) |->
         IF s = Freed THEN UB ELSE IF s = NoParent THEN None
         ELSE IF s \in has THEN answer[s] ELSE f[ss[s].parent]]

LEMMA LookupExists ==
  ASSUME NEW ss \in Seq(Scope), Descending(ss), NEW has, NEW answer
  PROVE  \E f : IsLookup(f, ss, has, answer)
<1>. DEFINE parent == [s \in 1..Len(ss) |-> ss[s].parent]
<1>1. Len(ss) \in Nat /\ \A s \in 1..Len(ss) : parent[s] \in -1..s - 1
  BY DEF Descending
<1>2. PICK f : IsChainWalk(f, Len(ss), parent, has, answer, None, UB)
  <2>. HIDE DEF parent
  <2>. QED  BY <1>1, ChainWalkExists
<1>3. \A s \in -1..Len(ss) :
        (IF s = -1 THEN UB ELSE IF s = 0 THEN None
         ELSE IF s \in has THEN answer[s] ELSE f[parent[s]])
        = (IF s = -1 THEN UB ELSE IF s = 0 THEN None
           ELSE IF s \in has THEN answer[s] ELSE f[ss[s].parent])
  OBVIOUS
<1>. HIDE DEF parent
<1>. QED  BY <1>2, <1>3 DEF IsChainWalk, IsLookup

\* The three lookups, each by the step it takes.
LEMMA ValueWalk ==
  ASSUME NEW ss \in Seq(Scope), Descending(ss), NEW n
  PROVE  /\ LookupValue(ss, Freed, n) = UB
         /\ LookupValue(ss, NoParent, n) = None
         /\ \A s \in 1..Len(ss) :
              LookupValue(ss, s, n) =
                IF ss[s].names[n] # None THEN ss[s].names[n]
                ELSE LookupValue(ss, ss[s].parent, n)
<1>. DEFINE has == {s \in 1..Len(ss) : ss[s].names[n] # None}
            answer == [s \in 1..Len(ss) |-> ss[s].names[n]]
            Body(f, s) == IF s = Freed THEN UB
                          ELSE IF s = NoParent THEN None
                          ELSE IF ss[s].names[n] # None THEN ss[s].names[n]
                          ELSE f[ss[s].parent]
            walk == CHOOSE f : f = [s \in Freed..Len(ss) |-> Body(f, s)]
<1>1. PICK f : IsLookup(f, ss, has, answer)
  <2>. HIDE DEF has, answer
  <2>. QED  BY LookupExists
<1>2. \A s \in Freed..Len(ss) :
        (IF s = Freed THEN UB ELSE IF s = NoParent THEN None
         ELSE IF s \in has THEN answer[s] ELSE f[ss[s].parent]) = Body(f, s)
  OBVIOUS
<1>3. \A s : LookupValue(ss, s, n) = walk[s]
  BY DEF LookupValue
<1>. HIDE DEF has, answer, Body
<1>4. f = [s \in Freed..Len(ss) |-> Body(f, s)]
  BY <1>1, <1>2 DEF IsLookup
<1>5. walk = [s \in Freed..Len(ss) |-> Body(walk, s)]
  BY <1>4
<1>. HIDE DEF walk
<1>6. \A s \in Freed..Len(ss) : walk[s] = Body(walk, s)
  BY <1>5
<1>7. Freed \in Freed..Len(ss) /\ NoParent \in Freed..Len(ss) /\ 1..Len(ss) \subseteq Freed..Len(ss)
  OBVIOUS
<1>8. \A s \in Freed..Len(ss) :
        walk[s] = IF s = Freed THEN UB
                  ELSE IF s = NoParent THEN None
                  ELSE IF ss[s].names[n] # None THEN ss[s].names[n]
                  ELSE walk[ss[s].parent]
  BY <1>6 DEF Body
<1>. QED  BY <1>3, <1>7, <1>8

LEMMA TypeWalk ==
  ASSUME NEW ss \in Seq(Scope), Descending(ss), NEW t
  PROVE  /\ LookupType(ss, Freed, t) = UB
         /\ LookupType(ss, NoParent, t) = None
         /\ \A s \in 1..Len(ss) :
              LookupType(ss, s, t) =
                IF t \in ss[s].types THEN t
                ELSE LookupType(ss, ss[s].parent, t)
<1>. DEFINE has == {s \in 1..Len(ss) : t \in ss[s].types}
            answer == [s \in 1..Len(ss) |-> t]
            Body(f, s) == IF s = Freed THEN UB
                          ELSE IF s = NoParent THEN None
                          ELSE IF t \in ss[s].types THEN t
                          ELSE f[ss[s].parent]
            walk == CHOOSE f : f = [s \in Freed..Len(ss) |-> Body(f, s)]
<1>1. PICK f : IsLookup(f, ss, has, answer)
  <2>. HIDE DEF has, answer
  <2>. QED  BY LookupExists
<1>2. \A s \in Freed..Len(ss) :
        (IF s = Freed THEN UB ELSE IF s = NoParent THEN None
         ELSE IF s \in has THEN answer[s] ELSE f[ss[s].parent]) = Body(f, s)
  OBVIOUS
<1>3. \A s : LookupType(ss, s, t) = walk[s]
  BY DEF LookupType
<1>. HIDE DEF has, answer, Body
<1>4. f = [s \in Freed..Len(ss) |-> Body(f, s)]
  BY <1>1, <1>2 DEF IsLookup
<1>5. walk = [s \in Freed..Len(ss) |-> Body(walk, s)]
  BY <1>4
<1>. HIDE DEF walk
<1>6. \A s \in Freed..Len(ss) : walk[s] = Body(walk, s)
  BY <1>5
<1>7. Freed \in Freed..Len(ss) /\ NoParent \in Freed..Len(ss) /\ 1..Len(ss) \subseteq Freed..Len(ss)
  OBVIOUS
<1>8. \A s \in Freed..Len(ss) :
        walk[s] = IF s = Freed THEN UB
                  ELSE IF s = NoParent THEN None
                  ELSE IF t \in ss[s].types THEN t
                  ELSE walk[ss[s].parent]
  BY <1>6 DEF Body
<1>. QED  BY <1>3, <1>7, <1>8

LEMMA ReturnWalk ==
  ASSUME NEW ss \in Seq(Scope), Descending(ss)
  PROVE  /\ ExpectedReturn(ss, Freed) = UB
         /\ ExpectedReturn(ss, NoParent) = None
         /\ \A s \in 1..Len(ss) :
              ExpectedReturn(ss, s) =
                IF ss[s].expected_return # None THEN ss[s].expected_return
                ELSE ExpectedReturn(ss, ss[s].parent)
<1>. DEFINE has == {s \in 1..Len(ss) : ss[s].expected_return # None}
            answer == [s \in 1..Len(ss) |-> ss[s].expected_return]
            Body(f, s) == IF s = Freed THEN UB
                          ELSE IF s = NoParent THEN None
                          ELSE IF ss[s].expected_return # None THEN ss[s].expected_return
                          ELSE f[ss[s].parent]
            walk == CHOOSE f : f = [s \in Freed..Len(ss) |-> Body(f, s)]
<1>1. PICK f : IsLookup(f, ss, has, answer)
  <2>. HIDE DEF has, answer
  <2>. QED  BY LookupExists
<1>2. \A s \in Freed..Len(ss) :
        (IF s = Freed THEN UB ELSE IF s = NoParent THEN None
         ELSE IF s \in has THEN answer[s] ELSE f[ss[s].parent]) = Body(f, s)
  OBVIOUS
<1>3. \A s : ExpectedReturn(ss, s) = walk[s]
  BY DEF ExpectedReturn
<1>. HIDE DEF has, answer, Body
<1>4. f = [s \in Freed..Len(ss) |-> Body(f, s)]
  BY <1>1, <1>2 DEF IsLookup
<1>5. walk = [s \in Freed..Len(ss) |-> Body(walk, s)]
  BY <1>4
<1>. HIDE DEF walk
<1>6. \A s \in Freed..Len(ss) : walk[s] = Body(walk, s)
  BY <1>5
<1>7. Freed \in Freed..Len(ss) /\ NoParent \in Freed..Len(ss) /\ 1..Len(ss) \subseteq Freed..Len(ss)
  OBVIOUS
<1>8. \A s \in Freed..Len(ss) :
        walk[s] = IF s = Freed THEN UB
                  ELSE IF s = NoParent THEN None
                  ELSE IF ss[s].expected_return # None THEN ss[s].expected_return
                  ELSE walk[ss[s].parent]
  BY <1>6 DEF Body
<1>. QED  BY <1>3, <1>7, <1>8


\* Two tables that agree on the first k scopes answer alike there.
LEMMA SameBelow ==
  ASSUME NEW ss \in Seq(Scope), Descending(ss), NEW tt \in Seq(Scope), Descending(tt),
         NEW n, NEW k \in Nat, k <= Len(ss), k <= Len(tt),
         \A i \in 1..k : tt[i].parent = ss[i].parent /\ tt[i].names[n] = ss[i].names[n]
  PROVE  \A s \in Freed..k : LookupValue(tt, s, n) = LookupValue(ss, s, n)
<1>. DEFINE T == {s \in 1..k : LookupValue(tt, s, n) # LookupValue(ss, s, n)}
<1>1. LookupValue(tt, Freed, n) = LookupValue(ss, Freed, n)
      /\ LookupValue(tt, NoParent, n) = LookupValue(ss, NoParent, n)
  BY ValueWalk
<1>2. CASE T = {}
  <2>1. \A s \in Freed..k : s = Freed \/ s = NoParent \/ s \in 1..k
    OBVIOUS
  <2>. QED  BY <1>1, <1>2, <2>1
<1>3. CASE T # {}
  <2>1. PICK s \in T : \A r \in T : s <= r
    <3>1. T \in SUBSET Nat
      OBVIOUS
    <3>. HIDE DEF T
    <3>. QED  BY <1>3, <3>1, LeastNat
  <2>2. s \in 1..Len(ss) /\ s \in 1..Len(tt) /\ ss[s].parent \in Freed..s - 1
    BY DEF Descending
  <2>. DEFINE p == ss[s].parent
  <2>3. LookupValue(tt, p, n) = LookupValue(ss, p, n)
    <3>1. p = Freed \/ p = NoParent \/ (p \in 1..k /\ p \notin T)
      BY <2>1, <2>2
    <3>. QED  BY <1>1, <3>1
  <2>4. tt[s].parent = p /\ tt[s].names[n] = ss[s].names[n]
    OBVIOUS
  <2>5. LookupValue(tt, s, n) = LookupValue(ss, s, n)
    BY <2>2, <2>3, <2>4, ValueWalk
  <2>. QED  BY <2>5
<1>. QED  BY <1>2, <1>3

\* Where no pointer is freed no lookup reads a freed scope.
LEMMA NoFreedRead ==
  ASSUME NEW ss \in Seq(Scope), Descending(ss),
         \A s \in 1..Len(ss) : ss[s].parent # Freed
  PROVE  \A s \in 1..Len(ss) :
           /\ \A n \in Names : LookupValue(ss, s, n) # UB
           /\ \A t \in TypeNames : LookupType(ss, s, t) # UB
           /\ ExpectedReturn(ss, s) # UB
<1>. DEFINE Good(s) == /\ \A n \in Names : LookupValue(ss, s, n) # UB
                       /\ \A t \in TypeNames : LookupType(ss, s, t) # UB
                       /\ ExpectedReturn(ss, s) # UB
            T == {s \in 1..Len(ss) : ~Good(s)}
<1>1. Good(NoParent)
  BY ValueWalk, TypeWalk, ReturnWalk, UBAssumption
<1>2. ASSUME NEW s \in 1..Len(ss), Good(ss[s].parent) PROVE Good(s)
  <2>0. ss[s] \in Scope
    OBVIOUS
  <2>1. /\ ss[s].names \in [Names -> Values \cup {None}]
        /\ ss[s].expected_return \in Returns \cup {None}
    BY <2>0 DEF Scope
  <2>2. ASSUME NEW n \in Names PROVE LookupValue(ss, s, n) # UB
    <3>1. ss[s].names[n] # UB
      BY <2>1, UBAssumption
    <3>. QED  BY <1>2, <3>1, ValueWalk
  <2>3. ASSUME NEW t \in TypeNames PROVE LookupType(ss, s, t) # UB
    BY <1>2, TypeWalk, UBAssumption
  <2>4. ExpectedReturn(ss, s) # UB
    BY <1>2, <2>1, ReturnWalk, UBAssumption
  <2>. QED  BY <2>2, <2>3, <2>4
<1>. HIDE DEF Good
<1>3. CASE T # {}
  <2>1. PICK s \in T : \A r \in T : s <= r
    <3>1. T \in SUBSET Nat
      OBVIOUS
    <3>. HIDE DEF T
    <3>. QED  BY <1>3, <3>1, LeastNat
  <2>2. ss[s].parent \in 0..s - 1
    BY DEF Descending
  <2>3. Good(ss[s].parent)
    BY <1>1, <2>1, <2>2
  <2>. QED  BY <1>2, <2>3
<1>4. CASE T = {}
  BY <1>4 DEF Good
<1>. QED  BY <1>3, <1>4

\* While no scope has a freed parent, a lookup's answer is in some scope.
LEMMA LookupFinds ==
  ASSUME NEW ss \in Seq(Scope), \A s \in 1..Len(ss) : ss[s].parent \in 0..s - 1
  PROVE  \A s \in 0..Len(ss) :
           /\ \A n : LET v == LookupValue(ss, s, n)
                   IN v # None => \E i \in 1..Len(ss) : v = ss[i].names[n]
           /\ \A t : LookupType(ss, s, t) # None =>
                     \E i \in 1..Len(ss) : t \in ss[i].types
<1>. DEFINE Good(s) ==
       /\ \A n : LookupValue(ss, s, n) # None =>
                 \E i \in 1..Len(ss) : LookupValue(ss, s, n) = ss[i].names[n]
       /\ \A t : LookupType(ss, s, t) # None => \E i \in 1..Len(ss) : t \in ss[i].types
            T == {s \in 1..Len(ss) : ~Good(s)}
<1>1. Descending(ss)
  BY DEF Descending
<1>2. Good(NoParent)
  BY <1>1, ValueWalk, TypeWalk
<1>3. CASE T = {}
  <2>1. \A s \in 0..Len(ss) : s = NoParent \/ s \in 1..Len(ss)
    OBVIOUS
  <2>2. \A s \in 0..Len(ss) : Good(s)
    <3>. HIDE DEF Good
    <3>. QED  BY <1>2, <1>3, <2>1
  <2>. QED  BY <2>2
<1>4. CASE T # {}
  <2>1. T \in SUBSET Nat
    OBVIOUS
  <2>2. PICK m \in T : \A y \in T : m <= y
    <3>. HIDE DEF T
    <3>. QED  BY <1>4, <2>1, LeastNat
  <2>3. m \in 1..Len(ss) /\ ~Good(m)
    <3>. HIDE DEF Good
    <3>. QED  BY <2>2
  <2>. DEFINE p == ss[m].parent
  <2>4. p \in 0..m - 1 /\ (p = NoParent \/ p \in 1..Len(ss))
    BY <2>3
  <2>5. Good(p)
    <3>. HIDE DEF Good
    <3>1. p \notin T
      <4>. HIDE DEF T
      <4>. QED  BY <2>1, <2>2, <2>3, <2>4
    <3>. QED  BY <1>2, <2>4, <3>1
  <2>6. \A n : LookupValue(ss, m, n) =
               IF ss[m].names[n] # None THEN ss[m].names[n] ELSE LookupValue(ss, p, n)
    BY <1>1, <2>3, ValueWalk
  <2>7. \A t : LookupType(ss, m, t) =
               IF t \in ss[m].types THEN t ELSE LookupType(ss, p, t)
    BY <1>1, <2>3, TypeWalk
  <2>. HIDE DEF p
  <2>8. Good(m)
    BY <2>3, <2>5, <2>6, <2>7
  <2>. QED  BY <2>3, <2>8
<1>. QED  BY <1>3, <1>4
=============================================================================
