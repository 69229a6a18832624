------------------------------ MODULE ScopeOps ------------------------------
(***************************************************************************)
(* The scope table of the semantic phase: class Scope (sema2/Scope.cpp)    *)
(* and the part of class Sema2 that owns the scopes (sema2/Sema2.cpp).     *)
(*                                                                         *)
(* Sema2 keeps every scope ever opened in one vector and links a scope to  *)
(* its parent with a raw pointer into that vector.  Here the vector is a   *)
(* sequence and a pointer is an index: NoParent is nullptr and Freed is a  *)
(* pointer into a buffer that the vector has given back.                   *)
(*                                                                         *)
(* The operators are pure: they take the vector (ss) and, where the code   *)
(* goes through current_scope, its index (c).                              *)
(***************************************************************************)
EXTENDS Integers, Sequences

CONSTANTS
  Names,      \* identifiers of values
  TypeNames,  \* identifiers of types
  Values,     \* what a value identifier is bound to (a TypeInstance)
  Returns,    \* the return types a function can have
  Builtins,   \* the type names the root scope starts with
  Reserve,    \* scopes.reserve(Reserve) in the constructor: 100 in the code
  None,       \* std::nullopt / nullptr
  UB          \* the result of a walk that reads a freed scope

ASSUME ReserveAssumption == Reserve \in Nat \ {0}
ASSUME NoneAssumption == None \notin Values \cup Returns
ASSUME UBAssumption == UB \notin Values \cup Returns \cup TypeNames \cup {None}
ASSUME BuiltinsAssumption == Builtins \subseteq TypeNames

Root == 1
NoParent == 0
Freed == -1

Scope == [parent : Nat \cup {Freed}, names : [Names -> Values \cup {None}],
          types : SUBSET TypeNames, expected_return : Returns \cup {None},
          is_in_scope : BOOLEAN]

\* Mutant: the constructor leaves expected_return uninitialised.
NewScopeUninitialised(par) ==
  [parent |-> par, names |-> [n \in Names |-> None], types |-> {},
   expected_return |-> UB, is_in_scope |-> TRUE]

NewScope(par) ==
  [parent |-> par, names |-> [n \in Names |-> None], types |-> {},
   expected_return |-> None, is_in_scope |-> TRUE]

\* The constructor: one root scope that holds the builtin types.
InitialScopes == << [NewScope(NoParent) EXCEPT !.types = Builtins] >>

(***************************************************************************)
(* push_scope.  A push on a full vector moves the elements to a new buffer *)
(* and frees the old one, the parent of the scope being pushed included.   *)
(* The vector at least doubles, so up to 2 * Reserve scopes it moves once. *)
(***************************************************************************)
Dangles(p) == IF p = NoParent THEN NoParent ELSE Freed

Relocated(ss) == [i \in 1..Len(ss) |-> [ss[i] EXCEPT !.parent = Dangles(@)]]

\* Mutants: the vector is one too small; a scope is linked to the root.
PushScopeEarlyMove(ss, c) ==
  IF Len(ss) + 1 = Reserve THEN Relocated(Append(ss, NewScope(c)))
                           ELSE Append(ss, NewScope(c))
PushScopeAtRoot(ss, c) ==
  IF Len(ss) = Reserve THEN Relocated(Append(ss, NewScope(Root)))
                       ELSE Append(ss, NewScope(Root))

PushScope(ss, c) ==
  IF Len(ss) = Reserve THEN Relocated(Append(ss, NewScope(c)))
                       ELSE Append(ss, NewScope(c))

\* Mutants: pop_scope leaves the flag; a second declaration rebinds the name; the
\* return type goes to the scope pushed last, which need not be the current one.
PopScopeKeepsFlag(ss, c) == ss
AddValueRebinds(ss, c, n, v) == [ss EXCEPT ![c].names[n] = v]
SetReturnOfLast(ss, c, r) == [ss EXCEPT ![Len(ss)].expected_return = r]

PopScope(ss, c) == [ss EXCEPT ![c].is_in_scope = FALSE]

AddValue(ss, c, n, v) ==
  [ss EXCEPT ![c].names[n] = IF @ = None THEN v ELSE @]

AddType(ss, c, t) == [ss EXCEPT ![c].types = @ \cup {t}]

SetExpectedReturn(ss, c, r) == [ss EXCEPT ![c].expected_return = r]

(***************************************************************************)
(* The three lookups walk from a scope to the root and stop at the first   *)
(* scope that has an answer.                                               *)
(***************************************************************************)
LookupValue(ss, c, n) ==
  LET walk[s \in Freed..Len(ss)] ==
        IF s = Freed THEN UB
        ELSE IF s = NoParent THEN None
        ELSE IF ss[s].names[n] # None THEN ss[s].names[n]
        ELSE walk[ss[s].parent]
  IN walk[c]

LookupType(ss, c, t) ==
  LET walk[s \in Freed..Len(ss)] ==
        IF s = Freed THEN UB
        ELSE IF s = NoParent THEN None
        ELSE IF t \in ss[s].types THEN t
        ELSE walk[ss[s].parent]
  IN walk[c]

ExpectedReturn(ss, c) ==
  LET walk[s \in Freed..Len(ss)] ==
        IF s = Freed THEN UB
        ELSE IF s = NoParent THEN None
        ELSE IF ss[s].expected_return # None THEN ss[s].expected_return
        ELSE walk[ss[s].parent]
  IN walk[c]
=============================================================================
