------------------------------- MODULE Scopes -------------------------------
(***************************************************************************)
(* Sema2's scope interface driven by an arbitrary caller: any sequence of  *)
(* push_scope, pop_scope, add_value_identifier, add_type_identifier,       *)
(* set_expected_return, clear_expected_return and lookups in which a scope *)
(* is popped only after it was pushed.  The handlers of SemaGen.cpp are    *)
(* one such caller (module Sema).                                          *)
(***************************************************************************)
EXTENDS ScopeOps

CONSTANT MaxScopes  \* bound: the caller pushes until the vector holds this many

ASSUME MaxScopesAssumption == MaxScopes \in Nat /\ MaxScopes <= 2 * Reserve

VARIABLES
  scopes,   \* Sema2::scopes
  current,  \* Sema2::current_scope
  crashed,  \* a freed scope has been read: undefined behaviour, nothing follows
  open      \* history: the scopes pushed and not popped, outermost first

vars == <<scopes, current, crashed, open>>

TypeOK ==
  /\ scopes \in Seq(Scope)
  /\ current \in Nat \cup {Freed}
  /\ crashed \in BOOLEAN
  /\ open \in Seq(Nat)

Init ==
  /\ scopes = InitialScopes
  /\ current = Root
  /\ crashed = FALSE
  /\ open = <<Root>>

Push ==
  /\ Len(scopes) < MaxScopes
  /\ scopes' = PushScope(scopes, current)
  /\ current' = Len(scopes) + 1
  /\ open' = Append(open, Len(scopes) + 1)
  /\ UNCHANGED crashed

\* pop_scope follows the parent pointer without reading the parent.
Pop ==
  /\ Len(open) > 1
  /\ scopes' = PopScope(scopes, current)
  /\ current' = scopes[current].parent
  /\ open' = SubSeq(open, 1, Len(open) - 1)
  /\ UNCHANGED crashed

AddValueIdentifier(n, v) ==
  /\ scopes' = AddValue(scopes, current, n, v)
  /\ UNCHANGED <<current, crashed, open>>

AddTypeIdentifier(t) ==
  /\ scopes' = AddType(scopes, current, t)
  /\ UNCHANGED <<current, crashed, open>>

SetReturn(r) ==
  /\ scopes' = SetExpectedReturn(scopes, current, r)
  /\ UNCHANGED <<current, crashed, open>>

\* Every lookup that misses in the current scope reads the parent.
Lookup ==
  /\ \/ \E n \in Names : LookupValue(scopes, current, n) = UB
     \/ \E t \in TypeNames : LookupType(scopes, current, t) = UB
     \/ ExpectedReturn(scopes, current) = UB
  /\ crashed' = TRUE
  /\ UNCHANGED <<scopes, current, open>>

\* Any use of current_scope once pop_scope has made it a freed pointer.
UseFreed ==
  /\ crashed' = TRUE
  /\ UNCHANGED <<scopes, current, open>>

Live ==
  \/ Push
  \/ Pop
  \/ \E n \in Names, v \in Values : AddValueIdentifier(n, v)
  \/ \E t \in TypeNames : AddTypeIdentifier(t)
  \/ \E r \in Returns \cup {None} : SetReturn(r)
  \/ Lookup

Next ==
  /\ ~crashed
  /\ \/ current # Freed /\ Live
     \/ current = Freed /\ UseFreed

Spec == Init /\ [][Next]_vars

-----------------------------------------------------------------------------
WithinReserve == Len(scopes) <= Reserve

(***************************************************************************)
(* Safety.  The parent pointers of the open scopes are exactly the history *)
(* of pushes: current_scope is the scope pushed last, each open scope's    *)
(* parent is the scope that was current when it was pushed, and the flag   *)
(* is_in_scope tells the open scopes from the closed ones.  Nothing else   *)
(* in the code checks that pop_scope's pointer is the right one.  It holds *)
(* for as long as the vector has not been moved.                           *)
(***************************************************************************)
ChainIsPushOrder ==
  WithinReserve =>
    /\ Len(open) >= 1
    /\ open[1] = Root
    /\ current = open[Len(open)]
    /\ \A i \in 1..Len(open) : open[i] \in 1..Len(scopes)
    /\ \A i \in 2..Len(open) : scopes[open[i]].parent = open[i - 1]
    /\ \A i, j \in 1..Len(open) : i < j => open[i] < open[j]
    /\ \A s \in 1..Len(scopes) :
         scopes[s].is_in_scope <=> \E i \in 1..Len(open) : open[i] = s

(***************************************************************************)
(* Safety.  No scope is read through a freed pointer while the vector      *)
(* holds at most Reserve scopes, the root scope being one of them: the     *)
(* constructor's reserve(100) is what makes the raw parent pointers sound, *)
(* and nothing in push_scope checks it.                                    *)
(***************************************************************************)
NoDanglingWithinReserve ==
  WithinReserve => /\ ~crashed
                   /\ \A s \in 1..Len(scopes) : scopes[s].parent # Freed

(***************************************************************************)
(* Action property.  In one scope the first declaration of a name stays:   *)
(* add_value_identifier is an emplace, so no later declaration and no      *)
(* other step may rebind it.                                               *)
(***************************************************************************)
FirstDeclarationWins ==
  [][\A s \in 1..Len(scopes), n \in Names :
       scopes[s].names[n] # None =>
         /\ s \in DOMAIN scopes'
         /\ scopes'[s].names[n] = scopes[s].names[n]]_vars

(***************************************************************************)
(* Action property.  A step changes at most the current scope, or the      *)
(* vector as a whole when it grows: a scope that has been closed keeps its *)
(* names, types and return type for ever.                                  *)
(***************************************************************************)
ClosedScopesFrozen ==
  [][\A s \in 1..Len(scopes) :
       ~scopes[s].is_in_scope /\ Len(scopes') <= Reserve =>
         s \in DOMAIN scopes' /\ scopes'[s] = scopes[s]]_vars

-----------------------------------------------------------------------------
(***************************************************************************)
(* Refinement.  What LookupValue answers in each open scope is a           *)
(* block-structured environment.                                           *)
(***************************************************************************)
viewOf(s) == [n \in Names |-> LookupValue(scopes, s, n)]

env == [i \in 1..Len(open) |-> viewOf(open[i])]

Lexical == INSTANCE LexicalEnv WITH env <- env

ImplementsLexicalEnv ==
  Lexical!Init /\ [][Len(scopes') <= Reserve => Lexical!Next]_env
=============================================================================
