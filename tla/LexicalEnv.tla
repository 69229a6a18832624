----------------------------- MODULE LexicalEnv -----------------------------
(***************************************************************************)
(* What a block-structured symbol table promises, whatever it is built of: *)
(* a stack of views, the innermost last.  Opening a block changes nothing  *)
(* that can be seen, a declaration changes the innermost view only, and    *)
(* closing a block brings back the view of the block around it.            *)
(*                                                                         *)
(* Both symbol tables of the compiler implement it: Sema2's parent-linked  *)
(* scopes and the `values` map that the code generator copies and puts     *)
(* back.                                                                   *)
(***************************************************************************)
EXTENDS Naturals, Sequences

CONSTANTS Names, Values, None

VARIABLE env

View == [Names -> Values \cup {None}]

Init == env = << [n \in Names |-> None] >>

Open == env' = Append(env, env[Len(env)])

Close ==
  /\ Len(env) > 1
  /\ env' = SubSeq(env, 1, Len(env) - 1)

Declare(n, v) == env' = [env EXCEPT ![Len(env)][n] = v]

Next == Open \/ Close \/ \E n \in Names, v \in Values : Declare(n, v)

Spec == Init /\ [][Next]_env
=============================================================================
