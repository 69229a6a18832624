------------------------------ MODULE MCScopes ------------------------------
(* Scopes on a small instance: a vector reserved for three scopes and a    *)
(* caller that pushes one more than that.                                  *)
EXTENDS Scopes
=============================================================================
