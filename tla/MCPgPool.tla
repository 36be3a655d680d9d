------------------------------- MODULE MCPgPool -------------------------------
(* Instances of PgPool for TLC: requests are interchangeable.                 *)
EXTENDS PgPool, TLC

Symmetry == Permutations(Requests)
=============================================================================
