----------------------------- MODULE MCServices ------------------------------
(***************************************************************************)
(* A small instance of the services and the web consoles: two calls at     *)
(* once, two tenants and two operators, one member and one token.          *)
(***************************************************************************)
EXTENDS Services, TLC

\* No component tells its calls apart, nor two tenants, nor two operators, and the
\* properties are invariants.
Alike == Permutations(Calls) \cup Permutations(Tenants)
=============================================================================
