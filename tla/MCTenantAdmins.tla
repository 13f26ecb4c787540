--------------------------- MODULE MCTenantAdmins --------------------------
(***************************************************************************)
(* Instances of TenantAdmins for TLC.                                      *)
(***************************************************************************)
EXTENDS TenantAdmins, TLC

\* No action or property names a user, a call or a sign-in.
Symmetry == Permutations(Users) \cup Permutations(Calls) \cup Permutations(Logins)
===========================================================================
