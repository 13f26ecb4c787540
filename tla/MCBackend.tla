------------------------------ MODULE MCBackend ------------------------------
(***************************************************************************)
(* A small instance of the operator's backend: two operators, one super    *)
(* admin and three links; one request for erasure and two runs of the      *)
(* scheduler; two deletions, one export and two of each of their calls.    *)
(***************************************************************************)
EXTENDS Backend
=============================================================================
