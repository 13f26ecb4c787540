------------------------------- MODULE MCAgent -------------------------------
(***************************************************************************)
(* Agent with three releases, one of them longer than another with the     *)
(* same start, for TLC.                                                    *)
(***************************************************************************)
EXTENDS Agent

Versions == {<<1>>, <<1, 1>>, <<2>>}
==============================================================================
