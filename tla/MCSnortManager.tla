--------------------------- MODULE MCSnortManager ---------------------------
(***************************************************************************)
(* Instances of SnortManager for TLC. The addresses of Snort are           *)
(* interchangeable: nothing orders them.                                   *)
(***************************************************************************)
EXTENDS SnortManager, TLC

(* Two ports on one switch, one on the other. *)
MCPlaces == {<<"d1", "x1">>, <<"d1", "x2">>, <<"d2", "x1">>}

Symmetry == Permutations(Ips)
=============================================================================
