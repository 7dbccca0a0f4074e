--------------------------- MODULE MCSnortTunnel ---------------------------
(***************************************************************************)
(* Instances of SnortTunnel for TLC; the switches are interchangeable.     *)
(***************************************************************************)
EXTENDS SnortTunnel, TLC

Symmetry == Permutations(Devices)
=============================================================================
