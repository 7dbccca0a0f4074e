----------------------------- MODULE MCPigRelay -----------------------------
(* The instance of PigRelay for TLC: "r1" is in the template, "r2" is not.  *)
EXTENDS PigRelay, TLC
=============================================================================
