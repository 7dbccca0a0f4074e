--------------------------- MODULE MCApplications ---------------------------
(* The instance of Applications for TLC.                                    *)
EXTENDS Applications, TLC

(* Either more records of a flow, or thresholds set for it.                  *)
MCShares == {[sends |-> 3, posts |-> 0], [sends |-> 2, posts |-> 3]}

RuleSymmetry == Permutations(Rules)
=============================================================================
