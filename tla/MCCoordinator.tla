--------------------------- MODULE MCCoordinator ---------------------------
(* The instance of Coordinator for TLC.                                     *)
EXTENDS Coordinator, TLC
=============================================================================
