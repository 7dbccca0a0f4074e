---------------------------- MODULE MCAlertRelay ----------------------------
(* The instance of AlertRelay for TLC.                                      *)
EXTENDS AlertRelay, TLC
=============================================================================
