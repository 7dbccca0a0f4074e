---------------------------- MODULE MCAlertQuery ----------------------------
(* Model values and bounds for TLC; see the README for what each run asks.   *)
EXTENDS AlertQuery, TLC

MCKinds  == {"ipfix", "sflowrt"}
MCMute   == {"sflowrt"}
MCKindOf == [c \in Collectors |-> IF c = "sFlowRT" THEN "sflowrt" ELSE "ipfix"]
=============================================================================
