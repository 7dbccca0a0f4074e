--------------------------- MODULE MCExperimenter ---------------------------
(* The instance of Experimenter for TLC.                                    *)
EXTENDS Experimenter, TLC

ForwardPorts == <<8101, 6653>>   \* KarafPort, OpenFlowPort
=============================================================================
