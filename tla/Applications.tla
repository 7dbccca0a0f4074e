---------------------------- MODULE Applications ----------------------------
(***************************************************************************)
(* The northbound applications of the repository, each a process of its    *)
(* own beside the coordinator. They share the northbound interface alone,  *)
(* where each has its own query times and adds thresholds under names of   *)
(* its own, so one of them runs at a time here.                            *)
(***************************************************************************)
EXTENDS Integers, FiniteSets

CONSTANTS
  Sources, Dests, Ports, PortThresholdCount, ThreshIds,
  Hosts, SourceCountThreshold, Period,
  Flows, Rates, MinimuStep, Types, Rules, MaxOctets, MaxLife, Shares,
  MaxReports, MaxThresholds, MaxConnects

VARIABLES
  app,  \* the application that runs
  scanner, flow_to_port_dict, treated_flows, recent, treating, scanStore, excusedSources,
  watcher, source_count, heard, mirroring, mirrors,
  learner, flows, thresholds, posting, records, answer, counted, clock, share, rateStore, removed, taken,
  poll, count, traffic_report, shown, traffic_dirty, thresholds_dirty, send, want, slice,
  updates, connects, excusedReports

Scan  == INSTANCE PortScan WITH excused <- excusedSources
Ddos  == INSTANCE Ddos
Learn == INSTANCE ThresholdApp
Gui   == INSTANCE Gui WITH excused <- excusedReports

ASSUME ApplicationsAssumption ==
  Scan!PortScanAssumption /\ Ddos!DdosAssumption /\ Learn!ThresholdAppAssumption /\ Gui!GuiAssumption

scanVars  == <<scanner, flow_to_port_dict, treated_flows, recent, treating, scanStore,
               excusedSources>>
ddosVars  == <<watcher, source_count, heard, mirroring, mirrors>>
learnVars == <<learner, flows, thresholds, posting, records, answer, counted, clock,
               share, rateStore, removed, taken>>
guiVars   == <<poll, count, traffic_report, shown, traffic_dirty, thresholds_dirty, send,
               want, slice, updates, connects, excusedReports>>
vars == <<app, scanVars, ddosVars, learnVars, guiVars>>

Init ==
  /\ app \in {"ipfix-port-scan-app", "ipfix-ddos-app", "ipfix-threshold-app", "gui"}
  /\ Scan!Init /\ Ddos!Init /\ Learn!Init /\ Gui!Init

Next ==
  /\ UNCHANGED app
  /\ \/ /\ app = "ipfix-port-scan-app" /\ Scan!Next
        /\ UNCHANGED <<ddosVars, learnVars, guiVars>>
     \/ /\ app = "ipfix-ddos-app" /\ Ddos!Next
        /\ UNCHANGED <<scanVars, learnVars, guiVars>>
     \/ /\ app = "ipfix-threshold-app" /\ Learn!Next
        /\ UNCHANGED <<scanVars, ddosVars, guiVars>>
     \/ /\ app = "gui" /\ Gui!Next
        /\ UNCHANGED <<scanVars, ddosVars, learnVars>>

Spec == Init /\ [][Next]_vars
-----------------------------------------------------------------------------
TypeOK == Scan!TypeOK /\ Ddos!TypeOK /\ Learn!TypeOK /\ Gui!TypeOK

(* A port scanner is blocked by the time the application polls again, and a *)
(* mirror has as many sources as it takes: ScannersAreBlocked of PortScan,   *)
(* MirrorsHaveCause of Ddos.                                                 *)
DetectorsAreRight == Scan!ScannersAreBlocked /\ Ddos!MirrorsHaveCause

(* The threshold application knows what it has set at the coordinator, and   *)
(* stops only where records of a flow come at one time, of several rules or  *)
(* out of order: CacheTracksStore and StopsForACause of ThresholdApp.        *)
LearnerIsRight == Learn!CacheTracksStore /\ Learn!StopsForACause

(* A client is sent each record once: SentOnce of Gui.                       *)
SentOnce == Gui!SentOnce
=============================================================================
