------------------------------ MODULE PortScan ------------------------------
(***************************************************************************)
(* The port scan application: it polls the northbound interface for flow   *)
(* records, counts the ports each pair of hosts has used, and has the      *)
(* source blocked by two thresholds, one for prefix and one for interfix   *)
(* records, when there are too many.                                       *)
(***************************************************************************)
EXTENDS Integers, FiniteSets

CONSTANTS
  Sources, Dests, Ports,  \* what the records name
  PortThresholdCount,     \* port_threshold_count of config.json
  ThreshIds               \* random.getrandbits(20)

PortScanAssumption == PortThresholdCount \in Nat /\ IsFiniteSet(Ports)

VARIABLES
  scanner,            \* where the application is
  flow_to_port_dict,  \* key -> ports used
  treated_flows,      \* keys treated
  recent,             \* whether time_last_treat is at most ten seconds ago
  treating,           \* the treatment it is at
  scanStore,          \* its thresholds at the coordinator
  excused             \* history: sources with a threshold removed or refused

scanVars == <<scanner, flow_to_port_dict, treated_flows, recent, treating, scanStore, excused>>

Keys  == Sources \X Dests
Kinds == {"prefix", "interfix"}
NoTreatment == [key |-> <<>>, id |-> "none"]

(* A record without an address has "none"; the answers of the interface are  *)
(* any records in any order, and end at any of them.                         *)
Records == [src : Sources \cup {"none"}, dst : Dests \cup {"none"}, port : Ports]

Init ==
  /\ scanner = "down" /\ flow_to_port_dict = [k \in Keys |-> {}] /\ treated_flows = {}
  /\ recent = FALSE /\ treating = NoTreatment /\ scanStore = {} /\ excused = {}

memory == <<flow_to_port_dict, treated_flows, recent, treating>>

(* __init__: time_last_treat is now; register until the answer is 200.       *)
Start ==
  /\ scanner = "down" /\ scanner' = "register"
  /\ flow_to_port_dict' = [k \in Keys |-> {}] /\ treated_flows' = {}
  /\ recent' = TRUE /\ treating' = NoTreatment
  /\ UNCHANGED <<scanStore, excused>>

Register ==
  /\ scanner = "register" /\ scanner' \in {"register", "query"}
  /\ UNCHANGED <<memory, scanStore, excused>>

(* A request that fails, or an answer that is not JSON, ends it: read_ipfix  *)
(* catches KeyboardInterrupt only.                                           *)
End ==
  /\ scanner # "down" /\ scanner' = "down"
  /\ flow_to_port_dict' = [k \in Keys |-> {}] /\ treated_flows' = {} /\ recent' = FALSE
  /\ treating' = NoTreatment
  /\ UNCHANGED <<scanStore, excused>>

read_ipfix ==
  /\ \/ scanner = "query" /\ scanner' = "track"
     \/ scanner = "track" /\ scanner' = "query"
  /\ UNCHANGED <<memory, scanStore, excused>>

(* flow_to_port_tracker: one address alone is looked up all the same, and    *)
(* raises (End). A key is treated once, and again when the last treatment of *)
(* any key is ten seconds old.                                               *)
DetectedLate(k, used) ==                                \* mutant: the window for all
  Cardinality(used) > PortThresholdCount /\ ~recent
Detected(k, used) ==
  Cardinality(used) > PortThresholdCount /\ (k \in treated_flows => ~recent)

Track(r) ==
  /\ scanner = "track" /\ r.src # "none" /\ r.dst # "none"
  /\ LET k == <<r.src, r.dst>>
         used == flow_to_port_dict[k] \cup {r.port} IN
     /\ flow_to_port_dict' = [flow_to_port_dict EXCEPT ![k] = used]
     /\ IF Detected(k, used)
        THEN /\ scanner' = "prefix" /\ recent' = TRUE
             /\ treated_flows' = treated_flows \cup {k}
             /\ \E id \in ThreshIds : treating' = [key |-> k, id |-> id]
        ELSE UNCHANGED <<scanner, recent, treated_flows, treating>>
  /\ UNCHANGED <<scanStore, excused>>

(* treat_flow: two requests, whose answers are only logged. The interface    *)
(* refuses an id it has.                                                     *)
Post(kind, next) ==
  /\ scanner = kind /\ scanner' = next
  /\ LET t == [kind |-> kind, id |-> treating.id, src |-> treating.key[1]] IN
     IF \E u \in scanStore : u.kind = kind /\ u.id = t.id
     THEN /\ excused' = excused \cup (IF t \in scanStore THEN {} ELSE {t.src})
          /\ UNCHANGED scanStore
     ELSE scanStore' = scanStore \cup {t} /\ UNCHANGED excused
  /\ treating' = IF next = "track" THEN NoTreatment ELSE treating
  /\ UNCHANGED <<flow_to_port_dict, treated_flows, recent>>

treat_flow == Post("prefix", "interfix") \/ Post("interfix", "track")

(* An operator removes a threshold; ten seconds pass.                        *)
Remove ==
  /\ \E t \in scanStore : scanStore' = scanStore \ {t} /\ excused' = excused \cup {t.src}
  /\ UNCHANGED <<scanner, memory>>

Expire ==
  /\ recent /\ recent' = FALSE
  /\ UNCHANGED <<scanner, flow_to_port_dict, treated_flows, treating, scanStore, excused>>

Next == Start \/ Register \/ End \/ read_ipfix \/ (\E r \in Records : Track(r))
          \/ treat_flow \/ Remove \/ Expire
-----------------------------------------------------------------------------
TypeOK ==
  /\ scanner \in {"down", "register", "query", "track", "prefix", "interfix"}
  /\ flow_to_port_dict \in [Keys -> SUBSET Ports] /\ treated_flows \subseteq Keys
  /\ recent \in BOOLEAN
  /\ treating \in [key : Keys, id : ThreshIds] \cup {NoTreatment}
  /\ scanStore \subseteq [kind : Kinds, id : ThreshIds, src : Sources]
  /\ excused \subseteq Sources

Blocked(src) ==
  \A kind \in Kinds : \E t \in scanStore : t.kind = kind /\ t.src = src

(* A pair that used too many ports is blocked by both thresholds by the time *)
(* the application polls again, whatever else it treated since, unless the   *)
(* operator removed one or an id that was taken already had one refused.     *)
ScannersAreBlocked ==
  scanner = "query" =>
    \A k \in Keys : Cardinality(flow_to_port_dict[k]) > PortThresholdCount =>
                      Blocked(k[1]) \/ k[1] \in excused
=============================================================================
