-------------------------------- MODULE Ddos --------------------------------
(***************************************************************************)
(* The DDoS application: it polls for flow records, keeps when it last saw *)
(* each source of each destination, forgets those it has not seen for a    *)
(* period, and asks for the traffic of a destination with too many sources *)
(* to be mirrored to Snort, by a prefix and an interfix threshold.         *)
(***************************************************************************)
EXTENDS Integers, FiniteSets

CONSTANTS
  Dests, Hosts,          \* destinations; sources with their port
  SourceCountThreshold,  \* source_count_threshold of config.json
  Period                 \* its period, in ticks of the clock

DdosAssumption ==
  SourceCountThreshold \in Nat /\ Period \in Nat /\ IsFiniteSet(Hosts)

VARIABLES
  watcher,       \* where the application is
  source_count,  \* destination -> the sources it counts
  heard,         \* destination -> source -> ticks since a record was tracked
  mirroring,     \* the destination install_mirror is at
  mirrors        \* its thresholds at the coordinator

ddosVars == <<watcher, source_count, heard, mirroring, mirrors>>

Kinds == {"prefix", "interfix"}
Never == Period + 1   \* any age above the period

Init ==
  /\ watcher = "down" /\ source_count = [d \in Dests |-> {}]
  /\ heard = [d \in Dests |-> [h \in Hosts |-> Never]]
  /\ mirroring = "none" /\ mirrors = {}

(* __init__: registers once, with a timeout of a second, whatever the answer. *)
Start ==
  /\ watcher = "down" /\ watcher' = "poll" /\ source_count' = [d \in Dests |-> {}]
  /\ UNCHANGED <<heard, mirroring, mirrors>>

(* A request that fails or takes more than a second ends the application; it *)
(* may have been carried out.                                                *)
End ==
  /\ watcher # "down" /\ watcher' = "down" /\ mirroring' = "none"
  /\ source_count' = [d \in Dests |-> {}]
  /\ \/ UNCHANGED mirrors
     \/ /\ watcher \in Kinds
        /\ mirrors' = mirrors \cup {[kind |-> watcher, dst |-> mirroring]}
  /\ UNCHANGED heard

(* sources_clean_up, as soon as an answer has come.                          *)
StaysForEver(d, h) == h \in source_count[d]             \* mutant: nothing goes
Stays(d, h) == h \in source_count[d] /\ heard[d][h] <= Period

sources_clean_up ==
  /\ watcher = "poll" /\ watcher' = "track"
  /\ source_count' = [d \in Dests |-> {h \in Hosts : Stays(d, h)}]
  /\ UNCHANGED <<heard, mirroring, mirrors>>

(* source_tracker: possible_attacks stays empty, so each further record of a *)
(* destination above the threshold has the mirror installed again.           *)
source_tracker(d, h) ==
  /\ watcher = "track"
  /\ source_count' = [source_count EXCEPT ![d] = @ \cup {h}]
  /\ heard' = [heard EXCEPT ![d][h] = 0]
  /\ IF Cardinality(source_count'[d]) > SourceCountThreshold
     THEN watcher' = "prefix" /\ mirroring' = d
     ELSE UNCHANGED <<watcher, mirroring>>
  /\ UNCHANGED mirrors

Sleep ==
  /\ watcher = "track" /\ watcher' = "poll"
  /\ UNCHANGED <<source_count, heard, mirroring, mirrors>>

(* install_mirror: an id that is there is refused, which is logged.          *)
install_mirror ==
  /\ watcher \in Kinds
  /\ mirrors' = mirrors \cup {[kind |-> watcher, dst |-> mirroring]}
  /\ watcher' = IF watcher = "prefix" THEN "interfix" ELSE "track"
  /\ mirroring' = IF watcher = "prefix" THEN mirroring ELSE "none"
  /\ UNCHANGED <<source_count, heard>>

(* Time passes while it sleeps or waits for an answer; what it does with one *)
(* takes none.                                                               *)
Tick ==
  /\ watcher \in {"down", "poll"}
  /\ heard' = [d \in Dests |-> [h \in Hosts |->
                 IF heard[d][h] = Never THEN Never ELSE heard[d][h] + 1]]
  /\ UNCHANGED <<watcher, source_count, mirroring, mirrors>>

(* An operator removes a threshold.                                          *)
Remove ==
  /\ \E t \in mirrors : mirrors' = mirrors \ {t}
  /\ UNCHANGED <<watcher, source_count, heard, mirroring>>

Next == Start \/ End \/ sources_clean_up \/ Sleep \/ install_mirror \/ Tick \/ Remove
          \/ \E d \in Dests, h \in Hosts : source_tracker(d, h)
-----------------------------------------------------------------------------
TypeOK ==
  /\ watcher \in {"down", "poll", "track"} \cup Kinds
  /\ source_count \in [Dests -> SUBSET Hosts]
  /\ heard \in [Dests -> [Hosts -> 0 .. Never]]
  /\ mirroring \in Dests \cup {"none"}
  /\ mirrors \subseteq [kind : Kinds, dst : Dests]

(* A mirror is asked for only while more sources than the threshold have had *)
(* a record for the destination within the period before this answer: those  *)
(* of an earlier one were forgotten before any record was counted.           *)
MirrorsHaveCause ==
  watcher \in Kinds =>
    Cardinality({h \in Hosts : heard[mirroring][h] <= Period}) > SourceCountThreshold

=============================================================================
