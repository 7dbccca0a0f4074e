--------------------------- MODULE FlowStatistics ---------------------------
(***************************************************************************)
(* The flow statistics of the coordinator's IPFIX handler, fed by the      *)
(* exporter over UDP: differences and rates between two records of a flow  *)
(* and the average of the rates. A flow is a 4-tuple here, without device  *)
(* and protocol.                                                           *)
(***************************************************************************)
EXTENDS Exporter

CONSTANTS
  Key,       \* [Flows -> keys]: the 4-tuple in a flow's records
  Elapsed    \* seconds there may be between two records of a flow

ASSUME ElapsedAssumption == Elapsed \subseteq Nat

Keys == {Key[f] : f \in Flows}
Day == 86400
NoRecord == [kind |-> "none"]

VARIABLES
  last,    \* _delta_bps: the last record of a flow
  avg,     \* _avg_bps: sum and number of the rates
  first,   \* history: counter of the first record of a flow
  unrated  \* history: sum of the differences no rate was made of

statistics == <<last, avg, first, unrated>>
vars == <<exporter, statistics>>
-----------------------------------------------------------------------------
Init == /\ ExporterInit
        /\ last = [k \in Keys |-> NoRecord]
        /\ avg = [k \in Keys |-> [total |-> 0, count |-> 0]]
        /\ first = [k \in Keys |-> 0]
        /\ unrated = [k \in Keys |-> 0]

(* timedelta.seconds leaves whole days out; a rate is rounded down here. *)
Seconds(t) == t % Day

Known(k) == last[k] # NoRecord
Rated(k, t) == Known(k) /\ Seconds(t) > 0
ByteDiff(k, m) == m.octets - last[k].octets
DeltaBps(k, m, t) == ByteDiff(k, m) \div Seconds(t)

(* IPFIX.handle: _delta_bps, _avg_bps. *)
RememberRated(k, m, t) == last' = IF Known(k) /\ ~Rated(k, t) THEN last   \* mutant
                                  ELSE [last EXCEPT ![k] = m]
Remember(k, m, t) == last' = [last EXCEPT ![k] = m]

Average(k, m, t) ==
  avg' = IF Rated(k, t)
         THEN [avg EXCEPT ![k].total = @ + DeltaBps(k, m, t), ![k].count = @ + 1]
         ELSE avg

History(k, m, t) ==
  /\ first' = IF Known(k) THEN first ELSE [first EXCEPT ![k] = m.octets]
  /\ unrated' = IF Known(k) /\ ~Rated(k, t)
                THEN [unrated EXCEPT ![k] = @ + ByteDiff(k, m)] ELSE unrated

(* A datagram arrives, perhaps not for the last time, t seconds after the    *)
(* last one of its flow.                                                     *)
Handle(m, t) ==
  /\ m \in net
  /\ Remember(Key[m.flow], m, t)
  /\ Average(Key[m.flow], m, t)
  /\ History(Key[m.flow], m, t)
  /\ \/ net' = net \ {m} /\ UNCHANGED bounds
     \/ UNCHANGED net /\ Event("copy")
  /\ UNCHANGED <<switches, entries, packets, removed, inquiry, owed, sightings, finals>>

Next == \/ ExporterNext /\ UNCHANGED statistics
        \/ \E m \in net, t \in Elapsed : Handle(m, t)

Spec == Init /\ [][Next]_vars
-----------------------------------------------------------------------------
StatisticsTypeOK ==
  /\ last \in [Keys -> Datagrams \cup {NoRecord}]
  /\ avg \in [Keys -> [total : Int, count : Nat]]
  /\ first \in [Keys -> Nat] /\ unrated \in [Keys -> Int]
  /\ \A k \in Keys : /\ Known(k) => Key[last[k].flow] = k
                     /\ avg[k].count > 0 => Known(k)

TypeOK == ExporterTypeOK /\ StatisticsTypeOK

(* With records a second or whole days apart, the rates a flow's average is  *)
(* made of add up to what its counter grew by since its first record, less   *)
(* what no rate was made of: growth is neither lost nor counted twice when a *)
(* record comes too soon to yield a rate.                                    *)
RatesAddUp ==
  \A k \in Keys :
    Known(k) => avg[k].total + unrated[k] = last[k].octets - first[k]

(* When the counter of a flow goes back between two records, and its rate is *)
(* negative, the second one is a prefix record, they are of two devices, two *)
(* protocols or two rules, or the network reordered them: what the exporter  *)
(* says of one rule at one device never goes back, the final record included.*)
Comparable(a, b) == /\ a.dev = b.dev /\ a.flow = b.flow /\ a.life = b.life
                    /\ b.kind # "prefix" /\ a.at <= b.at

CountersGrow ==
  \A k \in Keys : (Known(k) /\ Comparable(last[k], last'[k])) =>
                    last'[k].octets >= last[k].octets
CountersGoBackForCause == [][CountersGrow]_vars
=============================================================================
