------------------------------ MODULE Exporter ------------------------------
(***************************************************************************)
(* The flow monitor and the IPFIX application of the controller: the first *)
(* packet of a flow at a switch is punted and gets a temporary monitoring  *)
(* rule and a prefix record; the rule counts the flow, a query reports     *)
(* what is known of its count (interfix), its removal reports it a last    *)
(* time (ipfix). The records go to the coordinator's collectors over UDP.  *)
(*                                                                         *)
(* A monitoring rule is named by the flow it was made for. The threads of  *)
(* the controller (packets, rule bounds, queries, requests) interleave     *)
(* with each other and with the switches.                                  *)
(***************************************************************************)
EXTENDS Integers, FiniteSets

CONSTANTS
  Devices,
  Flows,
  Unfit,      \* flows whose selector cannot be built, or IPv6 ones
  Covers,     \* [Flows -> SUBSET Flows]: the flows a flow's rule matches
  Budgets,    \* bounds: [event -> how many of them], one is chosen at the start
  MaxNet      \* bound: datagrams in flight

ASSUME CoversAssumption ==
  Covers \in [Flows -> SUBSET Flows] /\ \A f \in Flows : f \in Covers[f]
ASSUME UnfitAssumption == Unfit \subseteq Flows

Occurrences == {"packet", "poll", "timeout", "add", "query", "leave", "copy"}
ASSUME BudgetsAssumption == Budgets \subseteq [Occurrences -> Nat]

VARIABLES
  present,  \* devices the device service knows
  table,    \* flows with a rule in a switch's IPFIX_TABLE
  octets,   \* counters of those rules
  store,    \* state of the controller's flow entries
  known,    \* their counters, as last polled
  life,     \* history: how often an entry was made
  punted,   \* packets sent to the controller, not processed yet
  half,     \* packets whose rule is applied and whose prefix record is not sent
  removed,  \* RULE_REMOVED events not delivered to the listener yet
  querying, \* a query is in progress
  query,    \* devices it has not reached
  net,      \* datagrams in flight
  left,     \* how many of the events may come still
  clock,    \* history: number of events so far
  owed,     \* history: entries the query in progress has to report still
  seen,     \* history: flows a packet of which reached a device
  announced, \* history: flows whose prefix record was sent
  covered,  \* history: flows a rule counted before a packet of theirs was punted
  ended,    \* history: number of rules that timed out
  reported  \* history: number of final records

switches == <<present, table, octets>>
entries == <<store, known, life>>
inquiry == <<querying, query>>
packets == <<punted, half>>
sightings == <<seen, announced, covered>>
finals == <<ended, reported>>
bounds == <<left, clock>>
exporter == <<switches, entries, packets, removed, inquiry, net, bounds, owed,
              sightings, finals>>

Points == Devices \X Flows     \* a flow at a device
-----------------------------------------------------------------------------
ExporterInit ==
  /\ present = Devices
  /\ table = [d \in Devices |-> {}]
  /\ octets = [p \in Points |-> 0]
  /\ store = [p \in Points |-> "none"]
  /\ known = [p \in Points |-> 0] /\ life = [p \in Points |-> 0]
  /\ punted = {} /\ half = {} /\ removed = {}
  /\ querying = FALSE /\ query = {} /\ owed = {}
  /\ net = {} /\ left \in Budgets /\ clock = 0
  /\ seen = {} /\ announced = {} /\ covered = {}
  /\ ended = [d \in Devices |-> 0] /\ reported = [d \in Devices |-> 0]

Event(o) == /\ left[o] > 0
            /\ left' = [left EXCEPT ![o] = @ - 1]
            /\ clock' = clock + 1

Here(d) == d \in present
Entries(d) == {p \in {d} \X Flows : store[p] # "none"}

(* createIpfixFlowRecord. life and at, the rule it reports on and the moment *)
(* it was made, are the model's.                                             *)
Record(kind, p, n, l, t) == [kind |-> kind, dev |-> p[1], flow |-> p[2],
                             octets |-> n, life |-> l, at |-> t]

(* sendRecords: what there is no room for (MaxNet) is lost at once. *)
SendAll(ms) == net' = IF Cardinality(net \cup ms) <= MaxNet THEN net \cup ms ELSE net
-----------------------------------------------------------------------------
(* A packet of a flow at a switch is counted by a rule that matches it, or   *)
(* punted. Rules have one priority: if several match, any of them counts.    *)
Matching(p) == {g \in table[p[1]] : p[2] \in Covers[g]}

Count(p) == \E g \in Matching(p) :
              /\ octets' = [octets EXCEPT ![<<p[1], g>>] = @ + 1]
              /\ covered' = IF p \in announced \cup half \cup punted
                            THEN covered ELSE covered \cup {p}
              /\ UNCHANGED punted

Punt(p) == /\ Matching(p) = {}
           /\ punted' = punted \cup {p}
           /\ UNCHANGED <<octets, covered>>

Packet(p) == /\ Here(p[1]) /\ Event("packet")
             /\ Count(p) \/ Punt(p)
             /\ seen' = seen \cup {p}
             /\ UNCHANGED <<present, table, entries, half, removed, inquiry, net,
                            owed, announced, finals>>

(* installIpfixRule: an entry of the same identity is replaced by a new one. *)
Apply(ps) == /\ store' = [p \in Points |-> IF p \in ps THEN "pending" ELSE store[p]]
             /\ known' = [p \in Points |-> IF p \in ps THEN 0 ELSE known[p]]
             /\ life' = [p \in Points |-> IF p \in ps THEN life[p] + 1 ELSE life[p]]

(* FlowMonitorPacketProcessor.process, up to addSingleIpfix: it returns or   *)
(* raises for an unfit flow, and raises if the device is gone.               *)
InstallsUnlessKnown(p) == store[p] = "none" /\ Here(p[1]) /\ p[2] \notin Unfit  \* mutant
Installs(p) == Here(p[1]) /\ p[2] \notin Unfit

Process(p) == /\ p \in punted
              /\ punted' = punted \ {p}
              /\ IF Installs(p) THEN Apply({p}) /\ half' = half \cup {p}
                                ELSE UNCHANGED <<entries, half>>
              /\ UNCHANGED <<switches, removed, inquiry, net, bounds, owed,
                             sightings, finals>>

(* ... and the prefix record, whose counters are zero. *)
SendPrefix(p) == /\ p \in half
                 /\ half' = half \ {p}
                 /\ IF Here(p[1])
                    THEN /\ SendAll({Record("prefix", p, 0, life[p], clock)})
                         /\ announced' = announced \cup {p}
                    ELSE UNCHANGED <<net, announced>>
                 /\ UNCHANGED <<switches, entries, punted, removed, inquiry, bounds,
                                owed, seen, covered, finals>>

(* /ipfix/add: a rule on every device, and no prefix record. *)
AddIpfix(f) == /\ f \notin Unfit /\ Event("add")
               /\ Apply(present \X {f})
               /\ UNCHANGED <<switches, packets, removed, inquiry, net, owed,
                              sightings, finals>>

(* The switch takes the rule; for one it had it may keep the counter or not. *)
TakenLater(p) == table                                              \* mutant
Taken(p) == [table EXCEPT ![p[1]] = @ \cup {p[2]}]

Install(p) == /\ store[p] = "pending" /\ Here(p[1])
              /\ store' = [store EXCEPT ![p] = "added"]
              /\ table' = Taken(p)
              /\ \E n \in {0, IF p[2] \in table[p[1]] THEN octets[p] ELSE 0} :
                   octets' = [octets EXCEPT ![p] = n]
              /\ UNCHANGED <<present, known, life, packets, removed, inquiry, net,
                             bounds, owed, sightings, finals>>

(* The controller reads the counters of a switch, every few seconds. *)
ReadCounters(d) ==
  /\ Here(d) /\ Event("poll")
  /\ known' = [p \in Points |-> IF p[1] = d /\ store[p] = "added"
                                THEN octets[p] ELSE known[p]]
  /\ known' # known
  /\ UNCHANGED <<switches, store, life, packets, removed, inquiry, net, owed,
                 sightings, finals>>

(* A rule was idle for its timeout. The event has the counter of the entry   *)
(* as polled or as the switch reports it.                                    *)
Timeout(p) ==
  /\ store[p] = "added" /\ Here(p[1]) /\ Event("timeout")
  /\ store' = [store EXCEPT ![p] = "none"]
  /\ table' = [table EXCEPT ![p[1]] = @ \ {p[2]}]
  /\ \E n \in {known[p], octets[p]} :
       removed' = removed \cup {Record("ipfix", p, n, life[p], clock + 1)}
  /\ ended' = [ended EXCEPT ![p[1]] = @ + 1]
  /\ owed' = owed \ {p}
  /\ UNCHANGED <<present, octets, known, life, packets, inquiry, net, sightings,
                 reported>>

(* IpfixManager.event; createIpfixFlowRecord raises if the device is gone.   *)
FinalZero(e) == [e EXCEPT !.octets = 0]       \* mutant: the counters of a prefix
Final(e) == e
MineActive(e) == Here(e.dev) /\ e.octets > 0  \* mutant: as cleanIpfixRules did
Mine(e) == Here(e.dev)

Notify(e) == /\ e \in removed
             /\ removed' = removed \ {e}
             /\ IF Mine(e)
                THEN /\ SendAll({Final(e)})
                     /\ reported' = [reported EXCEPT ![e.dev] = @ + 1]
                ELSE UNCHANGED <<net, reported>>
             /\ UNCHANGED <<switches, entries, packets, inquiry, bounds, owed,
                            sightings, ended>>

(* getFlowEntries, for the interfix poll or an operator. *)
StartQuery == /\ ~querying /\ Event("query")
              /\ querying' = TRUE /\ query' = present
              /\ owed' = UNION {Entries(d) : d \in present}
              /\ UNCHANGED <<switches, entries, packets, removed, net, sightings, finals>>

ExportedAdded(d) == {p \in Entries(d) : store[p] = "added"}   \* mutant
Exported(d) == Entries(d)

QueryDevice(d) == /\ d \in query
                  /\ Here(d) \/ Entries(d) = {}
                  /\ query' = query \ {d}
                  /\ SendAll({Record("interfix", p, known[p], life[p], clock) :
                                p \in Exported(d)})
                  /\ owed' = owed \ Exported(d)
                  /\ UNCHANGED <<switches, entries, packets, removed, querying,
                                 bounds, sightings, finals>>

EndQuery == /\ querying /\ query = {}
            /\ querying' = FALSE
            /\ UNCHANGED <<switches, entries, packets, removed, query, net, bounds,
                           owed, sightings, finals>>

(* A device that is gone raises out of the query; the rest is not reported.  *)
QueryRaises == /\ \E d \in query : ~Here(d) /\ Entries(d) # {}
               /\ querying' = FALSE /\ query' = {} /\ owed' = {}
               /\ UNCHANGED <<switches, entries, packets, removed, net, bounds,
                              sightings, finals>>

(* The device service forgets a device; its entries stay in the store. *)
Leave(d) == /\ Here(d) /\ Event("leave")
            /\ present' = present \ {d}
            /\ UNCHANGED <<table, octets, entries, packets, removed, inquiry, net,
                           owed, sightings, finals>>

(* UDP. *)
Lose(m) == /\ m \in net
           /\ net' = net \ {m}
           /\ UNCHANGED <<switches, entries, packets, removed, inquiry, bounds, owed,
                          sightings, finals>>

ExporterNext ==
  \/ \E p \in Points : \/ Packet(p) \/ Process(p) \/ SendPrefix(p)
                       \/ Install(p) \/ Timeout(p)
  \/ \E d \in Devices : ReadCounters(d) \/ QueryDevice(d) \/ Leave(d)
  \/ \E f \in Flows : AddIpfix(f)
  \/ \E m \in removed : Notify(m)
  \/ \E m \in net : Lose(m)
  \/ StartQuery \/ EndQuery \/ QueryRaises
-----------------------------------------------------------------------------
Datagrams == [kind : {"prefix", "interfix", "ipfix"}, dev : Devices, flow : Flows,
              octets : Nat, life : Nat, at : Nat]

ExporterTypeOK ==
  /\ present \subseteq Devices
  /\ table \in [Devices -> SUBSET Flows] /\ octets \in [Points -> Nat]
  /\ store \in [Points -> {"none", "pending", "added"}]
  /\ known \in [Points -> Nat] /\ life \in [Points -> Nat]
  /\ \A p \in Points : store[p] = "added" => p[2] \in table[p[1]]
  /\ punted \subseteq Points /\ half \subseteq Points
  /\ removed \subseteq Datagrams /\ net \subseteq Datagrams
  /\ querying \in BOOLEAN /\ query \subseteq Devices
  /\ left \in [Occurrences -> Nat] /\ clock \in Nat
  /\ owed \cup seen \cup announced \cup covered \subseteq Points
  /\ ended \in [Devices -> Nat] /\ reported \in [Devices -> Nat]

(* Every rule that times out is reported in one final record, as long as its *)
(* device stays: none is left out for having counted little or having been   *)
(* added again, and none is reported twice.                                  *)
EveryRuleIsReported ==
  \A d \in present :
    ended[d] = reported[d] + Cardinality({e \in removed : e.dev = d})

(* A query that ends without an exception has reported every entry there was *)
(* when it started and that did not time out meanwhile, those not installed  *)
(* yet or added again during the query among them.                           *)
QueryIsComplete == (querying /\ query = {}) => owed = {}

(* A flow that a device has seen is announced by a prefix record, or about   *)
(* to be, unless another flow's rule or a request's counted its packets      *)
(* first, its selector cannot be built, or the device left.                  *)
SeenIsAnnounced ==
  \A p \in seen :
    \/ p \in announced \cup half \cup punted
    \/ p \in covered \/ p[2] \in Unfit \/ ~Here(p[1])
=============================================================================
