------------------------ MODULE FlowStatisticsProofs ------------------------
(***************************************************************************)
(* Proofs about the exporter and the flow statistics, for any devices,     *)
(* flows, rules that cover others, budgets and network.                    *)
(***************************************************************************)
EXTENDS FlowStatistics, FiniteSetTheorems, TLAPS

(* The definitions most steps need: what an action leaves unchanged. *)
LEMMA StillSame ==
  ASSUME UNCHANGED vars
  PROVE  /\ UNCHANGED <<present, table, octets, store, known, life, punted, half>>
         /\ UNCHANGED <<removed, querying, query, net, left, clock, owed>>
         /\ UNCHANGED <<seen, announced, covered, ended, reported>>
         /\ UNCHANGED <<last, avg, first, unrated>>
BY DEF vars, exporter, statistics, switches, entries, packets, inquiry, bounds,
       sightings, finals

-----------------------------------------------------------------------------
(* What a record is, and what may be in flight after sending some. *)
LEMMA RecordType ==
  ASSUME NEW kind \in {"prefix", "interfix", "ipfix"}, NEW p \in Points,
         NEW n \in Nat, NEW l \in Nat, NEW t \in Nat
  PROVE  Record(kind, p, n, l, t) \in Datagrams
BY DEF Record, Datagrams, Points

LEMMA SendAllNet ==
  ASSUME NEW ms, SendAll(ms)
  PROVE  net' \subseteq net \cup ms
BY DEF SendAll

(* Types are kept, one action at a time: the exporter's ... *)
LEMMA SwitchTypes ==
  ASSUME TypeOK, NEW p \in Points,
         Packet(p) \/ Process(p) \/ SendPrefix(p) \/ Install(p) \/ Timeout(p),
         UNCHANGED statistics
  PROVE  TypeOK'
<1> USE DEF TypeOK, ExporterTypeOK
<1>1. StatisticsTypeOK'
  BY DEF StatisticsTypeOK, statistics, Known
<1>2. p[1] \in Devices /\ p[2] \in Flows /\ p = <<p[1], p[2]>>
  BY DEF Points
<1>3. CASE Packet(p)
  <2>1. left' \in [Occurrences -> Nat] /\ clock' \in Nat
    BY <1>3 DEF Packet, Event, Occurrences
  <2>2. CASE Count(p)
    <3>1. PICK g \in Matching(p) : octets' = [octets EXCEPT ![<<p[1], g>>] = @ + 1]
      BY <2>2 DEF Count
    <3>2. <<p[1], g>> \in Points
      BY <1>2 DEF Matching, Points
    <3>3. octets' \in [Points -> Nat]
      BY <3>1, <3>2
    <3>4. covered' \subseteq Points /\ punted' = punted
      BY <2>2 DEF Count
    <3>5. QED
      BY <1>1, <1>3, <2>1, <3>3, <3>4 DEF Packet, entries, inquiry, finals
  <2>3. CASE Punt(p)
    BY <1>1, <1>3, <2>1, <2>3 DEF Packet, Punt, entries, inquiry, finals
  <2>4. QED
    BY <1>3, <2>2, <2>3 DEF Packet
<1>4. CASE Process(p)
  <2>1. /\ store' \in [Points -> {"none", "pending", "added"}]
        /\ known' \in [Points -> Nat] /\ life' \in [Points -> Nat]
        /\ \A q \in Points : store'[q] = "added" => q[2] \in table[q[1]]
        /\ half' \subseteq Points
    BY <1>4 DEF Process, Apply, entries
  <2>2. QED
    BY <1>1, <1>4, <2>1 DEF Process, switches, inquiry, bounds, sightings, finals
<1>5. CASE SendPrefix(p)
  <2>1. Record("prefix", p, 0, life[p], clock) \in Datagrams
    BY RecordType
  <2>2. net' \subseteq Datagrams
    BY <1>5, <2>1, SendAllNet DEF SendPrefix
  <2>3. QED
    BY <1>1, <1>5, <2>2 DEF SendPrefix, switches, entries, inquiry, bounds, finals
<1>6. CASE Install(p)
  <2>1. table' \in [Devices -> SUBSET Flows]
    BY <1>2, <1>6 DEF Install, Taken
  <2>2. octets' \in [Points -> Nat]
    BY <1>6 DEF Install
  <2>3. \A q \in Points : store'[q] = "added" => q[2] \in table'[q[1]]
    BY <1>2, <1>6 DEF Install, Taken, Points
  <2>4. QED
    BY <1>1, <1>6, <2>1, <2>2, <2>3
       DEF Install, packets, inquiry, bounds, sightings, finals
<1>7. CASE Timeout(p)
  <2>1. left' \in [Occurrences -> Nat] /\ clock' \in Nat /\ clock + 1 \in Nat
    BY <1>7 DEF Timeout, Event, Occurrences
  <2>2. PICK n \in {known[p], octets[p]} :
          removed' = removed \cup {Record("ipfix", p, n, life[p], clock + 1)}
    BY <1>7 DEF Timeout
  <2>3. removed' \subseteq Datagrams
    <3>1. n \in Nat
      OBVIOUS
    <3>2. Record("ipfix", p, n, life[p], clock + 1) \in Datagrams
      BY <2>1, <3>1, RecordType
    <3>3. QED
      BY <2>2, <3>2
  <2>4. /\ table' \in [Devices -> SUBSET Flows]
        /\ \A q \in Points : store'[q] = "added" => q[2] \in table'[q[1]]
    BY <1>2, <1>7 DEF Timeout, Points
  <2>5. QED
    BY <1>1, <1>2, <1>7, <2>1, <2>3, <2>4
       DEF Timeout, packets, inquiry, sightings
<1>8. QED
  BY <1>3, <1>4, <1>5, <1>6, <1>7

LEMMA ControllerTypes ==
  ASSUME TypeOK, ExporterNext, UNCHANGED statistics,
         ~\E p \in Points : \/ Packet(p) \/ Process(p) \/ SendPrefix(p)
                            \/ Install(p) \/ Timeout(p)
  PROVE  TypeOK'
<1> USE DEF TypeOK, ExporterTypeOK
<1>1. StatisticsTypeOK'
  BY DEF StatisticsTypeOK, statistics, Known
<1>2. ASSUME NEW d \in Devices, ReadCounters(d) PROVE TypeOK'
  BY <1>1, <1>2 DEF ReadCounters, Event, Occurrences, switches, packets, inquiry,
     sightings, finals
<1>3. ASSUME NEW d \in Devices, QueryDevice(d) PROVE TypeOK'
  <2>1. Exported(d) \subseteq Points
    BY DEF Exported, Entries, Points
  <2>2. {Record("interfix", p, known[p], life[p], clock) : p \in Exported(d)}
          \subseteq Datagrams
    BY <2>1, RecordType
  <2>3. net' \subseteq Datagrams
    BY <1>3, <2>2, SendAllNet DEF QueryDevice
  <2>4. QED
    BY <1>1, <1>3, <2>3 DEF QueryDevice, switches, entries, packets, bounds,
       sightings, finals
<1>4. ASSUME NEW d \in Devices, Leave(d) PROVE TypeOK'
  BY <1>1, <1>4 DEF Leave, Event, Occurrences, entries, packets, inquiry,
     sightings, finals
<1>5. ASSUME NEW f \in Flows, AddIpfix(f) PROVE TypeOK'
  BY <1>1, <1>5 DEF AddIpfix, Apply, Event, Occurrences, switches, packets,
     inquiry, sightings, finals
<1>6. ASSUME NEW m \in removed, Notify(m) PROVE TypeOK'
  <2>1. m.dev \in Devices
    BY DEF Datagrams
  <2>2. net' \subseteq Datagrams
    BY <1>6, SendAllNet DEF Notify, Final
  <2>3. reported' \in [Devices -> Nat]
    BY <1>6, <2>1 DEF Notify
  <2>4. QED
    BY <1>1, <1>6, <2>2, <2>3 DEF Notify, switches, entries, packets, inquiry,
       bounds, sightings
<1>7. ASSUME NEW m \in net, Lose(m) PROVE TypeOK'
  BY <1>1, <1>7 DEF Lose, switches, entries, packets, inquiry, bounds, sightings,
     finals
<1>8. CASE StartQuery
  <2>1. owed' \subseteq Points
    BY <1>8 DEF StartQuery, Entries, Points
  <2>2. QED
    BY <1>1, <1>8, <2>1 DEF StartQuery, Event, Occurrences, switches, entries,
       packets, sightings, finals
<1>9. CASE EndQuery \/ QueryRaises
  BY <1>1, <1>9 DEF EndQuery, QueryRaises, switches, entries, packets, bounds,
     sightings, finals
<1>10. QED
  BY <1>2, <1>3, <1>4, <1>5, <1>6, <1>7, <1>8, <1>9 DEF ExporterNext

(* ... and the handler's. *)
LEMMA HandleTypes ==
  ASSUME TypeOK, NEW m \in net, NEW t \in Elapsed, Handle(m, t)
  PROVE  TypeOK'
<1> USE DEF TypeOK, ExporterTypeOK
<1> DEFINE k == Key[m.flow]
<1>1. m \in Datagrams /\ m.flow \in Flows /\ m.octets \in Nat /\ k \in Keys
  BY DEF Datagrams, Keys
<1>2. m # NoRecord
  BY <1>1 DEF Datagrams, NoRecord
<1>3. ExporterTypeOK'
  BY DEF Handle, Event, Occurrences, bounds, switches, entries, packets, inquiry,
     sightings, finals
<1>4. last' = [last EXCEPT ![k] = m]
  BY DEF Handle, Remember
<1>5. last' \in [Keys -> Datagrams \cup {NoRecord}]
  BY <1>1, <1>4 DEF StatisticsTypeOK
<1>6. Known(k) => ByteDiff(k, m) \in Int
  BY <1>1 DEF Known, ByteDiff, StatisticsTypeOK, Datagrams
<1>7. Seconds(t) \in Nat
  BY ElapsedAssumption DEF Seconds, Day
<1>8. Rated(k, t) => Known(k) /\ DeltaBps(k, m, t) \in Int
  <2>1. \A x \in Int, y \in Nat : y > 0 => x \div y \in Int
    OBVIOUS
  <2>2. QED
    BY <1>6, <1>7, <2>1 DEF Rated, DeltaBps
<1> HIDE DEF k
<1>9. avg' = IF Rated(k, t)
             THEN [avg EXCEPT ![k] = [total |-> avg[k].total + DeltaBps(k, m, t),
                                      count |-> avg[k].count + 1]]
             ELSE avg
  BY <1>1 DEF Handle, Average, k, StatisticsTypeOK
<1>10. avg' \in [Keys -> [total : Int, count : Nat]]
  BY <1>1, <1>8, <1>9 DEF StatisticsTypeOK
<1>11. first' \in [Keys -> Nat] /\ unrated' \in [Keys -> Int]
  BY <1>1, <1>6 DEF Handle, History, k, StatisticsTypeOK
<1>12. ASSUME NEW j \in Keys
       PROVE  /\ Known(j)' => Key[last'[j].flow] = j
              /\ avg'[j].count > 0 => Known(j)'
  <2>1. CASE j = k
    BY <1>1, <1>2, <1>4, <2>1 DEF k, Known, StatisticsTypeOK
  <2>2. CASE j # k
    BY <1>1, <1>4, <1>9, <2>2 DEF Known, StatisticsTypeOK
  <2>3. QED
    BY <2>1, <2>2
<1>13. QED
  BY <1>3, <1>5, <1>10, <1>11, <1>12 DEF StatisticsTypeOK

LEMMA TypeInit == Init => TypeOK
<1> SUFFICES ASSUME Init PROVE TypeOK
  OBVIOUS
<1>1. ExporterTypeOK
  BY BudgetsAssumption DEF Init, ExporterInit, ExporterTypeOK
<1>2. StatisticsTypeOK
  BY DEF Init, StatisticsTypeOK, Known
<1>3. QED
  BY <1>1, <1>2 DEF TypeOK

LEMMA TypeStep == TypeOK /\ [Next]_vars => TypeOK'
<1> SUFFICES ASSUME TypeOK, [Next]_vars PROVE TypeOK'
  OBVIOUS
<1>1. CASE ExporterNext /\ UNCHANGED statistics
  BY <1>1, SwitchTypes, ControllerTypes
<1>2. CASE \E m \in net, t \in Elapsed : Handle(m, t)
  BY <1>2, HandleTypes
<1>3. CASE UNCHANGED vars
  BY <1>3, StillSame DEF TypeOK, ExporterTypeOK, StatisticsTypeOK, Known
<1>4. QED
  BY <1>1, <1>2, <1>3 DEF Next

(* The type invariant: in particular the exporter never believes a rule in a *)
(* switch that has none.                                                     *)
THEOREM TypeCorrect == Spec => []TypeOK
BY TypeInit, TypeStep, PTL DEF Spec

-----------------------------------------------------------------------------
(* A flow that a device has seen stays announced, about to be, or one of the *)
(* exceptions: what each step takes from one of the sets it puts in another. *)
THEOREM SeenAnnounced == Spec => []SeenIsAnnounced
<1>1. Init => SeenIsAnnounced
  BY DEF Init, ExporterInit, SeenIsAnnounced
<1>2. SeenIsAnnounced /\ [Next]_vars => SeenIsAnnounced'
  <2> SUFFICES ASSUME SeenIsAnnounced, [Next]_vars PROVE SeenIsAnnounced'
    OBVIOUS
  <2> USE DEF SeenIsAnnounced, Here
  <2>1. ASSUME NEW p \in Points, Packet(p) PROVE SeenIsAnnounced'
    <3>1. CASE Count(p)
      BY <2>1, <3>1 DEF Packet, Count
    <3>2. CASE Punt(p)
      BY <2>1, <3>2 DEF Packet, Punt
    <3>3. QED
      BY <2>1, <3>1, <3>2 DEF Packet
  <2>2. ASSUME NEW p \in Points, Process(p) PROVE SeenIsAnnounced'
    BY <2>2 DEF Process, Installs, Apply, switches, sightings
  <2>3. ASSUME NEW p \in Points, SendPrefix(p) PROVE SeenIsAnnounced'
    BY <2>3 DEF SendPrefix, switches
  <2>4. ASSUME NEW d \in Devices, Leave(d) PROVE SeenIsAnnounced'
    BY <2>4 DEF Leave, packets, sightings
  <2>5. ASSUME UNCHANGED <<packets, present, sightings>> PROVE SeenIsAnnounced'
    BY <2>5 DEF packets, sightings
  <2>6. CASE ExporterNext
    BY <2>1, <2>2, <2>3, <2>4, <2>5, <2>6
       DEF ExporterNext, Install, Timeout, ReadCounters, QueryDevice, AddIpfix, Notify,
           Lose, StartQuery, EndQuery, QueryRaises, switches
  <2>7. ASSUME NEW m \in net, NEW t \in Elapsed, Handle(m, t) PROVE SeenIsAnnounced'
    BY <2>5, <2>7 DEF Handle, switches
  <2>8. CASE UNCHANGED vars
    BY <2>5, <2>8, StillSame DEF packets, sightings
  <2>9. QED
    BY <2>6, <2>7, <2>8 DEF Next
<1>3. QED
  BY <1>1, <1>2, PTL DEF Spec

-----------------------------------------------------------------------------
(* What a query owes is an entry of a device it has not reached yet. *)
OwedInv ==
  /\ owed \subseteq Points /\ present \subseteq Devices
  /\ store \in [Points -> {"none", "pending", "added"}]
  /\ \A p \in owed : p[1] \in query /\ store[p] # "none"

LEMMA OwedInit == Init => OwedInv
BY DEF Init, ExporterInit, OwedInv

LEMMA OwedStep == OwedInv /\ [Next]_vars => OwedInv'
<1> SUFFICES ASSUME OwedInv, [Next]_vars PROVE OwedInv'
  OBVIOUS
<1> USE DEF OwedInv
<1>1. ASSUME NEW ps, Apply(ps), UNCHANGED <<owed, query, present>> PROVE OwedInv'
  BY <1>1 DEF Apply
<1>2. ASSUME NEW p \in Points, Process(p) PROVE OwedInv'
  BY <1>1, <1>2 DEF Process, entries, inquiry, switches
<1>3. ASSUME NEW f \in Flows, AddIpfix(f) PROVE OwedInv'
  BY <1>1, <1>3 DEF AddIpfix, inquiry, switches
<1>4. ASSUME NEW p \in Points, Install(p) PROVE OwedInv'
  BY <1>4 DEF Install, inquiry
<1>5. ASSUME NEW p \in Points, Timeout(p) PROVE OwedInv'
  BY <1>5 DEF Timeout, inquiry
<1>6. CASE StartQuery
  BY <1>6 DEF StartQuery, Entries, Points, entries, switches
<1>7. ASSUME NEW d \in Devices, QueryDevice(d) PROVE OwedInv'
  <2>1. \A p \in owed : p[1] = d => p \in Exported(d)
    BY DEF Exported, Entries, Points
  <2>2. QED
    BY <1>7, <2>1 DEF QueryDevice, entries, switches
<1>8. CASE EndQuery
  BY <1>8 DEF EndQuery, entries, switches
<1>9. CASE QueryRaises
  BY <1>9 DEF QueryRaises, entries, switches
<1>10. ASSUME NEW d \in Devices, Leave(d) PROVE OwedInv'
  BY <1>10 DEF Leave, entries, inquiry
<1>11. ASSUME UNCHANGED <<owed, store, query, present>> PROVE OwedInv'
  BY <1>11
<1>12. CASE ExporterNext
  BY <1>2, <1>3, <1>4, <1>5, <1>6, <1>7, <1>8, <1>9, <1>10, <1>11, <1>12
     DEF ExporterNext, Packet, SendPrefix, ReadCounters, Notify, Lose,
         switches, entries, inquiry
<1>13. ASSUME NEW m \in net, NEW t \in Elapsed, Handle(m, t) PROVE OwedInv'
  BY <1>11, <1>13 DEF Handle, switches, entries, inquiry
<1>14. CASE UNCHANGED vars
  BY <1>11, <1>14, StillSame
<1>15. QED
  BY <1>12, <1>13, <1>14 DEF Next

(* A query that ends without an exception owes nothing. *)
THEOREM QueriesAreComplete == Spec => []QueryIsComplete
<1>1. OwedInv => QueryIsComplete
  BY DEF OwedInv, QueryIsComplete
<1>2. QED
  BY OwedInit, OwedStep, <1>1, PTL DEF Spec

-----------------------------------------------------------------------------
(* The rules that timed out are those reported and those whose event is on   *)
(* its way; an event is new, because it is later than every other.           *)
Outstanding(d) == {e \in removed : e.dev = d}

CountInv ==
  /\ present \subseteq Devices /\ clock \in Nat
  /\ ended \in [Devices -> Nat] /\ reported \in [Devices -> Nat]
  /\ IsFiniteSet(removed)
  /\ \A e \in removed : e.dev \in Devices /\ e.at \in Nat /\ e.at <= clock
  /\ \A d \in present : ended[d] = reported[d] + Cardinality(Outstanding(d))

LEMMA CountInit == Init => CountInv
<1> SUFFICES ASSUME Init PROVE CountInv
  OBVIOUS
<1>1. removed = {} /\ \A d \in Devices : Outstanding(d) = {}
  BY DEF Init, ExporterInit, Outstanding
<1>2. IsFiniteSet({}) /\ Cardinality({}) = 0
  BY FS_EmptySet
<1>3. QED
  BY <1>1, <1>2 DEF Init, ExporterInit, CountInv

LEMMA CountTimeout ==
  ASSUME CountInv, NEW p \in Points, Timeout(p)
  PROVE  CountInv'
<1> USE DEF CountInv
<1>1. PICK n : removed' = removed \cup {Record("ipfix", p, n, life[p], clock + 1)}
  BY DEF Timeout
<1> DEFINE e == Record("ipfix", p, n, life[p], clock + 1)
<1>2. /\ e.dev = p[1] /\ e.at = clock + 1 /\ p[1] \in Devices
      /\ removed' = removed \cup {e}
  BY <1>1 DEF Record, Points
<1>3. clock' = clock + 1 /\ UNCHANGED <<present, reported>>
  BY DEF Timeout, Event
<1>4. ended' = [ended EXCEPT ![p[1]] = @ + 1]
  BY DEF Timeout
<1> HIDE DEF e
<1>5. IsFiniteSet(removed') /\ e \notin removed
  BY <1>2, FS_AddElement
<1>6. ASSUME NEW d \in present
      PROVE  ended'[d] = reported[d] + Cardinality(Outstanding(d)')
  <2>1. IsFiniteSet(Outstanding(d))
    BY FS_Subset DEF Outstanding
  <2>2. CASE d = p[1]
    <3>1. Outstanding(d)' = Outstanding(d) \cup {e} /\ e \notin Outstanding(d)
      BY <1>2, <1>5, <2>2 DEF Outstanding
    <3>2. Cardinality(Outstanding(d)') = Cardinality(Outstanding(d)) + 1
      BY <2>1, <3>1, FS_AddElement
    <3>3. Cardinality(Outstanding(d)) \in Nat
      BY <2>1, FS_CardinalityType
    <3>4. QED
      BY <1>2, <1>4, <2>2, <3>2, <3>3
  <2>3. CASE d # p[1]
    <3>1. Outstanding(d)' = Outstanding(d)
      BY <1>2, <2>3 DEF Outstanding
    <3>2. QED
      BY <1>4, <2>3, <3>1
  <2>4. QED
    BY <2>2, <2>3
<1>7. QED
  BY <1>2, <1>3, <1>4, <1>5, <1>6

LEMMA CountNotify ==
  ASSUME CountInv, NEW e \in removed, Notify(e)
  PROVE  CountInv'
<1> USE DEF CountInv
<1>1. removed' = removed \ {e} /\ UNCHANGED <<present, clock, ended>>
  BY DEF Notify, switches, bounds
<1>2. IsFiniteSet(removed')
  BY <1>1, FS_RemoveElement
<1>3. reported' = IF e.dev \in present THEN [reported EXCEPT ![e.dev] = @ + 1]
                                       ELSE reported
  BY DEF Notify, Mine, Here
<1>4. ASSUME NEW d \in present
      PROVE  ended[d] = reported'[d] + Cardinality(Outstanding(d)')
  <2>1. IsFiniteSet(Outstanding(d))
    BY FS_Subset DEF Outstanding
  <2>2. CASE d = e.dev
    <3>1. Outstanding(d)' = Outstanding(d) \ {e} /\ e \in Outstanding(d)
      BY <1>1, <2>2 DEF Outstanding
    <3>2. Cardinality(Outstanding(d)') = Cardinality(Outstanding(d)) - 1
      BY <2>1, <3>1, FS_RemoveElement
    <3>3. Cardinality(Outstanding(d)) \in Nat
      BY <2>1, FS_CardinalityType
    <3>4. QED
      BY <1>3, <2>2, <3>2, <3>3
  <2>3. CASE d # e.dev
    <3>1. Outstanding(d)' = Outstanding(d)
      BY <1>1, <2>3 DEF Outstanding
    <3>2. QED
      BY <1>3, <2>3, <3>1
  <2>4. QED
    BY <2>2, <2>3
<1>5. reported' \in [Devices -> Nat]
  BY <1>3
<1>6. QED
  BY <1>1, <1>2, <1>4, <1>5

LEMMA CountStep == CountInv /\ [Next]_vars => CountInv'
<1> SUFFICES ASSUME CountInv, [Next]_vars PROVE CountInv'
  OBVIOUS
<1>1. ASSUME UNCHANGED <<removed, ended, reported>>, present' \subseteq present,
             clock' = clock \/ clock' = clock + 1
      PROVE  CountInv'
  <2>1. \A d : Outstanding(d)' = Outstanding(d)
    BY <1>1 DEF Outstanding
  <2>2. QED
    BY <1>1, <2>1 DEF CountInv
<1>2. ASSUME NEW p \in Points, Timeout(p) PROVE CountInv'
  BY <1>2, CountTimeout
<1>3. ASSUME NEW e \in removed, Notify(e) PROVE CountInv'
  BY <1>3, CountNotify
<1>4. ASSUME NEW p \in Points,
             Packet(p) \/ Process(p) \/ SendPrefix(p) \/ Install(p)
      PROVE  CountInv'
  BY <1>1, <1>4 DEF Packet, Process, SendPrefix, Install, Event, switches, bounds, finals
<1>5. ASSUME NEW d \in Devices, ReadCounters(d) \/ QueryDevice(d) \/ Leave(d)
      PROVE  CountInv'
  BY <1>1, <1>5 DEF ReadCounters, QueryDevice, Leave, Event, switches, bounds, finals
<1>6. ASSUME NEW f \in Flows, AddIpfix(f) PROVE CountInv'
  BY <1>1, <1>6 DEF AddIpfix, Event, switches, finals
<1>7. ASSUME NEW m \in net, Lose(m) PROVE CountInv'
  BY <1>1, <1>7 DEF Lose, switches, bounds, finals
<1>8. CASE StartQuery \/ EndQuery \/ QueryRaises
  BY <1>1, <1>8 DEF StartQuery, EndQuery, QueryRaises, Event, switches, bounds, finals
<1>9. ASSUME NEW m \in net, NEW t \in Elapsed, Handle(m, t) PROVE CountInv'
  BY <1>1, <1>9 DEF Handle, Event, switches, bounds, finals
<1>10. CASE UNCHANGED vars
  BY <1>1, <1>10, StillSame
<1>11. CASE ExporterNext
  BY <1>2, <1>3, <1>4, <1>5, <1>6, <1>7, <1>8, <1>11 DEF ExporterNext
<1>12. QED
  BY <1>9, <1>10, <1>11 DEF Next

(* Each rule that times out has exactly one final record, sent or on its way, *)
(* as long as its device stays.                                               *)
THEOREM EveryRuleReported == Spec => []EveryRuleIsReported
<1>1. CountInv => EveryRuleIsReported
  BY DEF CountInv, EveryRuleIsReported, Outstanding
<1>2. QED
  BY CountInit, CountStep, <1>1, PTL DEF Spec

-----------------------------------------------------------------------------
(* What was said of a rule, in flight, on its way to the listener or the last *)
(* record of a flow, is ordered by when it was said, and is no more than what *)
(* the controller knows; nothing said of an earlier rule is of this one.      *)
Said == removed \cup net \cup {last[k] : k \in {j \in Keys : Known(j)}}

Ordered(a, b) == Comparable(a, b) => a.octets <= b.octets

Bounded(a) ==
  /\ a.at <= clock /\ a.life <= life[<<a.dev, a.flow>>]
  /\ (/\ a.life = life[<<a.dev, a.flow>>] /\ store[<<a.dev, a.flow>>] # "none")
       => a.octets <= known[<<a.dev, a.flow>>]
  /\ (/\ a.life = life[<<a.dev, a.flow>>] /\ store[<<a.dev, a.flow>>] # "none"
      /\ a.kind # "prefix" /\ a.at = clock)
       => a.octets = known[<<a.dev, a.flow>>]

CounterInv ==
  /\ \A a, b \in Said : Ordered(a, b)
  /\ \A a \in Said : Bounded(a)
  /\ \A p \in Points : /\ store[p] = "added" => known[p] <= octets[p]
                       /\ store[p] = "pending" => known[p] = 0

LEMMA SaidType == TypeOK => Said \subseteq Datagrams
BY DEF TypeOK, ExporterTypeOK, StatisticsTypeOK, Said, Known

LEMMA CounterInit == Init => CounterInv
<1> SUFFICES ASSUME Init PROVE CounterInv
  OBVIOUS
<1>1. Said = {}
  BY DEF Init, ExporterInit, Said, Known
<1>2. \A p \in Points : store[p] = "none"
  BY DEF Init, ExporterInit
<1>3. QED
  BY <1>1, <1>2 DEF CounterInv

(* Nothing new is said, and the rules are as they were. *)
LEMMA CounterKept ==
  ASSUME TypeOK, CounterInv, UNCHANGED <<store, known, life>>, Said' \subseteq Said,
         clock' = clock \/ clock' = clock + 1,
         \A p \in Points : store[p] = "added" => octets'[p] >= octets[p],
         octets' \in [Points -> Nat]
  PROVE  CounterInv'
<1> USE DEF TypeOK, ExporterTypeOK
<1>1. ASSUME NEW a \in Said' PROVE Bounded(a)'
  <2>1. a \in Said /\ a \in Datagrams /\ Bounded(a)
    BY SaidType DEF CounterInv
  <2>2. QED
    BY <2>1 DEF Bounded, Datagrams
<1>2. ASSUME NEW a \in Said', NEW b \in Said' PROVE Ordered(a, b)
  BY DEF CounterInv
<1>3. QED
  BY <1>1, <1>2 DEF CounterInv, Ordered, Comparable

(* A rule is made (again): its life is new. *)
LEMMA CounterApply ==
  ASSUME TypeOK, CounterInv, NEW ps, Apply(ps), UNCHANGED <<octets, removed, net, last>>,
         clock' = clock \/ clock' = clock + 1
  PROVE  CounterInv'
<1> USE DEF TypeOK, ExporterTypeOK
<1>1. Said' = Said
  BY DEF Said, Known
<1>2. ASSUME NEW a \in Said PROVE Bounded(a)'
  <2> DEFINE p == <<a.dev, a.flow>>
  <2>1. a \in Datagrams /\ Bounded(a) /\ p \in Points
    BY SaidType DEF CounterInv, Datagrams, Points
  <2>2. a.life \in Nat /\ a.at \in Nat /\ life[p] \in Nat
    BY <2>1 DEF Datagrams
  <2>3. CASE p \in ps
    BY <2>1, <2>2, <2>3 DEF Apply, Bounded
  <2>4. CASE p \notin ps
    BY <2>1, <2>2, <2>4 DEF Apply, Bounded
  <2>5. QED
    BY <2>3, <2>4
<1>3. \A p \in Points : /\ store'[p] = "added" => known'[p] <= octets'[p]
                        /\ store'[p] = "pending" => known'[p] = 0
  BY DEF Apply, CounterInv
<1>4. QED
  BY <1>1, <1>2, <1>3 DEF CounterInv, Ordered, Comparable

LEMMA CounterInstall ==
  ASSUME TypeOK, CounterInv, NEW p \in Points, Install(p), UNCHANGED last
  PROVE  CounterInv'
<1> USE DEF TypeOK, ExporterTypeOK
<1>1. Said' = Said /\ UNCHANGED <<clock, life, known>>
  BY DEF Install, Said, Known, bounds
<1>2. ASSUME NEW a \in Said PROVE Bounded(a)'
  <2>1. Bounded(a) /\ a \in Datagrams
    BY SaidType DEF CounterInv
  <2>2. <<a.dev, a.flow>> \in Points
    BY <2>1 DEF Datagrams, Points
  <2>3. store'[<<a.dev, a.flow>>] # "none" => store[<<a.dev, a.flow>>] # "none"
    BY <2>2 DEF Install
  <2>4. QED
    BY <1>1, <2>1, <2>3 DEF Bounded
<1>3. \A q \in Points : /\ store'[q] = "added" => known'[q] <= octets'[q]
                        /\ store'[q] = "pending" => known'[q] = 0
  BY <1>1 DEF Install, CounterInv
<1>4. QED
  BY <1>1, <1>2, <1>3 DEF CounterInv, Ordered, Comparable

LEMMA CounterRead ==
  ASSUME TypeOK, CounterInv, NEW d \in Devices, ReadCounters(d), UNCHANGED last
  PROVE  CounterInv'
<1> USE DEF TypeOK, ExporterTypeOK
<1>1. Said' = Said /\ UNCHANGED <<life, octets, store>> /\ clock' = clock + 1
  BY DEF ReadCounters, Said, Known, switches, Event
<1>2. \A p \in Points : known'[p] >= known[p] /\ known'[p] \in Nat
  BY DEF ReadCounters, CounterInv
<1>3. ASSUME NEW a \in Said PROVE Bounded(a)'
  <2>1. Bounded(a) /\ a \in Datagrams
    BY SaidType DEF CounterInv
  <2>2. <<a.dev, a.flow>> \in Points /\ a.at \in Nat /\ a.octets \in Nat
    BY <2>1 DEF Datagrams, Points
  <2>3. QED
    BY <1>1, <1>2, <2>1, <2>2 DEF Bounded
<1>4. \A q \in Points : /\ store'[q] = "added" => known'[q] <= octets'[q]
                        /\ store'[q] = "pending" => known'[q] = 0
  BY <1>1 DEF ReadCounters, CounterInv
<1>5. QED
  BY <1>1, <1>3, <1>4 DEF CounterInv, Ordered, Comparable

(* New records: what the controller knows of rules there are. *)
LEMMA CounterQuery ==
  ASSUME TypeOK, CounterInv, NEW d \in Devices, QueryDevice(d), UNCHANGED last
  PROVE  CounterInv'
<1> USE DEF TypeOK, ExporterTypeOK
<1>1. UNCHANGED <<life, octets, store, known, clock, removed>>
  BY DEF QueryDevice, switches, entries, bounds
<1> DEFINE New == {Record("interfix", p, known[p], life[p], clock) : p \in Exported(d)}
<1>2. Said' \subseteq Said \cup New
  <2>1. net' \subseteq net \cup New
    BY SendAllNet DEF QueryDevice
  <2>2. QED
    BY <1>1, <2>1 DEF Said, Known
<1>3. ASSUME NEW a \in New
      PROVE  \E p \in Points : /\ store[p] # "none" /\ p = <<a.dev, a.flow>>
                               /\ a.octets = known[p] /\ a.life = life[p]
                               /\ a.at = clock /\ a.kind = "interfix"
  <2>1. PICK p \in Exported(d) : a = Record("interfix", p, known[p], life[p], clock)
    OBVIOUS
  <2>2. p \in Points /\ store[p] # "none"
    BY DEF Exported, Entries, Points
  <2>3. p = <<a.dev, a.flow>>
    BY <2>1, <2>2 DEF Record, Points
  <2>4. QED
    BY <2>1, <2>2, <2>3 DEF Record
<1> HIDE DEF New
<1>4. ASSUME NEW a \in Said' PROVE Bounded(a)
  <2>1. CASE a \in Said
    BY <2>1 DEF CounterInv
  <2>2. CASE a \in New
    BY <1>3, <2>2 DEF Bounded
  <2>3. QED
    BY <1>2, <2>1, <2>2
<1>5. ASSUME NEW a \in Said', NEW b \in Said' PROVE Ordered(a, b)
  <2>1. CASE a \in Said /\ b \in Said
    BY <2>1 DEF CounterInv
  <2>2. CASE b \in New
    BY <1>3, <1>4, <2>2 DEF Ordered, Comparable, Bounded
  <2>3. CASE a \in New /\ b \in Said
    <3>1. b \in Datagrams /\ Bounded(b)
      BY <1>4, <2>3, SaidType DEF CounterInv
    <3>2. b.at \in Nat /\ b.octets \in Nat
      BY <3>1 DEF Datagrams
    <3>3. QED
      BY <1>3, <2>3, <3>1, <3>2 DEF Ordered, Comparable, Bounded
  <2>4. QED
    BY <1>2, <2>1, <2>2, <2>3
<1>6. QED
  BY <1>1, <1>4, <1>5 DEF CounterInv, Ordered, Comparable, Bounded

LEMMA CounterPrefix ==
  ASSUME TypeOK, CounterInv, NEW p \in Points, SendPrefix(p), UNCHANGED last
  PROVE  CounterInv'
<1> USE DEF TypeOK, ExporterTypeOK
<1>1. UNCHANGED <<life, octets, store, known, clock, removed>>
  BY DEF SendPrefix, switches, entries, bounds
<1> DEFINE e == Record("prefix", p, 0, life[p], clock)
<1>2. Said' \subseteq Said \cup {e}
  <2>1. net' \subseteq net \cup {e}
    BY SendAllNet DEF SendPrefix
  <2>2. QED
    BY <1>1, <2>1 DEF Said, Known
<1>3. /\ e.kind = "prefix" /\ e.octets = 0 /\ e.life = life[p] /\ e.at = clock
      /\ p = <<e.dev, e.flow>>
  BY DEF Record, Points
<1> HIDE DEF e
<1>4. ASSUME NEW a \in Said' PROVE Bounded(a)
  BY <1>2, <1>3 DEF CounterInv, Bounded
<1>5. ASSUME NEW a \in Said', NEW b \in Said' PROVE Ordered(a, b)
  <2>1. CASE a \in Said /\ b \in Said
    BY <2>1 DEF CounterInv
  <2>2. CASE b = e
    BY <1>3, <2>2 DEF Ordered, Comparable
  <2>3. CASE a = e /\ b \in Said
    <3>1. b.octets \in Nat
      BY <2>3, SaidType DEF Datagrams
    <3>2. QED
      BY <1>3, <2>3, <3>1 DEF Ordered
  <2>4. QED
    BY <1>2, <2>1, <2>2, <2>3
<1>6. QED
  BY <1>1, <1>4, <1>5 DEF CounterInv, Ordered, Comparable, Bounded

LEMMA CounterTimeout ==
  ASSUME TypeOK, CounterInv, NEW p \in Points, Timeout(p), UNCHANGED last
  PROVE  CounterInv'
<1> USE DEF TypeOK, ExporterTypeOK
<1>1. /\ UNCHANGED <<life, octets, known, net>> /\ clock' = clock + 1
      /\ store' = [store EXCEPT ![p] = "none"] /\ store[p] = "added"
  BY DEF Timeout, Event
<1>2. PICK n \in {known[p], octets[p]} :
        removed' = removed \cup {Record("ipfix", p, n, life[p], clock + 1)}
  BY DEF Timeout
<1> DEFINE e == Record("ipfix", p, n, life[p], clock + 1)
<1>3. Said' = Said \cup {e}
  BY <1>1, <1>2 DEF Said, Known
<1>4. /\ e.octets = n /\ e.life = life[p] /\ e.at = clock + 1
      /\ p = <<e.dev, e.flow>>
  BY DEF Record, Points
<1>5. n \in Nat /\ known[p] <= n
  BY <1>1 DEF CounterInv
<1> HIDE DEF e
<1>6. ASSUME NEW a \in Said
      PROVE  a.at \in Nat /\ a.octets \in Nat /\ Bounded(a) /\ <<a.dev, a.flow>> \in Points
  BY SaidType DEF CounterInv, Datagrams, Points
<1>7. ASSUME NEW a \in Said' PROVE Bounded(a)'
  <2>1. CASE a \in Said
    BY <1>1, <1>6, <2>1 DEF Bounded
  <2>2. CASE a = e
    BY <1>1, <1>4, <2>2 DEF Bounded
  <2>3. QED
    BY <1>3, <2>1, <2>2
<1>8. ASSUME NEW a \in Said', NEW b \in Said' PROVE Ordered(a, b)
  <2>1. CASE a \in Said /\ b \in Said
    BY <2>1 DEF CounterInv
  <2>2. CASE a \in Said /\ b = e
    BY <1>1, <1>4, <1>5, <1>6, <2>2 DEF Ordered, Comparable, Bounded
  <2>3. CASE a = e /\ b \in Said
    BY <1>4, <1>6, <2>3 DEF Ordered, Comparable, Bounded
  <2>4. CASE a = e /\ b = e
    BY <1>4, <1>5, <2>4 DEF Ordered
  <2>5. QED
    BY <1>3, <2>1, <2>2, <2>3, <2>4
<1>9. \A q \in Points : /\ store'[q] = "added" => known'[q] <= octets'[q]
                        /\ store'[q] = "pending" => known'[q] = 0
  BY <1>1 DEF CounterInv
<1>10. QED
  BY <1>7, <1>8, <1>9 DEF CounterInv, Ordered, Comparable

(* A datagram arrives: it was in flight, and becomes the last of its flow. *)
LEMMA HandleSaid ==
  ASSUME TypeOK, NEW m \in net, NEW t \in Elapsed, Handle(m, t)
  PROVE  /\ Said' \subseteq Said
         /\ last' = [last EXCEPT ![Key[m.flow]] = m] /\ Key[m.flow] \in Keys
         /\ UNCHANGED <<octets, store, known, life>>
         /\ clock' = clock \/ clock' = clock + 1
<1>1. last' = [last EXCEPT ![Key[m.flow]] = m]
  BY DEF Handle, Remember
<1>2. m.flow \in Flows /\ last \in [Keys -> Datagrams \cup {NoRecord}]
  BY DEF TypeOK, ExporterTypeOK, StatisticsTypeOK, Datagrams
<1>3. Key[m.flow] \in Keys
  BY <1>2 DEF Keys
<1>4. net' \subseteq net /\ removed' = removed
  BY DEF Handle
<1>5. {last[k] : k \in {j \in Keys : Known(j)}}' \subseteq
        {last[k] : k \in {j \in Keys : Known(j)}} \cup {m}
  BY <1>1, <1>2, <1>3 DEF Known
<1>6. UNCHANGED <<octets, store, known, life>>
  BY DEF Handle, switches, entries
<1>7. clock' = clock \/ clock' = clock + 1
  BY DEF Handle, bounds, Event
<1>8. QED
  BY <1>1, <1>3, <1>4, <1>5, <1>6, <1>7 DEF Said

LEMMA CounterStep == TypeOK /\ TypeOK' /\ CounterInv /\ [Next]_vars => CounterInv'
<1> SUFFICES ASSUME TypeOK, TypeOK', CounterInv, [Next]_vars PROVE CounterInv'
  OBVIOUS
<1>1. octets \in [Points -> Nat] /\ octets' \in [Points -> Nat]
  BY DEF TypeOK, ExporterTypeOK
<1>2. ASSUME UNCHANGED <<store, known, life, octets, last>>,
             removed' \cup net' \subseteq removed \cup net,
             clock' = clock \/ clock' = clock + 1
      PROVE  CounterInv'
  <2>1. Said' \subseteq Said
    BY <1>2 DEF Said, Known
  <2>2. QED
    BY <1>1, <1>2, <2>1, CounterKept
<1>3. CASE ExporterNext /\ UNCHANGED statistics
  <2>1. UNCHANGED last
    BY <1>3 DEF statistics
  <2>2. ASSUME NEW p \in Points, Packet(p) PROVE CounterInv'
    <3>1. \A q \in Points : octets'[q] >= octets[q]
      <4>1. CASE Count(p)
        BY <1>1, <4>1 DEF Count
      <4>2. CASE Punt(p)
        BY <1>1, <4>2 DEF Punt
      <4>3. QED
        BY <2>2, <4>1, <4>2 DEF Packet
    <3>2. UNCHANGED <<store, known, life, removed, net>> /\ clock' = clock + 1
      BY <2>2 DEF Packet, entries, Event
    <3>3. Said' = Said
      BY <2>1, <3>2 DEF Said, Known
    <3>4. QED
      BY <1>1, <3>1, <3>2, <3>3, CounterKept
  <2>3. ASSUME NEW p \in Points, Process(p) PROVE CounterInv'
    <3>1. UNCHANGED <<octets, removed, net, last, clock>>
      BY <2>1, <2>3 DEF Process, switches, bounds
    <3>2. CASE Installs(p)
      BY <2>3, <3>1, <3>2, CounterApply DEF Process
    <3>3. CASE ~Installs(p)
      BY <1>2, <2>3, <3>1, <3>3 DEF Process, entries
    <3>4. QED
      BY <3>2, <3>3
  <2>4. ASSUME NEW f \in Flows, AddIpfix(f) PROVE CounterInv'
    BY <2>1, <2>4, CounterApply DEF AddIpfix, switches, Event
  <2>5. ASSUME NEW m \in removed, Notify(m) PROVE CounterInv'
    <3>1. net' \subseteq net \cup {m} /\ removed' = removed \ {m}
      BY <2>5, SendAllNet DEF Notify, Final
    <3>2. QED
      BY <1>2, <2>1, <2>5, <3>1 DEF Notify, switches, entries, bounds
  <2>6. ASSUME NEW d \in Devices, Leave(d) PROVE CounterInv'
    BY <1>2, <2>1, <2>6 DEF Leave, entries, Event
  <2>7. ASSUME NEW m \in net, Lose(m) PROVE CounterInv'
    BY <1>2, <2>1, <2>7 DEF Lose, switches, entries, bounds
  <2>8. CASE StartQuery \/ EndQuery \/ QueryRaises
    BY <1>2, <2>1, <2>8
       DEF StartQuery, EndQuery, QueryRaises, switches, entries, bounds, Event
  <2>9. QED
    BY <1>3, <2>1, <2>2, <2>3, <2>4, <2>5, <2>6, <2>7, <2>8, CounterPrefix,
       CounterInstall, CounterTimeout, CounterRead, CounterQuery DEF ExporterNext
<1>4. ASSUME NEW m \in net, NEW t \in Elapsed, Handle(m, t) PROVE CounterInv'
  BY <1>1, <1>4, HandleSaid, CounterKept
<1>5. CASE UNCHANGED vars
  BY <1>2, <1>5, StillSame
<1>6. QED
  BY <1>3, <1>4, <1>5 DEF Next

(* What the exporter says of one rule at one device never goes back.          *)
LEMMA GrowStep == TypeOK /\ TypeOK' /\ CounterInv /\ [Next]_vars => [CountersGrow]_vars
<1> SUFFICES ASSUME TypeOK, CounterInv, [Next]_vars, NEW k \in Keys, Known(k),
                    Comparable(last[k], last'[k])
             PROVE  last'[k].octets >= last[k].octets
  BY DEF CountersGrow
<1>1. last[k] \in Said /\ last[k].octets \in Nat
  BY SaidType DEF Said, Datagrams
<1>2. ASSUME NEW m \in net, NEW t \in Elapsed, Handle(m, t)
      PROVE  last'[k].octets >= last[k].octets
  <2>1. last \in [Keys -> Datagrams \cup {NoRecord}]
    BY DEF TypeOK, StatisticsTypeOK
  <2>2. last' = [last EXCEPT ![Key[m.flow]] = m]
    BY <1>2, HandleSaid
  <2>3. CASE k = Key[m.flow]
    <3>1. last'[k] = m /\ m \in Said
      BY <2>1, <2>2, <2>3 DEF Said
    <3>2. m.octets \in Nat
      BY <3>1, SaidType DEF Datagrams
    <3>3. QED
      BY <1>1, <3>1, <3>2 DEF CounterInv, Ordered
  <2>4. CASE k # Key[m.flow]
    BY <1>1, <2>1, <2>2, <2>4
  <2>5. QED
    BY <2>3, <2>4
<1>3. CASE UNCHANGED last
  BY <1>1, <1>3
<1>4. QED
  BY <1>2, <1>3, StillSame DEF Next, statistics

(* A counter goes back, and a rate is negative, only for the causes named. *)
THEOREM CountersGoBackOnlyForCause == Spec => CountersGoBackForCause
<1>1. Init => TypeOK /\ CounterInv
  BY TypeInit, CounterInit
<1>2. TypeOK /\ CounterInv /\ [Next]_vars => (TypeOK /\ CounterInv)'
  BY TypeStep, CounterStep
<1>3. TypeOK /\ CounterInv /\ [Next]_vars => [CountersGrow]_vars
  BY TypeStep, GrowStep
<1>4. QED
  BY <1>1, <1>2, <1>3, PTL DEF Spec, CountersGoBackForCause

-----------------------------------------------------------------------------
(* Nothing has been rated, or left out, before the first record of a flow. *)
RateInv ==
  /\ RatesAddUp
  /\ \A k \in Keys : ~Known(k) => avg[k].total = 0 /\ unrated[k] = 0

(* The rates of a flow add up to the growth of its counter, for records a     *)
(* second or whole days apart.                                                *)
THEOREM RatesAddUpAlways ==
  ASSUME \A t \in Elapsed : Seconds(t) \in {0, 1}
  PROVE  Spec => []RatesAddUp
<1>1. Init => TypeOK /\ RateInv
  <2>1. Init => RateInv
    BY DEF Init, RateInv, RatesAddUp, Known
  <2>2. QED
    BY <2>1, TypeInit
<1>2. TypeOK /\ RateInv /\ [Next]_vars => RateInv'
  <2> SUFFICES ASSUME TypeOK, RateInv, [Next]_vars PROVE RateInv'
    OBVIOUS
  <2>1. CASE UNCHANGED statistics
    BY <2>1 DEF RateInv, RatesAddUp, Known, statistics
  <2>2. ASSUME NEW m \in net, NEW t \in Elapsed, Handle(m, t) PROVE RateInv'
    <3> DEFINE h == Key[m.flow]
    <3>1. /\ last' = [last EXCEPT ![h] = m] /\ h \in Keys
      BY <2>2, HandleSaid
    <3>2. /\ Average(h, m, t) /\ History(h, m, t)
      BY <2>2 DEF Handle
    <3>3. m \in Datagrams /\ m.octets \in Nat /\ m # NoRecord
      BY DEF TypeOK, ExporterTypeOK, Datagrams, NoRecord
    <3> HIDE DEF h
    <3>4. SUFFICES ASSUME NEW k \in Keys
                   PROVE  /\ Known(k)' => avg'[k].total + unrated'[k]
                                            = last'[k].octets - first'[k]
                          /\ ~Known(k)' => avg'[k].total = 0 /\ unrated'[k] = 0
      BY DEF RateInv, RatesAddUp
    <3>5. /\ avg[k].total \in Int /\ avg[k].count \in Nat /\ unrated[k] \in Int
          /\ first[k] \in Nat
          /\ Known(k) => last[k].octets \in Nat
      BY DEF TypeOK, StatisticsTypeOK, Known, Datagrams
    <3>6. /\ last \in [Keys -> Datagrams \cup {NoRecord}]
          /\ avg \in [Keys -> [total : Int, count : Nat]]
          /\ first \in [Keys -> Nat] /\ unrated \in [Keys -> Int]
      BY DEF TypeOK, StatisticsTypeOK
    <3>7. CASE k # h
      BY <3>1, <3>2, <3>5, <3>6, <3>7
         DEF RateInv, RatesAddUp, Average, History, Known
    <3>8. CASE k = h /\ ~Known(h)
      <4>1. avg'[k] = avg[k] /\ unrated'[k] = unrated[k] /\ first'[k] = m.octets
        BY <3>1, <3>2, <3>6, <3>8 DEF Average, History, Rated
      <4>2. last'[k] = m /\ Known(k)'
        BY <3>1, <3>3, <3>6, <3>8 DEF Known
      <4>3. avg[k].total = 0 /\ unrated[k] = 0
        BY <3>8 DEF RateInv
      <4>4. QED
        BY <3>3, <4>1, <4>2, <4>3
    <3>9. CASE k = h /\ Known(h)
      <4>1. last'[k] = m /\ Known(k)' /\ first'[k] = first[k]
        BY <3>1, <3>2, <3>3, <3>6, <3>9 DEF Known, History
      <4>2. avg[k].total + unrated[k] = last[k].octets - first[k]
        BY <3>9 DEF RateInv, RatesAddUp
      <4>3. /\ ByteDiff(k, m) = m.octets - last[k].octets
            /\ last[k].octets \in Nat /\ ByteDiff(k, m) \in Int
        BY <3>3, <3>5, <3>9 DEF ByteDiff
      <4>4. avg'[k].total + unrated'[k] = avg[k].total + unrated[k] + ByteDiff(k, m)
        <5>1. CASE Rated(k, t)
          <6>1. Seconds(t) = 1
            BY <5>1 DEF Rated
          <6>2. \A x \in Int : x \div 1 = x
            OBVIOUS
          <6>3. DeltaBps(k, m, t) = ByteDiff(k, m)
            BY <4>3, <6>1, <6>2 DEF DeltaBps
          <6>4. avg'[k].total = avg[k].total + ByteDiff(k, m)
            BY <3>2, <3>6, <3>9, <5>1, <6>3 DEF Average
          <6>5. unrated'[k] = unrated[k]
            BY <3>2, <3>6, <3>9, <5>1 DEF History
          <6>6. QED
            BY <3>5, <4>3, <6>4, <6>5
        <5>2. CASE ~Rated(k, t)
          <6>1. avg' = avg /\ unrated'[k] = unrated[k] + ByteDiff(k, m)
            BY <3>2, <3>6, <3>9, <5>2 DEF Average, History
          <6>2. QED
            BY <3>5, <4>3, <6>1
        <5>3. QED
          BY <5>1, <5>2
      <4>5. avg'[k].total + unrated'[k] = m.octets - first[k]
        BY <3>3, <3>5, <4>2, <4>3, <4>4
      <4>6. QED
        BY <4>1, <4>5
    <3>10. QED
      BY <3>7, <3>8, <3>9
  <2>3. QED
    BY <2>1, <2>2, StillSame DEF Next, statistics
<1>3. QED
  <2>1. RateInv => RatesAddUp
    BY DEF RateInv
  <2>2. QED
    BY <1>1, <1>2, <2>1, TypeStep, PTL DEF Spec
=============================================================================
