------------------------- MODULE ApplicationsProofs -------------------------
(***************************************************************************)
(* Proofs about Applications, for any hosts, ports, limits, flows and      *)
(* rates: what the detectors ask for is asked for, and for a reason; what  *)
(* the threshold application knows is so; what the GUI shows is sent once; *)
(* and the types of all four.                                              *)
(***************************************************************************)
EXTENDS Applications, FiniteSetTheorems, TLAPS

(* Each application counts with the same Cardinality.                        *)
LEMMA SameCounts ==
  ASSUME NEW S
  PROVE  /\ Scan!Cardinality(S) = Cardinality(S) /\ Ddos!Cardinality(S) = Cardinality(S)
         /\ Ddos!IsFiniteSet(S) <=> IsFiniteSet(S)
<1>1. Scan!Cardinality(S) = Cardinality(S)
  BY DEF Cardinality, Scan!Cardinality
<1>2. Ddos!Cardinality(S) = Cardinality(S)
  BY DEF Cardinality, Ddos!Cardinality
<1>3. Ddos!IsFiniteSet(S) <=> IsFiniteSet(S)
  BY DEF IsFiniteSet, Ddos!IsFiniteSet
<1>4. QED
  BY <1>1, <1>2, <1>3

(* What has used too many ports has been treated, and what was treated is    *)
(* blocked, excused, or what treat_flow is about.                            *)
Waits(k, kind) ==
  /\ scanner \in {kind, "prefix"} /\ treating.key[1] = k[1]

Set(k, kind) ==
  \/ \E t \in scanStore : t.kind = kind /\ t.src = k[1]
  \/ k[1] \in excusedSources
  \/ Waits(k, kind)

ScanInv ==
  /\ flow_to_port_dict \in [Scan!Keys -> SUBSET Ports]
  /\ \A k \in Scan!Keys :
       Scan!Cardinality(flow_to_port_dict[k]) > PortThresholdCount => k \in treated_flows
  /\ \A k \in treated_flows, kind \in Scan!Kinds : Set(k, kind)

LEMMA ScanStep == ASSUME ScanInv, Scan!Next PROVE ScanInv'
<1> USE DEF ScanInv
<1>1. CASE UNCHANGED <<flow_to_port_dict, treated_flows, scanStore, excusedSources>>
           /\ (UNCHANGED treating \/ scanner' \notin Scan!Kinds)
           /\ (scanner' = scanner \/ scanner \notin Scan!Kinds)
  BY <1>1 DEF Set, Waits, Scan!Kinds
<1>2. CASE Scan!Start \/ Scan!End
  <2>1. flow_to_port_dict' = [k \in Scan!Keys |-> {}] /\ treated_flows' = {}
    BY <1>2 DEF Scan!Start, Scan!End
  <2>2. Scan!Cardinality({}) = 0
    BY SameCounts, FS_EmptySet
  <2>3. PortThresholdCount \in Nat
    BY ApplicationsAssumption DEF Scan!PortScanAssumption
  <2>4. QED
    BY <2>1, <2>2, <2>3
<1>3. CASE Scan!Register \/ Scan!read_ipfix \/ Scan!Expire
  BY <1>1, <1>3 DEF Scan!Register, Scan!read_ipfix, Scan!Expire, Scan!memory, Scan!Kinds
<1>4. ASSUME NEW r \in Scan!Records, Scan!Track(r) PROVE ScanInv'
  <2> DEFINE k == <<r.src, r.dst>>  used == flow_to_port_dict[k] \cup {r.port}
  <2>1. k \in Scan!Keys /\ used \in SUBSET Ports /\ k[1] = r.src
    BY <1>4 DEF Scan!Track, Scan!Keys, Scan!Records
  <2>2. flow_to_port_dict' = [flow_to_port_dict EXCEPT ![k] = used]
    BY <1>4 DEF Scan!Track
  <2>3. scanner = "track" /\ UNCHANGED <<scanStore, excusedSources>>
    BY <1>4 DEF Scan!Track
  <2> HIDE DEF used
  <2>4. CASE Scan!Detected(k, used)
    <3>1. /\ scanner' = "prefix" /\ treated_flows' = treated_flows \cup {k}
          /\ \E id \in ThreshIds : treating' = [key |-> k, id |-> id]
      BY <1>4, <2>4 DEF Scan!Track, used
    <3>2. \A kind \in Scan!Kinds : Set(k, kind)'
      BY <3>1 DEF Set, Waits
    <3>3. \A j \in treated_flows, kind \in Scan!Kinds : Set(j, kind)'
      BY <2>3 DEF Set, Waits, Scan!Kinds
    <3>4. QED
      BY <2>1, <2>2, <3>1, <3>2, <3>3
  <2>5. CASE ~Scan!Detected(k, used)
    <3>1. UNCHANGED <<scanner, treated_flows, treating>>
      BY <1>4, <2>5 DEF Scan!Track, used
    <3>2. Scan!Cardinality(used) > PortThresholdCount => k \in treated_flows
      BY <2>5 DEF Scan!Detected
    <3>3. \A j \in treated_flows, kind \in Scan!Kinds : Set(j, kind)'
      BY <2>3, <3>1 DEF Set, Waits
    <3>4. QED
      BY <2>1, <2>2, <3>1, <3>2, <3>3
  <2>6. QED
    BY <2>4, <2>5
<1>5. CASE Scan!treat_flow
  <2>1. PICK kind \in Scan!Kinds :
          /\ scanner = kind /\ scanner' = (IF kind = "prefix" THEN "interfix" ELSE "track")
          /\ Scan!Post(kind, scanner')
    BY <1>5 DEF Scan!treat_flow, Scan!Post, Scan!Kinds
  <2> DEFINE t == [kind |-> kind, id |-> treating.id, src |-> treating.key[1]]
  <2>2. \/ t \in scanStore' /\ scanStore \subseteq scanStore' /\ UNCHANGED excusedSources
        \/ t.src \in excusedSources' /\ excusedSources \subseteq excusedSources'
             /\ UNCHANGED scanStore
    BY <2>1 DEF Scan!Post
  <2>3. /\ UNCHANGED <<flow_to_port_dict, treated_flows>>
        /\ kind = "prefix" => UNCHANGED treating
    BY <2>1 DEF Scan!Post
  <2>4. ASSUME NEW k \in treated_flows, NEW other \in Scan!Kinds PROVE Set(k, other)'
    <3>1. CASE ~Waits(k, other)
      BY <2>2, <3>1 DEF Set
    <3>2. CASE Waits(k, other) /\ other = kind
      <4>1. t.kind = other /\ t.src = k[1]
        BY <3>2 DEF Waits
      <4>2. QED
        BY <2>2, <4>1 DEF Set
    <3>3. CASE Waits(k, other) /\ other # kind
      BY <2>1, <2>3, <3>3 DEF Set, Waits, Scan!Kinds
    <3>4. QED
      BY <3>1, <3>2, <3>3
  <2>5. QED
    BY <2>3, <2>4
<1>6. CASE Scan!Remove
  <2>1. PICK t \in scanStore :
          scanStore' = scanStore \ {t} /\ excusedSources' = excusedSources \cup {t.src}
    BY <1>6 DEF Scan!Remove
  <2>2. UNCHANGED <<scanner, flow_to_port_dict, treated_flows, treating>>
    BY <1>6 DEF Scan!Remove, Scan!memory
  <2>3. ASSUME NEW k \in treated_flows, NEW kind \in Scan!Kinds PROVE Set(k, kind)'
    <3>1. CASE \E u \in scanStore : u.kind = kind /\ u.src = k[1]
      <4>1. PICK u \in scanStore : u.kind = kind /\ u.src = k[1]
        BY <3>1
      <4>2. u = t \/ u \in scanStore'
        BY <2>1
      <4>3. QED
        BY <2>1, <4>1, <4>2 DEF Set
    <3>2. CASE k[1] \in excusedSources \/ Waits(k, kind)
      BY <2>1, <2>2, <3>2 DEF Set, Waits
    <3>3. QED
      BY <3>1, <3>2 DEF Set
  <2>4. QED
    BY <2>2, <2>3
<1>7. QED
  BY <1>2, <1>3, <1>4, <1>5, <1>6 DEF Scan!Next
-----------------------------------------------------------------------------
(* While an answer is taken, what is counted was heard in time.              *)
DdosInv ==
  /\ watcher \in {"down", "poll", "track"} \cup Ddos!Kinds
  /\ source_count \in [Dests -> SUBSET Hosts]
  /\ heard \in [Dests -> [Hosts -> Nat]]
  /\ watcher \in {"track"} \cup Ddos!Kinds =>
       \A d \in Dests : \A h \in source_count[d] : heard[d][h] <= Period
  /\ watcher \in Ddos!Kinds =>
       mirroring \in Dests /\ Ddos!Cardinality(source_count[mirroring]) > SourceCountThreshold

LEMMA DdosStep == ASSUME DdosInv, Ddos!Next PROVE DdosInv'
<1> USE DEF DdosInv, Ddos!Kinds
<1>1. Period \in Nat
  BY ApplicationsAssumption DEF Ddos!DdosAssumption
<1>2. CASE Ddos!Start \/ Ddos!End
  BY <1>2 DEF Ddos!Start, Ddos!End
<1>3. CASE Ddos!sources_clean_up
  BY <1>3 DEF Ddos!sources_clean_up, Ddos!Stays
<1>4. CASE Ddos!Sleep
  BY <1>4 DEF Ddos!Sleep
<1>5. CASE Ddos!install_mirror
  BY <1>5 DEF Ddos!install_mirror
<1>6. CASE Ddos!Tick
  <2>1. heard' \in [Dests -> [Hosts -> Nat]]
    BY <1>1, <1>6 DEF Ddos!Tick, Ddos!Never
  <2>2. QED
    BY <1>6, <2>1 DEF Ddos!Tick
<1>7. CASE Ddos!Remove
  BY <1>7 DEF Ddos!Remove
<1>8. ASSUME NEW d \in Dests, NEW h \in Hosts, Ddos!source_tracker(d, h) PROVE DdosInv'
  <2>1. /\ watcher = "track" /\ source_count' = [source_count EXCEPT ![d] = @ \cup {h}]
        /\ heard' = [heard EXCEPT ![d][h] = 0]
    BY <1>8 DEF Ddos!source_tracker
  <2>2. source_count' \in [Dests -> SUBSET Hosts] /\ heard' \in [Dests -> [Hosts -> Nat]]
    BY <2>1
  <2>3. ASSUME NEW e \in Dests, NEW g \in source_count'[e] PROVE heard'[e][g] <= Period
    BY <1>1, <2>1, <2>2
  <2>4. /\ watcher' \in {"track", "prefix"}
        /\ watcher' = "prefix" =>
             mirroring' = d /\ Ddos!Cardinality(source_count'[d]) > SourceCountThreshold
    <3>1. CASE Ddos!Cardinality(source_count'[d]) > SourceCountThreshold
      BY <1>8, <3>1 DEF Ddos!source_tracker
    <3>2. CASE ~(Ddos!Cardinality(source_count'[d]) > SourceCountThreshold)
      BY <1>8, <2>1, <3>2 DEF Ddos!source_tracker
    <3>3. QED
      BY <3>1, <3>2
  <2>5. QED
    BY <2>2, <2>3, <2>4
<1>9. QED
  BY <1>2, <1>3, <1>4, <1>5, <1>6, <1>7, <1>8 DEF Ddos!Next

LEMMA DdosImplies == DdosInv => Ddos!MirrorsHaveCause
<1> SUFFICES ASSUME DdosInv, watcher \in Ddos!Kinds
             PROVE  Ddos!Cardinality({h \in Hosts : heard[mirroring][h] <= Period})
                      > SourceCountThreshold
  BY DEF Ddos!MirrorsHaveCause
<1> DEFINE late == {h \in Hosts : heard[mirroring][h] <= Period}
<1>1. IsFiniteSet(Hosts) /\ SourceCountThreshold \in Nat
  BY ApplicationsAssumption, SameCounts DEF Ddos!DdosAssumption
<1>2. IsFiniteSet(late)
  BY <1>1, FS_Subset
<1>3. source_count[mirroring] \subseteq late
  BY DEF DdosInv
<1>4. Cardinality(source_count[mirroring]) <= Cardinality(late)
  BY <1>2, <1>3, FS_Subset
<1>5. Cardinality(source_count[mirroring]) \in Nat /\ Cardinality(late) \in Nat
  BY <1>2, <1>3, FS_Subset, FS_CardinalityType
<1>6. QED
  BY <1>1, <1>4, <1>5, SameCounts DEF DdosInv
-----------------------------------------------------------------------------
(* What the cache of the threshold application says is so.                   *)
Maybe == Nat \cup {Learn!Unknown}

CacheInv ==
  /\ thresholds \in [Flows -> Maybe] /\ rateStore \in [Flows -> Maybe]
  /\ \A f \in Flows : rateStore[f] # Learn!Unknown => Learn!Whole(rateStore[f]) = rateStore[f]
  /\ Learn!CacheTracksStore

LEMMA WholeIsWhole ==
  ASSUME NEW x \in Nat
  PROVE  Learn!Whole(x) \in Nat /\ Learn!Whole(Learn!Whole(x)) = Learn!Whole(x)
  BY DEF Learn!Whole

LEMMA CacheStep == ASSUME CacheInv, Learn!Next PROVE CacheInv'
<1> USE DEF CacheInv, Learn!CacheTracksStore
<1>1. Rates \subseteq Nat
  BY ApplicationsAssumption DEF Learn!ThresholdAppAssumption
<1>2. CASE UNCHANGED <<thresholds, rateStore, removed>> /\ (learner = "down" => learner' = "down")
  BY <1>2
<1>3. ASSUME NEW f \in Flows, NEW rate \in Rates, learner # "down", learner' # "down",
             UNCHANGED removed, Learn!Post(f, rate)
      PROVE  CacheInv'
  <2>1. /\ thresholds' = [thresholds EXCEPT ![f] = rate]
        /\ rateStore' = IF Learn!Takes(f) THEN [rateStore EXCEPT ![f] = Learn!Whole(rate)]
                        ELSE rateStore
    BY <1>3 DEF Learn!Post, Learn!Set
  <2>2. Learn!Whole(rate) \in Nat /\ Learn!Whole(Learn!Whole(rate)) = Learn!Whole(rate)
    BY <1>1, WholeIsWhole
  <2>3. f \notin removed => Learn!Takes(f)
    <3>1. thresholds[f] # Learn!Unknown => Learn!Whole(thresholds[f]) \in Nat
      BY WholeIsWhole DEF Maybe
    <3>2. QED
      BY <1>3, <3>1 DEF Learn!Takes, Learn!Unknown
  <2>4. rate \in Nat /\ rate # Learn!Unknown
    BY <1>1 DEF Learn!Unknown
  <2> HIDE DEF Learn!CacheTracksStore
  <2>5. thresholds' \in [Flows -> Maybe] /\ rateStore' \in [Flows -> Maybe]
    BY <2>1, <2>2, <2>4 DEF Maybe
  <2>6. \A g \in Flows :
          rateStore'[g] # Learn!Unknown => Learn!Whole(rateStore'[g]) = rateStore'[g]
    BY <2>1, <2>2
  <2>7. Learn!CacheTracksStore'
    <3>1. \A g \in Flows \ {f} : thresholds'[g] = thresholds[g] /\ rateStore'[g] = rateStore[g]
      BY <2>1
    <3>2. f \notin removed => thresholds'[f] = rate /\ rateStore'[f] = Learn!Whole(rate)
      BY <2>1, <2>3
    <3>3. QED
      BY <1>3, <2>4, <3>1, <3>2 DEF Learn!CacheTracksStore
  <2>8. QED
    BY <2>5, <2>6, <2>7
<1>4. CASE Learn!Start
  <2>1. thresholds' = rateStore /\ UNCHANGED rateStore
    BY <1>4 DEF Learn!Start
  <2>2. QED
    BY <2>1
<1>5. CASE Learn!End
  <2>1. learner' = "down" /\ thresholds' \in [Flows -> Maybe]
    BY <1>5 DEF Learn!End, Maybe
  <2>2. CASE UNCHANGED rateStore
    BY <2>1, <2>2
  <2>3. ASSUME NEW f, NEW rate \in Rates, Learn!Set(f, rate) PROVE CacheInv'
    <3>1. Learn!Whole(rate) \in Nat /\ Learn!Whole(Learn!Whole(rate)) = Learn!Whole(rate)
      BY <1>1, WholeIsWhole
    <3>2. QED
      BY <2>1, <2>3, <3>1 DEF Learn!Set, Maybe
  <2>4. QED
    BY <1>5, <2>2, <2>3 DEF Learn!End
<1>6. CASE \E f \in Flows, u \in Rules, s \in Learn!Subtypes : Learn!Send(f, u, s)
  BY <1>2, <1>6 DEF Learn!Send, Learn!hist
<1>7. CASE Learn!Query \/ Learn!PressKey \/ Learn!Update \/ Learn!Updated
  BY <1>2, <1>7 DEF Learn!Query, Learn!PressKey, Learn!Update, Learn!Updated, Learn!hist
<1>8. CASE \E r \in answer : Learn!Learn(r)
  BY <1>2, <1>8 DEF Learn!Learn
<1>9. ASSUME NEW f \in Flows, NEW rate \in Rates,
             Learn!PostThreshold(f, rate) \/ Learn!PostSmoothed(f, rate)
      PROVE  CacheInv'
  <2>1. learner = "update" /\ UNCHANGED <<learner, removed>>
    BY <1>9 DEF Learn!PostThreshold, Learn!PostSmoothed, Learn!hist
  <2>2. CASE UNCHANGED <<thresholds, rateStore>>
    BY <1>2, <2>1, <2>2
  <2>3. CASE \E r \in Rates : Learn!Post(f, r)
    BY <1>3, <2>1, <2>3
  <2>4. QED
    BY <1>9, <2>2, <2>3 DEF Learn!PostThreshold, Learn!PostSmoothed
<1>10. CASE \E f \in Flows : Learn!Remove(f)
  <2>1. PICK f \in Flows : /\ rateStore' = [rateStore EXCEPT ![f] = Learn!Unknown]
                           /\ removed' = removed \cup {f} /\ UNCHANGED <<learner, thresholds>>
    BY <1>10 DEF Learn!Remove
  <2>2. QED
    BY <2>1 DEF Maybe
<1>11. QED
  BY <1>4, <1>5, <1>6, <1>7, <1>8, <1>9, <1>10 DEF Learn!Next
-----------------------------------------------------------------------------
(* The records that were sent, and what the threshold application knows of   *)
(* those it took.                                                            *)
Flow == [octets : Maybe, start : Maybe, time : Maybe, new : Int]

Shapes ==
  /\ records \subseteq Learn!Record /\ answer \subseteq records
  /\ flows \in [Flows -> Flow] /\ clock \in [time : Nat, sent : Nat]
  /\ counted \in [Flows -> [Rules -> Nat \cup {Learn!Over}]]
  /\ taken \in [Flows -> [now : records \cup {Learn!NoRecord},
                         before : records \cup {Learn!NoRecord}, times : SUBSET Nat]]

(* What a rule has counted bounds what its records say, and these are in     *)
(* order but for prefix records.                                             *)
CountsOn ==
  /\ \A r \in records :
       /\ r.at < clock.sent
       /\ counted[r.flow][r.rule] # Learn!Over => r.octets <= counted[r.flow][r.rule]
  /\ \A a, b \in records :
       a.flow = b.flow /\ a.rule = b.rule /\ a.at <= b.at /\ b.subtype # "prefix" =>
         a.octets <= b.octets

Kept(r) == IF r.subtype = "ipfix" THEN 0 ELSE r.octets

(* What is known of a flow is from the record taken last, and its time is    *)
(* one of those taken.                                                       *)
Knows(f) ==
  IF taken[f].now = Learn!NoRecord THEN flows[f] = Learn!NoFlow
  ELSE /\ taken[f].now.flow = f /\ flows[f].octets = Kept(taken[f].now)
       /\ flows[f].start \in taken[f].times
       /\ flows[f].time \in taken[f].times \cup {taken[f].now.end, Learn!Unknown}

OrderInv == Shapes /\ CountsOn /\ (\A f \in Flows : Knows(f)) /\ Learn!StopsForACause

LEMMA SendStep ==
  ASSUME OrderInv, NEW f \in Flows, NEW u \in Rules, NEW s \in Learn!Subtypes, Learn!Send(f, u, s)
  PROVE  OrderInv'
<1>1. PICK o \in 0 .. MaxOctets, t \in {clock.time, clock.time + 1}, l \in 0 .. MaxLife :
        /\ l <= t
        /\ IF s = "prefix" THEN o = 0 /\ l = 0 /\ UNCHANGED counted
           ELSE /\ counted[f][u] # Learn!Over /\ o >= counted[f][u]
                /\ counted' = [counted EXCEPT ![f][u] = IF s = "ipfix" THEN Learn!Over ELSE o]
        /\ records' = records \cup {[flow |-> f, rule |-> u, subtype |-> s, octets |-> o,
                                     start |-> t - l, end |-> t, at |-> clock.sent]}
        /\ clock' = [time |-> t, sent |-> clock.sent + 1]
  BY DEF Learn!Send
<1>2. UNCHANGED <<learner, flows, posting, answer, taken>>
  BY DEF Learn!Send, Learn!hist
<1>3. PICK r : r = [flow |-> f, rule |-> u, subtype |-> s, octets |-> o,
                    start |-> t - l, end |-> t, at |-> clock.sent]
  OBVIOUS
<1>4. MaxOctets \in Nat /\ MaxLife \in Nat /\ clock.time \in Nat /\ clock.sent \in Nat
  BY ApplicationsAssumption DEF Learn!ThresholdAppAssumption, OrderInv, Shapes
<1>5. /\ r \in Learn!Record /\ r.flow = f /\ r.rule = u /\ r.octets = o /\ r.at = clock.sent
      /\ r.subtype = s /\ o \in Nat /\ records' = records \cup {r}
      /\ clock' \in [time : Nat, sent : Nat] /\ clock'.sent = clock.sent + 1
  BY <1>1, <1>3, <1>4 DEF Learn!Record
<1>6. /\ counted' \in [Flows -> [Rules -> Nat \cup {Learn!Over}]]
      /\ \A g \in Flows, v \in Rules : <<g, v>> # <<f, u>> => counted'[g][v] = counted[g][v]
      /\ IF s = "prefix" THEN counted'[f][u] = counted[f][u] /\ o = 0
         ELSE /\ counted[f][u] # Learn!Over /\ o >= counted[f][u]
              /\ counted'[f][u] # Learn!Over => counted'[f][u] = o
  <2>1. counted \in [Flows -> [Rules -> Nat \cup {Learn!Over}]] /\ counted[f] \in [Rules -> Nat \cup {Learn!Over}]
    BY DEF OrderInv, Shapes
  <2>2. CASE s = "prefix"
    BY <1>1, <2>1, <2>2
  <2>3. CASE s # "prefix"
    <3>1. PICK n : n = IF s = "ipfix" THEN Learn!Over ELSE o
      OBVIOUS
    <3>2. n \in Nat \cup {Learn!Over} /\ (n # Learn!Over => n = o)
      BY <1>5, <3>1
    <3>3. /\ counted' = [counted EXCEPT ![f][u] = n]
          /\ counted[f][u] # Learn!Over /\ o >= counted[f][u]
      BY <1>1, <2>3, <3>1
    <3>4. counted' \in [Flows -> [Rules -> Nat \cup {Learn!Over}]]
      BY <2>1, <3>2, <3>3
    <3>5. counted'[f][u] = n
      BY <2>1, <3>3
    <3>6. \A g \in Flows, v \in Rules : <<g, v>> # <<f, u>> => counted'[g][v] = counted[g][v]
      BY <2>1, <3>3
    <3>7. QED
      BY <2>3, <3>2, <3>3, <3>4, <3>5, <3>6
  <2>4. QED
    BY <2>2, <2>3
<1>7. Shapes'
  BY <1>2, <1>5, <1>6 DEF OrderInv, Shapes
<1>8. CountsOn'
  <2>1. /\ \A q \in records : /\ q.flow \in Flows /\ q.rule \in Rules /\ q.octets \in Nat
                              /\ q.at \in Nat /\ q.at < clock.sent
        /\ \A g \in Flows, v \in Rules : counted[g][v] \in Nat \cup {Learn!Over}
    BY <1>4 DEF OrderInv, Shapes, CountsOn, Learn!Record
  <2>2. ASSUME NEW q \in records
        PROVE  counted'[q.flow][q.rule] # Learn!Over => q.octets <= counted'[q.flow][q.rule]
    <3>1. counted[q.flow][q.rule] # Learn!Over => q.octets <= counted[q.flow][q.rule]
      BY DEF OrderInv, CountsOn
    <3>2. QED
      BY <1>5, <1>6, <2>1, <3>1
  <2>3. counted'[f][u] # Learn!Over => o <= counted'[f][u]
    BY <1>5, <1>6, <2>1 DEF Learn!Over
  <2>4. ASSUME NEW q \in records, q.flow = f, q.rule = u, s # "prefix" PROVE q.octets <= o
    <3>1. counted[f][u] # Learn!Over => q.octets <= counted[f][u]
      BY <2>4 DEF OrderInv, CountsOn
    <3>2. QED
      BY <1>5, <1>6, <2>1, <2>4, <3>1
  <2>5. \A q \in records : ~(r.at <= q.at)
    BY <1>4, <1>5, <2>1
  <2>6. \A a, b \in records' :
          a.flow = b.flow /\ a.rule = b.rule /\ a.at <= b.at /\ b.subtype # "prefix" =>
            a.octets <= b.octets
    <3>1. \A a, b \in records :
            a.flow = b.flow /\ a.rule = b.rule /\ a.at <= b.at /\ b.subtype # "prefix" =>
              a.octets <= b.octets
      BY DEF OrderInv, CountsOn
    <3>2. QED
      BY <1>5, <2>4, <2>5, <3>1
  <2>7. \A q \in records' : q.at < clock'.sent
    BY <1>4, <1>5, <2>1
  <2>8. QED
    BY <1>5, <2>2, <2>3, <2>6, <2>7 DEF CountsOn
<1>9. \A g \in Flows : Knows(g)'
  BY <1>2 DEF OrderInv, Knows, Kept
<1>10. Learn!StopsForACause'
  BY <1>2 DEF OrderInv, Learn!StopsForACause
<1>11. QED
  BY <1>7, <1>8, <1>9, <1>10 DEF OrderInv

LEMMA LearnStep == ASSUME OrderInv, NEW r \in answer, Learn!Learn(r) PROVE OrderInv'
<1> DEFINE f == r.flow
           a == taken[f].now
<1>1. PICK g : g = IF flows[f] = Learn!NoFlow
                   THEN [Learn!NoFlow EXCEPT !.octets = r.octets, !.start = r.start]
                   ELSE flows[f]
  OBVIOUS
<1>2. PICK seen : seen = [now |-> r, before |-> a,
                          times |-> taken[f].times \cup {IF a = Learn!NoRecord THEN r.start ELSE a.end}]
  OBVIOUS
<1>3. PICK h : h = Learn!After(g, r)
  OBVIOUS
<1>4. /\ learner = "learn" /\ answer' = answer \ {r} /\ UNCHANGED <<records, counted, clock>>
      /\ flows' = [flows EXCEPT ![f] = h] /\ taken' = [taken EXCEPT ![f] = seen]
      /\ IF Learn!Fell(g, r) \/ (Learn!Grew(g, r) /\ Learn!NoTime(g, r))
         THEN learner' = "key" /\ posting' = {f} ELSE UNCHANGED <<learner, posting>>
  BY <1>1, <1>2, <1>3 DEF Learn!Learn, Learn!net, Learn!source
<1>5. /\ r \in records /\ r \in Learn!Record /\ f \in Flows /\ r # Learn!NoRecord
      /\ r.octets \in Nat /\ r.start \in Nat /\ r.end \in Nat /\ r.at \in Nat
      /\ r.subtype \in {"prefix", "interfix", "ipfix"}
  BY DEF OrderInv, Shapes, Learn!Record, Learn!Subtypes, Learn!NoRecord
<1>6. /\ a \in records \cup {Learn!NoRecord} /\ taken[f].times \subseteq Nat /\ flows[f] \in Flow
      /\ a # Learn!NoRecord => a.octets \in Nat /\ a.end \in Nat /\ a.at \in Nat
  BY <1>5 DEF OrderInv, Shapes, Learn!Record
<1>7. g \in Flow
  BY <1>1, <1>5, <1>6 DEF Flow, Learn!NoFlow, Maybe
(* What is known of the flow as r is looked at: at first, r itself.          *)
<1>8. /\ g.octets = IF a = Learn!NoRecord THEN r.octets ELSE Kept(a)
      /\ g.start \in seen.times /\ g.time \in seen.times \cup {Learn!Unknown}
  <2>1. Knows(f)
    BY <1>5 DEF OrderInv
  <2>2. CASE a = Learn!NoRecord
    <3>1. flows[f] = Learn!NoFlow
      BY <2>1, <2>2 DEF Knows
    <3>2. QED
      BY <1>1, <1>2, <2>2, <3>1 DEF Learn!NoFlow
  <2>3. CASE a # Learn!NoRecord
    <3>1. Kept(a) \in Nat
      BY <1>6, <2>3 DEF Kept
    <3>2. flows[f] # Learn!NoFlow
      BY <2>1, <2>3, <3>1 DEF Knows, Learn!NoFlow, Learn!Unknown
    <3>3. QED
      BY <1>1, <1>2, <2>1, <2>3, <3>2 DEF Knows
  <2>4. QED
    BY <2>2, <2>3
<1>9. h \in Flow /\ h.octets = Kept(r) /\ h.start = g.start /\ h.time \in {g.time, r.end}
  BY <1>3, <1>5, <1>7 DEF Learn!After, Flow, Kept, Maybe
<1>10. /\ flows'[f] = h /\ taken'[f] = seen
       /\ \A e \in Flows \ {f} : flows'[e] = flows[e] /\ taken'[e] = taken[e]
  BY <1>4, <1>5 DEF OrderInv, Shapes
<1>11. Shapes'
  <2>1. seen.times \subseteq Nat
    BY <1>2, <1>5, <1>6
  <2>2. seen \in [now : records \cup {Learn!NoRecord},
                  before : records \cup {Learn!NoRecord}, times : SUBSET Nat]
    BY <1>2, <1>5, <1>6, <2>1
  <2>3. QED
    BY <1>4, <1>9, <2>2 DEF OrderInv, Shapes
<1>12. CountsOn'
  BY <1>4 DEF OrderInv, CountsOn
<1>13. \A e \in Flows : Knows(e)'
  <2>1. Knows(f)'
    BY <1>2, <1>5, <1>8, <1>9, <1>10 DEF Knows, Kept
  <2>2. \A e \in Flows \ {f} : Knows(e)'
    BY <1>10 DEF OrderInv, Knows, Kept
  <2>3. QED
    BY <2>1, <2>2
(* A record that stops it: there is one before, whose counter is known.      *)
<1>14. ASSUME Learn!Fell(g, r)
       PROVE  /\ a # Learn!NoRecord /\ r.octets < a.octets
              /\ r.subtype # "prefix" /\ a.subtype # "ipfix" /\ (r.rule # a.rule \/ r.at < a.at)
  <2>1. r.octets < g.octets /\ r.subtype # "prefix"
    BY <1>14 DEF Learn!Fell
  <2>2. a # Learn!NoRecord /\ r.octets < Kept(a)
    BY <1>5, <1>8, <2>1
  <2>3. a.subtype # "ipfix" /\ r.octets < a.octets
    BY <1>5, <2>2 DEF Kept
  <2>4. a \in records /\ a.flow = f
    BY <1>5, <1>6, <2>2 DEF OrderInv, Knows
  <2>5. ~(a.rule = r.rule /\ a.at <= r.at)
    BY <1>5, <1>6, <2>1, <2>2, <2>3, <2>4 DEF OrderInv, CountsOn
  <2>6. QED
    BY <1>5, <1>6, <2>1, <2>2, <2>3, <2>5
<1>15. ASSUME Learn!Grew(g, r), Learn!NoTime(g, r)
       PROVE  /\ a # Learn!NoRecord /\ r.end \in seen.times
              /\ a.subtype = "ipfix" \/ r.octets > a.octets
  <2>1. r.octets > g.octets
    BY <1>15 DEF Learn!Grew
  <2>2. a # Learn!NoRecord /\ g.octets = Kept(a)
    BY <1>5, <1>8, <2>1
  <2>3. r.end \in seen.times
    BY <1>5, <1>8, <1>15 DEF Learn!NoTime
  <2>4. QED
    BY <2>1, <2>2, <2>3 DEF Kept
<1>16. Learn!StopsForACause'
  <2>1. taken'[f].now = r /\ taken'[f].before = a /\ taken'[f].times = seen.times
    BY <1>2, <1>10
  <2>2. CASE learner' = "key"
    <3>1. posting' = {f} /\ (Learn!Fell(g, r) \/ (Learn!Grew(g, r) /\ Learn!NoTime(g, r)))
      BY <1>4, <2>2
    <3>2. QED
      BY <1>14, <1>15, <2>1, <3>1 DEF Learn!StopsForACause
  <2>3. CASE learner' # "key"
    BY <2>3 DEF Learn!StopsForACause
  <2>4. QED
    BY <2>2, <2>3
<1>17. QED
  BY <1>11, <1>12, <1>13, <1>16 DEF OrderInv

LEMMA OrderStep == ASSUME OrderInv, Learn!Next PROVE OrderInv'
<1>1. ASSUME UNCHANGED <<records, counted, clock>>, answer' \subseteq records,
             learner' = "key" => learner = "key" /\ UNCHANGED <<posting, taken>>,
             flows' \in [Flows -> Flow],
             taken' \in [Flows -> [now : records \cup {Learn!NoRecord},
                                  before : records \cup {Learn!NoRecord}, times : SUBSET Nat]],
             \A f \in Flows : Knows(f)'
      PROVE  OrderInv'
  BY <1>1 DEF OrderInv, Shapes, CountsOn, Learn!StopsForACause
<1>2. ASSUME UNCHANGED <<flows, taken>>
      PROVE  /\ flows' \in [Flows -> Flow]
             /\ taken' \in [Flows -> [now : records \cup {Learn!NoRecord},
                                     before : records \cup {Learn!NoRecord}, times : SUBSET Nat]]
             /\ \A f \in Flows : Knows(f)'
  BY <1>2 DEF OrderInv, Shapes, Knows, Kept
<1>3. answer \subseteq records
  BY DEF OrderInv, Shapes
<1>4. CASE Learn!Query
  BY <1>1, <1>2, <1>4 DEF Learn!Query, Learn!net, Learn!source, Learn!hist
<1>5. CASE Learn!PressKey \/ Learn!Update \/ Learn!Updated
  BY <1>1, <1>2, <1>3, <1>5
     DEF Learn!PressKey, Learn!Update, Learn!Updated, Learn!net, Learn!source, Learn!hist
<1>6. CASE \E f \in Flows : Learn!Remove(f)
  BY <1>1, <1>2, <1>3, <1>6 DEF Learn!Remove, Learn!net, Learn!source
(* A start, or an end, of the application: nothing is known of any flow.     *)
<1>7. CASE Learn!Start \/ Learn!End
  <2>1. /\ flows' = [f \in Flows |-> Learn!NoFlow] /\ taken' = [f \in Flows |-> Learn!NoneTaken]
        /\ UNCHANGED <<records, counted, clock>> /\ answer' \subseteq records /\ learner' # "key"
    BY <1>3, <1>7 DEF Learn!Start, Learn!End, Learn!net, Learn!source
  <2>2. Learn!NoFlow \in Flow
    BY DEF Learn!NoFlow, Flow, Maybe
  <2>3. /\ Learn!NoneTaken.now = Learn!NoRecord
        /\ Learn!NoneTaken \in [now : records \cup {Learn!NoRecord},
                                before : records \cup {Learn!NoRecord}, times : SUBSET Nat]
    BY DEF Learn!NoneTaken
  <2>4. \A f \in Flows : Knows(f)'
    BY <2>1, <2>3 DEF Knows
  <2>5. QED
    BY <1>1, <2>1, <2>2, <2>3, <2>4
<1>8. ASSUME NEW f \in Flows, NEW rate \in Rates,
             Learn!PostThreshold(f, rate) \/ Learn!PostSmoothed(f, rate)
      PROVE  OrderInv'
  <2>1. /\ learner = "update" /\ UNCHANGED <<learner, records, counted, clock, answer, taken>>
        /\ flows' = flows \/ flows' = [flows EXCEPT ![f].new = 0]
    BY <1>8 DEF Learn!PostThreshold, Learn!PostSmoothed, Learn!Post, Learn!source, Learn!hist
  <2>2. CASE flows' = flows
    BY <1>1, <1>2, <1>3, <2>1, <2>2
  <2>3. CASE flows' = [flows EXCEPT ![f].new = 0]
    <3>1. flows \in [Flows -> Flow] /\ flows[f] \in Flow
      BY DEF OrderInv, Shapes
    <3>2. flows' \in [Flows -> Flow]
      BY <2>3, <3>1 DEF Flow
    <3>3. /\ \A e \in Flows : /\ flows'[e].octets = flows[e].octets
                              /\ flows'[e].start = flows[e].start /\ flows'[e].time = flows[e].time
          /\ \A e \in Flows : flows[e] = Learn!NoFlow => flows'[e] = Learn!NoFlow
      BY <2>3, <3>1 DEF Flow, Learn!NoFlow
    <3>4. \A e \in Flows : Knows(e)'
      BY <2>1, <3>3 DEF OrderInv, Knows, Kept
    <3>5. QED
      BY <1>1, <1>3, <2>1, <3>2, <3>4 DEF OrderInv, Shapes
  <2>4. QED
    BY <2>1, <2>2, <2>3
<1>9. QED
  BY <1>4, <1>5, <1>6, <1>7, <1>8, SendStep, LearnStep DEF Learn!Next
-----------------------------------------------------------------------------
(* What the threads of the GUI have agreed on without a lock. A record is    *)
(* counted when it is not the one the polling thread is about.               *)
Covered == 1 .. traffic_report \subseteq excusedReports
Counted == IF Gui!Counting(poll) THEN traffic_report - 1 ELSE traffic_report

GuiTypes ==
  /\ poll \in {"register", "ipfix", "read", "write", "thresholds", "ended"}
  /\ traffic_report \in 0 .. MaxReports /\ Counted \in Nat
  /\ count \in 0 .. Counted /\ traffic_dirty \in 0 .. Counted /\ want \in 0 .. traffic_report
  /\ send \in [step : {"none", "sleep", "read", "slice", "reset", "next"},
               event : Gui!Events \cup {"none"}]
  /\ slice \subseteq 1 .. traffic_report /\ excusedReports \subseteq 1 .. traffic_report
  /\ updates \in [Gui!Reports -> Nat]
  /\ send.step \in {"read", "slice", "reset"} => send.event \in Gui!Events

(* Where the two threads are in each other's way, all records are excused.   *)
Excuses ==
  /\ Gui!Overlap \/ send.event = "threshold_update" => Covered
  /\ poll = "write" /\ count # traffic_dirty => Covered
  /\ send.step = "read" => traffic_dirty > 0 \/ Covered \/ Gui!Counting(poll)
  /\ send.step = "slice" => Covered \/ (want = traffic_dirty /\ traffic_dirty > 0)
  /\ send.step = "reset" => Covered \/ slice = (Counted - traffic_dirty + 1) .. Counted

Sent ==
  \A i \in Gui!Reports \ excusedReports :
    updates[i] = IF i > Counted - traffic_dirty THEN 0 ELSE 1

GuiInv == GuiTypes /\ Excuses /\ Sent

LEMMA PollSteps ==
  ASSUME GuiInv, Gui!Next,
         Gui!Register \/ Gui!Append \/ Gui!Read \/ Gui!Write \/ Gui!Thresholds \/ Gui!Sleep
           \/ Gui!PollEnds
  PROVE  GuiInv'
<1> USE ApplicationsAssumption DEF Gui!GuiAssumption
<1>1. /\ UNCHANGED <<send, want, slice, updates, connects>>
      /\ excusedReports' = IF Gui!Overlap' \/ send.event = "threshold_update"
                           THEN 1 .. traffic_report' ELSE excusedReports
  BY DEF Gui!Next, Gui!Register, Gui!Append, Gui!Read, Gui!Write, Gui!Thresholds, Gui!Sleep,
         Gui!PollEnds, Gui!sendVars
<1>2. CASE UNCHANGED <<traffic_report, traffic_dirty, count>>
           /\ poll \notin {"read", "write"} /\ poll' \notin {"read", "write"}
           /\ poll' \in {"register", "ipfix", "read", "write", "thresholds", "ended"}
  <2>1. ~Gui!Counting(poll) /\ ~Gui!Counting(poll)' /\ ~Gui!Overlap' /\ Counted' = Counted
    BY <1>2 DEF Gui!Counting, Gui!Overlap, Counted
  <2>2. (send.event = "threshold_update" => Covered') /\ (Covered => Covered')
    BY <1>1, <1>2, <2>1 DEF Covered
  <2>3. GuiTypes' /\ excusedReports \subseteq excusedReports'
    BY <1>1, <1>2, <2>1 DEF GuiInv, GuiTypes
  <2>4. Excuses'
    BY <1>1, <1>2, <2>1, <2>2 DEF GuiInv, Excuses
  <2>5. Sent'
    BY <1>1, <1>2, <2>1, <2>3 DEF GuiInv, Sent
  <2>6. QED
    BY <2>3, <2>4, <2>5 DEF GuiInv
<1>3. CASE Gui!Register \/ Gui!Thresholds \/ Gui!Sleep \/ Gui!PollEnds
  BY <1>2, <1>3 DEF Gui!Register, Gui!Thresholds, Gui!Sleep, Gui!PollEnds, Gui!dirty
<1>4. CASE Gui!Append
  <2>1. /\ poll = "ipfix" /\ poll' = "read" /\ traffic_report' = traffic_report + 1
        /\ traffic_report < MaxReports /\ UNCHANGED <<count, traffic_dirty>>
    BY <1>4 DEF Gui!Append, Gui!dirty
  <2>2. /\ ~Gui!Counting(poll) /\ Gui!Counting(poll)' /\ Counted' = Counted
        /\ Gui!Overlap' <=> send.step \in {"slice", "reset"}
    BY <1>1, <2>1 DEF Gui!Counting, Gui!Overlap, Counted, GuiInv, GuiTypes
  <2>3. GuiTypes' /\ excusedReports \subseteq excusedReports'
    BY <1>1, <2>1, <2>2 DEF GuiInv, GuiTypes
  <2>4. Gui!Overlap' \/ send.event = "threshold_update" => Covered'
    BY <1>1 DEF Covered
  <2>5. Excuses'
    BY <1>1, <2>1, <2>2, <2>4 DEF Excuses
  <2>6. Sent'
    BY <1>1, <2>1, <2>2, <2>3 DEF GuiInv, Sent
  <2>7. QED
    BY <2>3, <2>5, <2>6 DEF GuiInv
<1>5. CASE Gui!Read
  <2>1. /\ poll = "read" /\ poll' = "write" /\ count' = traffic_dirty
        /\ UNCHANGED <<traffic_report, traffic_dirty>>
    BY <1>5 DEF Gui!Read, Gui!dirty
  <2>2. /\ Gui!Counting(poll) /\ Gui!Counting(poll)' /\ Counted' = Counted
        /\ Gui!Overlap' <=> Gui!Overlap
    BY <1>1, <2>1 DEF Gui!Counting, Gui!Overlap, Counted
  <2>3. GuiTypes' /\ excusedReports \subseteq excusedReports'
    BY <1>1, <2>1, <2>2 DEF GuiInv, GuiTypes
  <2>4. (Gui!Overlap' \/ send.event = "threshold_update" => Covered') /\ (Covered => Covered')
    BY <1>1, <2>1 DEF Covered
  <2>5. Excuses'
    BY <1>1, <2>1, <2>2, <2>4 DEF GuiInv, Excuses
  <2>6. Sent'
    BY <1>1, <2>1, <2>2, <2>3 DEF GuiInv, Sent
  <2>7. QED
    BY <2>3, <2>5, <2>6 DEF GuiInv
<1>6. CASE Gui!Write
  <2>1. /\ poll = "write" /\ poll' = "ipfix" /\ count' = 0 /\ traffic_dirty' = count + 1
        /\ UNCHANGED traffic_report
    BY <1>6 DEF Gui!Write
  <2>2. /\ Gui!Counting(poll) /\ ~Gui!Counting(poll)' /\ ~Gui!Overlap'
        /\ Counted' = Counted + 1 /\ Counted' = traffic_report
        /\ (Gui!Overlap <=> send.step \in {"slice", "reset"})
    BY <1>1, <2>1 DEF Gui!Counting, Gui!Overlap, Counted, GuiInv, GuiTypes
  <2>3. GuiTypes' /\ excusedReports \subseteq excusedReports'
    BY <1>1, <2>1, <2>2 DEF GuiInv, GuiTypes
  <2>4. (send.event = "threshold_update" => Covered') /\ (Covered => Covered')
    BY <1>1, <2>1 DEF Covered
  <2>5. Excuses'
    BY <1>1, <2>1, <2>2, <2>3, <2>4 DEF GuiInv, GuiTypes, Excuses
  <2>6. Sent'
    <3>1. CASE count = traffic_dirty
      BY <1>1, <2>1, <2>2, <2>3, <3>1 DEF GuiInv, GuiTypes, Sent, Gui!Reports
    <3>2. CASE Covered
      <4>1. \A i \in Gui!Reports \ excusedReports' : i > traffic_report /\ updates[i] = 0
        BY <2>2, <2>3, <3>2 DEF Covered, GuiInv, GuiTypes, Sent, Gui!Reports
      <4>2. QED
        BY <1>1, <2>1, <2>2, <2>3, <4>1 DEF GuiTypes, Sent, Gui!Reports
    <3>3. QED
      BY <2>1, <3>1, <3>2 DEF GuiInv, Excuses
  <2>7. QED
    BY <2>3, <2>5, <2>6 DEF GuiInv
<1>7. QED
  BY <1>3, <1>4, <1>5, <1>6

LEMMA SendSteps ==
  ASSUME GuiInv, Gui!Next, Gui!Check \/ Gui!ReadDirty \/ Gui!Slice \/ Gui!Emit \/ Gui!Connect
  PROVE  GuiInv'
<1>1. /\ UNCHANGED <<poll, count, traffic_report>> /\ Counted' = Counted
      /\ excusedReports' = IF \/ Gui!Overlap' \/ connects' # connects
                              \/ send'.event = "threshold_update"
                           THEN 1 .. traffic_report ELSE excusedReports
  BY DEF Gui!Next, Gui!Check, Gui!ReadDirty, Gui!Slice, Gui!Emit, Gui!Connect, Gui!pollVars,
         Counted, Gui!Counting
<1>2. /\ excusedReports \subseteq excusedReports' /\ excusedReports' \subseteq 1 .. traffic_report
      /\ Gui!Overlap' \/ connects' # connects \/ send'.event = "threshold_update" => Covered'
      /\ Covered => Covered'
  BY <1>1 DEF GuiInv, GuiTypes, Covered
<1>3. /\ Gui!Overlap <=> Gui!Counting(poll) /\ send.step \in {"slice", "reset"}
      /\ Gui!Overlap' <=> Gui!Counting(poll) /\ send'.step \in {"slice", "reset"}
      /\ ~Gui!Counting(poll) => Counted = traffic_report
      /\ poll = "write" => Gui!Counting(poll)
  BY <1>1 DEF Gui!Overlap, Counted, Gui!Counting
<1>4. CASE Gui!Check
  <2>1. /\ UNCHANGED <<want, slice, updates, traffic_dirty>>
        /\ send'.step \in {"read", "next", "sleep"}
        /\ send'.step = "read" => send'.event \in Gui!Events
        /\ send' \in [step : {"none", "sleep", "read", "slice", "reset", "next"},
                      event : Gui!Events \cup {"none"}]
        /\ send'.step = "read" => traffic_dirty > 0 \/ send'.event = "threshold_update"
    BY <1>4 DEF Gui!Check, Gui!At, Gui!Sleeping, Gui!Dirty, Gui!Events, Gui!dirty
  <2>2. GuiTypes' /\ Excuses'
    BY <1>1, <1>2, <1>3, <2>1 DEF GuiInv, GuiTypes, Excuses
  <2>3. Sent'
    BY <1>1, <1>2, <2>1 DEF GuiInv, Sent
  <2>4. QED
    BY <2>2, <2>3 DEF GuiInv
<1>5. CASE Gui!ReadDirty
  <2>1. /\ send.step = "read" /\ send'.step = "slice" /\ send'.event = send.event
        /\ send' \in [step : {"none", "sleep", "read", "slice", "reset", "next"},
                      event : Gui!Events \cup {"none"}]
        /\ want' = traffic_dirty /\ UNCHANGED <<slice, updates, traffic_dirty>>
    BY <1>5 DEF Gui!ReadDirty, GuiInv, GuiTypes, Gui!dirty
  <2>2. GuiTypes'
    BY <1>1, <1>2, <2>1 DEF GuiInv, GuiTypes, Counted
  <2>3. Excuses'
    BY <1>1, <1>2, <1>3, <2>1 DEF GuiInv, Excuses
  <2>4. Sent'
    BY <1>1, <1>2, <2>1 DEF GuiInv, Sent
  <2>5. QED
    BY <2>2, <2>3, <2>4 DEF GuiInv
<1>6. CASE Gui!Slice
  <2>1. /\ send.step = "slice" /\ send'.step = "reset" /\ send'.event = send.event
        /\ send' \in [step : {"none", "sleep", "read", "slice", "reset", "next"},
                      event : Gui!Events \cup {"none"}]
        /\ want' = 0 /\ UNCHANGED <<updates, traffic_dirty>>
        /\ slice' = (IF want = 0 THEN 1 ELSE traffic_report - want + 1) .. traffic_report
    BY <1>6 DEF Gui!Slice, Gui!From, GuiInv, GuiTypes, Gui!dirty
  <2>2. GuiTypes'
    BY <1>1, <1>2, <2>1 DEF GuiInv, GuiTypes
  <2>3. Excuses'
    <3>1. Covered' \/ slice' = (Counted - traffic_dirty + 1) .. Counted
      <4>1. CASE Covered \/ Gui!Counting(poll)
        BY <1>2, <1>3, <2>1, <4>1
      <4>2. CASE ~Covered /\ ~Gui!Counting(poll)
        <5>1. want = traffic_dirty /\ traffic_dirty > 0 /\ Counted = traffic_report
          BY <1>3, <2>1, <4>2 DEF GuiInv, Excuses
        <5>2. QED
          BY <2>1, <5>1 DEF GuiInv, GuiTypes
      <4>3. QED
        BY <4>1, <4>2
    <3>2. QED
      BY <1>1, <1>2, <1>3, <2>1, <3>1 DEF GuiInv, Excuses
  <2>4. Sent'
    BY <1>1, <1>2, <2>1 DEF GuiInv, Sent
  <2>5. QED
    BY <2>2, <2>3, <2>4 DEF GuiInv
<1>7. CASE Gui!Emit
  <2>1. /\ send.step = "reset" /\ traffic_dirty' = 0 /\ slice' = {} /\ want' = want
        /\ send'.step \in {"next", "sleep"} /\ send'.event \in {"ipfix_update", "none"}
        /\ send' \in [step : {"none", "sleep", "read", "slice", "reset", "next"},
                      event : Gui!Events \cup {"none"}]
    BY <1>7 DEF Gui!Emit, Gui!At, Gui!Sleeping, Gui!Events
  <2>2. \/ send.event # "ipfix_update" /\ UNCHANGED updates
        \/ updates' = [i \in Gui!Reports |-> IF i \in slice THEN updates[i] + 1 ELSE updates[i]]
    BY <1>7 DEF Gui!Emit
  <2>3. updates' \in [Gui!Reports -> Nat]
    BY <2>2 DEF GuiInv, GuiTypes
  <2>4. GuiTypes'
    BY <1>1, <1>2, <2>1, <2>3 DEF GuiInv, GuiTypes
  <2>5. poll = "write" => Covered'
    BY <1>2, <1>3, <2>1 DEF GuiInv, Excuses
  <2>6. Excuses'
    BY <1>1, <1>2, <1>3, <2>1, <2>5 DEF Excuses
  <2>7. Sent'
    <3>1. CASE Covered
      <4>1. ASSUME NEW i \in Gui!Reports \ excusedReports' PROVE updates'[i] = 0 /\ i > Counted
        <5>1. i > traffic_report /\ i \notin slice
          BY <1>2, <3>1, <4>1 DEF Covered, GuiInv, GuiTypes, Gui!Reports
        <5>2. i > Counted /\ updates[i] = 0
          BY <1>2, <4>1, <5>1 DEF GuiInv, GuiTypes, Sent, Gui!Reports, Counted
        <5>3. QED
          BY <2>2, <5>1, <5>2
      <4>2. QED
        BY <1>1, <2>1, <2>4, <4>1 DEF Sent, GuiTypes, Gui!Reports
    <3>2. CASE ~Covered
      <4>1. slice = (Counted - traffic_dirty + 1) .. Counted /\ send.event # "threshold_update"
        BY <2>1, <3>2 DEF GuiInv, Excuses
      <4>2. CASE send.event = "ipfix_update"
        <5>1. ASSUME NEW i \in Gui!Reports \ excusedReports
              PROVE  updates'[i] = IF i > Counted THEN 0 ELSE 1
          BY <2>2, <4>1, <4>2 DEF GuiInv, GuiTypes, Sent, Gui!Reports
        <5>2. QED
          BY <1>1, <1>2, <2>1, <2>4, <5>1 DEF Sent, GuiTypes, Gui!Reports
      <4>3. QED
        BY <2>1, <4>1, <4>2 DEF GuiInv, GuiTypes, Gui!Events
    <3>3. QED
      BY <3>1, <3>2
  <2>8. QED
    BY <2>4, <2>6, <2>7 DEF GuiInv
<1>8. CASE Gui!Connect
  <2>1. /\ traffic_dirty' = 0 /\ connects' # connects /\ UNCHANGED <<want, slice, updates>>
        /\ send' = send \/ send' = Gui!Sleeping
    BY <1>8 DEF Gui!Connect
  <2>2. /\ send' \in [step : {"none", "sleep", "read", "slice", "reset", "next"},
                      event : Gui!Events \cup {"none"}]
        /\ send'.step \in {"read", "slice", "reset"} => send' = send
    BY <2>1 DEF GuiInv, GuiTypes, Gui!Sleeping, Gui!At
  <2>3. GuiTypes' /\ Excuses'
    <3>1. GuiTypes'
      BY <1>1, <1>2, <2>1, <2>2 DEF GuiInv, GuiTypes
    <3>2. Excuses'
      BY <1>1, <1>2, <2>1 DEF Excuses
    <3>3. QED
      BY <3>1, <3>2
  <2>4. Sent'
    <3>1. \A i \in Gui!Reports \ excusedReports' :
            i > Counted /\ i > Counted - traffic_dirty /\ i \notin excusedReports
      BY <1>1, <1>2, <2>1 DEF Covered, GuiInv, GuiTypes, Gui!Reports, Counted
    <3>2. QED
      BY <1>1, <2>1, <2>3, <3>1 DEF GuiInv, GuiTypes, Sent, Gui!Reports
  <2>5. QED
    BY <2>3, <2>4 DEF GuiInv
<1>9. QED
  BY <1>4, <1>5, <1>6, <1>7, <1>8
(* The GUI's invariant from its start on.                                     *)
LEMMA GuiStart == Gui!Init => GuiInv
<1> SUFFICES ASSUME Gui!Init PROVE GuiInv
  OBVIOUS
<1>1. Counted = 0 /\ traffic_report = 0 /\ traffic_dirty = 0
  BY DEF Gui!Init, Counted, Gui!Counting
<1>2. GuiTypes
  BY <1>1, ApplicationsAssumption DEF Gui!GuiAssumption, Gui!Init, GuiTypes, Gui!At, Gui!Events
<1>3. Excuses /\ Sent
  BY <1>1 DEF Gui!Init, Excuses, Sent, Gui!At, Gui!Overlap, Gui!Counting, Gui!Reports
<1>4. QED
  BY <1>2, <1>3 DEF GuiInv

LEMMA GuiStep == GuiInv /\ (Gui!Next \/ UNCHANGED guiVars) => GuiInv'
<1>1. GuiInv /\ Gui!Next => GuiInv'
  BY PollSteps, SendSteps DEF Gui!Next
<1>2. GuiInv /\ UNCHANGED guiVars => GuiInv'
  BY DEF GuiInv, GuiTypes, Excuses, Sent, Covered, Counted, Gui!Overlap, Gui!Counting, guiVars
<1>3. QED
  BY <1>1, <1>2
-----------------------------------------------------------------------------
DetectInv == ScanInv /\ DdosInv
LearnInv  == CacheInv /\ OrderInv

LEMMA InitInv == Init => DetectInv /\ LearnInv
<1> SUFFICES ASSUME Init PROVE DetectInv /\ LearnInv
  OBVIOUS
<1>1. ScanInv
  <2>1. Scan!Cardinality({}) = 0 /\ PortThresholdCount \in Nat
    BY ApplicationsAssumption, SameCounts, FS_EmptySet DEF Scan!PortScanAssumption
  <2>2. QED
    BY <2>1 DEF Init, Scan!Init, ScanInv
<1>2. DdosInv
  BY ApplicationsAssumption DEF Ddos!DdosAssumption, Init, Ddos!Init, DdosInv, Ddos!Kinds, Ddos!Never
<1>3. CacheInv
  BY DEF Init, Learn!Init, CacheInv, Learn!CacheTracksStore, Maybe
<1>4. Shapes /\ CountsOn
  BY DEF Init, Learn!Init, Shapes, CountsOn, Flow, Learn!NoFlow, Learn!NoneTaken, Maybe
<1>5. \A f \in Flows : Knows(f)
  BY DEF Init, Learn!Init, Knows, Learn!NoneTaken
<1>6. QED
  BY <1>1, <1>2, <1>3, <1>4, <1>5
     DEF Init, Learn!Init, DetectInv, LearnInv, OrderInv, Learn!StopsForACause

LEMMA DetectStep == DetectInv /\ [Next]_vars => DetectInv'
<1> SUFFICES ASSUME DetectInv, [Next]_vars PROVE DetectInv'
  OBVIOUS
<1>1. UNCHANGED scanVars => ScanInv'
  BY DEF DetectInv, ScanInv, scanVars, Set, Waits
<1>2. UNCHANGED ddosVars => DdosInv'
  BY DEF DetectInv, DdosInv, ddosVars
<1>3. Scan!Next => ScanInv'
  BY ScanStep DEF DetectInv
<1>4. Ddos!Next => DdosInv'
  BY DdosStep DEF DetectInv
<1>5. QED
  BY <1>1, <1>2, <1>3, <1>4 DEF Next, vars, DetectInv

LEMMA LearnersStep == LearnInv /\ [Next]_vars => LearnInv'
<1> SUFFICES ASSUME LearnInv, [Next]_vars PROVE LearnInv'
  OBVIOUS
<1>1. CASE UNCHANGED learnVars
  <2>1. CacheInv'
    BY <1>1 DEF LearnInv, CacheInv, Learn!CacheTracksStore, learnVars
  <2>2. Shapes' /\ CountsOn' /\ Learn!StopsForACause'
    BY <1>1 DEF LearnInv, OrderInv, Shapes, CountsOn, Learn!StopsForACause, learnVars
  <2>3. \A f \in Flows : Knows(f) => Knows(f)'
    BY <1>1 DEF Knows, Kept, learnVars
  <2>4. QED
    BY <1>1, <2>1, <2>2, <2>3 DEF LearnInv, OrderInv, learnVars
<1>2. CASE Learn!Next
  BY <1>2, CacheStep, OrderStep DEF LearnInv
<1>3. QED
  BY <1>1, <1>2 DEF Next, vars

(* However many hosts, ports and thresholds there are, and whatever else is  *)
(* treated, refused or removed in between: who used too many ports is        *)
(* blocked by the next poll, and a mirror is only asked for while as many    *)
(* sources as it takes were heard within the period.                         *)
THEOREM DetectorsDetect == Spec => []DetectorsAreRight
<1>1. ScanInv => Scan!ScannersAreBlocked
  <2> SUFFICES ASSUME ScanInv, scanner = "query", NEW k \in Scan!Keys,
                      Scan!Cardinality(flow_to_port_dict[k]) > PortThresholdCount
               PROVE  Scan!Blocked(k[1]) \/ k[1] \in excusedSources
    BY DEF Scan!ScannersAreBlocked
  <2>1. \A kind \in Scan!Kinds : Set(k, kind) /\ ~Waits(k, kind)
    BY DEF ScanInv, Waits, Scan!Kinds
  <2>2. QED
    BY <2>1 DEF Set, Scan!Blocked
<1>2. Init => DetectInv
  BY InitInv
<1>3. DetectInv => DetectorsAreRight
  BY <1>1, DdosImplies DEF DetectInv, DetectorsAreRight
<1>4. QED
  BY <1>2, <1>3, DetectStep, PTL DEF Spec

(* For any flows, rules and rates, whatever fails, restarts or is removed,   *)
(* and whatever records are lost, late or there twice: what the threshold    *)
(* application takes for set is set; and it stops for a key only at a record *)
(* of a time it has taken, or at one below the last of another rule or sent  *)
(* later.                                                                    *)
THEOREM LearnerLearns == Spec => []LearnerIsRight
<1>1. Init => LearnInv
  BY InitInv
<1>2. LearnInv => LearnerIsRight
  BY DEF LearnInv, CacheInv, OrderInv, LearnerIsRight
<1>3. QED
  BY <1>1, <1>2, LearnersStep, PTL DEF Spec

(* For any number of records, thresholds and clients: although no lock is    *)
(* taken, a record reaches the clients exactly once, but for those that were *)
(* there when a client connected, when a count and a sending overlapped, or  *)
(* when a threshold_update took them.                                        *)
THEOREM RecordsAreSentOnce == Spec => []SentOnce
<1>1. Init => GuiInv
  BY GuiStart DEF Init
<1>2. GuiInv /\ [Next]_vars => GuiInv'
  BY GuiStep DEF Next, vars
<1>3. GuiInv => SentOnce
  BY ApplicationsAssumption
     DEF Gui!GuiAssumption, GuiInv, GuiTypes, Sent, Counted, SentOnce, Gui!SentOnce, Gui!Reports
<1>4. QED
  BY <1>1, <1>2, <1>3, PTL DEF Spec
-----------------------------------------------------------------------------
(* The types of the four applications, each with what makes it inductive.    *)
ScanTypes ==
  /\ Scan!TypeOK
  /\ scanner \in Scan!Kinds => treating \in [key : Scan!Keys, id : ThreshIds]

LEMMA ScanTypesStep == ASSUME ScanTypes, Scan!Next PROVE ScanTypes'
<1> USE DEF ScanTypes, Scan!TypeOK, Scan!Kinds
<1>1. CASE Scan!Start \/ Scan!End
  BY <1>1 DEF Scan!Start, Scan!End
<1>2. CASE Scan!Register \/ Scan!read_ipfix \/ Scan!Expire
  BY <1>2 DEF Scan!Register, Scan!read_ipfix, Scan!Expire, Scan!memory
<1>3. ASSUME NEW r \in Scan!Records, Scan!Track(r) PROVE ScanTypes'
  <2> DEFINE k == <<r.src, r.dst>>  used == flow_to_port_dict[k] \cup {r.port}
  <2>1. k \in Scan!Keys /\ used \in SUBSET Ports
    BY <1>3 DEF Scan!Track, Scan!Keys, Scan!Records
  <2>2. flow_to_port_dict' \in [Scan!Keys -> SUBSET Ports] /\ UNCHANGED <<scanStore, excusedSources>>
    BY <1>3, <2>1 DEF Scan!Track
  <2>3. \/ /\ scanner' = "prefix" /\ recent' = TRUE /\ treated_flows' = treated_flows \cup {k}
           /\ \E id \in ThreshIds : treating' = [key |-> k, id |-> id]
        \/ UNCHANGED <<scanner, recent, treated_flows, treating>>
    BY <1>3 DEF Scan!Track
  <2> HIDE DEF k, used
  <2>4. CASE UNCHANGED <<scanner, recent, treated_flows, treating>>
    BY <2>2, <2>4
  <2>5. CASE ~UNCHANGED <<scanner, recent, treated_flows, treating>>
    <3>1. PICK id \in ThreshIds : treating' = [key |-> k, id |-> id]
      BY <2>3, <2>5
    <3>2. treating' \in [key : Scan!Keys, id : ThreshIds]
      BY <2>1, <3>1
    <3>3. scanner' = "prefix" /\ recent' = TRUE /\ treated_flows' = treated_flows \cup {k}
      BY <2>3, <2>5
    <3>4. QED
      BY <2>1, <2>2, <3>2, <3>3
  <2>6. QED
    BY <2>4, <2>5
<1>4. CASE Scan!treat_flow
  <2>1. PICK kind \in Scan!Kinds, next \in {"interfix", "track"} :
          /\ scanner = kind /\ scanner' = next /\ Scan!Post(kind, next)
          /\ next = "track" \/ kind = "prefix"
    BY <1>4 DEF Scan!treat_flow, Scan!Post
  <2> DEFINE t == [kind |-> kind, id |-> treating.id, src |-> treating.key[1]]
  <2>2. t \in [kind : Scan!Kinds, id : ThreshIds, src : Sources]
    BY <2>1 DEF Scan!Keys
  <2>3. /\ scanStore' \subseteq scanStore \cup {t} /\ excusedSources' \subseteq excusedSources \cup {t.src}
        /\ treating' = (IF next = "track" THEN Scan!NoTreatment ELSE treating)
        /\ UNCHANGED <<flow_to_port_dict, treated_flows, recent>>
    BY <2>1 DEF Scan!Post
  <2>4. t.src \in Sources
    BY <2>2
  <2> HIDE DEF t
  <2>5. QED
    BY <2>1, <2>2, <2>3, <2>4
<1>5. CASE Scan!Remove
  BY <1>5 DEF Scan!Remove, Scan!memory
<1>6. QED
  BY <1>1, <1>2, <1>3, <1>4, <1>5 DEF Scan!Next

(* DdosInv says that what install_mirror is at is a destination.              *)
DdosTypes == DdosInv /\ Ddos!TypeOK

LEMMA TickStays ==
  ASSUME NEW n \in Nat, NEW x \in 0 .. n
  PROVE  (IF x = n THEN n ELSE x + 1) \in 0 .. n
OBVIOUS

LEMMA DdosTypesStep == ASSUME DdosTypes, Ddos!Next PROVE DdosTypes'
<1>0. DdosInv'
  BY DdosStep DEF DdosTypes
<1> USE DEF DdosTypes, Ddos!TypeOK, Ddos!Kinds
<1>1. Period \in Nat
  BY ApplicationsAssumption DEF Ddos!DdosAssumption
<1>2. CASE Ddos!Start \/ Ddos!sources_clean_up \/ Ddos!Sleep \/ Ddos!Remove
  BY <1>0, <1>2 DEF Ddos!Start, Ddos!sources_clean_up, Ddos!Sleep, Ddos!Remove
<1>3. CASE Ddos!End
  BY <1>0, <1>3 DEF Ddos!End, DdosInv
<1>4. CASE Ddos!install_mirror
  BY <1>0, <1>4 DEF Ddos!install_mirror, DdosInv
<1>5. CASE Ddos!Tick
  <2> DEFINE age(d, h) == IF heard[d][h] = Ddos!Never THEN Ddos!Never ELSE heard[d][h] + 1
  <2>1. heard' \in [Dests -> [Hosts -> 0 .. Ddos!Never]]
    <3>1. heard' = [d \in Dests |-> [h \in Hosts |-> age(d, h)]]
      BY <1>5 DEF Ddos!Tick
    <3>2. \A d \in Dests, h \in Hosts : age(d, h) \in 0 .. Ddos!Never
      <4>1. Ddos!Never \in Nat
        BY <1>1 DEF Ddos!Never
      <4>2. ASSUME NEW d \in Dests, NEW h \in Hosts PROVE age(d, h) \in 0 .. Ddos!Never
        <5>1. heard[d][h] \in 0 .. Ddos!Never
          OBVIOUS
        <5>2. QED
          BY <4>1, <5>1, TickStays
      <4>3. QED
        BY <4>2
    <3> HIDE DEF age
    <3>3. QED
      BY <3>1, <3>2
  <2>2. QED
    BY <1>0, <1>5, <2>1 DEF Ddos!Tick
<1>6. ASSUME NEW d \in Dests, NEW h \in Hosts, Ddos!source_tracker(d, h) PROVE DdosTypes'
  <2>1. heard' \in [Dests -> [Hosts -> 0 .. Ddos!Never]]
    BY <1>1, <1>6 DEF Ddos!source_tracker, Ddos!Never
  <2>2. QED
    BY <1>0, <1>6, <2>1 DEF Ddos!source_tracker
<1>7. QED
  BY <1>2, <1>3, <1>4, <1>5, <1>6 DEF Ddos!Next

LEMMA LearnTypesStep == ASSUME Learn!TypeOK, Learn!Next PROVE Learn!TypeOK'
<1> USE DEF Learn!TypeOK, Learn!Unknown
<1> DEFINE Known == [octets : Learn!Unknown .. MaxOctets, start : Nat \cup {Learn!Unknown},
                     time : Nat \cup {Learn!Unknown}, new : 0 .. MinimuStep]
           Taking(S) == [now : S \cup {Learn!NoRecord}, before : S \cup {Learn!NoRecord},
                         times : SUBSET Nat]
<1>0. /\ MinimuStep \in Nat /\ MinimuStep > 0 /\ MaxOctets \in Nat /\ MaxLife \in Nat
      /\ Learn!NoFlow \in Known /\ \A S : Learn!NoneTaken \in Taking(S)
  BY ApplicationsAssumption DEF Learn!ThresholdAppAssumption, Learn!NoFlow, Learn!NoneTaken
<1>1. ASSUME NEW f \in Flows, NEW u \in Rules, NEW s \in Learn!Subtypes, Learn!Send(f, u, s)
      PROVE  Learn!TypeOK'
  <2>1. PICK o \in 0 .. MaxOctets, t \in {clock.time, clock.time + 1}, l \in 0 .. MaxLife :
          /\ l <= t
          /\ \/ UNCHANGED counted
             \/ counted' = [counted EXCEPT ![f][u] = IF s = "ipfix" THEN Learn!Over ELSE o]
          /\ records' = records \cup {[flow |-> f, rule |-> u, subtype |-> s, octets |-> o,
                                       start |-> t - l, end |-> t, at |-> clock.sent]}
          /\ clock' = [time |-> t, sent |-> clock.sent + 1]
    BY <1>1 DEF Learn!Send
  <2>2. t \in Nat /\ l \in Nat /\ clock.sent \in Nat
    BY <1>0, <2>1
  <2>3. counted' \in [Flows -> [Rules -> 0 .. MaxOctets \cup {Learn!Over}]]
    <3>1. PICK n : n = IF s = "ipfix" THEN Learn!Over ELSE o
      OBVIOUS
    <3>2. n \in 0 .. MaxOctets \cup {Learn!Over}
      BY <2>1, <3>1
    <3>3. UNCHANGED counted \/ counted' = [counted EXCEPT ![f][u] = n]
      BY <2>1, <3>1
    <3>4. counted \in [Flows -> [Rules -> 0 .. MaxOctets \cup {Learn!Over}]]
      OBVIOUS
    <3> HIDE DEF Learn!TypeOK
    <3>5. counted[f] \in [Rules -> 0 .. MaxOctets \cup {Learn!Over}]
      BY <3>4
    <3>6. [counted[f] EXCEPT ![u] = n] \in [Rules -> 0 .. MaxOctets \cup {Learn!Over}]
      BY <3>2, <3>5
    <3>7. QED
      BY <3>3, <3>4, <3>6
  <2>4. records' \subseteq Learn!Record /\ records \subseteq records'
    BY <2>1, <2>2 DEF Learn!Record
  <2>5. clock' \in [time : Nat, sent : Nat] /\ share' \in [sends : Nat, posts : Nat]
    <3>1. share.sends > 0 /\ share' = [share EXCEPT !.sends = @ - 1]
      BY <1>1 DEF Learn!Send
    <3>2. share \in [sends : Nat, posts : Nat]
      OBVIOUS
    <3>3. share' \in [sends : Nat, posts : Nat]
      BY <3>1, <3>2
    <3>4. QED
      BY <2>1, <2>2, <3>3
  <2>6. UNCHANGED <<learner, flows, thresholds, posting, answer, rateStore, removed, taken>>
    BY <1>1 DEF Learn!Send, Learn!hist
  <2>7. taken \in [Flows -> Taking(records')]
    BY <2>4
  <2>8. QED
    BY <2>3, <2>4, <2>5, <2>6, <2>7
<1>2. ASSUME NEW f \in Flows, NEW rate \in Rates, Learn!Set(f, rate)
      PROVE  /\ rateStore' \in [Flows -> {Learn!Whole(x) : x \in Rates} \cup {Learn!Unknown}]
             /\ share' \in [sends : Nat, posts : Nat]
  BY <1>2 DEF Learn!Set
<1>3. CASE Learn!Start
  <2>1. taken' \in [Flows -> Taking(records)]
    BY <1>0, <1>3 DEF Learn!Start
  <2>2. QED
    BY <1>0, <1>3, <2>1 DEF Learn!Start, Learn!net, Learn!source
<1>4. CASE Learn!End
  <2>1. /\ rateStore' \in [Flows -> {Learn!Whole(x) : x \in Rates} \cup {Learn!Unknown}]
        /\ share' \in [sends : Nat, posts : Nat]
    <3>1. CASE UNCHANGED <<share, rateStore>>
      BY <3>1
    <3>2. CASE \E f \in posting, rate \in Rates : Learn!Set(f, rate)
      BY <1>2, <3>2
    <3>3. QED
      BY <1>4, <3>1, <3>2 DEF Learn!End
  <2>2. taken' \in [Flows -> Taking(records)] /\ flows' \in [Flows -> Known]
    BY <1>0, <1>4 DEF Learn!End
  <2>3. QED
    BY <1>0, <1>4, <2>1, <2>2 DEF Learn!End, Learn!source
<1>5. CASE Learn!Query
  BY <1>5 DEF Learn!Query, Learn!net, Learn!source, Learn!hist
<1>6. ASSUME NEW r \in answer, Learn!Learn(r) PROVE Learn!TypeOK'
  <2> DEFINE g == IF flows[r.flow] = Learn!NoFlow
                  THEN [Learn!NoFlow EXCEPT !.octets = r.octets, !.start = r.start]
                  ELSE flows[r.flow]
             a == taken[r.flow].now
             seen == [now |-> r, before |-> a,
                      times |-> taken[r.flow].times \cup {IF a = Learn!NoRecord THEN r.start ELSE a.end}]
  <2>1. /\ r \in records /\ r.flow \in Flows /\ r.octets \in 0 .. MaxOctets
        /\ r.start \in Nat /\ r.end \in Nat /\ flows \in [Flows -> Known]
        /\ a \in records \cup {Learn!NoRecord} /\ taken[r.flow].times \subseteq Nat
        /\ a # Learn!NoRecord => a.end \in Nat
    BY DEF Learn!Record
  <2>2. g \in Known
    <3>1. [Learn!NoFlow EXCEPT !.octets = r.octets, !.start = r.start] \in Known
      <4>1. r.octets \in Learn!Unknown .. MaxOctets /\ r.start \in Nat \cup {Learn!Unknown}
        BY <1>0, <2>1
      <4> HIDE DEF Learn!TypeOK, Learn!Unknown
      <4>2. QED
        BY <1>0, <4>1
    <3>2. flows[r.flow] \in Known
      BY <2>1
    <3> HIDE DEF Known
    <3>3. QED
      BY <3>1, <3>2
  <2>3. Learn!After(g, r) \in Known
    <3> HIDE DEF g
    <3>1. QED
      BY <1>0, <2>1, <2>2 DEF Learn!After
  <2>4. /\ flows' = [flows EXCEPT ![r.flow] = Learn!After(g, r)] /\ answer' = answer \ {r}
        /\ taken' = [taken EXCEPT ![r.flow] = seen]
        /\ learner' \in {"learn", "key"} /\ (posting' = posting \/ posting' = {r.flow})
        /\ UNCHANGED <<thresholds, records, counted, clock, share, rateStore, removed>>
    BY <1>6 DEF Learn!Learn, Learn!net, Learn!source
  <2>5. flows' \in [Flows -> Known]
    <3> HIDE DEF g, Known
    <3>1. QED
      BY <2>1, <2>3, <2>4
  <2>6. taken' \in [Flows -> Taking(records)]
    <3>1. seen \in Taking(records)
      BY <2>1
    <3>2. taken \in [Flows -> Taking(records)]
      OBVIOUS
    <3> HIDE DEF seen, Taking
    <3>3. QED
      BY <2>4, <3>1, <3>2
  <2>7. QED
    BY <2>1, <2>4, <2>5, <2>6
<1>7. CASE Learn!PressKey \/ Learn!Update \/ Learn!Updated
  BY <1>7 DEF Learn!PressKey, Learn!Update, Learn!Updated, Learn!net, Learn!source, Learn!hist
<1>8. ASSUME NEW f \in Flows, NEW rate \in Rates, Learn!PostThreshold(f, rate) \/ Learn!PostSmoothed(f, rate)
      PROVE  Learn!TypeOK'
  <2>1. /\ posting' \subseteq posting
        /\ UNCHANGED <<learner, answer, records, counted, clock, removed, taken>>
        /\ \/ UNCHANGED <<flows, thresholds, share, rateStore>>
           \/ \E x \in Rates : Learn!Post(f, x)
    BY <1>8 DEF Learn!PostThreshold, Learn!PostSmoothed, Learn!source, Learn!hist
  <2>2. ASSUME NEW x \in Rates, Learn!Post(f, x) PROVE Learn!TypeOK'
    <3>1. /\ rateStore' \in [Flows -> {Learn!Whole(y) : y \in Rates} \cup {Learn!Unknown}]
          /\ share' \in [sends : Nat, posts : Nat]
      BY <1>2, <2>2 DEF Learn!Post
    <3>2. /\ thresholds' = [thresholds EXCEPT ![f] = x]
          /\ flows' = [flows EXCEPT ![f].new = 0]
      BY <2>2 DEF Learn!Post
    <3>3. flows' \in [Flows -> Known]
      <4>1. flows \in [Flows -> Known] /\ flows[f] \in Known
        OBVIOUS
      <4>2. [flows[f] EXCEPT !.new = 0] \in Known
        <5>1. 0 \in 0 .. MinimuStep
          BY <1>0
        <5> HIDE DEF Learn!TypeOK, Learn!Unknown
        <5>2. QED
          BY <4>1, <5>1
      <4> HIDE DEF Known
      <4>3. QED
        BY <3>2, <4>1, <4>2
    <3>4. thresholds' \in [Flows -> Rates \cup {Learn!Whole(y) : y \in Rates} \cup {Learn!Unknown}]
      BY <3>2
    <3>5. QED
      BY <2>1, <3>1, <3>3, <3>4
  <2>3. QED
    BY <2>1, <2>2
<1>9. ASSUME NEW f \in Flows, Learn!Remove(f) PROVE Learn!TypeOK'
  BY <1>9 DEF Learn!Remove, Learn!net, Learn!source
<1>10. QED
  BY <1>1, <1>3, <1>4, <1>5, <1>6, <1>7, <1>8, <1>9 DEF Learn!Next

(* GuiInv bounds the counters; what is left are the thresholds shown.         *)
GuiShown ==
  /\ GuiInv /\ thresholds_dirty \in 0 .. MaxThresholds
  /\ shown \in [now : 0 .. MaxThresholds, old : -1 .. MaxThresholds]
  /\ connects \in 0 .. MaxConnects

LEMMA GuiShownTyped == GuiShown => Gui!TypeOK
BY ApplicationsAssumption
   DEF Gui!GuiAssumption, GuiShown, GuiInv, GuiTypes, Counted, Gui!TypeOK, Gui!Reports

LEMMA GuiShownStep == ASSUME GuiShown, Gui!Next PROVE GuiShown'
<1> USE ApplicationsAssumption DEF Gui!GuiAssumption
<1>1. GuiInv'
  BY GuiStep DEF GuiShown
<1>2. CASE Gui!Thresholds
  BY <1>1, <1>2 DEF GuiShown, Gui!Thresholds
<1>3. CASE Gui!Connect
  BY <1>1, <1>3 DEF GuiShown, Gui!Connect, Gui!pollVars
<1>4. CASE UNCHANGED <<thresholds_dirty, shown, connects>>
  BY <1>1, <1>4 DEF GuiShown
<1>5. QED
  BY <1>2, <1>3, <1>4
     DEF Gui!Next, Gui!Register, Gui!Append, Gui!Read, Gui!Write, Gui!Sleep, Gui!PollEnds,
         Gui!Check, Gui!ReadDirty, Gui!Slice, Gui!Emit, Gui!pollVars, Gui!dirty

(* The four applications keep the types of what they know and of what they   *)
(* have set at the coordinator, whatever the answers are and wherever they   *)
(* end.                                                                      *)
THEOREM ApplicationTypes == Spec => []TypeOK
<1> DEFINE Types4 == ScanTypes /\ DdosTypes /\ Learn!TypeOK /\ GuiShown
<1>1. Init => Types4
  <2> SUFFICES ASSUME Init PROVE Types4
    OBVIOUS
  <2>1. ScanTypes
    BY DEF Init, Scan!Init, ScanTypes, Scan!TypeOK, Scan!Kinds
  <2>2. DdosTypes
    BY InitInv, ApplicationsAssumption
       DEF Ddos!DdosAssumption, DetectInv, Init, Ddos!Init, DdosTypes, Ddos!TypeOK, Ddos!Never
  <2>3. Learn!TypeOK
    BY ApplicationsAssumption
       DEF Learn!ThresholdAppAssumption, Init, Learn!Init, Learn!TypeOK, Learn!NoFlow,
           Learn!NoneTaken, Learn!Unknown
  <2>4. GuiShown
    BY GuiStart, ApplicationsAssumption DEF Gui!GuiAssumption, Init, Gui!Init, GuiShown
  <2>5. QED
    BY <2>1, <2>2, <2>3, <2>4
<1>2. Types4 /\ [Next]_vars => Types4'
  <2> SUFFICES ASSUME Types4, [Next]_vars PROVE Types4'
    OBVIOUS
  <2>1. ScanTypes'
    <3>1. UNCHANGED scanVars => ScanTypes'
      BY DEF scanVars, ScanTypes, Scan!TypeOK
    <3>2. QED
      BY <3>1, ScanTypesStep DEF Next, vars
  <2>2. DdosTypes'
    <3>1. UNCHANGED ddosVars => DdosTypes'
      BY DEF ddosVars, DdosTypes, DdosInv, Ddos!TypeOK
    <3>2. QED
      BY <3>1, DdosTypesStep DEF Next, vars
  <2>3. Learn!TypeOK'
    <3>1. UNCHANGED learnVars => Learn!TypeOK'
      BY DEF learnVars, Learn!TypeOK
    <3>2. QED
      BY <3>1, LearnTypesStep DEF Next, vars
  <2>4. GuiShown'
    <3>1. UNCHANGED guiVars => GuiShown'
      BY GuiStep DEF guiVars, GuiShown
    <3>2. QED
      BY <3>1, GuiShownStep DEF Next, vars
  <2>5. QED
    BY <2>1, <2>2, <2>3, <2>4
<1>3. Types4 => TypeOK
  BY GuiShownTyped DEF TypeOK, ScanTypes, DdosTypes
<1>4. QED
  BY <1>1, <1>2, <1>3, PTL DEF Spec
=============================================================================
