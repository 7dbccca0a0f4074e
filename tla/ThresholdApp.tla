---------------------------- MODULE ThresholdApp ----------------------------
(***************************************************************************)
(* The threshold application: it learns the rate of each flow from the     *)
(* flow records it polls for, forecasts it, and keeps a threshold of the   *)
(* flow at the coordinator at what is forecast. What it has set it knows   *)
(* from a cache, filled from the coordinator when it starts.               *)
(*                                                                         *)
(* The forecast is any of a few rates. A flow is its addresses and ports:  *)
(* the rules that count it, at every switch and of either protocol, and    *)
(* those made again after one went, report under the same hash, and over a *)
(* network that loses, delays and copies.                                  *)
(***************************************************************************)
EXTENDS Integers, FiniteSets

CONSTANTS
  Flows,        \* hashes of flows
  Rates,        \* forecasts, in halves of the unit the coordinator is given
  MinimuStep,   \* minimuStep of config.json
  Types,        \* the types of config.json: 0 smooths, 1 forecasts
  Rules,        \* the monitoring rules made for a flow, each counts by itself
  MaxOctets,    \* bound: octets a rule counts
  MaxLife,      \* bound: how long before its end a record starts
  Shares        \* bounds: [records, thresholds set], one is chosen at the start

Unknown == -1
Over == -2      \* for a counter: the rule has had its final record

ThresholdAppAssumption ==
  /\ Types \subseteq {0, 1} /\ Rates \subseteq Nat /\ MinimuStep \in Nat \ {0}
  /\ MaxOctets \in Nat /\ MaxLife \in Nat /\ Shares \subseteq [sends : Nat, posts : Nat]

VARIABLES
  learner,     \* where the application is
  flows,       \* what it knows of each flow
  thresholds,  \* the cache: flow -> rate, or Unknown
  posting,     \* the flows it has still to set a threshold of; in "key",
               \* the flow it stopped at
  records,     \* records that were sent
  answer,      \* records of an answer it has still to take
  counted,     \* flow -> rule -> octets it has reported, or Over
  clock,       \* the time, and history: records sent so far
  share,       \* what of its share is left
  rateStore,   \* its thresholds at the coordinator: flow -> rate, or Unknown
  removed,     \* history: flows whose threshold was removed
  taken        \* history: flow -> the record it looks at or looked at last,
               \* the one taken before, and the times taken before

learnVars == <<learner, flows, thresholds, posting, records, answer, counted,
               clock, share, rateStore, removed, taken>>

(* flow.__init__; new is len(delta_bps_records) - cutoff.                    *)
NoFlow == [octets |-> Unknown, start |-> Unknown, time |-> Unknown, new |-> 0]

NoRecord  == [subtype |-> "none"]
NoneTaken == [now |-> NoRecord, before |-> NoRecord, times |-> {}]

(* int(avg_bps)                                                              *)
Whole(rate) == (rate \div 2) * 2

Init ==
  /\ learner = "down" /\ flows = [f \in Flows |-> NoFlow]
  /\ thresholds = [f \in Flows |-> Unknown] /\ posting = {} /\ answer = {}
  /\ records = {} /\ counted = [f \in Flows |-> [u \in Rules |-> 0]]
  /\ clock = [time |-> 0, sent |-> 0] /\ share \in Shares
  /\ rateStore = [f \in Flows |-> Unknown]
  /\ removed = {} /\ taken = [f \in Flows |-> NoneTaken]

source == <<records, counted, clock>>
net    == <<source, share>>
hist   == <<removed, taken>>
-----------------------------------------------------------------------------
(* The controller, external. A prefix record has no octets, whenever it      *)
(* comes, and a rule may have none; a rule's other records have its counter, *)
(* which only grows, and the last of them is its ipfix record. The time of a *)
(* record is that of its making; it starts there or at some time before.     *)
Subtypes == {"prefix", "interfix", "ipfix"}

Send(f, u, subtype) ==
  /\ share.sends > 0 /\ share' = [share EXCEPT !.sends = @ - 1]
  /\ \E o \in 0 .. MaxOctets, t \in {clock.time, clock.time + 1}, l \in 0 .. MaxLife :
       /\ l <= t
       /\ IF subtype = "prefix" THEN o = 0 /\ l = 0 /\ UNCHANGED counted
          ELSE /\ counted[f][u] # Over /\ o >= counted[f][u]
               /\ counted' = [counted EXCEPT ![f][u] = IF subtype = "ipfix" THEN Over ELSE o]
       /\ records' = records \cup {[flow |-> f, rule |-> u, subtype |-> subtype, octets |-> o,
                                    start |-> t - l, end |-> t, at |-> clock.sent]}
       /\ clock' = [time |-> t, sent |-> clock.sent + 1]
  /\ UNCHANGED <<learner, flows, thresholds, posting, answer, rateStore, hist>>
-----------------------------------------------------------------------------
(* The northbound interface: a request to add is refused where there is a    *)
(* threshold, one to update where there is none. The application adds what   *)
(* is not in its cache.                                                      *)
TakesAddOnly(f) == rateStore[f] = Unknown               \* mutant: no update
Takes(f) == (thresholds[f] = Unknown) <=> (rateStore[f] = Unknown)

Set(f, rate) ==
  /\ share.posts > 0 /\ share' = [share EXCEPT !.posts = @ - 1]
  /\ rateStore' = IF Takes(f) THEN [rateStore EXCEPT ![f] = Whole(rate)] ELSE rateStore

(* retrieveThresholds                                                        *)
Start ==
  /\ learner = "down" /\ learner' = "query" /\ thresholds' = rateStore
  /\ flows' = [f \in Flows |-> NoFlow] /\ taken' = [f \in Flows |-> NoneTaken]
  /\ UNCHANGED <<posting, answer, net, rateStore, removed>>

(* What raises ends it: a request, an answer that is no JSON, an id or a     *)
(* value that is no number.                                                  *)
End ==
  /\ learner # "down" /\ learner' = "down"
  /\ flows' = [f \in Flows |-> NoFlow] /\ thresholds' = [f \in Flows |-> Unknown]
  /\ \/ UNCHANGED <<share, rateStore>>
     \/ learner = "update" /\ \E f \in posting, rate \in Rates : Set(f, rate)
  /\ posting' = {} /\ answer' = {} /\ taken' = [f \in Flows |-> NoneTaken]
  /\ UNCHANGED <<source, removed>>

(* An answer has any of the records that were sent: the others are on their  *)
(* way or lost, stored where no query looks or in an answer that did not     *)
(* come; and one that was in an earlier answer is there as a copy.           *)
Query ==
  /\ learner = "query" /\ learner' = "learn" /\ answer' \in SUBSET records
  /\ UNCHANGED <<flows, thresholds, posting, net, rateStore, hist>>

(* Flow.update: a counter that grew makes a delta, over a time that must not *)
(* be zero; one that fell without being a prefix record's stops the          *)
(* application until someone presses a key.                                  *)
Grew(g, r) == r.octets > g.octets
NoTime(g, r) == r.end = IF g.time = Unknown THEN g.start ELSE g.time
Fell(g, r) == r.octets < g.octets /\ r.subtype # "prefix"

AfterGrown(g, r) ==                                     \* mutant: the highest kept
  [octets |-> IF Grew(g, r) THEN r.octets ELSE g.octets,
   start  |-> g.start,
   time   |-> IF Grew(g, r) \/ r.subtype = "ipfix" THEN r.end ELSE g.time,
   new    |-> IF Grew(g, r) /\ ~NoTime(g, r) /\ g.new < MinimuStep THEN g.new + 1 ELSE g.new]
After(g, r) ==
  [octets |-> IF r.subtype = "ipfix" THEN 0 ELSE r.octets,
   start  |-> g.start,
   time   |-> IF Grew(g, r) \/ r.subtype = "ipfix" THEN r.end ELSE g.time,
   new    |-> IF Grew(g, r) /\ ~NoTime(g, r) /\ g.new < MinimuStep THEN g.new + 1 ELSE g.new]

(* An answer is a dict: its records come in any order.                       *)
Learn(r) ==
  /\ learner = "learn" /\ r \in answer /\ answer' = answer \ {r}
  /\ LET g == IF flows[r.flow] = NoFlow THEN [NoFlow EXCEPT !.octets = r.octets, !.start = r.start]
              ELSE flows[r.flow] IN
     /\ IF Fell(g, r) \/ (Grew(g, r) /\ NoTime(g, r))
        THEN learner' = "key" /\ posting' = {r.flow}
        ELSE UNCHANGED <<learner, posting>>
     /\ flows' = [flows EXCEPT ![r.flow] = After(g, r)]
  /\ taken' = [taken EXCEPT ![r.flow] =
                 [now |-> r, before |-> @.now,
                  times |-> @.times \cup {IF @.now = NoRecord THEN r.start ELSE @.now.end}]]
  /\ UNCHANGED <<thresholds, net, rateStore, removed>>

PressKey ==
  /\ learner = "key" /\ learner' = "learn" /\ posting' = {}
  /\ UNCHANGED <<flows, thresholds, answer, net, rateStore, hist>>
-----------------------------------------------------------------------------
(* updateThresholdsLLT: each flow with enough new values; one whose forecast *)
(* is what is cached is skipped and keeps its new values. The cache takes    *)
(* the rate whatever the answer.                                             *)
Update ==
  /\ learner = "learn" /\ answer = {} /\ learner' = "update"
  /\ posting' = {f \in Flows : flows[f].new >= MinimuStep}
  /\ UNCHANGED <<flows, thresholds, answer, net, rateStore, hist>>

Post(f, rate) ==
  /\ Set(f, rate)
  /\ thresholds' = [thresholds EXCEPT ![f] = rate]
  /\ flows' = [flows EXCEPT ![f].new = 0]

PostThreshold(f, rate) ==
  /\ 1 \in Types /\ learner = "update" /\ f \in posting /\ posting' = posting \ {f}
  /\ IF thresholds[f] = rate THEN UNCHANGED <<flows, thresholds, share, rateStore>> ELSE Post(f, rate)
  /\ UNCHANGED <<learner, answer, source, hist>>

(* updateThresholds: an update goes part of the way to the mean; skipped is  *)
(* what would not move.                                                      *)
Between(r, a, b) == (a <= r /\ r <= b) \/ (b <= r /\ r <= a)
PostSmoothed(f, mean) ==
  /\ 0 \in Types /\ learner = "update" /\ f \in posting /\ posting' = posting \ {f}
  /\ \/ thresholds[f] = mean /\ UNCHANGED <<flows, thresholds, share, rateStore>>
     \/ thresholds[f] = Unknown /\ Post(f, mean)
     \/ /\ thresholds[f] \notin {mean, Unknown}
        /\ \E r \in Rates : Between(r, thresholds[f], mean) /\ Post(f, r)
  /\ UNCHANGED <<learner, answer, source, hist>>

Updated ==
  /\ learner = "update" /\ posting = {} /\ learner' = "query"
  /\ UNCHANGED <<flows, thresholds, posting, answer, net, rateStore, hist>>

(* An operator removes a threshold.                                          *)
Remove(f) ==
  /\ rateStore[f] # Unknown /\ rateStore' = [rateStore EXCEPT ![f] = Unknown]
  /\ removed' = removed \cup {f}
  /\ UNCHANGED <<learner, flows, thresholds, posting, answer, net, taken>>

Next == (\E f \in Flows, u \in Rules, s \in Subtypes : Send(f, u, s))
          \/ Start \/ End \/ Query \/ (\E r \in answer : Learn(r)) \/ PressKey
          \/ Update \/ (\E f \in Flows, rate \in Rates : PostThreshold(f, rate) \/ PostSmoothed(f, rate)) \/ Updated
          \/ \E f \in Flows : Remove(f)
-----------------------------------------------------------------------------
Record == [flow : Flows, rule : Rules, subtype : Subtypes, octets : 0 .. MaxOctets,
           start : Nat, end : Nat, at : Nat]

TypeOK ==
  /\ learner \in {"down", "query", "learn", "key", "update"}
  /\ flows \in [Flows -> [octets : Unknown .. MaxOctets, start : Nat \cup {Unknown},
                         time : Nat \cup {Unknown}, new : 0 .. MinimuStep]]
  /\ thresholds \in [Flows -> Rates \cup {Whole(x) : x \in Rates} \cup {Unknown}]
  /\ rateStore \in [Flows -> {Whole(x) : x \in Rates} \cup {Unknown}]
  /\ posting \subseteq Flows /\ removed \subseteq Flows
  /\ counted \in [Flows -> [Rules -> 0 .. MaxOctets \cup {Over}]]
  /\ clock \in [time : Nat, sent : Nat] /\ share \in [sends : Nat, posts : Nat]
  /\ records \subseteq Record /\ answer \subseteq records
  /\ taken \in [Flows -> [now : records \cup {NoRecord}, before : records \cup {NoRecord},
                         times : SUBSET Nat]]

(* The cache is right about the coordinator, whatever was forecast, posted,  *)
(* cut short or learned anew after a start: but for a threshold someone else *)
(* removed, what it takes for set is set, to the same whole rate, and        *)
(* nothing else is.                                                          *)
CacheTracksStore ==
  learner # "down" =>
    \A f \in Flows \ removed :
      rateStore[f] = IF thresholds[f] = Unknown THEN Unknown ELSE Whole(thresholds[f])

(* The application stops for a key only at a counter that grew in no time,   *)
(* since a record it took before or the first one's start, or at one that    *)
(* fell below the record taken just before, of another rule or sent later:   *)
(* never at what one rule sends in order, and at no counter after a final    *)
(* record, over the end of a session and a start in the middle of one.       *)
StopsForACause ==
  learner = "key" =>
    \A f \in posting :
      LET r == taken[f].now  a == taken[f].before IN
      /\ a # NoRecord
      /\ \/ /\ r.end \in taken[f].times
            /\ a.subtype = "ipfix" \/ r.octets > a.octets
         \/ /\ r.octets < a.octets /\ r.subtype # "prefix" /\ a.subtype # "ipfix"
            /\ r.rule # a.rule \/ r.at < a.at
=============================================================================
