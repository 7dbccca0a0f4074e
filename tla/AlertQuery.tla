----------------------------- MODULE AlertQuery -----------------------------
(***************************************************************************)
(* How an alert travels from a collector to the northbound applications:   *)
(*                                                                         *)
(*   collector --stamp, PUSH--> ZeroMQ --PULL--> listen() --insert--> db   *)
(*   application --GET /tennison/<kind>/query--> WatsonNBI --find--> db    *)
(*                                                                         *)
(* The collectors (core/collector.py) stamp an alert with utcnow() before  *)
(* they push it; Tennison.listen inserts it later; WatsonNBI, in a thread  *)
(* of its own, answers a query with the alerts whose stamp is above the    *)
(* application's last query time and then moves that time to now().        *)
(* Flask serves one request at a time, so a query is two steps of one      *)
(* thread (the find, and the update of the time) with the collectors and   *)
(* the main loop running in between.                                       *)
(***************************************************************************)
EXTENDS Integers, Sequences, FiniteSets

CONSTANTS
  Alerts,       \* identities of the alerts and records that may arrive
  Apps,         \* northbound applications
  Collectors,   \* collectors, each with a PUSH socket of its own
  Kinds,        \* the message types, one query route and one time for each
  KindOf,       \* collector -> the type it writes in a message
  Mute,         \* the types whose query route answers {}, and whose time
                \*   register_app does not write ("sflowrt")
  Skew,         \* datetime.now() minus datetime.utcnow(), in ticks
  Ttl,          \* the TTL index of the alerts collection, in ticks
  MaxClock,     \* bound: the model's last tick
  MaxRestarts   \* bound: restarts of the coordinator

ASSUME ConstantsAssumption ==
  /\ KindOf \in [Collectors -> Kinds]
  /\ Mute \subseteq Kinds
  /\ Skew \in Int /\ Ttl \in Nat
  /\ MaxClock \in Nat /\ MaxRestarts \in Nat

VARIABLES
  clock,      \* utcnow(), shared by every process of the host
  unsent,     \* alerts that have not occurred yet
  queue,      \* collector -> messages pushed and not yet pulled
  process,    \* the coordinator: "up", or "dead" once listen() has raised
  db,         \* the alerts collection
  keys,       \* app -> types with a time in applications[app]; {}: unknown app
  last,       \* app -> type -> last query time (meaningful where keys has it)
  nbi,        \* the request being served
  restarts,   \* restarts so far
  got,        \* history: app -> messages answered to it
  since,      \* history: app -> the utcnow() of its last registration
  late        \* history: <<app, message>>, stamped by the end of a query of
              \*          app (or in its tick) and not in the db at its find

pipeline == <<unsent, queue, process, db>>
requests == <<keys, last, nbi>>
history  == <<got, since, late>>
vars     == <<clock, pipeline, requests, restarts, history>>

Message == [id : Alerts, kind : Kinds, time : Nat]
Idle    == [at |-> "idle"]
Found   == [at : {"found"}, app : Apps, kind : Kinds, data : SUBSET Message]

Now == clock + Skew
Registered(a) == keys[a] # {}
Pushed == UNION {{queue[c][i] : i \in DOMAIN queue[c]} : c \in Collectors}

Init ==
  /\ clock = 0 /\ restarts = 0
  /\ unsent = Alerts /\ queue = [c \in Collectors |-> <<>>]
  /\ process = "up" /\ db = {}
  /\ keys = [a \in Apps |-> {}] /\ last = [a \in Apps |-> [k \in Kinds |-> 0]]
  /\ nbi = Idle
  /\ got = [a \in Apps |-> {}] /\ late = {}
  /\ since = [a \in Apps |-> 0]
-----------------------------------------------------------------------------
(* Collectors: form_pyobj stamps the message, send_pyobj pushes it. *)
StampedSubtype(c, x) == [id |-> x, kind |-> c, time |-> clock]  \* mutant
Stamped(c, x) == [id |-> x, kind |-> KindOf[c], time |-> clock]

(* A query of a for k is being served, or ended in this very tick (the db    *)
(* keeps milliseconds: a stamp in that tick is not above the query time).    *)
Answering(a, k) == \/ nbi # Idle /\ nbi.app = a /\ nbi.kind = k
                   \/ Registered(a) /\ last[a][k] = Now

Collect(c) ==
  \E x \in unsent :
    /\ process = "up"
    /\ unsent' = unsent \ {x}
    /\ queue' = [queue EXCEPT ![c] = Append(@, Stamped(c, x))]
    /\ late' = late \cup {<<a, Stamped(c, x)>> : a \in {b \in Apps : Answering(b, KindOf[c])}}
    /\ UNCHANGED <<clock, process, db, requests, restarts, got, since>>

(* Tennison.listen pulls a message and inserts it; insert_one may raise a   *)
(* PyMongoError, which is logged, and the message is gone.                   *)
Pull(c) == /\ process = "up"
           /\ queue[c] # <<>>
           /\ queue' = [queue EXCEPT ![c] = Tail(@)]
           /\ UNCHANGED <<clock, unsent, requests, restarts, history>>

Insert(c) == Pull(c) /\ db' = db \cup {Head(queue[c])} /\ UNCHANGED process

InsertFails(c) == Pull(c) /\ UNCHANGED <<db, process>>

(* The handler that listen calls after the insert raises something other    *)
(* than PyMongoError and OverflowError: listen ends, and the daemon threads  *)
(* (collectors, WatsonNBI) end with the process.                             *)
HandlerRaises(c) == Pull(c) /\ db' = db \cup {Head(queue[c])} /\ process' = "dead"

(* The TTL index deletes what is older than Ttl. *)
Expire == \E m \in db : /\ m.time + Ttl < clock
                        /\ db' = db \ {m}
                        /\ UNCHANGED <<clock, unsent, queue, process, requests,
                                       restarts, history>>
-----------------------------------------------------------------------------
(* WatsonNBI.register_app: the entry it writes has times for two types only  *)
(* ('last_sflowrt_query' is a key no query reads).                           *)
RegisterApp(a) ==
  /\ process = "up" /\ nbi = Idle
  /\ keys'  = [keys EXCEPT ![a] = Kinds \ Mute]
  /\ last'  = [last EXCEPT ![a] = [k \in Kinds |-> Now]]
  /\ since' = [since EXCEPT ![a] = clock]
  /\ UNCHANGED <<clock, pipeline, nbi, restarts, got, late>>

(* db.alerts.find({'type': k, 'time': {'$gt': t}}) *)
FindInclusive(k, t) == {m \in db : m.kind = k /\ m.time >= t}  \* mutant: $gte
Find(k, t) == {m \in db : m.kind = k /\ m.time > t}

(* query_ipfix, query_snort, query_sflow up to the end of the find: register *)
(* an unknown app, read the last query time, find what is above it. A known  *)
(* app without the type's key raises KeyError: the request changes nothing.  *)
StartQuery(a, k) ==
  /\ process = "up" /\ nbi = Idle
  /\ Registered(a) => k \in keys[a]
  /\ LET registering == ~Registered(a)
         from == IF registering THEN [x \in Kinds |-> Now] ELSE last[a]
     IN  /\ keys'  = [keys EXCEPT ![a] = IF registering THEN Kinds ELSE @]
         /\ last'  = [last EXCEPT ![a] = from]
         /\ since' = [since EXCEPT ![a] = IF registering THEN clock ELSE @]
         /\ nbi' = [at |-> "found", app |-> a, kind |-> k,
                    data |-> Find(k, from[k])]
  /\ late' = late \cup {<<a, m>> : m \in {x \in Pushed : x.kind = k}}
  /\ UNCHANGED <<clock, pipeline, restarts, got>>

(* The end of the same request: the time moves to now() and the data is      *)
(* returned, except by query_sflow, which returns {}.                        *)
Respond(a, k, moved, answer) ==
  /\ process = "up" /\ nbi # Idle
  /\ a = nbi.app /\ k = nbi.kind
  /\ last' = [last EXCEPT ![a] = moved]
  /\ got'  = [got EXCEPT ![a] = @ \cup answer]
  /\ nbi' = Idle
  /\ UNCHANGED <<clock, pipeline, keys, restarts, since, late>>

MovedAll(a, k)  == [x \in Kinds |-> Now]                \* mutant: every type
Moved(a, k)     == [last[a] EXCEPT ![k] = Now]
NoAnswer(k) == {}                                       \* mutant
Answer(k) == IF k \in Mute THEN {} ELSE nbi.data

EndQuery == \E a \in Apps, k \in Kinds : Respond(a, k, Moved(a, k), Answer(k))
-----------------------------------------------------------------------------
Tick == /\ clock < MaxClock
        /\ clock' = clock + 1
        /\ UNCHANGED <<pipeline, requests, restarts, history>>

(* The coordinator is started again: the queues, the registrations and the  *)
(* request in progress were in memory, the db was not.                       *)
Restart ==
  /\ restarts < MaxRestarts
  /\ restarts' = restarts + 1
  /\ queue' = [c \in Collectors |-> <<>>]
  /\ process' = "up"
  /\ keys' = [a \in Apps |-> {}]
  /\ nbi' = Idle
  /\ UNCHANGED <<clock, unsent, db, last, history>>

Next ==
  \/ \E c \in Collectors : Collect(c) \/ Insert(c) \/ InsertFails(c) \/ HandlerRaises(c)
  \/ \E a \in Apps : RegisterApp(a) \/ \E k \in Kinds : StartQuery(a, k)
  \/ EndQuery \/ Expire \/ Tick \/ Restart

Spec == Init /\ [][Next]_vars

(* Fairness: the main loop and the request being served make progress, and   *)
(* the applications of apps/ poll in an endless loop; werkzeug takes waiting *)
(* connections in order, so a poll is not passed over for ever. Nothing is   *)
(* asked of the collectors, the clock, the TTL monitor or a restart.         *)
FairSpec ==
  /\ Spec
  /\ \A c \in Collectors : WF_vars(Insert(c) \/ InsertFails(c) \/ HandlerRaises(c))
  /\ WF_vars(EndQuery)
  /\ \A a \in Apps, k \in Kinds : SF_vars(StartQuery(a, k))
-----------------------------------------------------------------------------
TypeOK ==
  /\ clock \in Nat /\ restarts \in Nat
  /\ unsent \subseteq Alerts
  /\ queue \in [Collectors -> Seq(Message)]
  /\ process \in {"up", "dead"}
  /\ db \subseteq Message
  /\ keys \in [Apps -> SUBSET Kinds]
  /\ last \in [Apps -> [Kinds -> Int]]
  /\ nbi \in Found \cup {Idle}
  /\ got \in [Apps -> SUBSET Message]
  /\ since \in [Apps -> Nat]
  /\ late \subseteq Apps \X Message

(* An answer never repeats a message an earlier answer to the same app held: *)
(* the query is for what is above the last query time, and that time is      *)
(* taken after the find. It needs now() never to lag behind utcnow().        *)
AtMostOnce == nbi # Idle => nbi.data \cap got[nbi.app] = {}

(* The only messages a polling app can miss are those stamped before the end *)
(* of one of its queries and inserted after the find of that query: every    *)
(* other stored message stamped since it registered and at or below its last *)
(* query time has been answered to it. It needs now() not to run ahead.      *)
NoLossOutsideWindow ==
  \A a \in Apps : Registered(a) =>
    \A m \in db :
      (m.kind \notin Mute /\ since[a] < m.time /\ m.time <= last[a][m.kind])
        => (m \in got[a] \/ <<a, m>> \in late)

(* While an app stays known to a running coordinator its query times only    *)
(* move forward, so no later answer reaches back to what an earlier covered. *)
WindowMovesForward ==
  [][\A a \in Apps, k \in Kinds :
       (Registered(a) /\ keys'[a] # {}) => last'[a][k] >= last[a][k]]_vars

(* A stored message above an app's query time is answered to it, unless it   *)
(* expires first, it fell in the window of an earlier query, the app         *)
(* registers again, or the coordinator dies or is restarted.                 *)
StoredIsAnswered ==
  \A a \in Apps : \A m \in [id : Alerts, kind : Kinds \ Mute, time : 0..MaxClock] :
    (m \in db /\ Registered(a) /\ m.time > last[a][m.kind] /\ process = "up")
      ~> \/ m \in got[a]    \/ m \notin db       \/ <<a, m>> \in late
         \/ m.time <= since[a] \/ ~Registered(a) \/ process = "dead"
=============================================================================
