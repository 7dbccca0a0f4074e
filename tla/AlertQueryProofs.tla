-------------------------- MODULE AlertQueryProofs --------------------------
(***************************************************************************)
(* AlertQuery proved for any sets of alerts, apps, collectors and types:   *)
(* type correctness, and that no alert is answered twice to an app, from   *)
(* the single assumption that now() does not lag behind utcnow().          *)
(***************************************************************************)
EXTENDS AlertQuery, TLAPS

(* What makes AtMostOnce inductive: stamps are never in the future, and the *)
(* query time of a known app is at or above every stamp it was answered.    *)
StampsArePast ==
  /\ \A c \in Collectors : \A i \in DOMAIN queue[c] : queue[c][i].time <= clock
  /\ \A m \in db : m.time <= clock
  /\ \A a \in Apps : \A m \in got[a] : m.time <= clock

AnsweredIsCovered ==
  \A a \in Apps : Registered(a) => \A m \in got[a] : m.time <= last[a][m.kind]

FoundIsAbove ==
  nbi # Idle =>
    \A m \in nbi.data :
      /\ m.kind = nbi.kind
      /\ last[nbi.app][nbi.kind] < m.time
      /\ m.time <= clock

BeingServedIsRegistered == nbi # Idle => Registered(nbi.app)

IInv == TypeOK /\ StampsArePast /\ AnsweredIsCovered /\ FoundIsAbove
        /\ BeingServedIsRegistered
-----------------------------------------------------------------------------
(* A record of an idle request is told from one that has found its data. *)
LEMMA FoundNotIdle == ASSUME NEW f \in Found PROVE f # Idle
  BY DEF Found, Idle

(* The message a collector stamps is a message, and stamped now. *)
LEMMA StampedIsMessage ==
  ASSUME TypeOK, NEW c \in Collectors, NEW x \in Alerts
  PROVE  Stamped(c, x) \in Message /\ Stamped(c, x).time = clock
  BY ConstantsAssumption DEF TypeOK, Stamped, Message

(* Every handler keeps the variables in their types. *)
LEMMA TypeStep == TypeOK /\ [Next]_vars => TypeOK'
<1> SUFFICES ASSUME TypeOK, [Next]_vars PROVE TypeOK'
  OBVIOUS
<1> USE ConstantsAssumption
<1>1. ASSUME NEW c \in Collectors, Collect(c) PROVE TypeOK'
  <2> PICK x \in unsent : Collect(c)!(x)
    BY <1>1 DEF Collect
  <2>1. Stamped(c, x) \in Message
    BY StampedIsMessage DEF TypeOK
  <2>2. queue' \in [Collectors -> Seq(Message)]
    BY <2>1 DEF TypeOK
  <2>3. late' \subseteq Apps \X Message
    BY <2>1 DEF TypeOK
  <2> QED BY <2>2, <2>3 DEF TypeOK, requests
<1>2. ASSUME NEW c \in Collectors, Pull(c), db' \subseteq db \cup {Head(queue[c])},
             process' \in {"up", "dead"}
      PROVE  TypeOK'
  <2>1. queue[c] \in Seq(Message) /\ queue[c] # <<>>
    BY <1>2 DEF TypeOK, Pull
  <2>2. Head(queue[c]) \in Message /\ Tail(queue[c]) \in Seq(Message)
    BY <2>1
  <2>3. queue' \in [Collectors -> Seq(Message)]
    BY <1>2, <2>2 DEF TypeOK, Pull
  <2> QED BY <1>2, <2>2, <2>3 DEF TypeOK, Pull, requests, history
<1>3. ASSUME NEW a \in Apps, RegisterApp(a) PROVE TypeOK'
  <2>1. Now \in Int
    BY DEF TypeOK, Now
  <2> QED BY <1>3, <2>1 DEF TypeOK, RegisterApp, pipeline
<1>4. ASSUME NEW a \in Apps, NEW k \in Kinds, StartQuery(a, k) PROVE TypeOK'
  <2>1. Now \in Int
    BY DEF TypeOK, Now
  <2>2. late' \subseteq Apps \X Message
    <3>1. Pushed \subseteq Message
      BY DEF TypeOK, Pushed
    <3> QED BY <1>4, <3>1 DEF TypeOK, StartQuery
  <2>3. nbi' \in Found
    BY <1>4 DEF TypeOK, StartQuery, Found, Find
  <2>4. keys' \in [Apps -> SUBSET Kinds] /\ last' \in [Apps -> [Kinds -> Int]]
    BY <1>4, <2>1 DEF TypeOK, StartQuery
  <2>5. since' \in [Apps -> Nat]
    BY <1>4 DEF TypeOK, StartQuery
  <2> QED BY <1>4, <2>2, <2>3, <2>4, <2>5 DEF TypeOK, StartQuery, pipeline
<1>5. CASE EndQuery
  <2> PICK a \in Apps, k \in Kinds : Respond(a, k, Moved(a, k), Answer(k))
    BY <1>5 DEF EndQuery
  <2>1. Now \in Int
    BY DEF TypeOK, Now
  <2>2. nbi \in Found
    BY DEF TypeOK, Respond
  <2>3. Answer(k) \subseteq Message
    BY <2>2 DEF Answer, Found
  <2>4. last' \in [Apps -> [Kinds -> Int]]
    BY <2>1 DEF TypeOK, Respond, Moved
  <2>5. got' \in [Apps -> SUBSET Message]
    BY <2>3 DEF TypeOK, Respond
  <2> QED BY <2>4, <2>5 DEF TypeOK, Respond, pipeline
<1>6. CASE Expire
  BY <1>6 DEF TypeOK, Expire, requests, history
<1>7. CASE Tick
  BY <1>7 DEF TypeOK, Tick, pipeline, requests, history
<1>8. CASE Restart
  BY <1>8 DEF TypeOK, Restart, history
<1>9. CASE UNCHANGED vars
  BY <1>9 DEF TypeOK, vars, pipeline, requests, history
<1>10. ASSUME NEW c \in Collectors, Insert(c) \/ InsertFails(c) \/ HandlerRaises(c)
       PROVE  TypeOK'
  BY <1>2, <1>10 DEF Insert, InsertFails, HandlerRaises, Pull, TypeOK
<1> QED
  BY <1>1, <1>3, <1>4, <1>5, <1>6, <1>7, <1>8, <1>9, <1>10 DEF Next

(* The variables of AlertQuery stay in their types, whatever the collectors, *)
(* the applications, the clock and the TTL index do.                         *)
THEOREM TypeCorrect == Spec => []TypeOK
<1>1. Init => TypeOK
  BY ConstantsAssumption DEF Init, TypeOK, Idle
<1> QED
  BY <1>1, TypeStep, PTL DEF Spec
-----------------------------------------------------------------------------
(* Stamps stay in the past: a stamp is the clock's value, and the clock only *)
(* advances.                                                                 *)
LEMMA StampsStep ==
  ASSUME TypeOK, TypeOK', StampsArePast, FoundIsAbove, [Next]_vars
  PROVE  StampsArePast'
<1> USE ConstantsAssumption
<1> DEFINE QueuesPast ==
             \A c \in Collectors : \A i \in DOMAIN queue[c] : queue[c][i].time <= clock
<1>0. \A c \in Collectors : queue[c] \in Seq(Message) /\ clock \in Nat
  BY DEF TypeOK
<1>1. ASSUME NEW c \in Collectors, Collect(c) PROVE StampsArePast'
  <2> PICK x \in unsent : Collect(c)!(x)
    BY <1>1 DEF Collect
  <2>1. Stamped(c, x) \in Message /\ Stamped(c, x).time = clock
    BY StampedIsMessage DEF TypeOK
  <2>2. ASSUME NEW d \in Collectors, NEW i \in DOMAIN queue'[d]
        PROVE  queue'[d][i].time <= clock
    <3>1. CASE d # c
      BY <3>1 DEF TypeOK, StampsArePast
    <3>2. CASE d = c /\ i \in DOMAIN queue[c]
      <4>1. queue'[c] = Append(queue[c], Stamped(c, x))
        BY DEF TypeOK
      <4>2. queue'[c][i] = queue[c][i]
        BY <4>1, <3>2, <2>1, <1>0
      <4> QED BY <4>2, <3>2 DEF StampsArePast
    <3>3. CASE d = c /\ i \notin DOMAIN queue[c]
      <4>1. queue'[c] = Append(queue[c], Stamped(c, x))
        BY DEF TypeOK
      <4>2. i = Len(queue[c]) + 1 /\ queue'[c][i] = Stamped(c, x)
        BY <4>1, <3>3, <2>1, <1>0, <2>2
      <4> QED BY <4>2, <2>1, <3>3, <1>0
    <3> QED BY <3>1, <3>2, <3>3
  <2> QED BY <2>2 DEF StampsArePast
<1>2. ASSUME NEW c \in Collectors, Pull(c), db' \subseteq db \cup {Head(queue[c])}
      PROVE  StampsArePast'
  <2>1. queue[c] \in Seq(Message) /\ queue[c] # <<>>
    BY <1>2 DEF TypeOK, Pull
  <2>2. Head(queue[c]).time <= clock
    <3>1. 1 \in DOMAIN queue[c] /\ Head(queue[c]) = queue[c][1]
      BY <2>1
    <3> QED BY <3>1 DEF StampsArePast
  <2>3. ASSUME NEW d \in Collectors, NEW i \in DOMAIN queue'[d]
        PROVE  queue'[d][i].time <= clock
    <3>1. CASE d # c
      BY <1>2, <3>1 DEF TypeOK, Pull, StampsArePast
    <3>2. CASE d = c
      <4>1. queue'[c] = Tail(queue[c])
        BY <1>2 DEF Pull, TypeOK
      <4>2. i \in 1 .. Len(queue[c]) - 1
        <5>1. i \in DOMAIN Tail(queue[c])
          BY <4>1, <3>2, <2>3
        <5> QED BY <5>1, <2>1
      <4>3. i + 1 \in DOMAIN queue[c] /\ Tail(queue[c])[i] = queue[c][i + 1]
        BY <4>2, <2>1
      <4> QED BY <4>1, <4>3, <3>2 DEF StampsArePast
    <3> QED BY <3>1, <3>2
  <2> QED BY <1>2, <2>2, <2>3 DEF StampsArePast, Pull, history
<1>3. ASSUME NEW a \in Apps, RegisterApp(a) PROVE StampsArePast'
  BY <1>3 DEF RegisterApp, StampsArePast, pipeline
<1>4. ASSUME NEW a \in Apps, NEW k \in Kinds, StartQuery(a, k) PROVE StampsArePast'
  BY <1>4 DEF StartQuery, StampsArePast, pipeline
<1>5. CASE EndQuery
  <2> PICK a \in Apps, k \in Kinds : Respond(a, k, Moved(a, k), Answer(k))
    BY <1>5 DEF EndQuery
  <2>1. \A m \in Answer(k) : m.time <= clock
    BY DEF Respond, FoundIsAbove, Answer
  <2>2. \A b \in Apps : \A m \in got'[b] : m.time <= clock
    BY <2>1 DEF Respond, TypeOK, StampsArePast
  <2> QED BY <2>2 DEF Respond, StampsArePast, pipeline
<1>6. CASE Expire
  BY <1>6 DEF Expire, StampsArePast, history
<1>7. CASE Tick
  <2>1. \A c \in Collectors : \A i \in DOMAIN queue[c] : queue[c][i].time \in Nat
    <3>1. \A c \in Collectors : \A i \in DOMAIN queue[c] : queue[c][i] \in Message
      BY <1>0
    <3> QED BY <3>1 DEF Message
  <2>2. \A m \in db : m.time \in Nat
    BY DEF TypeOK, Message
  <2>3. \A a \in Apps : \A m \in got[a] : m.time \in Nat
    BY DEF TypeOK, Message
  <2>4. clock' = clock + 1 /\ clock \in Nat
    BY <1>7 DEF Tick, TypeOK
  <2>5. QueuesPast'
    BY <1>7, <2>1, <2>4 DEF Tick, StampsArePast, pipeline
  <2>6. \A m \in db' : m.time <= clock'
    BY <1>7, <2>2, <2>4 DEF Tick, StampsArePast, pipeline
  <2>7. \A a \in Apps : \A m \in got'[a] : m.time <= clock'
    BY <1>7, <2>3, <2>4 DEF Tick, StampsArePast, history
  <2> QED BY <2>5, <2>6, <2>7 DEF StampsArePast
<1>8. CASE Restart
  BY <1>8 DEF Restart, StampsArePast, history
<1>9. CASE UNCHANGED vars
  BY <1>9 DEF vars, StampsArePast, pipeline, history
<1>10. ASSUME NEW c \in Collectors, Insert(c) \/ InsertFails(c) \/ HandlerRaises(c)
       PROVE  StampsArePast'
  BY <1>2, <1>10 DEF Insert, InsertFails, HandlerRaises, Pull
<1> QED
  BY <1>1, <1>3, <1>4, <1>5, <1>6, <1>7, <1>8, <1>9, <1>10 DEF Next

(* Moving a query time to now() puts it at or above every stamp so far. *)
LEMMA CoveredStep ==
  ASSUME Skew >= 0, IInv, [Next]_vars
  PROVE  AnsweredIsCovered' /\ FoundIsAbove' /\ BeingServedIsRegistered'
<1> USE ConstantsAssumption
<1> DEFINE Goal == AnsweredIsCovered /\ FoundIsAbove /\ BeingServedIsRegistered
<1>0. clock \in Nat /\ Now \in Int /\ clock <= Now
  BY DEF IInv, TypeOK, Now
<1>01. \A a \in Apps : \A m \in got[a] : m.time <= Now
  <2> SUFFICES ASSUME NEW a \in Apps, NEW m \in got[a] PROVE m.time <= Now
    OBVIOUS
  <2>1. m.time \in Nat /\ m.time <= clock
    BY DEF IInv, TypeOK, Message, StampsArePast
  <2> QED BY <2>1, <1>0
<1>1. ASSUME UNCHANGED <<keys, last, nbi, got>>, clock' \in Nat, clock <= clock' PROVE Goal'
  <2>1. AnsweredIsCovered' /\ BeingServedIsRegistered'
    BY <1>1 DEF IInv, AnsweredIsCovered, BeingServedIsRegistered, Registered, Idle
  <2>2. FoundIsAbove'
    <3> SUFFICES ASSUME nbi # Idle, NEW m \in nbi.data PROVE m.time <= clock'
      BY <1>1 DEF IInv, FoundIsAbove, Idle
    <3>1. m.time \in Nat /\ m.time <= clock
      BY DEF IInv, TypeOK, Found, Message, FoundIsAbove
    <3> QED BY <3>1, <1>0, <1>1
  <2> QED BY <2>1, <2>2
<1>2. ASSUME NEW a \in Apps, RegisterApp(a) PROVE Goal'
  <2>1. nbi' = Idle
    BY <1>2 DEF RegisterApp, Idle
  <2>2. AnsweredIsCovered'
    <3> SUFFICES ASSUME NEW b \in Apps, Registered(b)', NEW m \in got[b]
                 PROVE  m.time <= last'[b][m.kind]
      BY <1>2 DEF RegisterApp, AnsweredIsCovered
    <3>1. m.kind \in Kinds
      BY DEF IInv, TypeOK, Message
    <3>2. CASE b = a
      BY <1>2, <3>1, <3>2, <1>01 DEF RegisterApp, IInv, TypeOK
    <3>3. CASE b # a
      BY <1>2, <3>3 DEF RegisterApp, IInv, TypeOK, AnsweredIsCovered, Registered
    <3> QED BY <3>2, <3>3
  <2> QED BY <2>1, <2>2 DEF FoundIsAbove, BeingServedIsRegistered, Idle
<1>3. ASSUME NEW a \in Apps, NEW k \in Kinds, StartQuery(a, k) PROVE Goal'
  <2> DEFINE from == IF ~Registered(a) THEN [x \in Kinds |-> Now] ELSE last[a]
  <2>1. /\ last' = [last EXCEPT ![a] = from]
        /\ keys' = [keys EXCEPT ![a] = IF ~Registered(a) THEN Kinds ELSE @]
        /\ nbi' = [at |-> "found", app |-> a, kind |-> k, data |-> Find(k, from[k])]
        /\ UNCHANGED <<clock, got>>
    BY <1>3 DEF StartQuery
  <2>2. last'[a] = from /\ keys'[a] # {}
    BY <2>1 DEF IInv, TypeOK, Registered
  <2>3. AnsweredIsCovered'
    <3> SUFFICES ASSUME NEW b \in Apps, Registered(b)', NEW m \in got[b]
                 PROVE  m.time <= last'[b][m.kind]
      BY <2>1 DEF AnsweredIsCovered
    <3>1. m.kind \in Kinds
      BY DEF IInv, TypeOK, Message
    <3>2. CASE b = a /\ Registered(a)
      BY <2>2, <3>2 DEF IInv, AnsweredIsCovered
    <3>3. CASE b = a /\ ~Registered(a)
      BY <2>2, <3>1, <3>3, <1>01
    <3>4. CASE b # a
      <4>1. last'[b] = last[b] /\ Registered(b)
        BY <2>1, <3>4 DEF IInv, TypeOK, Registered
      <4> QED BY <4>1 DEF IInv, AnsweredIsCovered
    <3> QED BY <3>2, <3>3, <3>4
  <2>4. FoundIsAbove'
    BY <2>1, <2>2 DEF FoundIsAbove, Find, IInv, StampsArePast
  <2> QED BY <2>1, <2>2, <2>3, <2>4 DEF BeingServedIsRegistered, Registered
<1>4. CASE EndQuery
  <2> PICK a \in Apps, k \in Kinds : Respond(a, k, Moved(a, k), Answer(k))
    BY <1>4 DEF EndQuery
  <2>1. nbi' = Idle
    BY DEF Respond, Idle
  <2>2. last'[a] = [last[a] EXCEPT ![k] = Now] /\ last'[a][k] = Now
    BY DEF Respond, Moved, IInv, TypeOK
  <2>3. AnsweredIsCovered'
    <3> SUFFICES ASSUME NEW b \in Apps, Registered(b)', NEW m \in got'[b]
                 PROVE  m.time <= last'[b][m.kind]
      BY DEF AnsweredIsCovered
    <3>1. Registered(b)
      BY DEF Respond, Registered
    <3>2. CASE b # a
      BY <3>1, <3>2 DEF Respond, IInv, TypeOK, AnsweredIsCovered
    <3>3. CASE b = a /\ m \in got[a] /\ m.kind # k
      <4>1. last'[a][m.kind] = last[a][m.kind]
        BY <2>2, <3>3 DEF IInv, TypeOK, Message
      <4> QED BY <4>1, <3>1, <3>3 DEF IInv, AnsweredIsCovered
    <3>4. CASE b = a /\ m \in got[a] /\ m.kind = k
      BY <2>2, <3>4, <1>01
    <3>5. CASE b = a /\ m \in nbi.data
      <4>1. m \in Message /\ m.kind = k /\ m.time <= clock
        BY <3>5 DEF Respond, IInv, FoundIsAbove, TypeOK, Found
      <4>2. m.time <= Now
        BY <4>1, <1>0 DEF Message
      <4> QED BY <4>1, <4>2, <2>2, <3>5
    <3>6. got'[a] = got[a] \cup Answer(k)
      BY DEF Respond, IInv, TypeOK
    <3> QED BY <3>2, <3>3, <3>4, <3>5, <3>6 DEF Answer
  <2> QED BY <2>1, <2>3 DEF FoundIsAbove, BeingServedIsRegistered, Idle
<1>5. CASE Restart
  <2>1. nbi' = Idle /\ \A a \in Apps : ~Registered(a)'
    BY <1>5 DEF Restart, Registered, Idle
  <2> QED BY <2>1 DEF AnsweredIsCovered, FoundIsAbove, BeingServedIsRegistered, Idle
<1>6. ASSUME NEW c \in Collectors,
             Collect(c) \/ Insert(c) \/ InsertFails(c) \/ HandlerRaises(c)
      PROVE  Goal'
  BY <1>0, <1>1, <1>6
  DEF Collect, Insert, InsertFails, HandlerRaises, Pull, requests, history
<1>7. CASE Tick
  <2>1. clock' \in Nat /\ clock <= clock'
    BY <1>0, <1>7 DEF Tick
  <2> QED BY <1>1, <1>7, <2>1 DEF Tick, requests, history
<1>8. CASE Expire \/ UNCHANGED vars
  BY <1>0, <1>1, <1>8 DEF Expire, vars, requests, history
<1> QED
  BY <1>2, <1>3, <1>4, <1>5, <1>6, <1>7, <1>8 DEF Next

(* If datetime.now() never lags behind datetime.utcnow(), no answer repeats  *)
(* a message that an earlier answer to the same application held, however    *)
(* stamps, inserts, queries, registrations, expiry and restarts interleave.  *)
THEOREM AnsweredAtMostOnce == ASSUME Skew >= 0 PROVE Spec => []AtMostOnce
<1>1. Init => IInv
  BY ConstantsAssumption
  DEF Init, IInv, TypeOK, StampsArePast, AnsweredIsCovered, FoundIsAbove,
      BeingServedIsRegistered, Idle
<1>2. IInv /\ [Next]_vars => IInv'
  BY TypeStep, StampsStep, CoveredStep DEF IInv
<1>3. IInv => AtMostOnce
  <2> SUFFICES ASSUME IInv, nbi # Idle, NEW m \in nbi.data \cap got[nbi.app]
               PROVE  FALSE
    BY DEF AtMostOnce
  <2>1. nbi.app \in Apps /\ nbi.kind \in Kinds /\ m \in Message
    BY DEF IInv, TypeOK, Found
  <2>2. m.kind = nbi.kind /\ last[nbi.app][nbi.kind] < m.time
    BY DEF IInv, FoundIsAbove
  <2>3. m.time <= last[nbi.app][nbi.kind]
    BY <2>1, <2>2 DEF IInv, AnsweredIsCovered, BeingServedIsRegistered
  <2>4. last[nbi.app][nbi.kind] \in Int /\ m.time \in Nat
    BY <2>1 DEF IInv, TypeOK, Message
  <2> QED BY <2>2, <2>3, <2>4
<1> QED
  BY <1>1, <1>2, <1>3, PTL DEF Spec
-----------------------------------------------------------------------------
(* A query time is never ahead of now(). *)
TimesArePast == \A a \in Apps, k \in Kinds : Registered(a) => last[a][k] <= Now

LEMMA TimesStep ==
  ASSUME TypeOK, TimesArePast, [Next]_vars
  PROVE  /\ TimesArePast'
         /\ \A a \in Apps, k \in Kinds :
              (Registered(a) /\ keys'[a] # {}) => last'[a][k] >= last[a][k]
<1> USE ConstantsAssumption
<1> DEFINE Forward == \A a \in Apps, k \in Kinds :
             (Registered(a) /\ keys'[a] # {}) => last'[a][k] >= last[a][k]
<1>0. clock \in Nat /\ Now \in Int /\ last \in [Apps -> [Kinds -> Int]]
  BY DEF TypeOK, Now
<1>1. ASSUME UNCHANGED <<keys, last>>, clock' \in Nat, clock <= clock'
      PROVE  TimesArePast' /\ Forward
  BY <1>0, <1>1 DEF TimesArePast, Registered, Now
<1>2. ASSUME NEW a \in Apps, RegisterApp(a) PROVE TimesArePast' /\ Forward
  <2>1. Now' = Now /\ \A b \in Apps : b # a => last'[b] = last[b] /\ keys'[b] = keys[b]
    BY <1>2 DEF RegisterApp, Now, TypeOK
  <2>2. \A k \in Kinds : last'[a][k] = Now
    BY <1>2 DEF RegisterApp, TypeOK
  <2> QED BY <1>0, <2>1, <2>2 DEF TimesArePast, Registered
<1>3. ASSUME NEW a \in Apps, NEW x \in Kinds, StartQuery(a, x) PROVE TimesArePast' /\ Forward
  <2>1. Now' = Now /\ \A b \in Apps : b # a => last'[b] = last[b] /\ keys'[b] = keys[b]
    BY <1>3 DEF StartQuery, Now, TypeOK
  <2>2. Registered(a) => last'[a] = last[a]
    BY <1>3 DEF StartQuery, TypeOK
  <2>3. ~Registered(a) => \A k \in Kinds : last'[a][k] = Now
    BY <1>3 DEF StartQuery, TypeOK
  <2> QED BY <1>0, <2>1, <2>2, <2>3 DEF TimesArePast, Registered
<1>4. CASE EndQuery
  <2> PICK a \in Apps, x \in Kinds : Respond(a, x, Moved(a, x), Answer(x))
    BY <1>4 DEF EndQuery
  <2>1. Now' = Now /\ keys' = keys /\ last' = [last EXCEPT ![a] = Moved(a, x)]
    BY DEF Respond, Now
  <2>2. \A b \in Apps, k \in Kinds : last'[b][k] = last[b][k] \/ last'[b][k] = Now
    BY <2>1, <1>0 DEF Moved
  <2> QED BY <1>0, <2>1, <2>2 DEF TimesArePast, Registered
<1>5. CASE Restart
  BY <1>5 DEF Restart, TimesArePast, Registered
<1>6. ASSUME NEW c \in Collectors,
             Collect(c) \/ Insert(c) \/ InsertFails(c) \/ HandlerRaises(c)
      PROVE  TimesArePast' /\ Forward
  BY <1>0, <1>1, <1>6 DEF Collect, Insert, InsertFails, HandlerRaises, Pull, requests
<1>7. CASE Tick
  BY <1>0, <1>1, <1>7 DEF Tick, requests
<1>8. CASE Expire \/ UNCHANGED vars
  BY <1>0, <1>1, <1>8 DEF Expire, vars, requests
<1> QED
  BY <1>2, <1>3, <1>4, <1>5, <1>6, <1>7, <1>8 DEF Next

(* The last query time of a known application never moves back, whatever the *)
(* skew between the two clocks: no query reaches back over an earlier one.   *)
THEOREM QueryWindowMovesForward == Spec => WindowMovesForward
<1>1. Init => TimesArePast
  BY DEF Init, TimesArePast, Registered
<1>2. TypeOK /\ TimesArePast /\ [Next]_vars => TimesArePast'
  BY TimesStep
<1>3. TypeOK /\ TimesArePast /\ [Next]_vars =>
        [\A a \in Apps, k \in Kinds :
           (Registered(a) /\ keys'[a] # {}) => last'[a][k] >= last[a][k]]_vars
  BY TimesStep
<1>4. Spec => []TypeOK
  BY TypeCorrect
<1> QED
  BY <1>1, <1>2, <1>3, <1>4, PTL DEF Spec, WindowMovesForward
-----------------------------------------------------------------------------
(* What makes NoLossOutsideWindow inductive: it also holds of what is pushed *)
(* and not yet inserted, and what a query in progress is about to cover has  *)
(* been found, answered before, or is known to be late.                      *)
Sent == db \cup Pushed
Missable(a, m) == m.kind \notin Mute /\ since[a] < m.time
Settled(a, m) == m \in got[a] \/ <<a, m>> \in late

SentIsPast == \A m \in Sent : m \in Message /\ m.time <= clock

CoveredIsSettled ==
  \A a \in Apps : Registered(a) =>
    \A m \in Sent : (Missable(a, m) /\ m.time <= last[a][m.kind]) => Settled(a, m)

WindowIsSettled ==
  nbi # Idle =>
    \A m \in Sent :
      (Missable(nbi.app, m) /\ m.kind = nbi.kind) => (m \in nbi.data \/ Settled(nbi.app, m))

LossInv == CoveredIsSettled /\ WindowIsSettled

(* The messages sent are more by one after a collector, and no more          *)
(* otherwise.                                                                *)
LEMMA CollectSends ==
  ASSUME TypeOK, NEW c \in Collectors, Collect(c)
  PROVE  \E x \in unsent : Collect(c)!(x) /\ Sent' \subseteq Sent \cup {Stamped(c, x)}
<1> PICK x \in unsent : Collect(c)!(x)
  BY DEF Collect
<1>1. Stamped(c, x) \in Message
  BY StampedIsMessage DEF TypeOK
<1>2. ASSUME NEW d \in Collectors, NEW i \in DOMAIN queue'[d]
      PROVE  queue'[d][i] \in Pushed \/ queue'[d][i] = Stamped(c, x)
  <2>1. CASE d # c
    BY <2>1, <1>2 DEF TypeOK, Pushed
  <2>2. CASE d = c
    <3>1. queue[c] \in Seq(Message) /\ queue'[c] = Append(queue[c], Stamped(c, x))
      BY DEF TypeOK
    <3>2. CASE i \in DOMAIN queue[c]
      <4>1. queue'[c][i] = queue[c][i]
        BY <3>1, <3>2, <1>1
      <4> QED BY <4>1, <3>2, <2>2 DEF Pushed
    <3>3. CASE i \notin DOMAIN queue[c]
      BY <3>1, <3>3, <1>1, <1>2, <2>2
    <3> QED BY <3>2, <3>3
  <2> QED BY <2>1, <2>2
<1>3. Pushed' \subseteq Pushed \cup {Stamped(c, x)}
  BY <1>2 DEF Pushed
<1> QED BY <1>3 DEF Sent

Others ==
  \/ \E c \in Collectors : Insert(c) \/ InsertFails(c) \/ HandlerRaises(c)
  \/ \E a \in Apps : RegisterApp(a) \/ \E k \in Kinds : StartQuery(a, k)
  \/ EndQuery \/ Expire \/ Tick \/ Restart \/ UNCHANGED vars

LEMMA OthersSendNothing == ASSUME TypeOK, Others PROVE Sent' \subseteq Sent
<1>1. CASE UNCHANGED <<db, queue>>
  BY <1>1 DEF Sent, Pushed
<1>2. ASSUME NEW c \in Collectors, Pull(c), db' \subseteq db \cup {Head(queue[c])}
      PROVE  Sent' \subseteq Sent
  <2>1. queue[c] \in Seq(Message) /\ queue[c] # <<>>
    BY <1>2 DEF TypeOK, Pull
  <2>2. Head(queue[c]) \in Pushed
    <3>1. 1 \in DOMAIN queue[c] /\ Head(queue[c]) = queue[c][1]
      BY <2>1
    <3> QED BY <3>1 DEF Pushed
  <2>3. ASSUME NEW d \in Collectors, NEW i \in DOMAIN queue'[d]
        PROVE  queue'[d][i] \in Pushed
    <3>1. CASE d # c
      BY <1>2, <3>1, <2>3 DEF TypeOK, Pull, Pushed
    <3>2. CASE d = c
      <4>1. queue'[d] = Tail(queue[c])
        BY <1>2, <3>2 DEF Pull, TypeOK
      <4>2. i \in DOMAIN Tail(queue[c])
        BY <4>1, <2>3
      <4>3. i + 1 \in DOMAIN queue[c] /\ Tail(queue[c])[i] = queue[c][i + 1]
        BY <4>2, <2>1
      <4>4. queue[c][i + 1] \in Pushed
        BY <4>3 DEF Pushed
      <4> QED BY <4>1, <4>3, <4>4
    <3> QED BY <3>1, <3>2
  <2> QED BY <1>2, <2>2, <2>3 DEF Sent, Pushed
<1>3. ASSUME NEW c \in Collectors, Insert(c) \/ InsertFails(c) \/ HandlerRaises(c)
      PROVE  Sent' \subseteq Sent
  BY <1>2, <1>3 DEF Insert, InsertFails, HandlerRaises, Pull
<1>4. CASE Restart \/ Expire
  BY <1>4 DEF Restart, Expire, Sent, Pushed
<1>5. ASSUME NEW a \in Apps, RegisterApp(a) \/ \E k \in Kinds : StartQuery(a, k)
      PROVE  Sent' \subseteq Sent
  BY <1>1, <1>5 DEF RegisterApp, StartQuery, pipeline
<1>6. CASE EndQuery \/ Tick \/ UNCHANGED vars
  BY <1>1, <1>6 DEF EndQuery, Respond, Tick, vars, pipeline
<1> QED
  BY <1>3, <1>4, <1>5, <1>6 DEF Others

LEMMA SentStaysPast == TypeOK /\ SentIsPast /\ [Next]_vars => SentIsPast'
<1> SUFFICES ASSUME TypeOK, SentIsPast, [Next]_vars PROVE SentIsPast'
  OBVIOUS
<1>1. ASSUME NEW c \in Collectors, Collect(c) PROVE SentIsPast'
  <2>1. PICK x \in unsent : Collect(c)!(x) /\ Sent' \subseteq Sent \cup {Stamped(c, x)}
    BY <1>1, CollectSends
  <2>2. Stamped(c, x) \in Message /\ Stamped(c, x).time = clock /\ clock' = clock /\ clock \in Nat
    BY <2>1, StampedIsMessage DEF TypeOK
  <2> QED BY <2>1, <2>2 DEF SentIsPast
<1>2. CASE Others
  <2>1. Sent' \subseteq Sent
    BY <1>2, OthersSendNothing
  <2>2. clock \in Nat /\ (clock' = clock \/ clock' = clock + 1)
    BY <1>2 DEF Others, Insert, InsertFails, HandlerRaises, Pull, RegisterApp, StartQuery,
                EndQuery, Respond, Expire, Tick, Restart, vars, TypeOK
  <2>3. \A m \in Sent : m.time \in Nat
    BY DEF SentIsPast, Message
  <2> QED BY <2>1, <2>2, <2>3 DEF SentIsPast
<1> QED
  BY <1>1, <1>2 DEF Next, Others

LEMMA LossStep ==
  ASSUME Skew <= 0, TypeOK, SentIsPast, TimesArePast, LossInv, [Next]_vars
  PROVE  LossInv'
<1> USE ConstantsAssumption
<1>0. clock \in Nat /\ Now \in Int /\ Now <= clock
  BY DEF TypeOK, Now
<1>1. ASSUME Sent' \subseteq Sent, UNCHANGED <<keys, last, nbi, got, since, late>> PROVE LossInv'
  <2>1. CoveredIsSettled'
    BY <1>1 DEF LossInv, CoveredIsSettled, Registered, Missable, Settled
  <2>2. WindowIsSettled'
    BY <1>1 DEF LossInv, WindowIsSettled, Missable, Settled, Idle
  <2> QED BY <2>1, <2>2 DEF LossInv
<1>2. ASSUME NEW c \in Collectors, NEW x \in unsent, Collect(c)!(x),
             Sent' \subseteq Sent \cup {Stamped(c, x)}
      PROVE  LossInv'
  <2>0. PICK n \in Message : n = Stamped(c, x)
    BY StampedIsMessage DEF TypeOK
  <2>1. n.time = clock /\ n.kind = KindOf[c]
    BY <2>0, StampedIsMessage DEF TypeOK, Stamped
  <2>2. /\ UNCHANGED <<keys, last, nbi, got, since>>
        /\ late' = late \cup {<<a, n>> : a \in {b \in Apps : Answering(b, n.kind)}}
    BY <1>2, <2>0, <2>1 DEF requests
  <2>3. ASSUME NEW a \in Apps, Answering(a, n.kind) PROVE Settled(a, n)'
    BY <2>2, <2>3 DEF Settled
  <2>4. Sent' \subseteq Sent \cup {n}
    BY <1>2, <2>0
  <2>5. CoveredIsSettled'
    <3> SUFFICES ASSUME NEW a \in Apps, Registered(a), NEW m \in Sent', Missable(a, m),
                        m.time <= last[a][m.kind]
                 PROVE  Settled(a, m)'
      BY <2>2 DEF CoveredIsSettled, Registered, Missable
    <3>1. CASE m \in Sent
      BY <3>1, <2>2 DEF LossInv, CoveredIsSettled, Settled
    <3>2. CASE m = n
      <4>1. n.kind \in Kinds /\ last[a][n.kind] \in Int
        BY <2>1 DEF Message, TypeOK
      <4>2. last[a][n.kind] <= Now
        BY <4>1 DEF TimesArePast
      <4>3. last[a][n.kind] = Now
        BY <1>0, <2>1, <3>2, <4>1, <4>2
      <4>4. Answering(a, n.kind)
        BY <4>3 DEF Answering
      <4> QED BY <2>3, <3>2, <4>4
    <3> QED BY <2>4, <3>1, <3>2
  <2>6. WindowIsSettled'
    <3> SUFFICES ASSUME nbi # Idle, NEW m \in Sent', Missable(nbi.app, m), m.kind = nbi.kind
                 PROVE  m \in nbi.data \/ Settled(nbi.app, m)'
      BY <2>2 DEF WindowIsSettled, Missable, Idle
    <3>1. CASE m \in Sent
      BY <3>1, <2>2 DEF LossInv, WindowIsSettled, Settled
    <3>2. CASE m = n
      <4>1. nbi.app \in Apps
        BY DEF TypeOK, Found
      <4>2. Answering(nbi.app, n.kind)
        BY <3>2 DEF Answering
      <4>3. nbi' = nbi
        BY <2>2
      <4> QED BY <2>3, <3>2, <4>1, <4>2, <4>3 DEF Settled
    <3> QED BY <2>4, <3>1, <3>2
  <2> QED BY <2>5, <2>6 DEF LossInv
<1>3. ASSUME NEW a \in Apps, RegisterApp(a), Sent' \subseteq Sent PROVE LossInv'
  <2>1. nbi' = Idle /\ UNCHANGED <<clock, got, late>>
    BY <1>3 DEF RegisterApp
  <2>2. \A b \in Apps \ {a} : keys'[b] = keys[b] /\ last'[b] = last[b] /\ since'[b] = since[b]
    BY <1>3 DEF RegisterApp, TypeOK
  <2>3. since'[a] = clock
    BY <1>3 DEF RegisterApp, TypeOK
  <2>4. \A m \in Sent : ~(since'[a] < m.time)
    BY <1>0, <2>3 DEF SentIsPast, Message
  <2>5. CoveredIsSettled'
    BY <1>3, <2>1, <2>2, <2>4 DEF LossInv, CoveredIsSettled, Registered, Missable, Settled
  <2> QED BY <2>1, <2>5 DEF LossInv, WindowIsSettled, Idle
<1>4. ASSUME NEW a \in Apps, NEW k \in Kinds, StartQuery(a, k), Sent' \subseteq Sent PROVE LossInv'
  <2> DEFINE from == IF ~Registered(a) THEN [x \in Kinds |-> Now] ELSE last[a]
  <2>1. /\ nbi' = [at |-> "found", app |-> a, kind |-> k, data |-> Find(k, from[k])]
        /\ late' = late \cup {<<a, m>> : m \in {x \in Pushed : x.kind = k}}
        /\ UNCHANGED <<clock, db, queue, got>>
    BY <1>4 DEF StartQuery, pipeline
  <2>2. \A b \in Apps \ {a} : keys'[b] = keys[b] /\ last'[b] = last[b] /\ since'[b] = since[b]
    BY <1>4 DEF StartQuery, TypeOK
  <2>3. CASE Registered(a)
    <3>1. keys'[a] = keys[a] /\ last'[a] = last[a] /\ since'[a] = since[a]
      BY <1>4, <2>3 DEF StartQuery, TypeOK
    <3>2. CoveredIsSettled'
      BY <1>4, <2>1, <2>2, <3>1 DEF LossInv, CoveredIsSettled, Registered, Missable, Settled
    <3>3. ASSUME NEW m \in Sent, Missable(a, m), m.kind = k
          PROVE  m \in Find(k, last[a][k]) \/ Settled(a, m)'
      <4>1. CASE m \in Pushed
        BY <2>1, <3>3, <4>1 DEF Settled
      <4>2. CASE m \in db /\ m.time > last[a][k]
        BY <3>3, <4>2 DEF Find
      <4>3. CASE ~(m.time > last[a][k])
        <5>1. m.time \in Nat /\ last[a][k] \in Int
          BY <1>0 DEF SentIsPast, Message, TypeOK
        <5>2. m.time <= last[a][m.kind]
          BY <3>3, <4>3, <5>1
        <5> QED BY <2>1, <2>3, <3>3, <5>2 DEF LossInv, CoveredIsSettled, Settled
      <4> QED BY <3>3, <4>1, <4>2, <4>3 DEF Sent
    <3>4. /\ nbi'.app = a /\ nbi'.kind = k /\ nbi'.data = Find(k, last[a][k])
      BY <2>1, <2>3
    <3>5. WindowIsSettled'
      BY <1>4, <3>1, <3>3, <3>4 DEF WindowIsSettled, Missable
    <3> QED BY <3>2, <3>5 DEF LossInv
  <2>4. CASE ~Registered(a)
    <3>1. since'[a] = clock
      BY <1>4, <2>4 DEF StartQuery, TypeOK
    <3>2. \A m \in Sent : ~(since'[a] < m.time)
      BY <1>0, <3>1 DEF SentIsPast, Message
    <3>3. CoveredIsSettled'
      BY <1>4, <2>1, <2>2, <3>2 DEF LossInv, CoveredIsSettled, Registered, Missable, Settled
    <3>4. nbi'.app = a
      BY <2>1
    <3>5. WindowIsSettled'
      BY <1>4, <3>2, <3>4 DEF WindowIsSettled, Missable
    <3> QED BY <3>3, <3>5 DEF LossInv
  <2> QED BY <2>3, <2>4
<1>5. ASSUME EndQuery, Sent' \subseteq Sent PROVE LossInv'
  <2> PICK a \in Apps, k \in Kinds : Respond(a, k, Moved(a, k), Answer(k))
    BY <1>5 DEF EndQuery
  <2>1. /\ nbi' = Idle /\ nbi # Idle /\ nbi.app = a /\ nbi.kind = k
        /\ UNCHANGED <<keys, since, late>>
    BY DEF Respond, Idle
  <2>2. got' = [got EXCEPT ![a] = @ \cup Answer(k)] /\ got \in [Apps -> SUBSET Message]
    BY DEF Respond, TypeOK
  <2>3. \A b \in Apps : got[b] \subseteq got'[b]
    BY <2>2
  <2>4. \A b \in Apps, x \in Kinds : (b # a \/ x # k) => last'[b][x] = last[b][x]
    BY DEF Respond, Moved, TypeOK
  <2>5. CoveredIsSettled'
    <3> SUFFICES ASSUME NEW b \in Apps, Registered(b), NEW m \in Sent, Missable(b, m),
                        m.time <= last'[b][m.kind]
                 PROVE  Settled(b, m)'
      BY <1>5, <2>1 DEF CoveredIsSettled, Registered, Missable
    <3>1. m.kind \in Kinds
      BY <1>0 DEF SentIsPast, Message
    <3>2. CASE b # a \/ m.kind # k
      <4>1. Settled(b, m)
        BY <2>4, <3>1, <3>2 DEF LossInv, CoveredIsSettled
      <4> QED BY <2>1, <2>3, <4>1 DEF Settled
    <3>3. CASE b = a /\ m.kind = k
      <4>1. m \in nbi.data \/ Settled(a, m)
        BY <2>1, <3>3 DEF LossInv, WindowIsSettled
      <4>2. nbi.data \subseteq got'[a]
        BY <2>2, <3>3 DEF Answer, Missable
      <4> QED BY <2>1, <2>3, <3>3, <4>1, <4>2 DEF Settled
    <3> QED BY <3>2, <3>3
  <2> QED BY <2>1, <2>5 DEF LossInv, WindowIsSettled, Idle
<1>6. CASE Restart
  <2>1. nbi' = Idle /\ \A a \in Apps : ~Registered(a)'
    BY <1>6 DEF Restart, Registered, Idle
  <2> QED BY <2>1 DEF LossInv, CoveredIsSettled, WindowIsSettled, Idle
<1>7. ASSUME Sent' \subseteq Sent,
             (\E c \in Collectors : Insert(c) \/ InsertFails(c) \/ HandlerRaises(c))
               \/ Expire \/ Tick \/ UNCHANGED vars
      PROVE  LossInv'
  <2>1. UNCHANGED <<keys, last, nbi, got, since, late>>
    BY <1>7 DEF Insert, InsertFails, HandlerRaises, Pull, Expire, Tick, vars, requests, history
  <2> QED BY <1>1, <1>7, <2>1
<1>8. CASE \E c \in Collectors : Collect(c)
  BY <1>2, <1>8, CollectSends
<1>9. CASE Others
  <2>1. Sent' \subseteq Sent
    BY <1>9, OthersSendNothing
  <2> QED BY <1>3, <1>4, <1>5, <1>6, <1>7, <1>9, <2>1 DEF Others
<1> QED
  BY <1>8, <1>9 DEF Next, Others

(* If datetime.now() never runs ahead of datetime.utcnow(), the only stored  *)
(* messages a registered application misses are those that were on their way *)
(* during a query of its own, however many collectors, queries, insertions,  *)
(* failures, expiries and restarts there are.                                *)
THEOREM OnlyTheLateAreMissed == ASSUME Skew <= 0 PROVE Spec => []NoLossOutsideWindow
<1>1. Init => SentIsPast /\ TimesArePast /\ LossInv
  BY DEF Init, SentIsPast, Sent, Pushed, TimesArePast, LossInv, CoveredIsSettled,
         WindowIsSettled, Registered
<1>2. TypeOK /\ SentIsPast /\ TimesArePast /\ LossInv /\ [Next]_vars
        => (SentIsPast /\ TimesArePast /\ LossInv)'
  BY SentStaysPast, TimesStep, LossStep
<1>3. LossInv => NoLossOutsideWindow
  BY DEF LossInv, CoveredIsSettled, NoLossOutsideWindow, Sent, Missable, Settled
<1> QED
  BY <1>1, <1>2, <1>3, TypeCorrect, PTL DEF Spec
=============================================================================
