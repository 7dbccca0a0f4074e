----------------------------- MODULE SnortProofs -----------------------------
(***************************************************************************)
(* Proofs about the snort application of the controller. SnortTunnel, for  *)
(* any number of switches: the types, with requests and events overlapping *)
(* at will, the absence of forwarding loops as long as they do not         *)
(* overlap, and that the groups lead to the nearest instance when they     *)
(* are steady. SnortManager, for any switches, hosts, instances and flows: *)
(* the types, what waits, what is blocked, and that its maps agree.        *)
(***************************************************************************)
EXTENDS SnortManager, SnortTunnel, WellFoundedInduction, TLAPS

(* A walk that has links to look at is at a switch: what TypeOK needs to be  *)
(* inductive, as the distance of that switch is read.                        *)
Located == {w \in Walks : w.left # {} => w.current \in Devices}
TypeInv == TypeOK /\ walk \in [Threads -> Located]

LEMMA RestingIsLocated == Resting \in Located
BY DEF Resting, Walks, Located

LEMMA BegunIsLocated ==
  ASSUME NEW d \in Devices, NEW ds \in SUBSET Devices
  PROVE  [Resting EXCEPT !.known = ds, !.queue = <<d>>] \in Located
<1>1. <<d>> \in Seq(Devices)
  OBVIOUS
<1>2. QED
  BY <1>1 DEF Resting, Walks, Located

LEMMA SettledIsLocated ==
  ASSUME NEW w \in Located
  PROVE  Settled(w) \in Located
BY RestingIsLocated DEF Settled

LEMMA DequeuedIsLocated ==
  ASSUME NEW w \in Located, w.queue # <<>>, NEW ds \in SUBSET Devices
  PROVE  [w EXCEPT !.queue = Tail(@), !.current = Head(w.queue), !.left = ds] \in Located
<1>1. w.queue \in Seq(Devices)
  BY DEF Walks, Located
<1>2. Tail(w.queue) \in Seq(Devices) /\ Head(w.queue) \in Devices
  BY <1>1
<1>3. QED
  BY <1>2 DEF Walks, Located

LEMMA LookedIsLocated ==
  ASSUME NEW w \in Located, NEW d \in Devices
  PROVE  LET on == [w EXCEPT !.left = @ \ {d}, !.seen = @ \cup {d}]
         IN  on \in Located /\ [on EXCEPT !.queue = Append(@, d)] \in Located
<1> DEFINE on == [w EXCEPT !.left = @ \ {d}, !.seen = @ \cup {d}]
<1>1. on \in Located
  BY DEF Walks, Located
<1>2. on.queue \in Seq(Devices)
  BY <1>1 DEF Walks, Located
<1>3. Append(on.queue, d) \in Seq(Devices)
  BY <1>2
<1>4. [on EXCEPT !.queue = Append(@, d)] \in Located
  <2> HIDE DEF on
  <2>1. QED
    BY <1>1, <1>3 DEF Walks, Located
<1>5. QED
  BY <1>1, <1>4

(* The variables keep their types.                                           *)
LEMMA TypeStep ==
  ASSUME TypeInv, [Next]_vars
  PROVE  TypeInv'
<1>0. Located \subseteq Walks
  BY DEF Located
<1>a. ASSUME NEW t \in Threads, NEW d \in Devices, Begin(t, d)
      PROVE  /\ hops' \in [Devices -> Nat \cup {-1}]
             /\ group' \in [Devices -> Devices \cup {None, Snort}]
             /\ walk' \in [Threads -> Located]
  BY <1>a, BegunIsLocated DEF Begin, TypeInv, TypeOK
<1>b. ASSUME NEW ds \in SUBSET Devices, NEW ss \in SUBSET ds, Reset(ds, ss)
      PROVE  TypeInv'
  BY <1>b DEF Reset, Overlaps, TypeInv, TypeOK, Idle
<1>1. ASSUME NEW d \in Devices, DeviceAdded(d) PROVE TypeInv'
  BY <1>1, <1>b DEF DeviceAdded, TypeInv, TypeOK
<1>2. ASSUME NEW d \in Devices, DeviceRemoved(d) PROVE TypeInv'
  BY <1>2, <1>b DEF DeviceRemoved, TypeInv, TypeOK
<1>3. ASSUME NEW d \in Devices, PortRemoved(d) PROVE TypeInv'
  BY <1>3, <1>b DEF PortRemoved, TypeInv, TypeOK
<1>4. ASSUME NEW d \in Devices, NextKey(d) PROVE TypeInv'
  <2>1. "event" \in Threads
    BY DEF Threads
  <2>2. QED
    BY <1>0, <1>4, <2>1, <1>a DEF NextKey, TypeInv, TypeOK
<1>5. ASSUME NEW d \in Devices, AddSnort(d) PROVE TypeInv'
  <2>1. "rest" \in Threads
    BY DEF Threads
  <2>2. QED
    BY <1>0, <1>5, <2>1, <1>a DEF AddSnort, Overlaps, TypeInv, TypeOK
<1>6. ASSUME NEW d \in Devices, RemoveSnort(d) PROVE TypeInv'
  BY <1>6 DEF RemoveSnort, TypeInv, TypeOK, tables
<1>7. ASSUME NEW t \in Threads, NEW d \in Devices, Look(t, d) PROVE TypeInv'
  <2> DEFINE w == walk[t]
             on == [w EXCEPT !.left = @ \ {d}, !.seen = @ \cup {d}]
             next == [on EXCEPT !.queue = Append(@, d)]
  <2>1. w \in Located /\ w.left # {}
    BY <1>7 DEF TypeInv, Look
  <2>2. on \in Located /\ next \in Located /\ Settled(on) \in Located
    BY <2>1, LookedIsLocated, SettledIsLocated
  <2>3. OneMore(hops[w.current]) \in Nat /\ w.current \in Devices
    BY <2>1 DEF OneMore, TypeInv, TypeOK, Located
  <2>4. walk' \in [Threads -> Located]
    <3>1. walk' = [walk EXCEPT ![t] = next] \/ walk' = [walk EXCEPT ![t] = Settled(on)]
      BY <1>7 DEF Look
    <3>2. QED
      BY <2>2, <3>1 DEF TypeInv
  <2>5. /\ hops' \in [Devices -> Nat \cup {-1}]
        /\ group' \in [Devices -> Devices \cup {None, Snort}]
    BY <1>7, <2>3 DEF Look, tables, TypeInv, TypeOK
  <2>6. UNCHANGED <<devices, links, snorts, todo, changed, steady, overlapped>>
    BY <1>7 DEF Look
  <2>7. QED
    BY <1>0, <2>4, <2>5, <2>6 DEF TypeInv, TypeOK
<1>8. ASSUME NEW t \in Threads, NEW d \in Devices, Raise(t, d) PROVE TypeInv'
  BY <1>0, <1>8, RestingIsLocated DEF Raise, TypeInv, TypeOK, tables
<1>9. ASSUME NEW t \in Threads, Dequeue(t) PROVE TypeInv'
  <2> DEFINE w == walk[t]
             on == [w EXCEPT !.queue = Tail(@), !.current = Head(w.queue),
                             !.left = Neighbours(Head(w.queue))]
  <2>1. w \in Located /\ w.queue # <<>> /\ Neighbours(Head(w.queue)) \in SUBSET Devices
    BY <1>9 DEF Dequeue, TypeInv, TypeOK, Neighbours
  <2>2. Settled(on) \in Located
    BY <2>1, DequeuedIsLocated, SettledIsLocated
  <2>3. QED
    BY <1>0, <1>9, <2>2 DEF Dequeue, TypeInv, TypeOK, tables
<1>10. ASSUME IterationFails PROVE TypeInv'
  BY <1>10 DEF IterationFails, TypeInv, TypeOK, tables
<1>11. ASSUME ClearSnort PROVE TypeInv'
  BY <1>11 DEF ClearSnort, TypeInv, TypeOK, tables
<1>12. ASSUME NEW l \in Pairs(Devices), LinkChanges(l) PROVE TypeInv'
  BY <1>12 DEF LinkChanges, TypeInv, TypeOK, tables
<1>13. ASSUME UNCHANGED vars PROVE TypeInv'
  BY <1>13 DEF vars, tables, TypeInv, TypeOK
<1>14. QED
  BY <1>1, <1>2, <1>3, <1>4, <1>5, <1>6, <1>7, <1>8, <1>9, <1>10, <1>11, <1>12, <1>13 DEF Next

LEMMA TypeInit == Init => TypeInv
BY RestingIsLocated DEF Init, TypeInv, TypeOK, Located

(* The types hold in every behaviour of the tunnels (SnortTunnel.java:33-141): *)
(* in particular the distances are never below -1, however the walks overlap.  *)
THEOREM TypeCorrect == Spec => []TypeOK
<1>1. TypeInv => TypeOK
  BY DEF TypeInv
<1>2. QED
  BY <1>1, TypeInit, TypeStep, PTL DEF Spec
-----------------------------------------------------------------------------
(* A non-empty set of naturals has a least element.                          *)
Below == {ss \in Nat \X Nat : ss[1] < ss[2]}

LEMMA BelowIsWellFounded == IsWellFoundedOn(Below, Nat)
BY NatLessThanWellFounded DEF OpToRel, Below

LEMMA LeastExists ==
  ASSUME NEW S, S \subseteq Nat, S # {}
  PROVE  \E x \in S : \A y \in S : x <= y
<1>1. PICK x \in S : \A y \in S : <<y, x>> \notin Below
  BY BelowIsWellFounded, WFMin
<1>2. ASSUME NEW y \in S PROVE x <= y
  <2>1. <<y, x>> \notin Below /\ x \in Nat /\ y \in Nat
    BY <1>1
  <2>2. ~(y < x)
    BY <2>1 DEF Below
  <2>3. QED
    BY <2>1, <2>2
<1>3. QED
  BY <1>2

(* The strengthening of LoopFree: a switch with a distance sends to   *)
(* its port or to a switch with a smaller one; a walk works from switches     *)
(* that have one; what is to be set up is there.                              *)
Measured(d) == d \in devices /\ hops[d] >= 0
Ranked == \A d \in devices : hops[d] >= 0 =>
            \/ group[d] = Snort
            \/ Measured(group[d]) /\ hops[group[d]] < hops[d]
FromReached == \A t \in Threads :
                 /\ \A i \in 1 .. Len(walk[t].queue) : Measured(walk[t].queue[i])
                 /\ walk[t].left # {} => Measured(walk[t].current)
                 /\ walk[t].left \subseteq devices
TodoIsThere == todo \subseteq devices
TableInv == TypeInv /\ LoopFree /\ Ranked /\ FromReached /\ TodoIsThere

(* Whatever the distances h and the groups g of the switches dv: a set that   *)
(* is closed under the groups has no switch with a distance.                  *)
LEMMA ClosedIsUnreached ==
  ASSUME NEW dv \in SUBSET Devices, NEW h \in [Devices -> Nat \cup {-1}], NEW g,
         NEW ds \in SUBSET Devices, \A d \in ds : g[d] \in ds,
         \A d \in dv : h[d] >= 0 => \/ g[d] = Snort
                                    \/ g[d] \in dv /\ h[g[d]] >= 0 /\ h[g[d]] < h[d]
  PROVE  \A d \in ds : ~(d \in dv /\ h[d] >= 0)
<1> SUFFICES ASSUME NEW r \in ds, r \in dv, h[r] >= 0 PROVE FALSE
  OBVIOUS
<1> DEFINE S == {h[d] : d \in {x \in ds : x \in dv /\ h[x] >= 0}}
<1>1. S \subseteq Nat /\ S # {}
  <2>1. ASSUME NEW d \in ds, h[d] >= 0 PROVE h[d] \in Nat
    BY <2>1
  <2>2. QED
    BY <2>1
<1>2. PICK n \in S : \A y \in S : n <= y
  <2> HIDE DEF S
  <2>1. QED
    BY <1>1, LeastExists
<1>3. PICK m \in ds : m \in dv /\ h[m] >= 0 /\ h[m] = n
  BY <1>2
<1>4. g[m] \in ds /\ g[m] # Snort
  BY <1>3, TunnelAssumption
<1>5. g[m] \in dv /\ h[g[m]] >= 0 /\ h[g[m]] < h[m]
  BY <1>3, <1>4
<1>6. h[g[m]] \in S
  BY <1>4, <1>5
<1>7. h[m] <= h[g[m]]
  BY <1>2, <1>3, <1>6
<1>8. h[m] \in Nat /\ h[g[m]] \in Nat
  BY <1>1, <1>2, <1>3, <1>6
<1>9. QED
  BY <1>5, <1>7, <1>8

(* If a step leaves the groups of all switches without a distance alone, and *)
(* the ranks are kept, no loop appears.                                      *)
LEMMA LoopStep ==
  ASSUME TypeOK', Ranked', LoopFree,
         \A d \in Devices : group'[d] = group[d] \/ Measured(d)'
  PROVE  LoopFree'
<1> SUFFICES ASSUME NEW ds \in SUBSET Devices, ds # {}, \A d \in ds : group'[d] \in ds
             PROVE  FALSE
  BY DEF LoopFree
<1>1. \A d \in ds : ~Measured(d)'
  <2>1. devices' \in SUBSET Devices /\ hops' \in [Devices -> Nat \cup {-1}]
    BY DEF TypeOK
  <2>2. \A d \in devices' : hops'[d] >= 0 =>
          \/ group'[d] = Snort
          \/ group'[d] \in devices' /\ hops'[group'[d]] >= 0 /\ hops'[group'[d]] < hops'[d]
    BY DEF Ranked, Measured
  <2>3. \A d \in ds : ~(d \in devices' /\ hops'[d] >= 0)
    BY <2>1, <2>2, ClosedIsUnreached
  <2>4. QED
    BY <2>3 DEF Measured
<1>2. \A d \in ds : group[d] \in ds
  BY <1>1
<1>3. QED
  BY <1>2 DEF LoopFree

(* A switch that is set nearer, to its port or to a switch nearer still,     *)
(* keeps the ranks, and every switch with a distance keeps one.              *)
LEMMA NearerStep ==
  ASSUME TypeInv, Ranked, NEW d \in devices, NEW n \in Nat, NEW c \in Devices \cup {Snort},
         devices' = devices,
         hops' = [hops EXCEPT ![d] = n], group' = [group EXCEPT ![d] = c],
         c = Snort \/ (Measured(c) /\ hops[c] < n),
         hops[d] = -1 \/ n <= hops[d]
  PROVE  /\ Ranked'
         /\ \A e \in Devices : Measured(e) => Measured(e)'
         /\ Measured(d)'
         /\ \A e \in Devices : group'[e] = group[e] \/ Measured(e)'
<1>1. /\ devices \subseteq Devices
      /\ hops \in [Devices -> Nat \cup {-1}] /\ group \in [Devices -> Devices \cup {None, Snort}]
  BY DEF TypeInv, TypeOK
<1>2. d \in Devices /\ hops'[d] = n /\ group'[d] = c
  BY <1>1
<1>3. \A e \in Devices : e # d => hops'[e] = hops[e] /\ group'[e] = group[e]
  BY <1>1
<1>4. Measured(d)'
  BY <1>2 DEF Measured
<1>5. \A e \in Devices : Measured(e) => Measured(e)' /\ hops'[e] <= hops[e]
  <2> SUFFICES ASSUME NEW e \in Devices, Measured(e) PROVE Measured(e)' /\ hops'[e] <= hops[e]
    OBVIOUS
  <2>1. CASE e = d
    BY <2>1, <1>1, <1>2, <1>4 DEF Measured
  <2>2. CASE e # d
    BY <2>2, <1>1, <1>3 DEF Measured
  <2>3. QED
    BY <2>1, <2>2
<1>6. Ranked'
  <2> SUFFICES ASSUME NEW e \in devices, hops'[e] >= 0
               PROVE  \/ group'[e] = Snort
                      \/ /\ group'[e] \in devices /\ hops'[group'[e]] >= 0
                         /\ hops'[group'[e]] < hops'[e]
    BY DEF Ranked, Measured
  <2>1. CASE e = d /\ c # Snort
    <3>1. c \in Devices /\ Measured(c) /\ hops[c] < n
      BY <2>1
    <3>2. Measured(c)' /\ hops'[c] <= hops[c]
      BY <3>1, <1>5
    <3>3. hops'[c] \in Nat \cup {-1} /\ hops[c] \in Nat \cup {-1}
      BY <3>1, <1>1, <1>2, <1>3
    <3>4. hops'[c] < n
      BY <3>1, <3>2, <3>3
    <3>5. QED
      BY <2>1, <3>2, <3>4, <1>2 DEF Measured
  <2>2. CASE e = d /\ c = Snort
    BY <2>2, <1>2
  <2>3. CASE e # d /\ group[e] # Snort
    <3>1. hops'[e] = hops[e] /\ group'[e] = group[e]
      BY <2>3, <1>1, <1>3
    <3>2. Measured(group[e]) /\ hops[group[e]] < hops[e]
      BY <2>3, <3>1 DEF Ranked
    <3>3. group[e] \in Devices
      BY <3>2, <1>1 DEF Measured
    <3>4. PICK g \in Devices : g = group[e]
      BY <3>3
    <3>5. Measured(g)' /\ hops'[g] <= hops[g]
      BY <3>2, <3>4, <1>5
    <3>6. hops'[g] \in Nat \cup {-1} /\ hops[g] \in Nat \cup {-1} /\ hops[e] \in Nat \cup {-1}
      BY <1>1, <1>2, <1>3
    <3>7. hops'[g] < hops[e] /\ g \in devices /\ hops'[g] >= 0
      BY <3>2, <3>4, <3>5, <3>6 DEF Measured
    <3>8. QED
      BY <3>1, <3>4, <3>7
  <2>4. CASE e # d /\ group[e] = Snort
    BY <2>4, <1>1, <1>3
  <2>5. QED
    BY <2>1, <2>2, <2>3, <2>4
<1>7. QED
  BY <1>1, <1>3, <1>4, <1>5, <1>6

(* As long as no event and no added instance overlaps another, every         *)
(* step preserves the strengthened invariant. One that changes no distance   *)
(* and no group preserves it when it keeps the walks on switches that have a *)
(* distance; a reset finds no walk under way.                                *)
LEMMA UnchangedTablesStep ==
  ASSUME TableInv, TypeInv', UNCHANGED <<devices, hops, group>>, FromReached', TodoIsThere'
  PROVE  TableInv'
<1>1. Ranked'
  BY DEF TableInv, Ranked, Measured
<1>2. LoopFree'
  BY DEF TableInv, LoopFree
<1>3. QED
  BY <1>1, <1>2 DEF TableInv

LEMMA ResetStep ==
  ASSUME ~overlapped', TableInv, TypeInv', NEW ds \in SUBSET Devices, NEW ss \in SUBSET ds,
         Reset(ds, ss)
  PROVE  TableInv'
<1>1. Quiet /\ UNCHANGED <<group, walk>> /\ devices' = ds /\ todo' = ss
  BY DEF Reset, Overlaps
<1>2. \A d \in ds : hops'[d] = -1
  BY DEF Reset
<1>3. Ranked' /\ TodoIsThere'
  BY <1>1, <1>2 DEF Ranked, TodoIsThere
<1>4. FromReached'
  BY <1>1 DEF FromReached, Quiet, Idle, Resting
<1>5. LoopFree'
  BY <1>1 DEF LoopFree, TableInv
<1>6. QED
  BY <1>3, <1>4, <1>5 DEF TableInv

LEMMA BeginStep ==
  ASSUME TableInv, TypeInv', NEW t \in Threads, NEW d \in devices, Begin(t, d),
         devices' = devices, todo' \subseteq todo
  PROVE  TableInv'
<1> DEFINE begun == [Resting EXCEPT !.known = devices, !.queue = <<d>>]
<1>1. d \in Devices /\ (hops[d] = -1 \/ 0 <= hops[d])
  BY DEF TableInv, TypeInv, TypeOK
<1>2. /\ Ranked' /\ Measured(d)'
      /\ \A e \in Devices : Measured(e) => Measured(e)'
      /\ \A e \in Devices : group'[e] = group[e] \/ Measured(e)'
  BY <1>1, NearerStep DEF Begin, TableInv
<1>3. LoopFree'
  BY <1>2, LoopStep DEF TableInv, TypeInv
<1>4. FromReached'
  <2> SUFFICES ASSUME NEW u \in Threads
               PROVE  /\ \A i \in 1 .. Len(walk'[u].queue) : Measured(walk[u].queue[i])'
                      /\ walk'[u].left # {} => Measured(walk[u].current)'
                      /\ walk'[u].left \subseteq devices
    BY DEF FromReached
  <2>1. CASE u = t
    <3>1. walk'[u] = begun
      BY <2>1 DEF Begin, TableInv, TypeInv
    <3>2. walk'[u].queue = <<d>> /\ walk'[u].left = {}
      BY <3>1 DEF Resting
    <3>3. QED
      BY <3>2, <1>2 DEF Measured
  <2>2. CASE u # t
    <3>1. walk'[u] = walk[u] /\ walk[u] \in Located
      BY <2>2 DEF Begin, TableInv, TypeInv
    <3>2. QED
      BY <3>1, <1>2 DEF FromReached, TableInv, Measured, Located, Walks
  <2>3. QED
    BY <2>1, <2>2
<1>5. TodoIsThere'
  BY DEF TableInv, TodoIsThere
<1>6. QED
  BY <1>2, <1>3, <1>4, <1>5 DEF TableInv

LEMMA DequeueStep ==
  ASSUME TableInv, TypeInv', NEW t \in Threads, Dequeue(t)
  PROVE  TableInv'
<1> DEFINE w == walk[t]
           on == [w EXCEPT !.queue = Tail(@), !.current = Head(w.queue),
                           !.left = Neighbours(Head(w.queue))]
<1>1. w \in Walks /\ w.queue \in Seq(Devices) /\ w.queue # <<>>
  BY DEF TableInv, TypeInv, Located, Walks, Dequeue
<1>2. UNCHANGED <<devices, hops, group, todo>> /\ walk' = [walk EXCEPT ![t] = Settled(on)]
  BY DEF Dequeue, tables
<1>3. \A i \in 1 .. Len(w.queue) : Measured(w.queue[i])
  BY DEF TableInv, FromReached
<1>4. FromReached'
  <2> SUFFICES ASSUME NEW u \in Threads
               PROVE  /\ \A i \in 1 .. Len(walk'[u].queue) : Measured(walk'[u].queue[i])
                      /\ walk'[u].left # {} => Measured(walk'[u].current)
                      /\ walk'[u].left \subseteq devices
    BY <1>2 DEF FromReached, Measured
  <2>1. CASE u = t
    <3>1. on.queue = Tail(w.queue) /\ on.current = Head(w.queue) /\ on.left \subseteq devices
      BY <1>1 DEF Neighbours, Walks
    <3>2. \A i \in 1 .. Len(on.queue) : Measured(on.queue[i])
      <4> SUFFICES ASSUME NEW i \in 1 .. Len(Tail(w.queue)) PROVE Measured(Tail(w.queue)[i])
        BY <3>1
      <4>1. Tail(w.queue)[i] = w.queue[i + 1] /\ i + 1 \in 1 .. Len(w.queue)
        BY <1>1
      <4>2. QED
        BY <4>1, <1>3
    <3>3. Measured(on.current)
      <4>1. Head(w.queue) = w.queue[1] /\ 1 \in 1 .. Len(w.queue)
        BY <1>1
      <4>2. QED
        BY <3>1, <4>1, <1>3
    <3>4. walk'[u] = on \/ walk'[u] = Resting
      BY <2>1, <1>2 DEF Settled, TableInv, TypeInv
    <3>5. CASE walk'[u] = on
      <4> HIDE DEF on
      <4>1. QED
        BY <3>1, <3>2, <3>3, <3>5
    <3>6. CASE walk'[u] = Resting
      BY <3>6 DEF Resting
    <3>7. QED
      BY <3>4, <3>5, <3>6
  <2>2. CASE u # t
    BY <2>2, <1>2 DEF TableInv, TypeInv, FromReached
  <2>3. QED
    BY <2>1, <2>2
<1>5. TodoIsThere'
  BY <1>2 DEF TableInv, TodoIsThere
<1>6. QED
  BY <1>2, <1>4, <1>5, UnchangedTablesStep

LEMMA LookStep ==
  ASSUME TableInv, TypeInv', NEW t \in Threads, NEW d \in Devices, Look(t, d)
  PROVE  TableInv'
<1> DEFINE w   == walk[t]
           new == OneMore(hops[w.current])
           take == d \notin w.seen /\ Nearer(new, hops[d])
           on  == [w EXCEPT !.left = @ \ {d}, !.seen = @ \cup {d}]
           next == [on EXCEPT !.queue = Append(@, d)]
<1>1. w \in Walks /\ w.queue \in Seq(Devices)
  BY DEF TableInv, TypeInv, Located, Walks
<1>2. d \in w.left /\ d \in devices /\ Measured(w.current) /\ w.current \in Devices
  BY DEF Look, TableInv, FromReached, Measured, TypeInv, TypeOK
<1>3. UNCHANGED <<devices, todo>>
  BY DEF Look
<1>4. hops[w.current] \in Nat /\ new = hops[w.current] + 1 /\ hops[d] \in Nat \cup {-1}
  BY <1>2 DEF TableInv, TypeInv, TypeOK, Measured, OneMore
<1>5. CASE ~take
  <2>1. UNCHANGED <<hops, group>> /\ walk' = [walk EXCEPT ![t] = Settled(on)]
    BY <1>5 DEF Look, tables
  <2>2. FromReached'
    <3> SUFFICES ASSUME NEW u \in Threads
                 PROVE  /\ \A i \in 1 .. Len(walk'[u].queue) : Measured(walk'[u].queue[i])
                        /\ walk'[u].left # {} => Measured(walk'[u].current)
                        /\ walk'[u].left \subseteq devices
      BY <2>1, <1>3 DEF FromReached, Measured
    <3>1. CASE u = t
      <4>1. walk'[u] = on \/ walk'[u] = Resting
        BY <3>1, <2>1 DEF Settled, TableInv, TypeInv
      <4>2. on.queue = w.queue /\ on.current = w.current /\ on.left \subseteq w.left
        BY <1>1 DEF Walks
      <4>3. CASE walk'[u] = on
        <5> HIDE DEF on
        <5>1. QED
          BY <4>2, <4>3, <1>2 DEF TableInv, FromReached
      <4>4. CASE walk'[u] = Resting
        BY <4>4 DEF Resting
      <4>5. QED
        BY <4>1, <4>3, <4>4
    <3>2. CASE u # t
      BY <3>2, <2>1 DEF TableInv, TypeInv, FromReached
    <3>3. QED
      BY <3>1, <3>2
  <2>3. TodoIsThere'
    BY <1>3 DEF TableInv, TodoIsThere
  <2>4. QED
    BY <1>3, <2>1, <2>2, <2>3, UnchangedTablesStep
<1>6. CASE take
  <2>1. /\ hops' = [hops EXCEPT ![d] = new] /\ group' = [group EXCEPT ![d] = w.current]
        /\ walk' = [walk EXCEPT ![t] = next]
    BY <1>6 DEF Look
  <2>2. hops[d] = -1 \/ new <= hops[d]
    BY <1>4, <1>6 DEF Nearer
  <2>3. new \in Nat /\ hops[w.current] < new
    BY <1>4
  <2>4. /\ Ranked' /\ Measured(d)'
        /\ \A e \in Devices : Measured(e) => Measured(e)'
        /\ \A e \in Devices : group'[e] = group[e] \/ Measured(e)'
    <3> HIDE DEF new
    <3>1. QED
      BY <1>2, <1>3, <2>1, <2>2, <2>3, NearerStep DEF TableInv
  <2>5. LoopFree'
    BY <2>4, LoopStep DEF TableInv, TypeInv
  <2>6. FromReached'
    <3> SUFFICES ASSUME NEW u \in Threads
                 PROVE  /\ \A i \in 1 .. Len(walk'[u].queue) : Measured(walk[u].queue[i])'
                        /\ walk'[u].left # {} => Measured(walk[u].current)'
                        /\ walk'[u].left \subseteq devices
      BY <1>3 DEF FromReached
    <3>1. CASE u = t
      <4>1. walk'[u] = next
        BY <3>1, <2>1 DEF TableInv, TypeInv
      <4>2. /\ next.queue = Append(w.queue, d) /\ next.current = w.current
            /\ next.left \subseteq w.left
        BY <1>1 DEF Walks
      <4>3. ASSUME NEW i \in 1 .. Len(next.queue)
            PROVE  next.queue[i] \in devices' /\ hops'[next.queue[i]] >= 0
        <5>1. CASE i = Len(w.queue) + 1
          BY <5>1, <4>2, <1>1, <2>4 DEF Measured
        <5>2. CASE i \in 1 .. Len(w.queue)
          <6>1. next.queue[i] = w.queue[i] /\ w.queue[i] \in Devices
            BY <5>2, <4>2, <1>1
          <6>2. Measured(w.queue[i])
            BY <5>2 DEF TableInv, FromReached
          <6>3. PICK e \in Devices : e = w.queue[i]
            BY <6>1
          <6>4. Measured(e)'
            BY <6>2, <6>3, <2>4
          <6>5. QED
            BY <6>1, <6>3, <6>4 DEF Measured
        <5>3. QED
          BY <5>1, <5>2, <4>2, <1>1
      <4>4. w.current \in devices' /\ hops'[w.current] >= 0
        <5>1. PICK e \in Devices : e = w.current
          BY <1>2
        <5>2. QED
          BY <5>1, <1>2, <2>4 DEF Measured
      <4>5. w.left \subseteq devices
        BY DEF TableInv, FromReached
      <4> HIDE DEF next
      <4>6. QED
        BY <4>1, <4>2, <4>3, <4>4, <4>5 DEF Measured
    <3>2. CASE u # t
      <4>1. walk'[u] = walk[u] /\ walk[u] \in Located
        BY <3>2, <2>1 DEF TableInv, TypeInv
      <4>2. QED
        BY <4>1, <2>4 DEF FromReached, TableInv, Measured, Located, Walks
    <3>3. QED
      BY <3>1, <3>2
  <2>7. TodoIsThere'
    BY <1>3 DEF TableInv, TodoIsThere
  <2>8. QED
    BY <2>4, <2>5, <2>6, <2>7 DEF TableInv
<1>7. QED
  BY <1>5, <1>6

LEMMA TableInvStep ==
  ASSUME ~overlapped', TableInv, [Next]_vars
  PROVE  TableInv'
<1>0. TypeInv' /\ snorts \subseteq devices /\ devices \subseteq Devices
  BY TypeStep DEF TableInv, TypeInv, TypeOK
<1>a. ASSUME NEW ds \in SUBSET Devices, NEW ss \in SUBSET ds, Reset(ds, ss) PROVE TableInv'
  BY <1>0, <1>a, ResetStep
<1>b. ASSUME UNCHANGED <<devices, hops, group, walk>>, todo' \subseteq todo PROVE TableInv'
  <2>1. FromReached' /\ TodoIsThere'
    BY <1>b DEF TableInv, FromReached, Measured, TodoIsThere
  <2>2. QED
    BY <1>0, <1>b, <2>1, UnchangedTablesStep
<1>1. ASSUME NEW d \in Devices, DeviceAdded(d) PROVE TableInv'
  BY <1>0, <1>1, <1>a DEF DeviceAdded
<1>2. ASSUME NEW d \in Devices, DeviceRemoved(d) PROVE TableInv'
  BY <1>0, <1>2, <1>a DEF DeviceRemoved
<1>3. ASSUME NEW d \in Devices, PortRemoved(d) PROVE TableInv'
  BY <1>0, <1>3, <1>a DEF PortRemoved
<1>4. ASSUME NEW d \in Devices, NextKey(d) PROVE TableInv'
  <2>1. "event" \in Threads /\ d \in devices /\ devices' = devices /\ todo' \subseteq todo
    BY <1>4 DEF NextKey, Threads, TableInv, TodoIsThere
  <2>2. QED
    BY <1>0, <1>4, <2>1, BeginStep DEF NextKey
<1>5. ASSUME NEW d \in Devices, AddSnort(d) PROVE TableInv'
  <2>1. "rest" \in Threads /\ d \in devices /\ devices' = devices /\ todo' \subseteq todo
    BY <1>5 DEF AddSnort, Threads
  <2>2. QED
    BY <1>0, <1>5, <2>1, BeginStep DEF AddSnort
<1>6. ASSUME NEW d \in Devices, RemoveSnort(d) PROVE TableInv'
  BY <1>6, <1>b DEF RemoveSnort, tables
<1>7. ASSUME NEW t \in Threads, NEW d \in Devices, Look(t, d) PROVE TableInv'
  BY <1>0, <1>7, LookStep
<1>8. ASSUME NEW t \in Threads, NEW d \in Devices, Raise(t, d) PROVE TableInv'
  <2>1. UNCHANGED <<devices, hops, group>> /\ todo' \subseteq todo
    BY <1>8 DEF Raise, tables
  <2>2. FromReached'
    BY <1>8, <2>1 DEF Raise, TableInv, TypeInv, FromReached, Measured, Resting
  <2>3. TodoIsThere'
    BY <2>1 DEF TableInv, TodoIsThere
  <2>4. QED
    BY <1>0, <2>1, <2>2, <2>3, UnchangedTablesStep
<1>9. ASSUME NEW t \in Threads, Dequeue(t) PROVE TableInv'
  BY <1>0, <1>9, DequeueStep
<1>10. ASSUME IterationFails PROVE TableInv'
  BY <1>10, <1>b DEF IterationFails, tables
<1>11. ASSUME ClearSnort PROVE TableInv'
  BY <1>11, <1>b DEF ClearSnort, tables
<1>12. ASSUME NEW l \in Pairs(Devices), LinkChanges(l) PROVE TableInv'
  BY <1>12, <1>b DEF LinkChanges, tables
<1>13. ASSUME UNCHANGED vars PROVE TableInv'
  BY <1>13, <1>b DEF vars, tables
<1>14. QED
  BY <1>1, <1>2, <1>3, <1>4, <1>5, <1>6, <1>7, <1>8, <1>9, <1>10, <1>11, <1>12, <1>13 DEF Next

(* What has overlapped remains so. *)
LEMMA OverlapStep ==
  ASSUME TypeInv, [Next]_vars
  PROVE  overlapped => overlapped'
<1>1. ASSUME NEW d \in Devices, DeviceAdded(d) \/ DeviceRemoved(d) \/ PortRemoved(d)
      PROVE  overlapped => overlapped'
  BY <1>1 DEF DeviceAdded, DeviceRemoved, PortRemoved, Reset, Overlaps
<1>2. ASSUME NEW d \in Devices, NextKey(d) \/ AddSnort(d) \/ RemoveSnort(d)
      PROVE  overlapped => overlapped'
  BY <1>2 DEF NextKey, AddSnort, RemoveSnort, Overlaps
<1>3. ASSUME NEW t \in Threads, NEW d \in Devices, Look(t, d) \/ Raise(t, d)
      PROVE  overlapped => overlapped'
  BY <1>3 DEF Look, Raise
<1>4. ASSUME \/ \E t \in Threads : Dequeue(t)
             \/ IterationFails \/ ClearSnort
             \/ \E l \in Pairs(Devices) : LinkChanges(l)
             \/ UNCHANGED vars
      PROVE  overlapped => overlapped'
  BY <1>4 DEF Dequeue, IterationFails, ClearSnort, LinkChanges, vars
<1>5. QED
  BY <1>1, <1>2, <1>3, <1>4 DEF Next

(* As long as no event and no added instance has begun in the midst of       *)
(* another, the groups that setupSnortTunnel writes (SnortTunnel.java:116-   *)
(* 138) never send a tagged packet round, for any number of switches,        *)
(* whatever comes and goes and in the midst of a walk.                       *)
THEOREM TunnelsDoNotLoop == Spec => []NoForwardingLoop
<1> DEFINE LoopInv == TypeInv /\ (~overlapped => TableInv)
<1>1. Init => LoopInv
  <2> SUFFICES ASSUME Init PROVE TypeInv /\ TableInv
    OBVIOUS
  <2>1. TypeInv /\ TodoIsThere
    BY TypeInit DEF Init, TodoIsThere
  <2>2. Ranked /\ FromReached
    BY DEF Init, Ranked, FromReached, Measured, Resting, TypeInv
  <2>3. LoopFree
    BY TunnelAssumption DEF Init, LoopFree
  <2>4. QED
    BY <2>1, <2>2, <2>3 DEF TableInv
<1>2. LoopInv /\ [Next]_vars => LoopInv'
  <2> SUFFICES ASSUME LoopInv, [Next]_vars, ~overlapped' PROVE TableInv'
    BY TypeStep
  <2>1. TableInv
    BY OverlapStep
  <2>2. QED
    BY <2>1, TableInvStep
<1>3. LoopInv => NoForwardingLoop
  BY DEF TableInv, NoForwardingLoop
<1>4. QED
  BY <1>1, <1>2, <1>3, PTL DEF Spec
-----------------------------------------------------------------------------
(* What holds while the tunnels are steady (TunnelsLeadToSnort is about the  *)
(* moments between walks; to be inductive it must also say what a walk under *)
(* way has still to do). One walk at a time is under way.                    *)
Separate == ~Idle("rest") => Idle("event") /\ todo = {}

(* The distance is 0 exactly where an instance has been set up.              *)
Zeros == /\ todo \subseteq snorts
         /\ \A d \in devices : hops[d] = 0 <=> d \in snorts \ todo

(* A group leads along a link to a smaller distance.                         *)
Leads == \A d \in devices :
           /\ hops[d] = 0 => group[d] = Snort
           /\ hops[d] > 0 => group[d] \in Neighbours(d) /\ hops[group[d]] \in 0 .. hops[d] - 1

(* The walk w has yet to look at the link from e to d; a link that no walk   *)
(* has yet to look at leads at most one hop farther.                         *)
Waits(w, e, d) == \/ \E i \in 1 .. Len(w.queue) : w.queue[i] = e
                  \/ w.current = e /\ d \in w.left
Relaxed == \A d \in devices : \A e \in Neighbours(d) :
             hops[e] >= 0 => hops[d] \in 0 .. hops[e] + 1 \/ \E t \in Threads : Waits(walk[t], e, d)

(* A walk works by increasing distance: its queue is sorted, what it has     *)
(* queued is no nearer than where it stands and, with what it has seen, at   *)
(* most one hop farther. A switch that is seen need not be looked at again.  *)
Queued(w) == \A i \in 1 .. Len(w.queue) :
               /\ Measured(w.queue[i])
               /\ w.queue[i] \in w.seen \/ hops[w.queue[i]] = 0
               /\ \A j \in i .. Len(w.queue) : hops[w.queue[i]] <= hops[w.queue[j]]
Stands(w) == /\ Measured(w.current)
             /\ w.current \in w.seen \/ hops[w.current] = 0
             /\ w.left \subseteq Neighbours(w.current)
             /\ \A i \in 1 .. Len(w.queue) :
                  hops[w.queue[i]] \in hops[w.current] .. hops[w.current] + 1
             /\ \A x \in w.seen : hops[x] \in 0 .. hops[w.current] + 1
Fresh(w) == w.current = None /\ w.seen = {} /\ w.left = {} /\ Len(w.queue) \in 0 .. 1
InOrder(w) == Queued(w) /\ (Fresh(w) \/ Stands(w))

Distances == /\ Separate /\ Zeros /\ Leads /\ Relaxed
             /\ \A t \in Threads : InOrder(walk[t])
SteadyInv == steady => Distances

LEMMA RestingInOrder ==
  /\ Resting.queue = <<>> /\ Resting.left = {} /\ Resting.current = None /\ Resting.seen = {}
  /\ InOrder(Resting)
  /\ \A e, d : ~Waits(Resting, e, d)
BY DEF Resting, InOrder, Queued, Fresh, Waits

(* A walk that has come to its end waits for nothing.                         *)
LEMMA SettledInOrder ==
  ASSUME NEW w, InOrder(w)
  PROVE  /\ InOrder(Settled(w))
         /\ \A e, d : Waits(w, e, d) => Waits(Settled(w), e, d)
<1>1. CASE w.queue = <<>> /\ w.left = {}
  BY <1>1, RestingInOrder DEF Settled, Waits
<1>2. CASE ~(w.queue = <<>> /\ w.left = {})
  BY <1>2 DEF Settled
<1>3. QED
  BY <1>1, <1>2

(* While the tunnels are steady, a walk under way is the only one.           *)
LEMMA OneWalk ==
  ASSUME Separate, NEW t \in Threads, ~Idle(t)
  PROVE  \A u \in Threads \ {t} : walk[u] = Resting
BY DEF Separate, Threads, Idle

(* A link is known in both directions.                                        *)
LEMMA NeighboursMeet ==
  ASSUME NEW d \in devices, NEW e \in Neighbours(d)
  PROVE  e \in devices /\ d \in Neighbours(e)
<1>1. {d, e} = {e, d}
  OBVIOUS
<1>2. QED
  BY <1>1 DEF Neighbours

(* The steps: one that leaves the tables and the walks alone, an event's      *)
(* reset, the beginning of a walk, the next switch of one.                    *)
LEMMA UnchangedDistances ==
  ASSUME Distances, UNCHANGED <<devices, links, snorts, hops, group, todo, walk>>
  PROVE  Distances'
<1>1. Separate' /\ Zeros'
  BY DEF Distances, Separate, Zeros, Idle
<1>2. \A d : Neighbours(d)' = Neighbours(d)
  BY DEF Neighbours
<1>3. Leads' /\ Relaxed'
  BY <1>2 DEF Distances, Leads, Relaxed
<1>4. ASSUME NEW t \in Threads PROVE InOrder(walk[t])'
  <2>1. InOrder(walk[t])
    BY DEF Distances
  <2>2. \A d : Measured(d)' <=> Measured(d)
    BY DEF Measured
  <2>3. QED
    BY <1>2, <2>1, <2>2 DEF InOrder, Queued, Stands, Fresh
<1>5. QED
  BY <1>1, <1>3, <1>4 DEF Distances

LEMMA ResetDistances ==
  ASSUME TypeInv, TypeInv', NEW ds \in SUBSET Devices, NEW ss \in SUBSET ds, Reset(ds, ss), steady'
  PROVE  Distances'
<1>1. /\ devices' = ds /\ snorts' = ss /\ todo' = ss
      /\ \A d \in ds : hops'[d] = -1
      /\ \A t \in Threads : walk'[t] = Resting
  BY DEF Reset, Idle, Threads
<1>2. Separate' /\ Zeros' /\ Leads'
  BY <1>1 DEF Separate, Zeros, Leads, Idle, Threads
<1>3. Relaxed'
  BY <1>1 DEF Relaxed, Neighbours
<1>4. \A t \in Threads : InOrder(walk[t])'
  BY <1>1, RestingInOrder DEF InOrder, Queued, Fresh
<1>5. QED
  BY <1>2, <1>3, <1>4 DEF Distances

LEMMA BeginDistances ==
  ASSUME TypeInv, TypeInv', Distances, NEW t \in Threads, NEW d \in devices, Begin(t, d),
         \A u \in Threads : walk[u] = Resting, UNCHANGED <<devices, links>>,
         todo' \subseteq snorts', snorts' \ todo' = (snorts \ todo) \cup {d},
         t = "rest" => todo' = {}
  PROVE  Distances'
<1> DEFINE begun == [Resting EXCEPT !.known = devices, !.queue = <<d>>]
<1>1. /\ devices \subseteq Devices /\ hops \in [Devices -> Nat \cup {-1}]
      /\ group \in [Devices -> Devices \cup {None, Snort}]
      /\ hops' = [hops EXCEPT ![d] = 0] /\ group' = [group EXCEPT ![d] = Snort]
      /\ walk' = [walk EXCEPT ![t] = begun] /\ walk \in [Threads -> Walks]
  BY DEF TypeInv, TypeOK, Begin
<1>2. /\ d \in Devices /\ hops'[d] = 0 /\ group'[d] = Snort
      /\ \A e \in Devices : e # d => hops'[e] = hops[e] /\ group'[e] = group[e]
  BY <1>1
<1>3. /\ walk'[t] = begun /\ \A u \in Threads \ {t} : walk'[u] = Resting
      /\ begun.queue = <<d>> /\ begun.current = None /\ begun.seen = {} /\ begun.left = {}
  BY <1>1 DEF Resting
<1> HIDE DEF begun
<1>4. Separate'
  BY <1>3 DEF Separate, Idle, Threads
<1>5. Zeros'
  BY <1>1, <1>2 DEF Zeros, Distances
<1>6. Leads'
  <2>1. ASSUME NEW e \in devices, e # d, hops[e] > 0
        PROVE  group'[e] \in Neighbours(e)' /\ hops'[group'[e]] \in 0 .. hops'[e] - 1
    <3>1. group[e] \in Neighbours(e) /\ hops[group[e]] \in 0 .. hops[e] - 1
      BY <2>1 DEF Distances, Leads
    <3>2. group[e] \in Devices /\ hops[e] \in Int
      BY <1>1, <2>1, <3>1 DEF Neighbours
    <3>3. hops'[group[e]] \in 0 .. hops[e] - 1
      BY <1>2, <2>1, <3>1, <3>2
    <3>4. QED
      BY <1>1, <1>2, <2>1, <3>1, <3>3 DEF Neighbours
  <2>2. QED
    BY <1>1, <1>2, <2>1 DEF Leads, Distances
<1>7. Relaxed'
  <2>1. ASSUME NEW x \in devices, NEW e \in Neighbours(x), hops'[e] >= 0
        PROVE  hops'[x] \in 0 .. hops'[e] + 1 \/ \E u \in Threads : Waits(walk'[u], e, x)
    <3>0. e \in devices /\ e \in Devices /\ x \in Devices
      BY <1>1 DEF Neighbours
    <3>1. CASE e = d
      <4>1. Waits(begun, e, x)
        BY <1>3, <3>1 DEF Waits
      <4>2. QED
        BY <1>3, <4>1
    <3>2. CASE x = d
      BY <1>1, <1>2, <2>1, <3>0, <3>2
    <3>3. CASE e # d /\ x # d
      <4>1. hops[x] \in 0 .. hops[e] + 1 \/ \E u \in Threads : Waits(walk[u], e, x)
        BY <1>2, <2>1, <3>0, <3>3 DEF Distances, Relaxed
      <4>2. QED
        BY <1>2, <3>0, <3>3, <4>1, RestingInOrder
    <3>4. QED
      BY <3>1, <3>2, <3>3
  <2>2. QED
    BY <1>1, <2>1 DEF Relaxed, Neighbours
<1>8. ASSUME NEW u \in Threads PROVE InOrder(walk[u])'
  <2>1. CASE u = t
    <3>1. Measured(d)' /\ hops'[d] = 0
      BY <1>2 DEF Measured
    <3>2. Len(begun.queue) = 1 /\ begun.queue[1] = d
      BY <1>3
    <3>3. walk'[u] = begun
      BY <1>3, <2>1
    <3>4. \A i \in 1 .. Len(walk'[u].queue) : walk'[u].queue[i] = d
      BY <3>2, <3>3
    <3>5. Queued(walk[u])'
      BY <3>1, <3>4 DEF Queued
    <3>6. Fresh(walk'[u])
      <4>1. Fresh(begun)
        BY <1>3, <3>2 DEF Fresh
      <4>2. QED
        BY <3>3, <4>1
    <3>7. QED
      BY <3>5, <3>6 DEF InOrder, Fresh
  <2>2. CASE u # t
    BY <1>3, <2>2, RestingInOrder DEF InOrder, Queued, Fresh
  <2>3. QED
    BY <2>1, <2>2
<1>9. QED
  BY <1>4, <1>5, <1>6, <1>7, <1>8 DEF Distances
LEMMA OrderKept ==
  ASSUME NEW w, InOrder(w), \A d : Neighbours(d)' = Neighbours(d), \A d : Measured(d)' <=> Measured(d),
         UNCHANGED hops
  PROVE  InOrder(w)'
BY DEF InOrder, Queued, Stands, Fresh

LEMMA DequeueDistances ==
  ASSUME TypeInv, TypeInv', Distances, NEW t \in Threads, Dequeue(t)
  PROVE  Distances'
<1> DEFINE w == walk[t]
           h == Head(w.queue)
           on == [w EXCEPT !.queue = Tail(@), !.current = Head(w.queue),
                           !.left = Neighbours(Head(w.queue))]
<1>1. /\ w.queue # <<>> /\ w.left = {} /\ walk' = [walk EXCEPT ![t] = Settled(on)]
      /\ UNCHANGED <<devices, links, snorts, hops, group, todo>>
      /\ w \in Walks /\ walk \in [Threads -> Walks] /\ InOrder(w)
      /\ hops \in [Devices -> Nat \cup {-1}] /\ devices \subseteq Devices
  BY DEF Dequeue, tables, TypeInv, TypeOK, Distances
<1>2. /\ w.queue \in Seq(Devices) /\ Len(w.queue) \in Nat /\ Len(w.queue) > 0
      /\ Len(Tail(w.queue)) = Len(w.queue) - 1 /\ h = w.queue[1]
      /\ \A i \in 1 .. Len(Tail(w.queue)) : Tail(w.queue)[i] = w.queue[i + 1]
  BY <1>1 DEF Walks
<1>3. on.queue = Tail(w.queue) /\ on.current = h /\ on.left = Neighbours(h) /\ on.seen = w.seen
  BY <1>1 DEF Walks
<1>4. ~Idle(t) /\ \A u \in Threads \ {t} : walk[u] = Resting
  BY <1>1, OneWalk, RestingInOrder DEF Idle, Distances
<1> HIDE DEF on, w, h
<1>5. \A d : (Neighbours(d)' = Neighbours(d)) /\ (Measured(d)' <=> Measured(d))
  BY <1>1 DEF Neighbours, Measured
<1>6. InOrder(on)
  <2>1. /\ Measured(h) /\ (h \in w.seen \/ hops[h] = 0) /\ h \in Devices
        /\ \A j \in 1 .. Len(w.queue) : hops[h] <= hops[w.queue[j]]
    BY <1>1, <1>2 DEF InOrder, Queued, Measured
  <2>2. \A i \in 1 .. Len(on.queue) : i + 1 \in 1 .. Len(w.queue) /\ on.queue[i] = w.queue[i + 1]
    BY <1>2, <1>3
  <2>3. Queued(on)
    <3>1. ASSUME NEW i \in 1 .. Len(on.queue)
          PROVE  /\ Measured(on.queue[i])
                 /\ on.queue[i] \in on.seen \/ hops[on.queue[i]] = 0
                 /\ \A j \in i .. Len(on.queue) : hops[on.queue[i]] <= hops[on.queue[j]]
      <4>1. i + 1 \in 1 .. Len(w.queue) /\ on.queue[i] = w.queue[i + 1]
        BY <2>2
      <4>2. ASSUME NEW j \in i .. Len(on.queue) PROVE hops[on.queue[i]] <= hops[on.queue[j]]
        <5>1. j \in 1 .. Len(on.queue) /\ j + 1 \in (i + 1) .. Len(w.queue)
          BY <1>2, <1>3
        <5>2. QED
          BY <1>1, <2>2, <4>1, <5>1 DEF InOrder, Queued
      <4>3. QED
        BY <1>1, <1>3, <4>1, <4>2 DEF InOrder, Queued
    <3>2. QED
      BY <3>1 DEF Queued
  <2>4. CASE Fresh(w)
    <3>1. Len(w.queue) = 1 /\ w.seen = {}
      <4>1. Len(w.queue) \in Nat /\ Len(w.queue) > 0
        BY <1>2
      <4>2. QED
        BY <2>4, <4>1 DEF Fresh
    <3>2. Len(on.queue) = 0 /\ on.seen = {}
      <4>1. Len(on.queue) = Len(w.queue) - 1
        BY <1>2, <1>3
      <4>2. Len(on.queue) = 0
        BY <3>1, <4>1
      <4>3. QED
        BY <1>3, <3>1, <4>2
    <3>3. Stands(on)
      BY <1>3, <2>1, <3>2 DEF Stands
    <3>4. QED
      BY <2>3, <3>3 DEF InOrder
  <2>5. CASE Stands(w)
    <3>1. /\ w.current \in Devices /\ hops[w.current] \in Nat /\ hops[h] \in Nat
          /\ hops[w.current] <= hops[h]
      BY <1>1, <1>2, <2>1, <2>5 DEF Stands, Measured
    <3>2. ASSUME NEW i \in 1 .. Len(on.queue) PROVE hops[on.queue[i]] \in hops[h] .. hops[h] + 1
      <4>1. PICK k \in 1 .. Len(w.queue) : on.queue[i] = w.queue[k]
        BY <2>2
      <4>2. hops[w.queue[k]] \in hops[w.current] .. hops[w.current] + 1 /\ hops[h] <= hops[w.queue[k]]
        BY <2>1, <2>5 DEF Stands
      <4>3. QED
        BY <3>1, <4>1, <4>2
    <3>3. \A x \in w.seen : hops[x] \in 0 .. hops[h] + 1
      BY <2>5, <3>1 DEF Stands
    <3>4. Stands(on)
      BY <1>3, <2>1, <3>2, <3>3 DEF Stands
    <3>5. QED
      BY <2>3, <3>4 DEF InOrder
  <2>6. QED
    BY <1>1, <2>4, <2>5 DEF InOrder
<1>7. ASSUME NEW e, NEW d \in Neighbours(e), Waits(w, e, d) PROVE Waits(on, e, d)
  <2>1. PICK i \in 1 .. Len(w.queue) : w.queue[i] = e
    BY <1>1, <1>7 DEF Waits, w
  <2>2. CASE i = 1
    BY <1>2, <1>3, <1>7, <2>1, <2>2 DEF Waits, h
  <2>3. CASE i # 1
    <3>1. i - 1 \in 1 .. Len(on.queue) /\ on.queue[i - 1] = e
      BY <1>2, <1>3, <2>1, <2>3
    <3>2. QED
      BY <3>1 DEF Waits
  <2>4. QED
    BY <2>2, <2>3
<1>8. InOrder(Settled(on)) /\ \A e, d : Waits(on, e, d) => Waits(Settled(on), e, d)
  BY <1>6, SettledInOrder
<1>9. walk'[t] = Settled(on) /\ \A u \in Threads \ {t} : walk'[u] = Resting
  BY <1>1, <1>4
<1>10. Separate'
  BY <1>1, <1>4, <1>9 DEF Separate, Idle, Threads, Distances
<1>11. Zeros' /\ Leads'
  BY <1>1, <1>5 DEF Zeros, Leads, Distances
<1>12. Relaxed'
  <2>1. ASSUME NEW d \in devices, NEW e \in Neighbours(d), hops[e] >= 0
        PROVE  hops[d] \in 0 .. hops[e] + 1 \/ \E u \in Threads : Waits(walk'[u], e, d)
    <3>1. d \in Neighbours(e)
      BY NeighboursMeet
    <3>2. CASE \E u \in Threads : Waits(walk[u], e, d)
      <4>1. Waits(w, e, d)
        BY <1>4, <3>2, RestingInOrder DEF w
      <4>2. QED
        BY <1>7, <1>8, <1>9, <3>1, <4>1
    <3>3. QED
      BY <2>1, <3>2 DEF Distances, Relaxed
  <2>2. QED
    BY <1>1, <1>5, <2>1 DEF Relaxed
<1>13. ASSUME NEW u \in Threads PROVE InOrder(walk[u])'
  <2>1. InOrder(walk'[u])
    BY <1>8, <1>9, RestingInOrder
  <2>2. QED
    BY <1>1, <1>5, <2>1, OrderKept
<1>14. QED
  BY <1>10, <1>11, <1>12, <1>13 DEF Distances
(* A look at the link from c, where the walk w stands, to d.                 *)
LEMMA LookedOn ==
  ASSUME NEW w \in Walks, NEW d
  PROVE  LET on == [w EXCEPT !.left = @ \ {d}, !.seen = @ \cup {d}]
             next == [on EXCEPT !.queue = Append(@, d)]
         IN  /\ on.queue = w.queue /\ on.current = w.current
             /\ on.left = w.left \ {d} /\ on.seen = w.seen \cup {d}
             /\ next.queue = Append(w.queue, d) /\ next.current = w.current
             /\ next.left = w.left \ {d} /\ next.seen = w.seen \cup {d}
             /\ Len(next.queue) = Len(w.queue) + 1 /\ Len(w.queue) \in Nat
             /\ \A i \in 1 .. Len(w.queue) : next.queue[i] = w.queue[i]
             /\ next.queue[Len(w.queue) + 1] = d
<1>1. w.queue \in Seq(Devices)
  BY DEF Walks
<1>2. QED
  BY <1>1 DEF Walks

(* Where the only walk stands when it looks.                                  *)
LEMMA LookedFrom ==
  ASSUME TypeInv, Distances, NEW t \in Threads, NEW d \in Devices, Look(t, d)
  PROVE  /\ d \in devices /\ walk[t] \in Walks
         /\ \A u \in Threads \ {t} : walk[u] = Resting /\ walk'[u] = Resting
         /\ d \in walk[t].left /\ Queued(walk[t]) /\ Stands(walk[t])
         /\ walk[t].current \in Devices /\ walk[t].current \in Neighbours(d)
         /\ hops[walk[t].current] \in Nat
         /\ OneMore(hops[walk[t].current]) = hops[walk[t].current] + 1
         /\ hops[d] \in Nat \cup {-1}
<1>1. d \in walk[t].left /\ walk[t] \in Walks /\ InOrder(walk[t])
  BY DEF Look, Distances, TypeInv, TypeOK
<1>2. Stands(walk[t]) /\ Queued(walk[t])
  BY <1>1 DEF InOrder, Fresh
<1>3. d \in Neighbours(walk[t].current) /\ walk[t].current \in devices
  BY <1>1, <1>2 DEF Stands, Measured
<1>4. d \in devices /\ walk[t].current \in Neighbours(d)
  BY <1>3, NeighboursMeet
<1>5. \A u \in Threads \ {t} : walk[u] = Resting
  BY <1>1, OneWalk, RestingInOrder DEF Idle, Distances
<1>6. \A u \in Threads \ {t} : walk'[u] = walk[u]
  BY DEF Look, TypeInv, TypeOK
<1>7. QED
  BY <1>1, <1>2, <1>3, <1>4, <1>5, <1>6 DEF Stands, Measured, OneMore, TypeInv, TypeOK
(* A look at a switch that is near enough, or seen and so near enough.        *)
LEMMA PassedDistances ==
  ASSUME TypeInv, Distances, NEW t \in Threads, NEW d \in Devices, Look(t, d),
         ~(d \notin walk[t].seen /\ Nearer(OneMore(hops[walk[t].current]), hops[d]))
  PROVE  Distances'
<1> DEFINE w == walk[t]
           on == [w EXCEPT !.left = @ \ {d}, !.seen = @ \cup {d}]
<1>1. /\ d \in devices /\ d \in w.left /\ Queued(w) /\ Stands(w)
      /\ \A u \in Threads \ {t} : walk[u] = Resting /\ walk'[u] = Resting
      /\ hops[w.current] \in Nat /\ w \in Walks
      /\ OneMore(hops[w.current]) = hops[w.current] + 1 /\ hops[d] \in Nat \cup {-1}
  BY LookedFrom
<1>2. walk' = [walk EXCEPT ![t] = Settled(on)] /\ walk \in [Threads -> Walks]
      /\ UNCHANGED <<devices, links, snorts, todo, hops, group>>
  BY DEF Look, tables, TypeInv, TypeOK
<1>3. /\ on.queue = w.queue /\ on.current = w.current
      /\ on.left = w.left \ {d} /\ on.seen = w.seen \cup {d}
  BY <1>1, LookedOn
<1>4. hops[d] \in 0 .. hops[w.current] + 1
  <2>1. CASE d \in w.seen
    BY <1>1, <2>1 DEF Stands
  <2>2. CASE ~Nearer(OneMore(hops[w.current]), hops[d])
    BY <1>1, <2>2 DEF Nearer
  <2>3. QED
    BY <2>1, <2>2
<1> HIDE DEF on, w
<1>5. InOrder(on)
  BY <1>1, <1>3, <1>4 DEF InOrder, Queued, Stands
<1>6. ASSUME NEW e, NEW x, Waits(w, e, x), ~Waits(on, e, x) PROVE e = w.current /\ x = d
  BY <1>3, <1>6 DEF Waits
<1>7. InOrder(Settled(on)) /\ \A e, x : Waits(on, e, x) => Waits(Settled(on), e, x)
  BY <1>5, SettledInOrder
<1>8. walk'[t] = Settled(on)
  BY <1>2
<1>9. ~Idle(t)
  BY <1>1, RestingInOrder DEF Idle, w
<1>10. Separate'
  BY <1>1, <1>2, <1>9 DEF Separate, Idle, Threads, Distances
<1>11. \A e : (Neighbours(e)' = Neighbours(e)) /\ (Measured(e)' <=> Measured(e))
  BY <1>2 DEF Neighbours, Measured
<1>12. Zeros' /\ Leads'
  BY <1>2, <1>11 DEF Zeros, Leads, Distances
<1>13. Relaxed'
  <2>1. ASSUME NEW x \in devices, NEW e \in Neighbours(x), hops[e] >= 0
        PROVE  hops[x] \in 0 .. hops[e] + 1 \/ \E u \in Threads : Waits(walk'[u], e, x)
    <3>1. CASE \E u \in Threads : Waits(walk[u], e, x)
      <4>1. Waits(w, e, x)
        BY <1>1, <3>1, RestingInOrder DEF w
      <4>2. CASE Waits(on, e, x)
        BY <1>7, <1>8, <4>2
      <4>3. CASE ~Waits(on, e, x)
        BY <1>4, <1>6, <4>1, <4>3
      <4>4. QED
        BY <4>2, <4>3
    <3>2. QED
      BY <2>1, <3>1 DEF Distances, Relaxed
  <2>2. QED
    BY <1>2, <1>11, <2>1 DEF Relaxed
<1>14. ASSUME NEW u \in Threads PROVE InOrder(walk[u])'
  <2>1. InOrder(walk'[u])
    BY <1>1, <1>7, <1>8, RestingInOrder
  <2>2. QED
    BY <1>2, <1>11, <2>1, OrderKept
<1>15. QED
  BY <1>10, <1>12, <1>13, <1>14 DEF Distances

(* A look that sets the distance of a switch: no one's group led through it   *)
(* by a shorter way, and the links from it wait in the queue.                 *)
LEMMA TakenDistances ==
  ASSUME TypeInv, Distances, NEW t \in Threads, NEW d \in Devices, Look(t, d),
         d \notin walk[t].seen, Nearer(OneMore(hops[walk[t].current]), hops[d])
  PROVE  Distances'
<1> DEFINE w == walk[t]
<1> SUFFICES
      ASSUME NEW c, c = w.current, NEW next,
             next = [[w EXCEPT !.left = @ \ {d}, !.seen = @ \cup {d}] EXCEPT !.queue = Append(@, d)]
      PROVE  Distances'
  OBVIOUS
<1>1. /\ d \in devices /\ d \in w.left /\ Queued(w) /\ Stands(w)
      /\ \A u \in Threads \ {t} : walk[u] = Resting /\ walk'[u] = Resting
      /\ c \in Devices /\ c \in Neighbours(d) /\ hops[c] \in Nat /\ w \in Walks
      /\ OneMore(hops[c]) = hops[c] + 1 /\ hops[d] \in Nat \cup {-1} /\ d \notin w.seen
  BY LookedFrom
<1>2. /\ walk' = [walk EXCEPT ![t] = next] /\ walk \in [Threads -> Walks]
      /\ hops' = [hops EXCEPT ![d] = OneMore(hops[c])] /\ group' = [group EXCEPT ![d] = c]
      /\ UNCHANGED <<devices, links, snorts, todo>>
      /\ devices \subseteq Devices /\ hops \in [Devices -> Nat \cup {-1}]
      /\ group \in [Devices -> Devices \cup {None, Snort}]
  BY DEF Look, TypeInv, TypeOK
<1>3. /\ next.queue = Append(w.queue, d) /\ next.current = c
      /\ next.left = w.left \ {d} /\ next.seen = w.seen \cup {d}
      /\ Len(next.queue) = Len(w.queue) + 1 /\ Len(w.queue) \in Nat
      /\ \A i \in 1 .. Len(w.queue) : next.queue[i] = w.queue[i]
      /\ next.queue[Len(w.queue) + 1] = d
  BY <1>1, LookedOn
<1>4. hops[d] = -1 \/ hops[d] > hops[c] + 1
  BY <1>1 DEF Nearer
<1>5. /\ hops'[d] = hops[c] + 1 /\ group'[d] = c
      /\ \A e \in Devices : e # d => hops'[e] = hops[e] /\ group'[e] = group[e]
  BY <1>1, <1>2
<1>6. ~Idle(t) /\ walk'[t] = next
  BY <1>1, <1>2, RestingInOrder DEF Idle
<1> HIDE DEF w
<1>7. \A e : Neighbours(e)' = Neighbours(e)
  BY <1>2 DEF Neighbours
<1>8. Separate'
  BY <1>1, <1>2, <1>6 DEF Separate, Idle, Threads, Distances
<1>9. Zeros'
  <2>1. hops'[d] # 0 /\ hops[d] # 0
    BY <1>1, <1>4, <1>5
  <2>2. \A e \in devices : hops'[e] = 0 <=> hops[e] = 0
    BY <1>2, <1>5, <2>1
  <2>3. QED
    BY <1>2, <2>2 DEF Zeros, Distances
<1>10. c # d /\ hops'[c] = hops[c]
  BY <1>1, <1>4, <1>5
<1>11. Leads'
  <2>1. ASSUME NEW e \in devices
        PROVE  /\ hops'[e] = 0 => group'[e] = Snort
               /\ hops'[e] > 0 => group'[e] \in Neighbours(e) /\ hops'[group'[e]] \in 0 .. hops'[e] - 1
    <3>1. CASE e = d
      BY <1>1, <1>5, <1>10, <3>1
    <3>2. CASE e # d
      <4>1. hops'[e] = hops[e] /\ group'[e] = group[e]
        BY <1>2, <1>5, <3>2
      <4>2. hops[e] = 0 => group[e] = Snort
        BY DEF Distances, Leads
      <4>3. ASSUME hops[e] > 0
            PROVE  group[e] \in Neighbours(e) /\ hops'[group[e]] \in 0 .. hops[e] - 1
        <5>1. group[e] \in Neighbours(e) /\ hops[group[e]] \in 0 .. hops[e] - 1
          BY <4>3 DEF Distances, Leads
        <5>2. group[e] \in Devices /\ hops[e] \in Int
          BY <1>2, <5>1 DEF Neighbours
        <5>3. CASE group[e] = d
          BY <1>1, <1>4, <1>5, <5>1, <5>2, <5>3
        <5>4. CASE group[e] # d
          BY <1>5, <5>1, <5>2, <5>4
        <5>5. QED
          BY <5>1, <5>3, <5>4
      <4>4. QED
        BY <4>1, <4>2, <4>3
    <3>3. QED
      BY <3>1, <3>2
  <2>2. QED
    BY <1>2, <1>7, <2>1 DEF Leads
<1>12. ASSUME NEW e, NEW x, Waits(w, e, x), ~Waits(next, e, x) PROVE e = c /\ x = d
  <2>1. ASSUME NEW i \in 1 .. Len(w.queue) PROVE i \in 1 .. Len(next.queue) /\ next.queue[i] = w.queue[i]
    BY <1>3
  <2>2. QED
    BY <1>3, <1>12, <2>1 DEF Waits
<1>14. Relaxed'
  <2>1. ASSUME NEW x \in devices, NEW e \in Neighbours(x), hops'[e] >= 0
        PROVE  hops'[x] \in 0 .. hops'[e] + 1 \/ \E u \in Threads : Waits(walk'[u], e, x)
    <3>0. e \in Devices /\ x \in Devices
      BY <1>2 DEF Neighbours
    <3>1. CASE e = d
      <4>1. Len(next.queue) \in 1 .. Len(next.queue) /\ next.queue[Len(next.queue)] = d
        BY <1>3
      <4>2. Waits(next, e, x)
        BY <3>1, <4>1 DEF Waits
      <4>3. QED
        BY <1>6, <4>2
    <3>2. CASE e # d /\ \E u \in Threads : Waits(walk[u], e, x)
      <4>1. Waits(w, e, x)
        BY <1>1, <3>2, RestingInOrder DEF w
      <4>2. CASE Waits(next, e, x)
        BY <1>6, <4>2
      <4>3. CASE ~Waits(next, e, x)
        <5>1. e = c /\ x = d
          BY <1>12, <4>1, <4>3
        <5>2. QED
          BY <1>1, <1>5, <1>10, <5>1
      <4>4. QED
        BY <4>2, <4>3
    <3>3. CASE e # d /\ hops[x] \in 0 .. hops[e] + 1
      <4>1. hops'[e] = hops[e] /\ hops[e] \in Int /\ hops[x] \in Int
        BY <1>2, <1>5, <3>0, <3>3
      <4>2. CASE x = d
        BY <1>1, <1>4, <1>5, <3>3, <4>1, <4>2
      <4>3. CASE x # d
        BY <1>5, <3>0, <3>3, <4>1, <4>3
      <4>4. QED
        BY <4>2, <4>3
    <3>4. QED
      BY <1>5, <2>1, <3>0, <3>1, <3>2, <3>3 DEF Distances, Relaxed
  <2>2. QED
    BY <1>2, <1>7, <2>1 DEF Relaxed
<1>15. InOrder(next)'
  <2>1. \A x \in w.seen \cup {c} : x \in Devices => hops'[x] = hops[x]
    BY <1>1, <1>5, <1>10
  <2>2. ASSUME NEW i \in 1 .. Len(w.queue)
        PROVE  /\ w.queue[i] \in Devices /\ hops'[w.queue[i]] = hops[w.queue[i]]
               /\ Measured(w.queue[i])
               /\ hops[w.queue[i]] \in hops[c] .. hops[c] + 1
    <3>1. Measured(w.queue[i]) /\ (w.queue[i] \in w.seen \/ hops[w.queue[i]] = 0)
      BY <1>1 DEF Queued
    <3>2. w.queue[i] # d
      BY <1>1, <1>4, <3>1
    <3>3. w.queue[i] \in Devices
      BY <1>2, <3>1 DEF Measured
    <3>4. QED
      BY <1>1, <1>5, <3>1, <3>2, <3>3 DEF Stands
  <2>3. ASSUME NEW i \in 1 .. Len(next.queue)
        PROVE  /\ Measured(next.queue[i])'
               /\ next.queue[i] \in next.seen \/ hops'[next.queue[i]] = 0
               /\ \A j \in i .. Len(next.queue) : hops'[next.queue[i]] <= hops'[next.queue[j]]
               /\ hops'[next.queue[i]] \in hops[c] .. hops[c] + 1
    <3>1. CASE i = Len(w.queue) + 1
      <4>1. next.queue[i] = d /\ \A j \in i .. Len(next.queue) : j = i
        BY <1>3, <3>1
      <4>2. Measured(d)'
        BY <1>1, <1>2, <1>5 DEF Measured
      <4>3. \A j \in i .. Len(next.queue) : hops'[next.queue[i]] <= hops'[next.queue[j]]
        BY <1>1, <1>5, <4>1
      <4>4. QED
        BY <1>1, <1>3, <1>5, <4>1, <4>2, <4>3
    <3>2. CASE i # Len(w.queue) + 1
      <4>1. i \in 1 .. Len(w.queue) /\ next.queue[i] = w.queue[i]
        BY <1>3, <3>2
      <4>2. /\ w.queue[i] \in Devices /\ hops'[w.queue[i]] = hops[w.queue[i]]
            /\ Measured(w.queue[i])
            /\ hops[w.queue[i]] \in hops[c] .. hops[c] + 1
        BY <2>2, <4>1
      <4>3. Measured(next.queue[i])'
        BY <1>2, <4>1, <4>2 DEF Measured
      <4>4. ASSUME NEW j \in i .. Len(next.queue)
            PROVE  hops'[next.queue[i]] <= hops'[next.queue[j]]
        <5>1. CASE j = Len(w.queue) + 1
          BY <1>1, <1>3, <1>5, <4>1, <4>2, <5>1
        <5>2. CASE j # Len(w.queue) + 1
          <6>1. j \in i .. Len(w.queue) /\ j \in 1 .. Len(w.queue) /\ next.queue[j] = w.queue[j]
            BY <1>3, <5>2
          <6>2. hops[w.queue[i]] <= hops[w.queue[j]] /\ hops'[w.queue[j]] = hops[w.queue[j]]
            BY <1>1, <2>2, <4>1, <6>1 DEF Queued
          <6>3. QED
            BY <4>1, <4>2, <6>1, <6>2
        <5>3. QED
          BY <5>1, <5>2
      <4>5. next.queue[i] \in next.seen \/ hops'[next.queue[i]] = 0
        BY <1>1, <1>3, <4>1, <4>2 DEF Queued
      <4>6. QED
        BY <4>1, <4>2, <4>3, <4>4, <4>5
    <3>3. QED
      BY <3>1, <3>2
  <2>4. \A x \in next.seen : hops'[x] \in 0 .. hops[c] + 1
    <3>1. ASSUME NEW x \in w.seen PROVE hops'[x] \in 0 .. hops[c] + 1
      BY <1>1, <2>1 DEF Stands, Walks
    <3>2. QED
      BY <1>1, <1>3, <1>5, <3>1
  <2>5. Measured(c)' /\ (c \in next.seen \/ hops'[c] = 0) /\ next.left \subseteq Neighbours(c)
    BY <1>1, <1>2, <1>3, <1>10 DEF Stands, Measured
  <2>6. Queued(next)'
    BY <2>3 DEF Queued
  <2>7. Stands(next)'
    BY <1>3, <1>7, <1>10, <2>3, <2>4, <2>5 DEF Stands
  <2>8. QED
    BY <2>6, <2>7 DEF InOrder
<1>16. ASSUME NEW u \in Threads PROVE InOrder(walk[u])'
  <2>1. CASE u = t
    BY <1>6, <1>15, <2>1 DEF InOrder, Queued, Stands, Fresh
  <2>2. CASE u # t
    BY <1>1, <2>2, RestingInOrder DEF InOrder, Queued, Fresh
  <2>3. QED
    BY <2>1, <2>2
<1>17. QED
  BY <1>8, <1>9, <1>11, <1>14, <1>16 DEF Distances
LEMMA SteadyInit == ASSUME Init PROVE SteadyInv
<1>1. \A t \in Threads : walk[t] = Resting
  BY DEF Init
<1>2. InOrder(Resting) /\ \A d \in devices : hops[d] = -1
  BY RestingInOrder DEF Init, Pairs
<1>3. Separate /\ Zeros /\ Leads /\ Relaxed
  BY <1>1, <1>2 DEF Init, Separate, Zeros, Leads, Relaxed, Idle, Threads, Neighbours
<1>4. QED
  BY <1>1, <1>2, <1>3 DEF SteadyInv, Distances

LEMMA SteadyStep ==
  ASSUME TypeInv, TypeInv', SteadyInv, [Next]_vars
  PROVE  SteadyInv'
<1> SUFFICES ASSUME steady' PROVE Distances'
  BY DEF SteadyInv
<1>a. ASSUME NEW ds \in SUBSET Devices, NEW ss \in SUBSET ds, Reset(ds, ss)
      PROVE  Distances'
  BY <1>a, ResetDistances
<1>b. devices \subseteq Devices /\ snorts \subseteq devices
  BY DEF TypeInv, TypeOK
<1>1. ASSUME NEW d \in Devices, DeviceAdded(d) PROVE Distances'
  BY <1>1, <1>a, <1>b DEF DeviceAdded
<1>2. ASSUME NEW d \in Devices, DeviceRemoved(d) PROVE Distances'
  BY <1>2, <1>a, <1>b DEF DeviceRemoved
<1>3. ASSUME NEW d \in Devices, PortRemoved(d) PROVE Distances'
  BY <1>3, <1>a, <1>b DEF PortRemoved
<1>4. ASSUME NEW d \in Devices, NextKey(d) PROVE Distances'
  <2>1. Distances /\ d \in todo /\ walk["event"] = Resting
    BY <1>4 DEF NextKey, SteadyInv, Idle
  <2>2. d \in snorts /\ d \in devices /\ todo \subseteq snorts
    BY <1>b, <2>1 DEF Distances, Zeros
  <2>3. \A u \in Threads : walk[u] = Resting
    BY <2>1 DEF Distances, Separate, Idle, Threads
  <2>4. /\ UNCHANGED <<devices, links, snorts>> /\ todo' = todo \ {d}
        /\ Begin("event", d) /\ "event" \in Threads
    BY <1>4 DEF NextKey, Threads
  <2>5. todo' \subseteq snorts' /\ snorts' \ todo' = (snorts \ todo) \cup {d}
    BY <2>2, <2>4
  <2>6. QED
    BY <2>1, <2>2, <2>3, <2>4, <2>5, BeginDistances
<1>5. ASSUME NEW d \in Devices, AddSnort(d) PROVE Distances'
  <2>1. Distances /\ Quiet /\ d \in devices /\ Begin("rest", d) /\ "rest" \in Threads
    BY <1>5 DEF AddSnort, SteadyInv, Threads
  <2>2. UNCHANGED <<devices, links, todo>> /\ snorts' = snorts \cup {d} /\ todo = {}
    BY <1>5, <2>1 DEF AddSnort, Quiet
  <2>3. \A u \in Threads : walk[u] = Resting
    BY <2>1 DEF Quiet, Idle
  <2>4. QED
    BY <2>1, <2>2, <2>3, BeginDistances
<1>6. ASSUME NEW d \in Devices, RemoveSnort(d) PROVE Distances'
  BY <1>6 DEF RemoveSnort
<1>7. ASSUME NEW t \in Threads, NEW d \in Devices, Look(t, d) PROVE Distances'
  <2>1. Distances
    BY <1>7 DEF Look, SteadyInv
  <2>2. QED
    BY <1>7, <2>1, PassedDistances, TakenDistances
<1>8. ASSUME NEW t \in Threads, NEW d \in Devices, Raise(t, d) PROVE Distances'
  BY <1>8 DEF Raise
<1>9. ASSUME NEW t \in Threads, Dequeue(t) PROVE Distances'
  <2>1. Distances
    BY <1>9 DEF Dequeue, SteadyInv
  <2>2. QED
    BY <1>9, <2>1, DequeueDistances
<1>10. ASSUME IterationFails PROVE Distances'
  BY <1>10 DEF IterationFails
<1>11. ASSUME ClearSnort PROVE Distances'
  <2>1. Distances /\ UNCHANGED <<devices, links, snorts, hops, group, todo, walk>>
    BY <1>11 DEF ClearSnort, SteadyInv, tables
  <2>2. QED
    BY <2>1, UnchangedDistances
<1>12. ASSUME NEW l \in Pairs(Devices), LinkChanges(l) PROVE Distances'
  BY <1>12 DEF LinkChanges
<1>13. ASSUME UNCHANGED vars PROVE Distances'
  <2>1. Distances /\ UNCHANGED <<devices, links, snorts, hops, group, todo, walk>>
    BY <1>13 DEF vars, tables, SteadyInv
  <2>2. QED
    BY <2>1, UnchangedDistances
<1>14. QED
  BY <1>1, <1>2, <1>3, <1>4, <1>5, <1>6, <1>7, <1>8, <1>9, <1>10, <1>11, <1>12, <1>13 DEF Next

(* Between walks nothing waits, and what is left of the invariant says that   *)
(* hops are distances.                                                        *)
LEMMA SettledDistances ==
  ASSUME TypeInv, SteadyInv
  PROVE  TunnelsLeadToSnort
<1> SUFFICES ASSUME steady, Quiet PROVE AreDistances /\ GroupsFollow
  BY DEF TunnelsLeadToSnort
<1>1. Distances /\ todo = {} /\ \A t \in Threads : walk[t] = Resting
  BY DEF SteadyInv, Quiet, Idle
<1>2. /\ devices \subseteq Devices /\ hops \in [Devices -> Nat \cup {-1}]
      /\ \A d : Neighbours(d) \subseteq devices
  BY DEF TypeInv, TypeOK, Neighbours
<1>3. ASSUME NEW d \in devices, NEW e \in Neighbours(d), hops[e] >= 0
      PROVE  hops[d] \in 0 .. hops[e] + 1
  BY <1>1, <1>3, RestingInOrder DEF Distances, Relaxed
<1>4. ASSUME NEW d \in devices, hops[d] > 0
      PROVE  group[d] \in Neighbours(d) /\ hops[group[d]] = hops[d] - 1
  <2>1. group[d] \in Neighbours(d) /\ hops[group[d]] \in 0 .. hops[d] - 1
    BY <1>1, <1>4 DEF Distances, Leads
  <2>2. hops[d] \in 0 .. hops[group[d]] + 1
    BY <1>3, <2>1
  <2>3. hops[d] \in Int /\ hops[group[d]] \in Int
    BY <1>2, <2>1
  <2>4. QED
    BY <2>1, <2>2, <2>3
<1>5. AreDistances
  BY <1>1, <1>3, <1>4 DEF AreDistances, Distances, Zeros
<1>6. GroupsFollow
  BY <1>1, <1>4 DEF GroupsFollow, Distances, Leads
<1>7. QED
  BY <1>5, <1>6

(* However requests, events, walks and failures interleave, once the last    *)
(* event and the instances added since are done and nothing has changed      *)
(* behind them, the hops are the distances to the nearest instance and the   *)
(* groups follow them (setupSnortTunnel and the device listener), for any    *)
(* number of switches and any links.                                         *)
THEOREM TunnelsAreShortest == Spec => []TunnelsLeadToSnort
<1>1. Init => TypeInv /\ SteadyInv
  BY TypeInit, SteadyInit
<1>2. TypeInv /\ SteadyInv /\ [Next]_vars => (TypeInv /\ SteadyInv)'
  BY TypeStep, SteadyStep
<1>3. TypeInv /\ SteadyInv => TunnelsLeadToSnort
  BY SettledDistances
<1>4. QED
  BY <1>1, <1>2, <1>3, PTL DEF Spec
-----------------------------------------------------------------------------
(* SnortManager. The lists of what waits, and the rules of this application  *)
(* in the switches.                                                          *)
Queues == [Switches -> [Selectors -> Nat]]
Rulings == [Switches -> [Selectors -> Sends]]

LEMMA MatchingCounts ==
  ASSUME NEW s \in Selectors, NEW m \in Matching(s)
  PROVE  \A d \in Switches : m[d] \in Nat /\ Times(m, d) \in Nat
<1>1. PICK other \in [Switches -> 0 .. MaxOther] : m = [d \in Switches |-> Own(d, s) + other[d]]
  BY DEF Matching
<1>2. \A d \in Switches : Own(d, s) \in Nat /\ other[d] \in Nat
  BY ManagerAssumption DEF Own, ManagerAssumption
<1>3. QED
  BY <1>1, <1>2 DEF Times

LEMMA Forgetting ==
  ASSUME NEW q \in Queues, NEW s \in Selectors, NEW ds \in SUBSET Switches
  PROVE  /\ Forget(q, s, ds) \in Queues
         /\ \A d \in Switches : \A x \in Selectors :
              /\ Forget(q, s, ds)[d][x] <= q[d][x]
              /\ x # s => Forget(q, s, ds)[d][x] = q[d][x]
              /\ (d \in ds /\ q[d][s] <= 1) => Forget(q, s, ds)[d][s] = 0
<1> DEFINE f == Forget(q, s, ds)
<1>1. f = [d \in Switches |-> IF d \in ds /\ q[d][s] > 0 THEN [q[d] EXCEPT ![s] = @ - 1] ELSE q[d]]
  BY DEF Forget
<1> HIDE DEF f
<1>2. ASSUME NEW d \in Switches
      PROVE  /\ f[d] \in [Selectors -> Nat]
             /\ \A x \in Selectors : f[d][x] <= q[d][x] /\ (x # s => f[d][x] = q[d][x])
             /\ (d \in ds /\ q[d][s] <= 1) => f[d][s] = 0
  <2>1. q[d] \in [Selectors -> Nat] /\ q[d][s] \in Nat
    BY DEF Queues
  <2>2. CASE d \in ds /\ q[d][s] > 0
    <3>1. f[d] = [q[d] EXCEPT ![s] = q[d][s] - 1]
      BY <1>1, <2>2
    <3>2. q[d][s] - 1 \in Nat
      BY <2>1, <2>2
    <3>3. QED
      BY <2>1, <3>1, <3>2
  <2>3. CASE ~(d \in ds /\ q[d][s] > 0)
    <3>1. f[d] = q[d]
      BY <1>1, <2>3
    <3>2. QED
      BY <2>1, <2>3, <3>1
  <2>4. QED
    BY <2>2, <2>3
<1>3. f \in Queues
  BY <1>1, <1>2 DEF Queues
<1>4. QED
  BY <1>2, <1>3 DEF f

LEMMA Waiting ==
  ASSUME NEW q \in Queues, NEW s \in Selectors, NEW m \in Matching(s), NEW ds
  PROVE  /\ Wait(q, s, m, ds) \in Queues
         /\ \A d \in Switches : \A x \in Selectors :
              (x # s \/ d \in mapped) => Wait(q, s, m, ds)[d][x] = q[d][x]
         /\ \A d \in mapped \cap Switches : Wait(q, s, m, ds)[d] = q[d]
<1> DEFINE w == Wait(q, s, m, ds)
<1>1. w = [d \in Switches |-> IF d \in ds \ mapped THEN [q[d] EXCEPT ![s] = @ + Times(m, d)] ELSE q[d]]
  BY DEF Wait
<1> HIDE DEF w
<1>2. ASSUME NEW d \in Switches
      PROVE  /\ w[d] \in [Selectors -> Nat]
             /\ \A x \in Selectors : (x # s \/ d \in mapped) => w[d][x] = q[d][x]
             /\ d \in mapped => w[d] = q[d]
  <2>1. q[d] \in [Selectors -> Nat] /\ q[d][s] \in Nat /\ Times(m, d) \in Nat
    BY MatchingCounts DEF Queues
  <2>2. CASE d \in ds \ mapped
    <3>1. w[d] = [q[d] EXCEPT ![s] = q[d][s] + Times(m, d)]
      BY <1>1, <2>2
    <3>2. QED
      BY <2>1, <2>2, <3>1
  <2>3. CASE d \notin ds \ mapped
    BY <1>1, <2>1, <2>3
  <2>4. QED
    BY <2>2, <2>3
<1>3. w \in Queues
  BY <1>1, <1>2 DEF Queues
<1>4. QED
  BY <1>2, <1>3 DEF w

LEMMA Installing ==
  ASSUME send \in Rulings, NEW s \in Selectors, NEW rule \in Sends, NEW ds, Install(s, rule, ds)
  PROVE  /\ send' \in Rulings
         /\ \A d \in Switches : \A x \in Selectors : x # s => send'[d][x] = send[d][x]
         /\ \A d \in ds \cap Switches : send'[d][s] = rule
<1>1. send' = [d \in Switches |-> IF d \in ds THEN [send[d] EXCEPT ![s] = rule] ELSE send[d]]
  BY DEF Install
<1>2. ASSUME NEW d \in Switches
      PROVE  /\ send'[d] \in [Selectors -> Sends]
             /\ \A x \in Selectors : x # s => send'[d][x] = send[d][x]
             /\ d \in ds => send'[d][s] = rule
  <2>1. send[d] \in [Selectors -> Sends]
    BY DEF Rulings
  <2>2. send'[d] = IF d \in ds THEN [send[d] EXCEPT ![s] = rule] ELSE send[d]
    BY <1>1
  <2>3. QED
    BY <2>1, <2>2
<1>3. QED
  BY <1>1, <1>2 DEF Rulings
-----------------------------------------------------------------------------
(* What makes InstanceMapsAgree inductive: a switch with a known instance is  *)
(* in the map, a tunnel ends at a known instance, and, until a host moves, no *)
(* two instances are at one port, each is where the map says, and the blocks  *)
(* of what comes back are exactly those of the known instances.               *)
KnownIsMapped == \A d \in Switches : Known(d) # {} => d \in mapped
TunnelsLive == \A d \in Switches : tunnel[d] # Nowhere => \E ip \in Ips : snortPorts[d][ip] = tunnel[d]
Apart == \A i, j \in Ips : (host[i] = host[j] /\ host[i] # Nowhere) => i = j
InPlace == \A d \in Switches : \A ip \in Ips :
             snortPorts[d][ip] # Nowhere => host[ip] \in Places /\ host[ip] = <<d, snortPorts[d][ip]>>
DupExact == \A place \in Places :
              place \in dup <=> \E ip \in Ips : snortPorts[place[1]][ip] = place[2]
MapsInv == KnownIsMapped /\ TunnelsLive /\ (~strayed => Apart /\ InPlace /\ DupExact)

(* What makes NothingWaitsInVain inductive: a flow asked for once waits at    *)
(* most once at each switch, so that one block takes it off every list.       *)
OnceEach == \A s \in Selectors \ repeated : \A d \in Switches :
              pendingMirror[d][s] <= 1 /\ pendingRedirect[d][s] <= 1
WaitInv == NothingWaitsAtSnort /\ OnceEach /\ BlockedIsForgotten

(* The step of a request, which leaves the instances where they are.         *)
Unmoved == UNCHANGED <<host, pendingSnort, mapped, snortPorts, tunnel, dup, strayed>>

LEMMA UnmovedMaps == ASSUME MapsInv, Unmoved PROVE MapsInv'
BY DEF Unmoved, MapsInv, KnownIsMapped, Known, TunnelsLive, Apart, InPlace, DupExact

(* A request for another selector, or about nothing that waits.              *)
LEMMA RequestWaits ==
  ASSUME ManagerTypeOK, WaitInv, Unmoved, NEW s \in Selectors,
         \A d \in Switches : \A x \in Selectors :
            x # s => /\ pendingMirror'[d][x] = pendingMirror[d][x]
                     /\ pendingRedirect'[d][x] = pendingRedirect[d][x]
                     /\ send'[d][x] = send[d][x],
         repeated \subseteq repeated', OnceEach', NothingWaitsAtSnort',
         blocked' \subseteq blocked \cup {s},
         s \in blocked' \ repeated' =>
            \A d \in Switches : /\ pendingMirror'[d][s] = 0 /\ pendingRedirect'[d][s] = 0
                                /\ send'[d][s] = "none"
  PROVE  WaitInv'
<1>1. ASSUME NEW x \in blocked' \ repeated', NEW d \in Switches
      PROVE  /\ send'[d][x] = "none"
             /\ pendingMirror'[d][x] = 0 /\ pendingRedirect'[d][x] = 0
  <2>1. CASE x = s
    BY <1>1, <2>1
  <2>2. CASE x # s
    <3>1. x \in blocked \ repeated /\ x \in Selectors
      BY <1>1, <2>2 DEF ManagerTypeOK
    <3>2. QED
      BY <1>1, <2>2, <3>1 DEF WaitInv, BlockedIsForgotten
  <2>3. QED
    BY <2>1, <2>2
<1>2. QED
  BY <1>1 DEF WaitInv, BlockedIsForgotten

LEMMA AddMirrorStep == ASSUME ManagerTypeOK, MapsInv, WaitInv, NEW s \in Selectors, AddMirror(s)
                  PROVE  ManagerTypeOK' /\ MapsInv' /\ WaitInv'
<1>1. PICK m \in Matching(s) : \E ds \in Reached(Targets(m)) :
        /\ Install(s, "mirror", ds) /\ pendingMirror' = Wait(pendingMirror, s, m, ds)
        /\ repeated' = repeated \cup Twice(pendingMirror') /\ Outcome(s, "mirror", Raises(Targets(m)))
        /\ UNCHANGED <<host, instances, pendingRedirect, block>>
  BY DEF AddMirror
<1> PICK ds \in Reached(Targets(m)) : Install(s, "mirror", ds) /\ pendingMirror' = Wait(pendingMirror, s, m, ds)
  BY <1>1
<1>2. /\ Unmoved /\ UNCHANGED <<pendingRedirect, block>> /\ blocked' = blocked \ {s}
  BY <1>1 DEF instances, Outcome, Unmoved
<1>3. send \in Rulings /\ pendingMirror \in Queues /\ pendingRedirect \in Queues /\ "mirror" \in Sends
  BY DEF ManagerTypeOK, Rulings, Queues, Sends
<1>4. /\ send' \in Rulings /\ pendingMirror' \in Queues
      /\ \A d \in Switches : \A x \in Selectors :
           x # s => send'[d][x] = send[d][x] /\ pendingMirror'[d][x] = pendingMirror[d][x]
      /\ \A d \in mapped \cap Switches : pendingMirror'[d] = pendingMirror[d]
  BY <1>1, <1>3, Installing, Waiting
<1>5. Twice(pendingMirror') \subseteq Selectors
  BY DEF Twice
<1>6. ManagerTypeOK'
  BY <1>1, <1>2, <1>4, <1>5 DEF ManagerTypeOK, Unmoved, Rulings, Queues
<1>7. NothingWaitsAtSnort'
  BY <1>2, <1>4 DEF NothingWaitsAtSnort, Known, MapsInv, KnownIsMapped, Unmoved, WaitInv, Nobody
<1>8. OnceEach'
  <2>1. ASSUME NEW x \in Selectors \ repeated', NEW d \in Switches
        PROVE  pendingMirror'[d][x] <= 1 /\ pendingRedirect'[d][x] <= 1
    <3>1. x \notin Twice(pendingMirror') /\ x \notin repeated /\ pendingMirror'[d][x] \in Nat
      BY <1>1, <1>4, <2>1 DEF Queues
    <3>2. pendingMirror'[d][x] <= 1
      BY <2>1, <3>1 DEF Twice
    <3>3. QED
      BY <1>2, <2>1, <3>1, <3>2 DEF WaitInv, OnceEach
  <2>2. QED
    BY <2>1 DEF OnceEach
<1>9. WaitInv'
  BY <1>1, <1>2, <1>4, <1>7, <1>8, RequestWaits
<1>10. QED
  BY <1>2, <1>6, <1>9, UnmovedMaps

LEMMA AddRedirectStep == ASSUME ManagerTypeOK, MapsInv, WaitInv, NEW s \in Selectors, AddRedirect(s)
                  PROVE  ManagerTypeOK' /\ MapsInv' /\ WaitInv'
<1>1. PICK m \in Matching(s) : \E ds \in Reached(Targets(m)) :
        /\ Install(s, "redirect", ds) /\ pendingRedirect' = Wait(pendingRedirect, s, m, ds)
        /\ repeated' = repeated \cup Twice(pendingRedirect') /\ Outcome(s, "redirect", Raises(Targets(m)))
        /\ UNCHANGED <<host, instances, pendingMirror, block>>
  BY DEF AddRedirect
<1> PICK ds \in Reached(Targets(m)) : Install(s, "redirect", ds) /\ pendingRedirect' = Wait(pendingRedirect, s, m, ds)
  BY <1>1
<1>2. /\ Unmoved /\ UNCHANGED <<pendingMirror, block>> /\ blocked' = blocked \ {s}
  BY <1>1 DEF instances, Outcome, Unmoved
<1>3. send \in Rulings /\ pendingRedirect \in Queues /\ pendingMirror \in Queues /\ "redirect" \in Sends
  BY DEF ManagerTypeOK, Rulings, Queues, Sends
<1>4. /\ send' \in Rulings /\ pendingRedirect' \in Queues
      /\ \A d \in Switches : \A x \in Selectors :
           x # s => send'[d][x] = send[d][x] /\ pendingRedirect'[d][x] = pendingRedirect[d][x]
      /\ \A d \in mapped \cap Switches : pendingRedirect'[d] = pendingRedirect[d]
  BY <1>1, <1>3, Installing, Waiting
<1>5. Twice(pendingRedirect') \subseteq Selectors
  BY DEF Twice
<1>6. ManagerTypeOK'
  BY <1>1, <1>2, <1>4, <1>5 DEF ManagerTypeOK, Unmoved, Rulings, Queues
<1>7. NothingWaitsAtSnort'
  BY <1>2, <1>4 DEF NothingWaitsAtSnort, Known, MapsInv, KnownIsMapped, Unmoved, WaitInv, Nobody
<1>8. OnceEach'
  <2>1. ASSUME NEW x \in Selectors \ repeated', NEW d \in Switches
        PROVE  pendingRedirect'[d][x] <= 1 /\ pendingMirror'[d][x] <= 1
    <3>1. x \notin Twice(pendingRedirect') /\ x \notin repeated /\ pendingRedirect'[d][x] \in Nat
      BY <1>1, <1>4, <2>1 DEF Queues
    <3>2. pendingRedirect'[d][x] <= 1
      BY <2>1, <3>1 DEF Twice
    <3>3. QED
      BY <1>2, <2>1, <3>1, <3>2 DEF WaitInv, OnceEach
  <2>2. QED
    BY <2>1 DEF OnceEach
<1>9. WaitInv'
  BY <1>1, <1>2, <1>4, <1>7, <1>8, RequestWaits
<1>10. QED
  BY <1>2, <1>6, <1>9, UnmovedMaps

(* Where what waits only gets less.                                          *)
LEMMA Shrinking ==
  ASSUME ManagerTypeOK, WaitInv, UNCHANGED <<snortPorts, repeated>>,
         pendingMirror' \in Queues, pendingRedirect' \in Queues,
         \A d \in Switches : \A x \in Selectors :
           pendingMirror'[d][x] <= pendingMirror[d][x] /\ pendingRedirect'[d][x] <= pendingRedirect[d][x]
  PROVE  NothingWaitsAtSnort' /\ OnceEach'
<1>1. pendingMirror \in Queues /\ pendingRedirect \in Queues
  BY DEF ManagerTypeOK, Queues
<1>2. ASSUME NEW d \in Switches, Known(d) # {}
      PROVE  pendingMirror'[d] = Nobody /\ pendingRedirect'[d] = Nobody
  <2>1. pendingMirror[d] = Nobody /\ pendingRedirect[d] = Nobody
    BY <1>2 DEF WaitInv, NothingWaitsAtSnort
  <2>2. /\ pendingMirror'[d] \in [Selectors -> Nat] /\ pendingRedirect'[d] \in [Selectors -> Nat]
        /\ \A x \in Selectors : pendingMirror'[d][x] <= 0 /\ pendingRedirect'[d][x] <= 0
    BY <2>1 DEF Nobody, Queues
  <2>3. \A x \in Selectors : pendingMirror'[d][x] = 0 /\ pendingRedirect'[d][x] = 0
    BY <2>2
  <2>4. QED
    BY <2>2, <2>3 DEF Nobody
<1>3. NothingWaitsAtSnort'
  BY <1>2 DEF NothingWaitsAtSnort, Known
<1>4. ASSUME NEW x \in Selectors \ repeated, NEW d \in Switches
      PROVE  pendingMirror'[d][x] <= 1 /\ pendingRedirect'[d][x] <= 1
  <2>1. /\ pendingMirror[d][x] \in Nat /\ pendingRedirect[d][x] \in Nat
        /\ pendingMirror'[d][x] \in Nat /\ pendingRedirect'[d][x] \in Nat
    BY <1>1, <1>4 DEF Queues
  <2>2. pendingMirror[d][x] <= 1 /\ pendingRedirect[d][x] <= 1
    BY <1>4 DEF WaitInv, OnceEach
  <2>3. pendingMirror'[d][x] <= pendingMirror[d][x] /\ pendingRedirect'[d][x] <= pendingRedirect[d][x]
    BY <1>4
  <2>4. QED
    BY <2>1, <2>2, <2>3
<1>5. QED
  BY <1>3, <1>4 DEF OnceEach

LEMMA DeleteMirrorStep == ASSUME ManagerTypeOK, MapsInv, WaitInv, NEW s \in Selectors, DeleteMirror(s)
                        PROVE  ManagerTypeOK' /\ MapsInv' /\ WaitInv'
<1>1. PICK ds \in Reached(Switches) :
        /\ Install(s, "none", ds) /\ pendingMirror' = Forget(pendingMirror, s, ds)
        /\ Outcome(s, "delete mirror", Raises(Switches))
        /\ UNCHANGED <<host, instances, pendingRedirect, block, repeated>>
  BY DEF DeleteMirror
<1>2. Unmoved /\ UNCHANGED <<pendingRedirect, block, repeated>> /\ blocked' = blocked \ {s}
  BY <1>1 DEF instances, Outcome, Unmoved
<1>3. /\ send \in Rulings /\ pendingMirror \in Queues /\ pendingRedirect \in Queues /\ "none" \in Sends
      /\ ds \in SUBSET Switches
  BY DEF ManagerTypeOK, Rulings, Queues, Sends, Reached
<1>4. /\ send' \in Rulings
      /\ \A d \in Switches : \A x \in Selectors : x # s => send'[d][x] = send[d][x]
  BY <1>1, <1>3, Installing
<1>5. /\ pendingMirror' \in Queues
      /\ \A d \in Switches : \A x \in Selectors :
           /\ x # s => pendingMirror'[d][x] = pendingMirror[d][x]
           /\ pendingMirror'[d][x] <= pendingMirror[d][x]
  <2>1. pendingMirror' = Forget(pendingMirror, s, ds)
    BY <1>1
  <2>2. QED
    BY <1>3, <2>1, Forgetting
<1>6. ManagerTypeOK'
  BY <1>2, <1>4, <1>5 DEF ManagerTypeOK, Unmoved, Rulings, Queues
<1>7. \A d \in Switches : \A x \in Selectors : pendingRedirect'[d][x] <= pendingRedirect[d][x]
  BY <1>2, <1>3 DEF Queues
<1>8. NothingWaitsAtSnort' /\ OnceEach'
  BY <1>2, <1>3, <1>5, <1>7, Shrinking DEF Unmoved
<1>9. WaitInv'
  BY <1>2, <1>4, <1>5, <1>8, RequestWaits
<1>10. QED
  BY <1>2, <1>6, <1>9, UnmovedMaps

LEMMA DeleteRedirectStep == ASSUME ManagerTypeOK, MapsInv, WaitInv, NEW s \in Selectors, DeleteRedirect(s)
                        PROVE  ManagerTypeOK' /\ MapsInv' /\ WaitInv'
<1>1. PICK ds \in Reached(Switches) :
        /\ Install(s, "none", ds) /\ pendingRedirect' = Forget(pendingRedirect, s, ds)
        /\ Outcome(s, "delete redirect", Raises(Switches))
        /\ UNCHANGED <<host, instances, pendingMirror, block, repeated>>
  BY DEF DeleteRedirect
<1>2. Unmoved /\ UNCHANGED <<pendingMirror, block, repeated>> /\ blocked' = blocked \ {s}
  BY <1>1 DEF instances, Outcome, Unmoved
<1>3. /\ send \in Rulings /\ pendingRedirect \in Queues /\ pendingMirror \in Queues /\ "none" \in Sends
      /\ ds \in SUBSET Switches
  BY DEF ManagerTypeOK, Rulings, Queues, Sends, Reached
<1>4. /\ send' \in Rulings
      /\ \A d \in Switches : \A x \in Selectors : x # s => send'[d][x] = send[d][x]
  BY <1>1, <1>3, Installing
<1>5. /\ pendingRedirect' \in Queues
      /\ \A d \in Switches : \A x \in Selectors :
           /\ x # s => pendingRedirect'[d][x] = pendingRedirect[d][x]
           /\ pendingRedirect'[d][x] <= pendingRedirect[d][x]
  <2>1. pendingRedirect' = Forget(pendingRedirect, s, ds)
    BY <1>1
  <2>2. QED
    BY <1>3, <2>1, Forgetting
<1>6. ManagerTypeOK'
  BY <1>2, <1>4, <1>5 DEF ManagerTypeOK, Unmoved, Rulings, Queues
<1>7. \A d \in Switches : \A x \in Selectors : pendingMirror'[d][x] <= pendingMirror[d][x]
  BY <1>2, <1>3 DEF Queues
<1>8. NothingWaitsAtSnort' /\ OnceEach'
  BY <1>2, <1>3, <1>5, <1>7, Shrinking DEF Unmoved
<1>9. WaitInv'
  BY <1>2, <1>4, <1>5, <1>8, RequestWaits
<1>10. QED
  BY <1>2, <1>6, <1>9, UnmovedMaps

LEMMA AddBlockStep == ASSUME ManagerTypeOK, MapsInv, WaitInv, NEW s \in Selectors, AddBlock(s)
                      PROVE  ManagerTypeOK' /\ MapsInv' /\ WaitInv'
<1>1. PICK m \in Matching(s), ds \in Reached(Switches) :
        LET seen == {d \in Switches : m[d] > 0}
            at   == IF seen = {} THEN Switches ELSE seen
        IN  /\ block' = [d \in Switches |-> IF d \in at THEN block[d] \cup {s} ELSE block[d]]
            /\ Install(s, "none", ds)
            /\ pendingRedirect' = Forget(pendingRedirect, s, ds)
            /\ pendingMirror' = IF Raises(Switches) THEN pendingMirror
                                ELSE Forget(pendingMirror, s, ds)
            /\ Outcome(s, "block", Raises(Switches))
            /\ UNCHANGED <<host, instances, repeated>>
  BY DEF AddBlock
<1>2. /\ Unmoved /\ repeated' = repeated
      /\ blocked' = IF Raises(Switches) THEN blocked \ {s} ELSE blocked \cup {s}
  BY <1>1 DEF instances, Outcome, Unmoved
<1>3. block' \in [Switches -> SUBSET Selectors]
  BY <1>1 DEF ManagerTypeOK
<1>4. /\ send \in Rulings /\ pendingMirror \in Queues /\ pendingRedirect \in Queues
      /\ "none" \in Sends /\ ds \in SUBSET Switches /\ (~Raises(Switches) => ds = Switches)
  BY DEF ManagerTypeOK, Rulings, Queues, Sends, Reached, Raises
<1>5. /\ send' \in Rulings
      /\ \A d \in Switches : \A x \in Selectors : x # s => send'[d][x] = send[d][x]
      /\ \A d \in ds : send'[d][s] = "none"
  BY <1>1, <1>4, Installing
<1>6. /\ pendingRedirect' \in Queues
      /\ \A d \in Switches : \A x \in Selectors :
           /\ x # s => pendingRedirect'[d][x] = pendingRedirect[d][x]
           /\ pendingRedirect'[d][x] <= pendingRedirect[d][x]
           /\ (d \in ds /\ pendingRedirect[d][s] <= 1) => pendingRedirect'[d][s] = 0
  BY <1>1, <1>4, Forgetting
<1>7. /\ pendingMirror' \in Queues
      /\ \A d \in Switches : \A x \in Selectors :
           /\ x # s => pendingMirror'[d][x] = pendingMirror[d][x]
           /\ pendingMirror'[d][x] <= pendingMirror[d][x]
           /\ (~Raises(Switches) /\ d \in ds /\ pendingMirror[d][s] <= 1) => pendingMirror'[d][s] = 0
  <2>1. CASE Raises(Switches)
    <3>1. pendingMirror' = pendingMirror /\ \A d \in Switches : \A x \in Selectors : pendingMirror[d][x] \in Nat
      BY <1>1, <1>4, <2>1 DEF Queues
    <3>2. QED
      BY <1>4, <2>1, <3>1
  <2>2. CASE ~Raises(Switches)
    <3>1. pendingMirror' = Forget(pendingMirror, s, ds)
      BY <1>1, <2>2
    <3>2. QED
      BY <1>4, <3>1, Forgetting
  <2>3. QED
    BY <2>1, <2>2
<1>8. ManagerTypeOK'
  BY <1>2, <1>3, <1>5, <1>6, <1>7 DEF ManagerTypeOK, Unmoved, Rulings, Queues
<1>9. NothingWaitsAtSnort' /\ OnceEach'
  BY <1>2, <1>6, <1>7, Shrinking DEF Unmoved
<1>10. ASSUME s \in blocked' \ repeated', NEW d \in Switches
       PROVE  pendingMirror'[d][s] = 0 /\ pendingRedirect'[d][s] = 0 /\ send'[d][s] = "none"
  <2>1. ~Raises(Switches) /\ ds = Switches /\ s \notin repeated
    BY <1>2, <1>4, <1>10
  <2>2. pendingMirror[d][s] <= 1 /\ pendingRedirect[d][s] <= 1
    BY <2>1 DEF WaitInv, OnceEach
  <2>3. QED
    BY <1>5, <1>6, <1>7, <2>1, <2>2
<1>11. WaitInv'
  BY <1>2, <1>5, <1>6, <1>7, <1>9, <1>10, RequestWaits
<1>12. QED
  BY <1>2, <1>8, <1>11, UnmovedMaps

LEMMA DeleteBlockStep == ASSUME ManagerTypeOK, MapsInv, WaitInv, NEW s \in Selectors, DeleteBlock(s)
                         PROVE  ManagerTypeOK' /\ MapsInv' /\ WaitInv'
<1>1. /\ Unmoved /\ UNCHANGED <<pendingMirror, pendingRedirect, send, repeated>>
      /\ block' = [d \in Switches |-> block[d] \ {s}] /\ blocked' = blocked \ {s}
  BY DEF DeleteBlock, Outcome, instances, waiting, Unmoved
<1>2. ManagerTypeOK'
  BY <1>1 DEF ManagerTypeOK, Unmoved
<1>3. WaitInv'
  BY <1>1 DEF WaitInv, NothingWaitsAtSnort, OnceEach, BlockedIsForgotten, Known, Unmoved
<1>4. QED
  BY <1>1, <1>2, <1>3, UnmovedMaps

LEMMA ExpireStep ==
  ASSUME ManagerTypeOK, MapsInv, WaitInv, NEW d \in Switches, NEW s \in Selectors, Expire(d, s)
  PROVE  ManagerTypeOK' /\ MapsInv' /\ WaitInv'
<1>1. /\ Unmoved /\ UNCHANGED <<pendingMirror, pendingRedirect, blocked, repeated>>
      /\ send' \in [Switches -> [Selectors -> Sends]] /\ block' \in [Switches -> SUBSET Selectors]
      /\ \A e \in Switches : \A x \in Selectors : send'[e][x] \in {"none", send[e][x]}
  <2>1. /\ UNCHANGED <<host, instances, waiting, history, strayed>>
        /\ \/ block' = block /\ send' = [send EXCEPT ![d][s] = "none"]
           \/ send' = send /\ block' = [block EXCEPT ![d] = @ \ {s}]
    BY DEF Expire
  <2>2. /\ send \in [Switches -> [Selectors -> Sends]] /\ block \in [Switches -> SUBSET Selectors]
        /\ "none" \in Sends
    BY DEF ManagerTypeOK, Sends
  <2>3. CASE block' = block /\ send' = [send EXCEPT ![d][s] = "none"]
    <3>1. \A e \in Switches : send'[e] = IF e = d THEN [send[e] EXCEPT ![s] = "none"] ELSE send[e]
      BY <2>2, <2>3
    <3>2. ASSUME NEW e \in Switches
          PROVE  /\ send'[e] \in [Selectors -> Sends]
                 /\ \A x \in Selectors : send'[e][x] \in {"none", send[e][x]}
      <4>1. send[e] \in [Selectors -> Sends]
        BY <2>2
      <4>2. CASE e = d
        BY <2>2, <3>1, <4>1, <4>2
      <4>3. CASE e # d
        BY <3>1, <4>1, <4>3
      <4>4. QED
        BY <4>2, <4>3
    <3>3. send' \in [Switches -> [Selectors -> Sends]]
      BY <2>2, <2>3, <3>2
    <3>4. QED
      BY <2>1, <2>2, <2>3, <3>2, <3>3 DEF Unmoved, instances, waiting, history
  <2>4. CASE send' = send /\ block' = [block EXCEPT ![d] = @ \ {s}]
    <3>1. block' \in [Switches -> SUBSET Selectors]
      BY <2>2, <2>4
    <3>2. QED
      BY <2>1, <2>2, <2>4, <3>1 DEF Unmoved, instances, waiting, history
  <2>5. QED
    BY <2>1, <2>3, <2>4 DEF Unmoved, instances, waiting, history
<1>2. ManagerTypeOK'
  BY <1>1 DEF ManagerTypeOK, Unmoved
<1>3. WaitInv'
  BY <1>1 DEF WaitInv, NothingWaitsAtSnort, OnceEach, BlockedIsForgotten, Known, Unmoved, ManagerTypeOK
<1>4. QED
  BY <1>1, <1>2, <1>3, UnmovedMaps

LEMMA PlacesArePairs ==
  ASSUME NEW place \in Places
  PROVE  place[1] \in Switches /\ place[2] \in Ports /\ place = <<place[1], place[2]>> /\ place # Nowhere
BY ManagerAssumption DEF ManagerAssumption

(* What is installed for those that waited at a switch.                      *)
LEMMA Flushing ==
  ASSUME NEW r \in [Selectors -> Sends], NEW q \in [Selectors -> Nat], NEW rule \in Sends
  PROVE  /\ Flush(rule, r, q) \in [Selectors -> Sends]
         /\ \A s \in Selectors : q[s] = 0 => Flush(rule, r, q)[s] = r[s]
BY DEF Flush

(* An instance is found at a port, where it was, or was nowhere, if no host  *)
(* has moved.                                                                *)
LEMMA ConnectStep ==
  ASSUME ManagerTypeOK, MapsInv, WaitInv, NEW ip \in Ips, NEW d \in Switches, NEW p \in Ports,
         <<d, p>> \in Places, Connect(ip, d, p), pendingSnort' \subseteq Ips, UNCHANGED <<block, history>>,
         host' \in [Ips -> Places \cup {Nowhere}], strayed' \in BOOLEAN, strayed => strayed',
         ~strayed' => /\ Apart' /\ host'[ip] = <<d, p>> /\ host[ip] \in {Nowhere, <<d, p>>}
                      /\ \A j \in Ips \ {ip} : host'[j] = host[j]
  PROVE  ManagerTypeOK' /\ MapsInv' /\ WaitInv'
<1> DEFINE first == Flush("mirror", send[d], pendingMirror[d])
           both  == Flush("redirect 10", first, pendingRedirect[d])
<1>1. /\ mapped' = mapped \cup {d} /\ snortPorts' = [snortPorts EXCEPT ![d][ip] = p]
      /\ dup' = dup \cup {<<d, p>>} /\ tunnel' = [tunnel EXCEPT ![d] = p]
      /\ send' = [send EXCEPT ![d] = both]
      /\ pendingMirror' = [pendingMirror EXCEPT ![d] = Nobody]
      /\ pendingRedirect' = [pendingRedirect EXCEPT ![d] = Nobody]
      /\ blocked' = blocked /\ repeated' = repeated
  BY DEF Connect, history
<1>2. /\ send[d] \in [Selectors -> Sends] /\ pendingMirror[d] \in [Selectors -> Nat]
      /\ pendingRedirect[d] \in [Selectors -> Nat] /\ "mirror" \in Sends /\ "redirect 10" \in Sends
  BY DEF ManagerTypeOK, Sends
<1>3. /\ both \in [Selectors -> Sends]
      /\ \A s \in Selectors : (pendingMirror[d][s] = 0 /\ pendingRedirect[d][s] = 0) => both[s] = send[d][s]
  <2>1. first \in [Selectors -> Sends] /\ \A s \in Selectors : pendingMirror[d][s] = 0 => first[s] = send[d][s]
    BY <1>2, Flushing
  <2> HIDE DEF first
  <2>2. both \in [Selectors -> Sends] /\ \A s \in Selectors : pendingRedirect[d][s] = 0 => both[s] = first[s]
    BY <1>2, <2>1, Flushing
  <2>3. QED
    BY <2>1, <2>2
<1> HIDE DEF both
<1>4. Nobody \in [Selectors -> Nat] /\ p # Nowhere
  BY ManagerAssumption DEF Nobody, ManagerAssumption
<1>5. /\ snortPorts' \in [Switches -> [Ips -> Ports \cup {Nowhere}]]
      /\ \A e \in Switches : \A j \in Ips :
           snortPorts'[e][j] = IF e = d /\ j = ip THEN p ELSE snortPorts[e][j]
  <2>1. snortPorts \in [Switches -> [Ips -> Ports \cup {Nowhere}]]
    BY DEF ManagerTypeOK
  <2>2. snortPorts' = [e \in Switches |-> IF e = d THEN [snortPorts[d] EXCEPT ![ip] = p] ELSE snortPorts[e]]
    BY <1>1, <2>1
  <2>3. \A e \in Switches : /\ snortPorts'[e] \in [Ips -> Ports \cup {Nowhere}]
                            /\ \A j \in Ips : snortPorts'[e][j] = IF e = d /\ j = ip THEN p ELSE snortPorts[e][j]
    BY <2>1, <2>2
  <2>4. QED
    BY <2>2, <2>3
<1>6. /\ tunnel' \in [Switches -> Ports \cup {Nowhere}]
      /\ tunnel'[d] = p /\ \A e \in Switches \ {d} : tunnel'[e] = tunnel[e]
  BY <1>1 DEF ManagerTypeOK
<1>7. /\ pendingMirror' \in [Switches -> [Selectors -> Nat]]
      /\ pendingRedirect' \in [Switches -> [Selectors -> Nat]]
      /\ pendingMirror'[d] = Nobody /\ pendingRedirect'[d] = Nobody
      /\ \A e \in Switches \ {d} : pendingMirror'[e] = pendingMirror[e] /\ pendingRedirect'[e] = pendingRedirect[e]
  BY <1>1, <1>4 DEF ManagerTypeOK
<1>8. /\ send' \in [Switches -> [Selectors -> Sends]]
      /\ send'[d] = both /\ \A e \in Switches \ {d} : send'[e] = send[e]
  BY <1>1, <1>3 DEF ManagerTypeOK
<1>9. ManagerTypeOK'
  BY <1>1, <1>5, <1>6, <1>7, <1>8 DEF ManagerTypeOK, history
<1>10. KnownIsMapped'
  BY <1>1, <1>5 DEF MapsInv, KnownIsMapped, Known
<1>11. TunnelsLive'
  <2>1. ASSUME NEW e \in Switches, tunnel'[e] # Nowhere PROVE \E j \in Ips : snortPorts'[e][j] = tunnel'[e]
    <3>1. CASE e = d
      BY <1>5, <1>6, <3>1
    <3>2. CASE e # d
      BY <1>5, <1>6, <2>1, <3>2 DEF MapsInv, TunnelsLive
    <3>3. QED
      BY <3>1, <3>2
  <2>2. QED
    BY <2>1 DEF TunnelsLive
<1>12. ASSUME ~strayed' PROVE InPlace' /\ DupExact'
  <2>1. strayed \/ (Apart /\ InPlace /\ DupExact)
    BY DEF MapsInv
  <2>2. InPlace /\ DupExact /\ snortPorts[d][ip] \in {Nowhere, p}
    <3>1. InPlace /\ DupExact /\ host[ip] \in {Nowhere, <<d, p>>}
      BY <1>12, <2>1
    <3>2. ASSUME snortPorts[d][ip] # Nowhere PROVE snortPorts[d][ip] = p
      <4>1. host[ip] \in Places /\ host[ip] = <<d, snortPorts[d][ip]>>
        BY <3>1, <3>2 DEF InPlace
      <4>2. host[ip] = <<d, p>>
        BY <3>1, <4>1, PlacesArePairs
      <4>3. QED
        BY <4>1, <4>2
    <3>3. QED
      BY <3>1, <3>2
  <2>3. ASSUME NEW e \in Switches, NEW j \in Ips, snortPorts'[e][j] # Nowhere
        PROVE  host'[j] \in Places /\ host'[j] = <<e, snortPorts'[e][j]>>
    <3>1. CASE e = d /\ j = ip
      BY <1>5, <1>12, <3>1
    <3>2. CASE j # ip
      BY <1>5, <1>12, <2>2, <2>3, <3>2 DEF InPlace
    <3>3. CASE j = ip /\ e # d
      <4>1. host[ip] \in Places /\ host[ip] = <<e, snortPorts[e][ip]>>
        BY <1>5, <2>2, <2>3, <3>3 DEF InPlace
      <4>2. host[ip] # Nowhere
        BY <4>1, PlacesArePairs
      <4>3. QED
        BY <1>12, <3>3, <4>1, <4>2
    <3>4. QED
      BY <3>1, <3>2, <3>3
  <2>4. ASSUME NEW place \in Places
        PROVE  place \in dup' <=> \E j \in Ips : snortPorts'[place[1]][j] = place[2]
    <3>1. place[1] \in Switches /\ place[2] \in Ports /\ place = <<place[1], place[2]>> /\ place[2] # Nowhere
      BY PlacesArePairs, ManagerAssumption DEF ManagerAssumption
    <3>2. CASE place = <<d, p>>
      BY <1>1, <1>5, <3>1, <3>2
    <3>3. CASE place # <<d, p>>
      <4>1. \A j \in Ips : snortPorts'[place[1]][j] = place[2] <=> snortPorts[place[1]][j] = place[2]
        BY <1>5, <2>2, <3>1, <3>3
      <4>2. place \in dup <=> \E j \in Ips : snortPorts[place[1]][j] = place[2]
        BY <2>2 DEF DupExact
      <4>3. QED
        BY <1>1, <3>3, <4>1, <4>2
    <3>4. QED
      BY <3>2, <3>3
  <2>5. QED
    BY <2>3, <2>4 DEF InPlace, DupExact
<1>13. MapsInv'
  BY <1>10, <1>11, <1>12 DEF MapsInv
<1>14. NothingWaitsAtSnort'
  <2>1. ASSUME NEW e \in Switches, Known(e)' # {} PROVE pendingMirror'[e] = Nobody /\ pendingRedirect'[e] = Nobody
    <3>1. CASE e = d
      BY <1>7, <3>1
    <3>2. CASE e # d
      <4>1. Known(e) # {}
        BY <1>5, <2>1, <3>2 DEF Known
      <4>2. QED
        BY <1>7, <3>2, <4>1 DEF WaitInv, NothingWaitsAtSnort
    <3>3. QED
      BY <3>1, <3>2
  <2>2. QED
    BY <2>1 DEF NothingWaitsAtSnort, Nobody
<1>15. OnceEach' /\ BlockedIsForgotten'
  <2>1. \A s \in Selectors : Nobody[s] = 0
    BY DEF Nobody
  <2>2. OnceEach'
    BY <1>1, <1>7, <2>1 DEF OnceEach, WaitInv
  <2>3. \A s \in blocked \ repeated : \A e \in Switches :
          send'[e][s] = "none" /\ pendingMirror'[e][s] = 0 /\ pendingRedirect'[e][s] = 0
    <3>1. ASSUME NEW s \in blocked \ repeated, NEW e \in Switches
          PROVE  send'[e][s] = "none" /\ pendingMirror'[e][s] = 0 /\ pendingRedirect'[e][s] = 0
      <4>1. /\ s \in Selectors /\ send[e][s] = "none"
            /\ pendingMirror[e][s] = 0 /\ pendingRedirect[e][s] = 0
        BY <3>1 DEF WaitInv, BlockedIsForgotten, ManagerTypeOK
      <4>2. CASE e = d
        BY <1>3, <1>7, <1>8, <2>1, <4>1, <4>2
      <4>3. CASE e # d
        BY <1>7, <1>8, <4>1, <4>3
      <4>4. QED
        BY <4>2, <4>3
    <3>2. QED
      BY <3>1
  <2>4. QED
    BY <1>1, <2>2, <2>3 DEF BlockedIsForgotten
<1>16. QED
  BY <1>9, <1>13, <1>14, <1>15 DEF WaitInv

LEMMA AddSnortInstanceStep ==
  ASSUME ManagerTypeOK, MapsInv, WaitInv, NEW ip \in Ips, AddSnortInstance(ip)
  PROVE  ManagerTypeOK' /\ MapsInv' /\ WaitInv'
<1>1. /\ pendingSnort' = pendingSnort \cup {ip} /\ UNCHANGED <<host, block, history, strayed>>
      /\ host[ip] \in Places \cup {Nowhere} /\ pendingSnort' \subseteq Ips
  BY DEF AddSnortInstance, Announce, ManagerTypeOK
<1>2. CASE host[ip] = Nowhere
  <2>1. UNCHANGED <<mapped, snortPorts, tunnel, dup, send, pendingMirror, pendingRedirect, blocked, repeated>>
    BY <1>1, <1>2 DEF AddSnortInstance, Announce, waiting, history
  <2>2. ManagerTypeOK'
    BY <1>1, <2>1 DEF ManagerTypeOK
  <2>3. MapsInv'
    BY <1>1, <2>1 DEF MapsInv, KnownIsMapped, Known, TunnelsLive, Apart, InPlace, DupExact
  <2>4. WaitInv'
    BY <2>1 DEF WaitInv, NothingWaitsAtSnort, OnceEach, BlockedIsForgotten, Known
  <2>5. QED
    BY <2>2, <2>3, <2>4
<1>3. CASE host[ip] \in Places
  <2> DEFINE d == host[ip][1]  p == host[ip][2]
  <2>1. d \in Switches /\ p \in Ports /\ host[ip] = <<d, p>> /\ Connect(ip, d, p)
    BY <1>3, PlacesArePairs DEF AddSnortInstance, Announce
  <2>2. host' \in [Ips -> Places \cup {Nowhere}] /\ strayed' \in BOOLEAN /\ (strayed => strayed')
    BY <1>1 DEF ManagerTypeOK
  <2>3. ~strayed' => Apart'
    BY <1>1 DEF MapsInv, Apart
  <2> HIDE DEF d, p
  <2>4. QED
    BY <1>1, <1>3, <2>1, <2>2, <2>3, ConnectStep
<1>4. QED
  BY <1>1, <1>2, <1>3

LEMMA HostAddedStep ==
  ASSUME ManagerTypeOK, MapsInv, WaitInv, NEW ip \in Ips, HostAdded(ip)
  PROVE  ManagerTypeOK' /\ MapsInv' /\ WaitInv'
<1>1. PICK place \in Places :
        /\ host[ip] = Nowhere /\ host' = [host EXCEPT ![ip] = place]
        /\ strayed' = (strayed \/ place \in InUse)
        /\ IF ip \in pendingSnort THEN Announce(ip, place) ELSE UNCHANGED <<instances, waiting, send>>
        /\ UNCHANGED <<block, history>>
  BY DEF HostAdded
<1>2. /\ host' \in [Ips -> Places \cup {Nowhere}] /\ host'[ip] = place
      /\ \A j \in Ips \ {ip} : host'[j] = host[j]
      /\ place # Nowhere /\ strayed' \in BOOLEAN /\ (strayed => strayed')
  BY <1>1, PlacesArePairs DEF ManagerTypeOK
<1>3. ASSUME ~strayed' PROVE Apart' /\ Apart /\ InPlace /\ DupExact
  <2>1. ~strayed /\ place \notin InUse
    BY <1>1, <1>3
  <2>2. Apart /\ InPlace /\ DupExact
    BY <2>1 DEF MapsInv
  <2>3. \A j \in Ips : host[j] # place
    BY <1>2, <2>1 DEF InUse
  <2>4. Apart'
    BY <1>2, <2>2, <2>3 DEF Apart
  <2>5. QED
    BY <2>2, <2>4
<1>4. CASE ip \in pendingSnort
  <2> DEFINE d == place[1]  p == place[2]
  <2>1. d \in Switches /\ p \in Ports /\ place = <<d, p>>
    BY PlacesArePairs
  <2>2. Connect(ip, d, p) /\ pendingSnort' \subseteq Ips
    BY <1>1, <1>2, <1>4 DEF Announce, ManagerTypeOK
  <2> HIDE DEF d, p
  <2>3. QED
    BY <1>1, <1>2, <1>3, <2>1, <2>2, ConnectStep
<1>5. CASE ip \notin pendingSnort
  <2>1. /\ UNCHANGED <<pendingSnort, mapped, snortPorts, tunnel, dup, send, pendingMirror, pendingRedirect>>
        /\ UNCHANGED <<block, blocked, repeated>>
    BY <1>1, <1>5 DEF instances, waiting, history
  <2>2. ManagerTypeOK'
    BY <1>2, <2>1 DEF ManagerTypeOK
  <2>3. ASSUME ~strayed' PROVE InPlace' /\ DupExact'
    <3>1. InPlace'
      BY <1>1, <1>2, <1>3, <2>1, <2>3, PlacesArePairs DEF InPlace
    <3>2. DupExact'
      BY <1>3, <2>1, <2>3 DEF DupExact
    <3>3. QED
      BY <3>1, <3>2
  <2>4. MapsInv'
    BY <1>3, <2>1, <2>3 DEF MapsInv, KnownIsMapped, Known, TunnelsLive
  <2>5. WaitInv'
    BY <2>1 DEF WaitInv, NothingWaitsAtSnort, OnceEach, BlockedIsForgotten, Known
  <2>6. QED
    BY <2>2, <2>4, <2>5
<1>6. QED
  BY <1>4, <1>5

LEMMA HostMovedStep ==
  ASSUME ManagerTypeOK, MapsInv, WaitInv, NEW ip \in Ips, HostMoved(ip)
  PROVE  ManagerTypeOK' /\ MapsInv' /\ WaitInv'
<1>1. /\ UNCHANGED <<pendingSnort, mapped, snortPorts, tunnel, dup, send, pendingMirror, pendingRedirect>>
      /\ UNCHANGED <<block, blocked, repeated>> /\ strayed' = TRUE
      /\ host' \in [Ips -> Places \cup {Nowhere}]
  BY DEF HostMoved, instances, waiting, history, ManagerTypeOK
<1>2. ManagerTypeOK'
  BY <1>1 DEF ManagerTypeOK
<1>3. MapsInv'
  BY <1>1 DEF MapsInv, KnownIsMapped, Known, TunnelsLive
<1>4. WaitInv'
  BY <1>1 DEF WaitInv, NothingWaitsAtSnort, OnceEach, BlockedIsForgotten, Known
<1>5. QED
  BY <1>2, <1>3, <1>4

(* An instance that goes: its block goes with it, and those of the others    *)
(* stay, as no two are at one port.                                          *)
LEMMA RemoveSnortInstanceStep ==
  ASSUME ManagerTypeOK, MapsInv, WaitInv, NEW ip \in Ips, RemoveSnortInstance(ip)
  PROVE  ManagerTypeOK' /\ MapsInv' /\ WaitInv'
<1>1. /\ dup' = dup \ Blocks(ip) /\ tunnel' = Untunnelled(ip) /\ pendingSnort' = pendingSnort \ {ip}
      /\ snortPorts' = [d \in Switches |-> [snortPorts[d] EXCEPT ![ip] = Nowhere]]
      /\ UNCHANGED <<host, mapped, pendingMirror, pendingRedirect, send, block, blocked, repeated, strayed>>
  BY DEF RemoveSnortInstance, waiting, history
<1>2. /\ snortPorts' \in [Switches -> [Ips -> Ports \cup {Nowhere}]]
      /\ \A d \in Switches : \A j \in Ips :
           snortPorts'[d][j] = IF j = ip THEN Nowhere ELSE snortPorts[d][j]
  <2>1. \A d \in Switches : /\ snortPorts'[d] \in [Ips -> Ports \cup {Nowhere}]
                            /\ \A j \in Ips : snortPorts'[d][j] = IF j = ip THEN Nowhere ELSE snortPorts[d][j]
    BY <1>1 DEF ManagerTypeOK
  <2>2. QED
    BY <1>1, <2>1
<1>3. /\ tunnel' \in [Switches -> Ports \cup {Nowhere}]
      /\ \A d \in Switches : tunnel'[d] = IF ip \in Known(d) THEN Nowhere ELSE tunnel[d]
  BY <1>1 DEF Untunnelled, ManagerTypeOK
<1>4. ManagerTypeOK'
  BY <1>1, <1>2, <1>3 DEF ManagerTypeOK
<1>5. \A d \in Switches : Known(d)' \subseteq Known(d)
  BY <1>2 DEF Known
<1>6. KnownIsMapped'
  BY <1>1, <1>5 DEF MapsInv, KnownIsMapped
<1>7. TunnelsLive'
  <2>1. ASSUME NEW d \in Switches, tunnel'[d] # Nowhere PROVE \E j \in Ips : snortPorts'[d][j] = tunnel'[d]
    <3>1. ip \notin Known(d) /\ tunnel'[d] = tunnel[d]
      BY <1>3, <2>1
    <3>2. PICK j \in Ips : snortPorts[d][j] = tunnel[d]
      BY <2>1, <3>1 DEF MapsInv, TunnelsLive
    <3>3. j # ip
      BY <2>1, <3>1, <3>2 DEF Known
    <3>4. QED
      BY <1>2, <3>1, <3>2, <3>3
  <2>2. QED
    BY <2>1 DEF TunnelsLive
<1>8. ASSUME ~strayed' PROVE Apart' /\ InPlace' /\ DupExact'
  <2>1. Apart /\ InPlace /\ DupExact
    BY <1>1, <1>8 DEF MapsInv
  <2>2. Apart' /\ InPlace'
    BY <1>1, <1>2, <2>1 DEF Apart, InPlace
  <2>3. ASSUME NEW place \in Places
        PROVE  place \in dup' <=> \E j \in Ips : snortPorts'[place[1]][j] = place[2]
    <3>1. place[1] \in Switches /\ place[2] \in Ports /\ place = <<place[1], place[2]>> /\ place[2] # Nowhere
      BY PlacesArePairs, ManagerAssumption DEF ManagerAssumption
    <3>2. place \in dup <=> \E j \in Ips : snortPorts[place[1]][j] = place[2]
      BY <2>1 DEF DupExact
    <3>3. place \in Blocks(ip) <=> snortPorts[place[1]][ip] = place[2]
      <4>1. ASSUME place \in Blocks(ip) PROVE snortPorts[place[1]][ip] = place[2]
        <5>1. PICK d \in mapped : place = <<d, snortPorts[d][ip]>>
          BY <4>1 DEF Blocks
        <5>2. QED
          BY <5>1
      <4>2. ASSUME snortPorts[place[1]][ip] = place[2] PROVE place \in Blocks(ip)
        <5>1. ip \in Known(place[1])
          BY <3>1, <4>2 DEF Known
        <5>2. place[1] \in mapped
          BY <3>1, <5>1 DEF MapsInv, KnownIsMapped
        <5>3. QED
          BY <3>1, <4>2, <5>2 DEF Blocks
      <4>3. QED
        BY <4>1, <4>2
    <3>4. \A j \in Ips : (snortPorts[place[1]][j] = place[2] /\ snortPorts[place[1]][ip] = place[2]) => j = ip
      <4>1. ASSUME NEW j \in Ips, snortPorts[place[1]][j] = place[2], snortPorts[place[1]][ip] = place[2]
            PROVE  j = ip
        <5>1. host[j] = place /\ host[ip] = place
          BY <2>1, <3>1, <4>1 DEF InPlace
        <5>2. QED
          BY <2>1, <5>1, PlacesArePairs DEF Apart
      <4>2. QED
        BY <4>1
    <3>5. \A j \in Ips : snortPorts'[place[1]][j] = place[2] <=> (j # ip /\ snortPorts[place[1]][j] = place[2])
      BY <1>2, <3>1
    <3>6. QED
      BY <1>1, <3>2, <3>3, <3>4, <3>5
  <2>4. QED
    BY <2>2, <2>3 DEF DupExact
<1>9. WaitInv'
  BY <1>1, <1>5 DEF WaitInv, NothingWaitsAtSnort, OnceEach, BlockedIsForgotten
<1>10. QED
  BY <1>4, <1>6, <1>7, <1>8, <1>9 DEF MapsInv

LEMMA ClearSnortInstancesStep ==
  ASSUME ManagerTypeOK, MapsInv, WaitInv, ClearSnortInstances
  PROVE  ManagerTypeOK' /\ MapsInv' /\ WaitInv'
<1>1. /\ dup' = dup \ UNION {Blocks(ip) : ip \in Ips}
      /\ mapped' = {} /\ pendingSnort' = {}
      /\ snortPorts' = [d \in Switches |-> [ip \in Ips |-> Nowhere]]
      /\ tunnel' = [d \in Switches |-> Nowhere]
      /\ UNCHANGED <<host, pendingMirror, pendingRedirect, send, block, blocked, repeated, strayed>>
  BY DEF ClearSnortInstances, waiting, history
<1>2. /\ \A d \in Switches : \A ip \in Ips : snortPorts'[d][ip] = Nowhere
      /\ \A d \in Switches : tunnel'[d] = Nowhere /\ Known(d)' = {}
  BY <1>1 DEF Known
<1>3. ManagerTypeOK'
  BY <1>1 DEF ManagerTypeOK
<1>4. ASSUME ~strayed' PROVE Apart' /\ InPlace' /\ DupExact'
  <2>1. Apart /\ InPlace /\ DupExact
    BY <1>1, <1>4 DEF MapsInv
  <2>2. ASSUME NEW place \in Places
        PROVE  /\ place \notin dup'
               /\ ~ \E ip \in Ips : snortPorts'[place[1]][ip] = place[2]
    <3>1. place[1] \in Switches /\ place[2] \in Ports /\ place = <<place[1], place[2]>> /\ place[2] # Nowhere
      BY PlacesArePairs, ManagerAssumption DEF ManagerAssumption
    <3>2. ASSUME place \in dup PROVE \E ip \in Ips : place \in Blocks(ip)
      <4>1. PICK ip \in Ips : snortPorts[place[1]][ip] = place[2]
        BY <2>1, <3>2 DEF DupExact
      <4>2. place[1] \in mapped
        BY <3>1, <4>1 DEF MapsInv, KnownIsMapped, Known
      <4>3. QED
        BY <3>1, <4>1, <4>2 DEF Blocks
    <3>3. QED
      BY <1>1, <1>2, <3>1, <3>2
  <2>3. QED
    BY <1>1, <1>2, <2>1, <2>2 DEF Apart, InPlace, DupExact
<1>5. KnownIsMapped' /\ TunnelsLive'
  BY <1>2 DEF KnownIsMapped, TunnelsLive
<1>6. WaitInv'
  BY <1>1, <1>2 DEF WaitInv, NothingWaitsAtSnort, OnceEach, BlockedIsForgotten
<1>7. QED
  BY <1>3, <1>4, <1>5, <1>6 DEF MapsInv
-----------------------------------------------------------------------------
LEMMA ManagerInitOK == ASSUME ManagerInit PROVE ManagerTypeOK /\ MapsInv /\ WaitInv
<1>1. \A d \in Switches : /\ Known(d) = {} /\ pendingMirror[d] = Nobody /\ pendingRedirect[d] = Nobody
                          /\ \A ip \in Ips : snortPorts[d][ip] = Nowhere
  BY DEF ManagerInit, Known
<1>2. \A s \in Selectors : Nobody[s] = 0
  BY DEF Nobody
<1>3. ManagerTypeOK
  BY DEF ManagerInit, ManagerTypeOK, Nobody, Sends
<1>4. \A place \in Places : ~ \E ip \in Ips : snortPorts[place[1]][ip] = place[2]
  BY <1>1, PlacesArePairs, ManagerAssumption DEF ManagerAssumption
<1>5. MapsInv
  BY <1>1, <1>4 DEF ManagerInit, MapsInv, KnownIsMapped, TunnelsLive, Apart, InPlace, DupExact
<1>6. WaitInv
  BY <1>1, <1>2 DEF ManagerInit, WaitInv, NothingWaitsAtSnort, OnceEach, BlockedIsForgotten
<1>7. QED
  BY <1>3, <1>5, <1>6

LEMMA ManagerStep ==
  ASSUME ManagerTypeOK, MapsInv, WaitInv, [ManagerNext]_managerVars
  PROVE  ManagerTypeOK' /\ MapsInv' /\ WaitInv'
<1>1. CASE UNCHANGED managerVars
  <2>1. /\ Unmoved /\ UNCHANGED <<pendingMirror, pendingRedirect, send, block, blocked, repeated>>
    BY <1>1 DEF managerVars, instances, waiting, history, Unmoved
  <2>2. ManagerTypeOK'
    BY <2>1 DEF ManagerTypeOK, Unmoved
  <2>3. WaitInv'
    BY <2>1 DEF WaitInv, NothingWaitsAtSnort, OnceEach, BlockedIsForgotten, Known, Unmoved
  <2>4. QED
    BY <2>1, <2>2, <2>3, UnmovedMaps
<1>2. QED
  BY <1>1, AddSnortInstanceStep, RemoveSnortInstanceStep, HostAddedStep, HostMovedStep,
     ClearSnortInstancesStep, AddMirrorStep, DeleteMirrorStep, AddRedirectStep, DeleteRedirectStep,
     AddBlockStep, DeleteBlockStep, ExpireStep
     DEF ManagerNext, Request

LEMMA ManagerInvariant == ManagerSpec => [](ManagerTypeOK /\ MapsInv /\ WaitInv)
BY ManagerInitOK, ManagerStep, PTL DEF ManagerSpec

(* The maps, lists and rules of SnortManager keep their types, for any       *)
(* switches, hosts and requests.                                             *)
THEOREM ManagerTypes == ManagerSpec => []ManagerTypeOK
BY ManagerInvariant, PTL

(* A request does not wait where an instance is connected, and a blocked     *)
(* flow is not sent and waits for nothing (addMirrorRule, addRedirectRule,   *)
(* addBlockRule and addSnortInstance).                                       *)
THEOREM NothingWaitsForNothing == ManagerSpec => []NothingWaitsInVain
<1>1. WaitInv => NothingWaitsInVain
  BY DEF WaitInv, NothingWaitsInVain
<1>2. QED
  BY <1>1, ManagerInvariant, PTL

(* A tunnel ends where a known instance is, and the blocks of what comes     *)
(* back are exactly those of the instances, until a host moves               *)
(* (addSnortInstance, removeSnortInstance, clearSnortInstances).             *)
THEOREM InstancesAgree == ManagerSpec => []InstanceMapsAgree
<1>1. MapsInv => InstanceMapsAgree
  BY DEF MapsInv, TunnelsLive, DupExact, InstanceMapsAgree
<1>2. QED
  BY <1>1, ManagerInvariant, PTL
=============================================================================
