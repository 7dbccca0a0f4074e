---------------------------- MODULE SnortTunnel ----------------------------
(***************************************************************************)
(* The tunnels of the snort application: each switch has a group that      *)
(* sends what was tagged for Snort one hop nearer to the nearest switch    *)
(* with an instance. snortHops and the groups are shared by the thread     *)
(* that delivers device events and by the requests that add and remove     *)
(* instances; nothing synchronises them. setupSnortTunnel, a breadth-first *)
(* walk, is modelled one link at a time, so that two walks interleave.     *)
(*                                                                         *)
(* Links are those of linkService; each is known in both directions. A     *)
(* change of the devices and the delivery of its event are one step.       *)
(***************************************************************************)
EXTENDS Integers, Sequences, FiniteSets

CONSTANTS
  Devices,   \* the switches
  None,      \* no group bucket, no device
  Snort,     \* the bucket that outputs to the instance's port
  Relinks    \* whether links come and go

ASSUME TunnelAssumption ==
  /\ IsFiniteSet(Devices) /\ Relinks \in BOOLEAN
  /\ None \notin Devices /\ Snort \notin Devices /\ None # Snort

VARIABLES
  devices,   \* deviceService
  links,     \* linkService: pairs of switches
  snorts,    \* the keys of snortPorts
  hops,      \* snortHops; -1 also where the map has no key
  group,     \* the bucket of group 500: the next switch, Snort or None
  todo,      \* the keys the event in progress has yet to set up
  changed,   \* whether a key came or went since its iterator was made
  walk,      \* thread -> the walk it is on, its local variables, or Resting
  steady,    \* history: since the last reset no instance and no link has gone
             \* or come unseen, and no request has overlapped an event
  overlapped \* history: an event or an added instance has ever begun in the
             \* midst of another

tables == <<hops, group>>
vars == <<devices, links, snorts, tables, todo, changed, walk, steady, overlapped>>

Threads == {"event", "rest"}
Pairs(ds) == {l \in SUBSET ds : Cardinality(l) = 2}
Neighbours(d) == {e \in devices : {d, e} \in links}

(* The locals: known, seen: the keys of seenDevices, and those that are true; *)
(* queue: deviceLinksToLookAt; current: currentDeviceId; left: where those    *)
(* of its links lead that are not looked at yet.                              *)
Resting == [known |-> {}, seen |-> {}, queue |-> <<>>, current |-> None, left |-> {}]
Walks == [known : SUBSET Devices, seen : SUBSET Devices, queue : Seq(Devices),
          current : Devices \cup {None}, left : SUBSET Devices]
Settled(w) == IF w.queue = <<>> /\ w.left = {} THEN Resting ELSE w

Idle(t) == walk[t] = Resting
Quiet == todo = {} /\ \A t \in Threads : Idle(t)
Overlaps == overlapped' = (overlapped \/ ~Quiet)

Init ==
  /\ devices \in SUBSET Devices /\ links \in SUBSET Pairs(devices)
  /\ snorts = {} /\ todo = {} /\ changed = FALSE
  /\ steady = TRUE /\ overlapped = FALSE
  /\ hops = [d \in Devices |-> -1] /\ group = [d \in Devices |-> None]
  /\ walk = [t \in Threads |-> Resting]
-----------------------------------------------------------------------------
(* setupSnortTunnel, up to the loop: this switch sends to its own port.      *)
Begin(t, d) ==
  /\ hops' = [hops EXCEPT ![d] = 0]
  /\ group' = [group EXCEPT ![d] = Snort]
  /\ walk' = [walk EXCEPT ![t] = [Resting EXCEPT !.known = devices, !.queue = <<d>>]]

(* The loop takes the next switch and the links it has at this moment.       *)
Dequeue(t) ==
  LET w == walk[t]
  IN  /\ w.queue # <<>> /\ w.left = {}
      /\ walk' = [walk EXCEPT ![t] =
                    Settled([w EXCEPT !.queue = Tail(@), !.current = Head(w.queue),
                                      !.left = Neighbours(Head(w.queue))])]
      /\ UNCHANGED <<devices, links, snorts, tables, todo, changed, steady, overlapped>>

OneLess(h) == h - 1
OneMore(h) == h + 1
NearerAnyway(new, old) == TRUE
NearerUnset(new, old) == old = -1
Nearer(new, old) == old = -1 \/ old > new

Look(t, d) ==
  LET w    == walk[t]
      new  == OneMore(hops[w.current])
      take == d \notin w.seen /\ Nearer(new, hops[d])
      on   == [w EXCEPT !.left = @ \ {d}, !.seen = @ \cup {d}]
  IN  /\ d \in w.left \cap w.known
      /\ IF take
         THEN /\ hops' = [hops EXCEPT ![d] = new]
              /\ group' = [group EXCEPT ![d] = w.current]
              /\ walk' = [walk EXCEPT ![t] = [on EXCEPT !.queue = Append(@, d)]]
         ELSE walk' = [walk EXCEPT ![t] = Settled(on)] /\ UNCHANGED tables
      /\ UNCHANGED <<devices, links, snorts, todo, changed, steady, overlapped>>

(* seenDevices has no entry for a switch that came since: the walk raises.   *)
Raise(t, d) ==
  /\ d \in walk[t].left \ walk[t].known
  /\ walk' = [walk EXCEPT ![t] = Resting]
  /\ todo' = IF t = "event" THEN {} ELSE todo
  /\ steady' = FALSE
  /\ UNCHANGED <<devices, links, snorts, tables, changed, overlapped>>
-----------------------------------------------------------------------------
(* event: forget the distances, then set up each switch with an instance.    *)
Reset(ds, ss) ==
  /\ Idle("event") /\ todo = {} /\ Overlaps
  /\ devices' = ds
  /\ links' = links \cap Pairs(ds)
  /\ snorts' = ss
  /\ hops' = [d \in Devices |-> IF d \in ds THEN -1 ELSE hops[d]]
  /\ todo' = ss /\ changed' = FALSE /\ steady' = Idle("rest")
  /\ UNCHANGED <<group, walk>>

DeviceAdded(d) == d \notin devices /\ Reset(devices \cup {d}, snorts)
DeviceRemoved(d) == d \in devices /\ Reset(devices \ {d}, snorts \ {d})
PortRemoved(d) == d \in devices /\ \E ss \in {snorts, snorts \ {d}} : Reset(devices, ss)

NextKey(d) ==
  /\ d \in todo /\ Idle("event") /\ ~changed
  /\ todo' = todo \ {d}
  /\ Begin("event", d)
  /\ UNCHANGED <<devices, links, snorts, changed, steady, overlapped>>

(* A key that came or went ends the iteration with an exception.             *)
IterationFails ==
  /\ todo # {} /\ Idle("event") /\ changed
  /\ todo' = {} /\ steady' = FALSE
  /\ UNCHANGED <<devices, links, snorts, tables, changed, walk, overlapped>>
-----------------------------------------------------------------------------
AddSnort(d) ==
  /\ Idle("rest") /\ d \in devices /\ Overlaps
  /\ snorts' = snorts \cup {d}
  /\ changed' = (changed \/ d \notin snorts)
  /\ Begin("rest", d)
  /\ steady' = (steady /\ Quiet)
  /\ UNCHANGED <<devices, links, todo>>

(* removeSnort, clearSnort: only the keys go. *)
RemoveSnort(d) ==
  /\ Idle("rest") /\ d \in snorts
  /\ snorts' = snorts \ {d} /\ changed' = TRUE /\ steady' = FALSE
  /\ UNCHANGED <<devices, links, tables, todo, walk, overlapped>>

ClearSnort ==
  /\ Idle("rest")
  /\ snorts' = {} /\ changed' = TRUE /\ steady' = (steady /\ snorts = {})
  /\ UNCHANGED <<devices, links, tables, todo, walk, overlapped>>

(* The application does not listen to links. *)
LinkChanges(l) ==
  /\ Relinks /\ l \in Pairs(devices)
  /\ links' = (links \ {l}) \cup ({l} \ links)
  /\ steady' = FALSE
  /\ UNCHANGED <<devices, snorts, tables, todo, changed, walk, overlapped>>

Next ==
  \/ \E d \in Devices : \/ DeviceAdded(d) \/ DeviceRemoved(d) \/ PortRemoved(d)
                        \/ NextKey(d) \/ AddSnort(d) \/ RemoveSnort(d)
                        \/ \E t \in Threads : Look(t, d) \/ Raise(t, d)
  \/ \E t \in Threads : Dequeue(t)
  \/ IterationFails \/ ClearSnort
  \/ \E l \in Pairs(Devices) : LinkChanges(l)

Spec == Init /\ [][Next]_vars
-----------------------------------------------------------------------------
TypeOK ==
  /\ devices \subseteq Devices /\ links \subseteq Pairs(devices)
  /\ snorts \subseteq devices
  /\ todo \subseteq Devices
  /\ hops \in [Devices -> Nat \cup {-1}]
  /\ group \in [Devices -> Devices \cup {None, Snort}]
  /\ {changed, steady, overlapped} \subseteq BOOLEAN
  /\ walk \in [Threads -> Walks]

(* "Setup VLAN redirect to Snort on nearest device" (SnortTunnel.java:103):  *)
(* the hops of every switch are its distance to the nearest instance: 0      *)
(* exactly at an instance, one more than the least of the neighbours', and   *)
(* -1 where no instance can be reached. This holds whenever the last event   *)
(* and the requests since did not overlap and no instance or link has        *)
(* changed behind the walks, whatever races came before: one event repairs   *)
(* them; and the group of each switch leads one hop nearer, along a link.     *)
AreDistances ==
  \A d \in devices :
    /\ hops[d] = 0 <=> d \in snorts
    /\ hops[d] > 0 => \E e \in Neighbours(d) : hops[e] = hops[d] - 1
    /\ \A e \in Neighbours(d) : hops[e] >= 0 => hops[d] \in 0 .. hops[e] + 1

GroupsFollow ==
  \A d \in devices :
    /\ hops[d] = 0 => group[d] = Snort
    /\ hops[d] > 0 => group[d] \in Neighbours(d) /\ hops[group[d]] = hops[d] - 1

TunnelsLeadToSnort == (steady /\ Quiet) => AreDistances /\ GroupsFollow

(* No set of switches passes tagged packets round among themselves.          *)
LoopFree == \A ds \in SUBSET Devices : ds # {} => \E d \in ds : group[d] \notin ds

(* Whatever devices, links and instances come and go, and in the midst of    *)
(* every walk, the groups make no loop as long as no event and no added      *)
(* instance has begun in the midst of another.                               *)
NoForwardingLoop == ~overlapped => LoopFree
=============================================================================
