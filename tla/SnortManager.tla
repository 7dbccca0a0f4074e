---------------------------- MODULE SnortManager ----------------------------
(***************************************************************************)
(* The snort application of the controller (onos-tennison-apps/snort):     *)
(* which Snort instances are known and where, the flow rules that send     *)
(* traffic to them (mirror, redirect), the rules that block it, and the    *)
(* requests that wait for an instance to appear. The requests arrive over  *)
(* MervynApi, whose timeouts are 20 s for a mirror, 30 s for a block and   *)
(* none for a redirect; hosts appear and move on their own.                *)
(*                                                                         *)
(* Each request and each host event is one action. A rule of ONOS is       *)
(* identified by its device, table, priority and selector: a mirror and a  *)
(* redirect of the same selector share table, priority and so identity.    *)
(***************************************************************************)
EXTENDS Integers, FiniteSets

CONSTANTS
  Switches,      \* the switches
  Ports,        \* port numbers of a switch
  Places,       \* where hosts are attached: pairs of a switch and a port
  Ips,          \* addresses of Snort instances
  Selectors,    \* the 5-tuples the requests are about
  Nowhere,      \* neither a place nor a port
  MaxOther,     \* bound: entries of other applications that match a selector
  MaxPending    \* bound: times a selector waits at a switch

ASSUME ManagerAssumption ==
  /\ IsFiniteSet(Switches) /\ Switches # {}
  /\ Places \subseteq Switches \X Ports
  /\ MaxOther \in Nat /\ MaxPending \in Nat
  /\ Nowhere \notin Places \cup Ports

VARIABLES
  host,         \* hostService: address -> <<device, port>>, or Nowhere
  pendingSnort, \* addresses announced by /snort/add
  mapped,       \* keys of snortPorts: devices with an inner map
  snortPorts,   \* device -> address -> port, or Nowhere
  tunnel,       \* SnortTunnel.snortPorts: device -> port, or Nowhere
  dup,          \* duplication blocks installed: <<device, port>>
  pendingMirror,   \* device -> selector -> how often it waits in the list
  pendingRedirect,
  send,         \* device -> selector -> the rule in TUNNEL_TABLE
  block,        \* device -> selectors blocked in BLOCK_TABLE
  blocked,      \* history: selectors whose last request was a block that did not raise
  repeated,     \* history: selectors that were twice in one list
  strayed       \* history: whether a host has moved or come to a port in use

instances == <<pendingSnort, mapped, snortPorts, tunnel, dup>>
waiting   == <<pendingMirror, pendingRedirect>>
history   == <<blocked, repeated>>
managerVars == <<host, instances, waiting, send, block, history, strayed>>

(* "mirror" and "redirect 10" are temporary rules, "redirect" is permanent. *)
Sends == {"none", "mirror", "redirect", "redirect 10"}
Temporary == {"mirror", "redirect 10"}

Nobody == [s \in Selectors |-> 0]
Known(d) == {ip \in Ips : snortPorts[d][ip] # Nowhere}

ManagerInit ==
  /\ host = [ip \in Ips |-> Nowhere]
  /\ pendingSnort = {} /\ mapped = {}
  /\ snortPorts = [d \in Switches |-> [ip \in Ips |-> Nowhere]]
  /\ tunnel = [d \in Switches |-> Nowhere] /\ dup = {}
  /\ pendingMirror = [d \in Switches |-> Nobody]
  /\ pendingRedirect = [d \in Switches |-> Nobody]
  /\ send = [d \in Switches |-> [s \in Selectors |-> "none"]]
  /\ block = [d \in Switches |-> {}]
  /\ blocked = {} /\ repeated = {} /\ strayed = FALSE
-----------------------------------------------------------------------------
(* The flow entries of the switches: a switch lists a selector once for each *)
(* entry that matches it, the rules of this application among them.          *)
Own(d, s) == (IF send[d][s] # "none" THEN 1 ELSE 0) + (IF s \in block[d] THEN 1 ELSE 0)
Matching(s) == {[d \in Switches |-> Own(d, s) + other[d]] : other \in [Switches -> 0 .. MaxOther]}

(* getSuitableSnortDevices, else getSuitableDevices, else every switch.      *)
Targets(m) ==
  LET seen == {d \in Switches : m[d] > 0}
  IN  IF seen \cap mapped # {} THEN seen \cap mapped
      ELSE IF seen # {} THEN seen ELSE Switches
Times(m, d) == IF m[d] > 0 THEN m[d] ELSE 1

(* getSnortPort takes element 0 of the device's inner map: it raises where   *)
(* the map is empty, and the request ends at that device. The devices done   *)
(* before it are any of the others.                                          *)
Emptied == {d \in mapped : Known(d) = {}}
Reached(ds) == IF ds \cap Emptied = {} THEN {ds} ELSE SUBSET (ds \ Emptied)
Raises(ds)  == ds \cap Emptied # {}

Outcome(s, request, raises) ==
  /\ blocked' = IF request = "block" /\ ~raises THEN blocked \cup {s} ELSE blocked \ {s}
  /\ UNCHANGED strayed
-----------------------------------------------------------------------------
(* addSnortInstance: record the port, block what comes back from it, point   *)
(* the tunnels at it, and install with a 10 s timeout what was waiting.      *)
Flush(rule, rules, queue) ==
  [s \in Selectors |-> IF queue[s] > 0 THEN rule ELSE rules[s]]

Connect(ip, d, p) ==
  /\ mapped' = mapped \cup {d}
  /\ snortPorts' = [snortPorts EXCEPT ![d][ip] = p]
  /\ dup' = dup \cup {<<d, p>>}
  /\ tunnel' = [tunnel EXCEPT ![d] = p]
  /\ send' = [send EXCEPT ![d] =
                Flush("redirect 10", Flush("mirror", @, pendingMirror[d]), pendingRedirect[d])]
  /\ pendingMirror' = [pendingMirror EXCEPT ![d] = Nobody]
  /\ pendingRedirect' = [pendingRedirect EXCEPT ![d] = Nobody]

Announce(ip, place) ==
  /\ pendingSnort' = pendingSnort \cup {ip}
  /\ IF place = Nowhere
     THEN UNCHANGED <<mapped, snortPorts, tunnel, dup, send, waiting>>
     ELSE Connect(ip, place[1], place[2])

AddSnortInstance(ip) ==
  /\ Announce(ip, host[ip])
  /\ UNCHANGED <<host, block, history, strayed>>

InUse == {host[ip] : ip \in Ips} \ {Nowhere}

(* event: a host appears; only HOST_ADDED is looked at. *)
HostAdded(ip) ==
  /\ host[ip] = Nowhere
  /\ \E place \in Places :
       /\ host' = [host EXCEPT ![ip] = place]
       /\ strayed' = (strayed \/ place \in InUse)
       /\ IF ip \in pendingSnort THEN Announce(ip, place)
          ELSE UNCHANGED <<instances, waiting, send>>
  /\ UNCHANGED <<block, history>>

HostMoved(ip) ==
  /\ host[ip] # Nowhere
  /\ \E place \in Places \cup {Nowhere} :
       place # host[ip] /\ host' = [host EXCEPT ![ip] = place]
  /\ strayed' = TRUE
  /\ UNCHANGED <<instances, waiting, send, block, history>>

(* The blocks that go with an instance, as far as its current port tells. *)
BlocksNone(ip) == {}
Blocks(ip) == {<<d, snortPorts[d][ip]>> : d \in {x \in mapped : snortPorts[x][ip] # Nowhere}}

Untunnelled(ip) == [d \in Switches |-> IF ip \in Known(d) THEN Nowhere ELSE tunnel[d]]

(* removeSnortInstance: the inner map stays, even when it is empty. *)
RemoveSnortInstance(ip) ==
  /\ dup' = dup \ Blocks(ip)
  /\ snortPorts' = [d \in Switches |-> [snortPorts[d] EXCEPT ![ip] = Nowhere]]
  /\ tunnel' = Untunnelled(ip)
  /\ pendingSnort' = pendingSnort \ {ip}
  /\ UNCHANGED <<host, mapped, waiting, send, block, history, strayed>>

ClearSnortInstances ==
  /\ dup' = dup \ UNION {Blocks(ip) : ip \in Ips}
  /\ mapped' = {} /\ pendingSnort' = {}
  /\ snortPorts' = [d \in Switches |-> [ip \in Ips |-> Nowhere]]
  /\ tunnel' = [d \in Switches |-> Nowhere]
  /\ UNCHANGED <<host, waiting, send, block, history, strayed>>
-----------------------------------------------------------------------------
(* addMirrorRule and addRedirectRule install the rule on every target, and   *)
(* where no instance is known leave the selector waiting as well, once for   *)
(* each time the switch is listed.                                           *)
WaitAnyway(queue, s, m, ds) ==
  [d \in Switches |-> IF d \in ds THEN [queue[d] EXCEPT ![s] = @ + Times(m, d)] ELSE queue[d]]
Wait(queue, s, m, ds) ==
  [d \in Switches |-> IF d \in ds \ mapped
                     THEN [queue[d] EXCEPT ![s] = @ + Times(m, d)] ELSE queue[d]]

RoomFor(queue) == \A d \in Switches : \A s \in Selectors : queue[d][s] <= MaxPending
Twice(queue) == {s \in Selectors : \E d \in Switches : queue[d][s] > 1}

Install(s, rule, ds) ==
  send' = [d \in Switches |-> IF d \in ds THEN [send[d] EXCEPT ![s] = rule] ELSE send[d]]

AddMirror(s) ==
  \E m \in Matching(s) : \E ds \in Reached(Targets(m)) :
    /\ Install(s, "mirror", ds)
    /\ pendingMirror' = Wait(pendingMirror, s, m, ds)
    /\ RoomFor(pendingMirror')
    /\ repeated' = repeated \cup Twice(pendingMirror')
    /\ Outcome(s, "mirror", Raises(Targets(m)))
    /\ UNCHANGED <<host, instances, pendingRedirect, block>>

AddRedirect(s) ==
  \E m \in Matching(s) : \E ds \in Reached(Targets(m)) :
    /\ Install(s, "redirect", ds)
    /\ pendingRedirect' = Wait(pendingRedirect, s, m, ds)
    /\ RoomFor(pendingRedirect')
    /\ repeated' = repeated \cup Twice(pendingRedirect')
    /\ Outcome(s, "redirect", Raises(Targets(m)))
    /\ UNCHANGED <<host, instances, pendingMirror, block>>

(* deleteMirrorRule, deleteRedirectRule: at every switch remove the rule of  *)
(* that identity, and the first copy of the selector that waits there.       *)
ForgetNone(queue, s, ds) == queue
ForgetBlindly(queue, s, ds) ==
  [d \in Switches |-> IF d \in ds THEN [queue[d] EXCEPT ![s] = @ - 1] ELSE queue[d]]
Forget(queue, s, ds) ==
  [d \in Switches |-> IF d \in ds /\ queue[d][s] > 0
                     THEN [queue[d] EXCEPT ![s] = @ - 1] ELSE queue[d]]

DeleteMirror(s) ==
  \E ds \in Reached(Switches) :
    /\ Install(s, "none", ds)
    /\ pendingMirror' = Forget(pendingMirror, s, ds)
    /\ Outcome(s, "delete mirror", Raises(Switches))
    /\ UNCHANGED <<host, instances, pendingRedirect, block, repeated>>

DeleteRedirect(s) ==
  \E ds \in Reached(Switches) :
    /\ Install(s, "none", ds)
    /\ pendingRedirect' = Forget(pendingRedirect, s, ds)
    /\ Outcome(s, "delete redirect", Raises(Switches))
    /\ UNCHANGED <<host, instances, pendingMirror, block, repeated>>

(* addBlockRule: block where the flow is seen, else everywhere, then delete  *)
(* the redirect and the mirror; the first of the two may raise.              *)
AddBlock(s) ==
  \E m \in Matching(s) : \E ds \in Reached(Switches) :
    LET seen == {d \in Switches : m[d] > 0}
        at   == IF seen = {} THEN Switches ELSE seen
    IN  /\ block' = [d \in Switches |-> IF d \in at THEN block[d] \cup {s} ELSE block[d]]
        /\ Install(s, "none", ds)
        /\ pendingRedirect' = Forget(pendingRedirect, s, ds)
        /\ pendingMirror' = IF Raises(Switches) THEN pendingMirror
                            ELSE Forget(pendingMirror, s, ds)
        /\ Outcome(s, "block", Raises(Switches))
        /\ UNCHANGED <<host, instances, repeated>>

DeleteBlock(s) ==
  /\ block' = [d \in Switches |-> block[d] \ {s}]
  /\ Outcome(s, "delete block", FALSE)
  /\ UNCHANGED <<host, instances, waiting, send, repeated>>

(* A temporary rule times out. *)
Expire(d, s) ==
  \/ /\ send[d][s] \in Temporary
     /\ send' = [send EXCEPT ![d][s] = "none"]
     /\ UNCHANGED <<host, instances, waiting, block, history, strayed>>
  \/ /\ s \in block[d]
     /\ block' = [block EXCEPT ![d] = @ \ {s}]
     /\ UNCHANGED <<host, instances, waiting, send, history, strayed>>

Request(s) == \/ AddMirror(s) \/ DeleteMirror(s) \/ AddRedirect(s)
              \/ DeleteRedirect(s) \/ AddBlock(s) \/ DeleteBlock(s)

ManagerNext ==
  \/ \E ip \in Ips : \/ AddSnortInstance(ip) \/ RemoveSnortInstance(ip)
                     \/ HostAdded(ip) \/ HostMoved(ip)
  \/ ClearSnortInstances
  \/ \E s \in Selectors : Request(s) \/ \E d \in Switches : Expire(d, s)

ManagerSpec == ManagerInit /\ [][ManagerNext]_managerVars
-----------------------------------------------------------------------------
ManagerTypeOK ==
  /\ host \in [Ips -> Places \cup {Nowhere}]
  /\ pendingSnort \subseteq Ips /\ mapped \subseteq Switches
  /\ snortPorts \in [Switches -> [Ips -> Ports \cup {Nowhere}]]
  /\ tunnel \in [Switches -> Ports \cup {Nowhere}]
  /\ dup \subseteq Places
  /\ pendingMirror \in [Switches -> [Selectors -> Nat]]
  /\ pendingRedirect \in [Switches -> [Selectors -> Nat]]
  /\ send \in [Switches -> [Selectors -> Sends]]
  /\ block \in [Switches -> SUBSET Selectors]
  /\ blocked \subseteq Selectors /\ repeated \subseteq Selectors /\ strayed \in BOOLEAN

(* Nothing waits at a switch where an instance is connected: a request for   *)
(* such a switch does not wait, and what waited is installed when the        *)
(* instance is found, whichever of host, announcement and request is last.   *)
NothingWaitsAtSnort ==
  \A d \in Switches : Known(d) # {} => (pendingMirror[d] = Nobody /\ pendingRedirect[d] = Nobody)

(* The maps of instances agree, whatever hosts move and announcements repeat *)
(* or come late: a tunnel never ends at a port where no known instance is,   *)
(* and, as long as no host has moved or shared a port, exactly what known    *)
(* instances send back is dropped.                                           *)
InstanceMapsAgree ==
  /\ \A d \in Switches : tunnel[d] # Nowhere => \E ip \in Ips : snortPorts[d][ip] = tunnel[d]
  /\ ~strayed =>
       \A place \in Places :
         place \in dup <=> \E ip \in Ips : snortPorts[place[1]][ip] = place[2]

(* Once a flow is blocked nothing sends it to Snort any more and nothing     *)
(* waits to, whatever instances come and go and whichever of mirrors and     *)
(* redirects came before, unless it had been waiting twice in one list.      *)
BlockedIsForgotten ==
  \A s \in blocked \ repeated : \A d \in Switches :
      /\ send[d][s] = "none"
      /\ pendingMirror[d][s] = 0 /\ pendingRedirect[d][s] = 0

(* What waits, waits for an instance, and for a flow nobody has blocked.     *)
NothingWaitsInVain == NothingWaitsAtSnort /\ BlockedIsForgotten

=============================================================================
