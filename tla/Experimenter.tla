---------------------------- MODULE Experimenter ----------------------------
(***************************************************************************)
(* The experimenter of tools/dev: scripts that build control networks of   *)
(* ONOS nodes on one host, run an experiment and take them down again.     *)
(* multicluster.py has two clusters and a TENNISON node beside each; ha.py *)
(* has one cluster, whose network it partitions ("partition") or whose     *)
(* members it changes ("scaling").                                         *)
(*                                                                         *)
(* One session runs at a time, as root. Rules of iptables, processes and   *)
(* directories are the host's and outlive it: a session may be killed, or  *)
(* end with an exception, at any step, and the next finds what it left.    *)
(***************************************************************************)
EXTENDS Integers, Sequences, FiniteSets, Bags

CONSTANTS
  ServerCount,  \* -n of ha.py: the nodes the scaling test starts with
  Members,      \* nodes that -p names: those of the partition test
  Forward,      \* the ports forwarded to each ONOS node, in order
  MaxSessions   \* bound: sessions

Scale == 2            \* build: nodes beyond ServerCount for the scaling test
TennisonPort == 5000
Tests == 5            \* waitStarted: karaf, ssh, OpenFlow, client, state READY

ASSUME ExperimenterAssumption ==
  /\ ServerCount \in Nat \ {0} /\ Members \in 1 .. ServerCount + Scale
  /\ Forward \in Seq(Nat \ {0}) /\ Forward # <<>>
  /\ MaxSessions \in Nat

VARIABLES
  kind,      \* the script that runs, or "none"
  at,        \* its step
  cluster,   \* which of its clusters it starts
  list,      \* the nodes its loop goes over
  pos,       \* where the loop is
  test,      \* the test of waitStarted it is at
  active,    \* the nodes nodes() returns for the cluster, in order
  order,     \* how sorted() orders the nodes of the scaling test: by address
  started,   \* nodes that it has started
  ctl,       \* data network: for each cluster, the nodes its switches were given
  link,      \* whether the link between the two control switches is up
  file,      \* cluster.json of the scaling test
  proc,      \* ONOS of each node: "none", "up", "dead"
  stage,     \* how many of the tests it would pass, and has
  fwd,       \* host: the rules of iptables
  dir,       \* host: nodes with a directory in /tmp
  stale,     \* host: ONOS processes of earlier sessions that may still run
  services,  \* host: what TENNISON nodes run
  sessions,
  extra      \* history: clusters that forwarded without deleting first

script == <<kind, at, cluster, list, pos, test>>
net    == <<active, order, started, ctl, link, file>>
onos   == <<proc, stage>>
host   == <<fwd, dir, stale, services>>
hist   == <<sessions, extra>>
vars   == <<script, net, onos, host, hist>>

Kinds == {"multi", "partition", "scaling"}
ClustersOf(k) == IF k = "multi" THEN <<"alpha", "beta">> ELSE <<"c0">>

(* A machine is <<cluster, host number>>: its address is that number in the  *)
(* cluster's ipBase, which for c0 is that of alpha. 100 is the TENNISON node. *)
Onos(c) == {c} \X (1 .. IF c = "c0" THEN ServerCount + Scale ELSE 1)
Nodes == Onos("alpha") \cup Onos("beta") \cup Onos("c0")
Tennisons == {"alpha", "beta"} \X {100}
IsTennison(m) == m[2] = 100
IpBase(c) == IF c = "beta" THEN 124 ELSE 123
Offset(c) == IF c = "beta" THEN 100 ELSE 0

First(c, n) == [i \in 1 .. n |-> <<c, i>>]
HostsOf(k, c) ==
  CASE k = "multi"     -> First(c, 1)
    [] k = "partition" -> First(c, Members)
    [] k = "scaling"   -> First(c, ServerCount + Scale)
Machines(k) ==
  IF k = "multi" THEN First("alpha", 1) \o First("beta", 1) \o <<<<"alpha", 100>>, <<"beta", 100>>>>
  ELSE HostsOf(k, "c0")

SetOf(s) == {s[i] : i \in DOMAIN s}
NoFile == [nodes |-> {}, parts |-> <<>>]

Init ==
  /\ kind = "none" /\ at = "none" /\ cluster = 0 /\ list = <<>> /\ pos = 0 /\ test = 0
  /\ active = <<>> /\ order = <<>> /\ started = {} /\ ctl = <<>> /\ link = "up"
  /\ file = NoFile /\ proc = [n \in Nodes |-> "none"] /\ stage = [n \in Nodes |-> 0]
  /\ fwd = EmptyBag /\ dir = {} /\ stale = {} /\ services = {}
  /\ sessions = 0 /\ extra = 0
-----------------------------------------------------------------------------
(* The script goes to a step with a list to work on.                         *)
Go(step, l) == at' = step /\ list' = l /\ pos' = 1 /\ test' = 1
Onward(step) == at' = step /\ pos' = pos + 1 /\ test' = 1 /\ UNCHANGED list

(* It ends, whatever it is at; what runs goes on without it.                 *)
Leave ==
  /\ kind' = "none" /\ at' = "none" /\ cluster' = 0 /\ list' = <<>> /\ pos' = 0 /\ test' = 0
  /\ active' = <<>> /\ order' = <<>> /\ started' = {} /\ ctl' = <<>> /\ link' = "up"
  /\ file' = NoFile /\ proc' = [n \in Nodes |-> "none"] /\ stage' = [n \in Nodes |-> 0]
  /\ UNCHANGED hist

Up == {n \in Nodes : proc[n] = "up"}

(* Killed, interrupted, or an exception out of a command.                    *)
Killed ==
  /\ kind # "none" /\ Leave
  /\ stale' = stale \cup Up /\ UNCHANGED <<fwd, dir, services>>

(* runTest, run: topologies and networks; nodes() of a scaling cluster is    *)
(* activeNodes, of any other all its nodes.                                  *)
Begin(k) ==
  /\ kind = "none" /\ sessions < MaxSessions /\ sessions' = sessions + 1
  /\ kind' = k /\ cluster' = 1 /\ Go("unpack", Machines(k))
  /\ active' = IF k = "scaling" THEN First("c0", ServerCount) ELSE HostsOf(k, ClustersOf(k)[1])
  /\ UNCHANGED <<order, started, ctl, link, file, onos, host, extra>>

(* __init__ of a node: its directory is removed and unpacked anew; ONOS      *)
(* raises where that fails, TENNISON does not look.                          *)
Unpacked(last) ==
  /\ dir' = dir \cup {list[pos]}
  /\ IF last THEN Go("start", active) ELSE Onward("unpack")
  /\ UNCHANGED <<kind, cluster, net, onos, fwd, stale, services, hist>>
UnpackOneMore ==                                        \* mutant: > for =
  at = "unpack" /\ ~IsTennison(list[pos]) /\ Unpacked(pos > Len(list))
Unpack ==
  at = "unpack" /\ ~IsTennison(list[pos]) /\ Unpacked(pos = Len(list))
unpackTENNISON ==
  at = "unpack" /\ IsTennison(list[pos]) /\ Unpacked(pos = Len(list))

UnpackFails ==
  /\ at = "unpack" /\ ~IsTennison(list[pos]) /\ Leave
  /\ \/ dir' = dir \ {list[pos]}
     \/ dir' = dir \cup {list[pos]}
  /\ UNCHANGED <<fwd, stale, services>>
-----------------------------------------------------------------------------
(* genParts: three partitions of three members; the deque turns by one.      *)
GenParts(l) ==
  [p \in 1 .. 3 |->
     {l[((p + j - 2) % Len(l)) + 1] : j \in {j \in DOMAIN l : j <= 3}}]

GenPartitions(l) == [nodes |-> SetOf(l), parts |-> GenParts(l)]

StartOnos(n) ==
  /\ started' = started \cup {n}
  /\ proc' = [proc EXCEPT ![n] = "up"] /\ stage' = [stage EXCEPT ![n] = 0]

(* A DynamicONOSNode first writes the file that the server hands out to all. *)
StartDynamic(n) == StartOnos(n) /\ file' = GenPartitions(active)

(* The loops of ONOSCluster.start, of DynamicONOSCluster.start, which goes   *)
(* on without deleting rules, and of startNodes.                             *)
StartNode ==
  /\ at = "start" /\ kind # "scaling" /\ StartOnos(list[pos])
  /\ IF pos < Len(list) THEN Onward("start") ELSE Go("delete", list)
  /\ UNCHANGED <<kind, cluster, active, order, ctl, link, file, host, hist>>
StartActive ==
  /\ at = "start" /\ kind = "scaling" /\ StartDynamic(list[pos])
  /\ IF pos < Len(list) THEN Onward("start") /\ UNCHANGED extra
     ELSE Go("append", list) /\ extra' = extra + 1
  /\ UNCHANGED <<kind, cluster, active, order, ctl, link, host, sessions>>
StartNew ==
  /\ at = "join" /\ StartDynamic(list[pos])
  /\ IF pos < Len(list) THEN Onward("join") ELSE Go("wait", list)
  /\ UNCHANGED <<kind, cluster, active, order, ctl, link, host, hist>>
-----------------------------------------------------------------------------
(* configPortForwarding: one rule for the network, then one for each port    *)
(* and node, from a port that counts the nodes up. A TENNISON node sets the  *)
(* first in its own namespace. -A adds a rule at the end, -D removes one     *)
(* that is the same, if there is one.                                        *)
InPort(port, c, i) == port + Offset(c) + i - 1

(* A TENNISON node is the host number 100 of its network; the ports that are *)
(* forwarded are further apart than there may be nodes.                      *)
ASSUME PortsAssumption ==
  /\ ServerCount + Scale < 100
  /\ \A a, b \in DOMAIN Forward : \A c, d \in {"alpha", "beta"} : \A i, j \in 1 .. ServerCount + Scale :
       /\ InPort(Forward[a], c, i) = InPort(Forward[b], d, j) => a = b /\ c = d
       /\ InPort(Forward[a], c, i) # InPort(TennisonPort, d, 1)

To(m, port, from) == [from |-> from, ip |-> <<IpBase(m[1]), m[2]>>, port |-> port]
NetworkRule(c) == To(<<c, 0>>, 0, 0)
OnosRules(l) ==
  [k \in 1 .. Len(Forward) * Len(l) |->
     LET i == ((k - 1) % Len(l)) + 1  port == Forward[((k - 1) \div Len(l)) + 1] IN
     To(l[i], port, InPort(port, l[i][1], i))]
TennisonRules(m) == <<To(m, TennisonPort, TennisonPort + Offset(m[1]))>>

Rules(l) ==
  IF IsTennison(l[1]) THEN TennisonRules(l[1]) ELSE <<NetworkRule(l[1][1])>> \o OnosRules(l)

One(r) == SetToBag({r})

DeleteNothing ==                                        \* mutant: only A, as it was
  /\ at \in {"delete", "undo"}
  /\ fwd' = IF at = "undo" THEN fwd (-) One(Rules(list)[pos]) ELSE fwd
  /\ IF pos < Len(Rules(list)) THEN Onward(at)
     ELSE Go(IF at = "delete" THEN "append" ELSE "stop", list)
  /\ UNCHANGED <<kind, cluster, net, onos, dir, stale, services, hist>>
Delete ==
  /\ at \in {"delete", "undo"}
  /\ fwd' = fwd (-) One(Rules(list)[pos])
  /\ IF pos < Len(Rules(list)) THEN Onward(at)
     ELSE Go(IF at = "delete" THEN "append" ELSE "stop", list)
  /\ UNCHANGED <<kind, cluster, net, onos, dir, stale, services, hist>>

Add ==
  /\ at = "append"
  /\ fwd' = fwd (+) One(Rules(list)[pos])
  /\ IF pos < Len(Rules(list)) THEN Onward(at) /\ UNCHANGED cluster
     ELSE IF ~IsTennison(list[1]) THEN Go("wait", list) /\ UNCHANGED cluster
     ELSE IF list[1][1] = "alpha" THEN Go("tennison", <<<<"beta", 100>>>>) /\ UNCHANGED cluster
     ELSE Go("cli", <<>>) /\ UNCHANGED cluster
  /\ UNCHANGED <<kind, net, onos, dir, stale, services, hist>>
-----------------------------------------------------------------------------
(* ONOS boots, and passes one test after the other; or dies. It is started   *)
(* with all nodes() of its cluster as the members of its partitions, and is  *)
(* READY only in the company of more than half of them.                      *)
isRunning(n) == proc[n] = "up"
Peers(n) == {n} \cup {m \in SetOf(active) : m[1] = n[1]}
Quorum(n) == 2 * Cardinality({m \in Peers(n) : isRunning(m)}) > Cardinality(Peers(n))

Boot(n) ==
  /\ isRunning(n) /\ stage[n] < Tests /\ (stage[n] = Tests - 1 => Quorum(n))
  /\ stage' = [stage EXCEPT ![n] = @ + 1]
  /\ UNCHANGED <<script, net, proc, host, hist>>

Die(n) ==
  /\ proc[n] = "up" /\ proc' = [proc EXCEPT ![n] = "dead"]
  /\ UNCHANGED <<script, net, stage, host, hist>>

PassesWhenUp(n) == isRunning(n)                         \* mutant: a process is enough
Passes(n) == isRunning(n) /\ stage[n] >= test

(* waitStarted: each test is repeated until it passes, node by node; then    *)
(* the next cluster, the switches, or the next nodes to join.                *)
Waited ==
  IF ctl # <<>> THEN Go("grow", <<>>) /\ UNCHANGED <<cluster, active>>
  ELSE IF cluster < Len(ClustersOf(kind))
  THEN LET l == HostsOf(kind, ClustersOf(kind)[cluster + 1]) IN
       cluster' = cluster + 1 /\ active' = l /\ Go("start", l)
  ELSE Go("switches", <<>>) /\ UNCHANGED <<cluster, active>>

Wait ==
  /\ at = "wait" /\ Passes(list[pos])
  /\ IF test < Tests
     THEN test' = test + 1 /\ UNCHANGED <<at, list, pos, cluster, active>>
     ELSE IF pos < Len(list) THEN Onward(at) /\ UNCHANGED <<cluster, active>>
     ELSE Waited
  /\ UNCHANGED <<kind, order, started, ctl, link, file, onos, host, hist>>

(* sanityCheck, each time a test fails: the process has died, or else, which *)
(* may be or not, there are errors in its log or little memory. The alert is *)
(* an exception, the default. ha.py asks for a warning, after which the test *)
(* is repeated, but its topology names the class of its nodes, to which the  *)
(* cluster's options do not come: only a DynamicONOSNode sets it by itself.  *)
AlertAction == IF kind = "scaling" THEN "warn" ELSE "exception"

sanityAlert ==
  /\ AlertAction = "exception" /\ Leave
  /\ stale' = stale \cup Up /\ UNCHANGED <<fwd, dir, services>>
NoTest == at = "wait" /\ isRunning(list[pos]) /\ ~Passes(list[pos]) /\ sanityAlert  \* mutant
DiedAlert == at = "wait" /\ ~isRunning(list[pos]) /\ sanityAlert
HealthAlert == at = "wait" /\ isRunning(list[pos]) /\ ~Passes(list[pos]) /\ sanityAlert

(* A switch is given all nodes() of its cluster as they are now; a           *)
(* MultiSwitch has a cluster of its own: half of them alpha, half beta.      *)
NodesNow(c) == IF kind = "scaling" THEN SetOf(active) ELSE SetOf(HostsOf(kind, c))
MultiSwitches == [i \in {1, 2} |-> NodesNow(ClustersOf("multi")[i])]
StartSwitches ==
  /\ at = "switches"
  /\ ctl' = IF kind = "multi" THEN MultiSwitches ELSE <<NodesNow("c0")>>
  /\ CASE kind = "multi"     -> Go("tennison", <<<<"alpha", 100>>>>)
       [] kind = "partition" -> Go("cut", <<>>)
       [] kind = "scaling"   -> Go("sort", <<>>)
  /\ UNCHANGED <<kind, cluster, active, order, started, link, file, onos, host, hist>>

(* TENNISONNode.start: a database and a coordinator, then the forwarding.    *)
StartTennison ==
  /\ at = "tennison" /\ Go("delete", list)
  /\ services' = services \cup {list[1]} \X {"mongod", "coordinator"}
  /\ UNCHANGED <<kind, cluster, net, onos, fwd, dir, stale, hist>>
-----------------------------------------------------------------------------
(* Partition: the link between the first two control switches.               *)
Cut ==
  /\ at = "cut" /\ link' = "down" /\ Go("heal", <<>>)
  /\ UNCHANGED <<kind, cluster, active, order, started, ctl, file, onos, host, hist>>
Heal ==
  /\ at = "heal" /\ link' = "up" /\ Go("cli", <<>>)
  /\ UNCHANGED <<kind, cluster, active, order, started, ctl, file, onos, host, hist>>

(* Scaling: sorted(set(...)), by address: an order of the nodes that stays.  *)
Orders(S) == {f \in [S -> 1 .. Cardinality(S)] : \A a, b \in S : a # b => f[a] # f[b]}
Sorted(S, o) ==
  CHOOSE s \in [1 .. Cardinality(S) -> S] :
    \A i, j \in DOMAIN s : i < j => o[s[i]] < o[s[j]]

(* The first node, and all that are active, are started once more, to no     *)
(* effect, and waited for; the list is doubled as it extends itself.         *)
Sort ==
  /\ at = "sort" /\ order' \in Orders(Onos("c0"))
  /\ LET l == Sorted(SetOf(active) \cup {<<"c0", 1>>}, order') IN
     active' = l /\ Go("wait", l \o l)
  /\ UNCHANGED <<kind, cluster, started, ctl, link, file, onos, host, hist>>

(* The next two that are not started, as the hosts are numbered.             *)
HostNumber == [n \in Onos("c0") |-> n[2]]
Grow ==
  /\ at = "grow"
  /\ LET rest == Sorted(Onos("c0") \ started, HostNumber)
         new  == SubSeq(rest, 1, IF Len(rest) < 2 THEN Len(rest) ELSE 2) IN
     IF new = <<>> THEN Go("shrink", <<>>) /\ UNCHANGED active
     ELSE active' = Sorted(SetOf(active) \cup SetOf(new), order) /\ Go("join", new)
  /\ UNCHANGED <<kind, cluster, order, started, ctl, link, file, onos, host, hist>>

(* The last goes, and writes the file without itself; it is not stopped.     *)
Front(s) == SubSeq(s, 1, Len(s) - 1)
ShrinkSilently ==                                       \* mutant: no new file
  /\ at = "shrink"
  /\ IF Len(active) > 1
     THEN active' = Front(active) /\ UNCHANGED <<at, list, pos, test>>
     ELSE Go("cli", <<>>) /\ UNCHANGED active
  /\ UNCHANGED <<kind, cluster, order, started, ctl, link, file, onos, host, hist>>
Shrink ==
  /\ at = "shrink"
  /\ IF Len(active) > 1
     THEN active' = Front(active) /\ file' = GenPartitions(Front(active)) /\ UNCHANGED <<at, list, pos, test>>
     ELSE Go("cli", <<>>) /\ UNCHANGED <<active, file>>
  /\ UNCHANGED <<kind, cluster, order, started, ctl, link, onos, host, hist>>
-----------------------------------------------------------------------------
(* The user leaves the CLI. net.stop() of ha.py: the forwarding, for the     *)
(* nodes that are active now ...                                             *)
Quit ==
  /\ at = "cli" /\ kind # "multi" /\ Go("undo", active)
  /\ UNCHANGED <<kind, cluster, net, onos, host, hist>>

(* ... then each of them: every karaf of the host, and its own directory.    *)
StopOwn ==                                              \* mutant: its own process
  /\ at = "stop"
  /\ proc' = [proc EXCEPT ![list[pos]] = "dead"] /\ dir' = dir \ {list[pos]}
  /\ IF pos < Len(list) THEN Onward(at) ELSE Go("stopped", <<>>)
  /\ UNCHANGED <<kind, cluster, net, stage, fwd, stale, services, hist>>
StopNode ==
  /\ at = "stop"
  /\ proc' = [n \in Nodes |-> IF proc[n] = "up" THEN "dead" ELSE proc[n]]
  /\ stale' = {} /\ dir' = dir \ {list[pos]}
  /\ IF pos < Len(list) THEN Onward(at) ELSE Go("stopped", <<>>)
  /\ UNCHANGED <<kind, cluster, net, stage, fwd, services, hist>>

Exit ==
  /\ at = "stopped" /\ Leave /\ UNCHANGED host

(* multicluster.py stops a TENNISON node first, with pkill -9 python: its    *)
(* own process is one, and nothing after that is done.                       *)
StopTennison(m) ==
  /\ dir' = dir \ {m} /\ services' = {s \in services : s[2] # "coordinator"}
  /\ Leave
QuitMulti ==
  /\ at = "cli" /\ kind = "multi" /\ StopTennison(<<"alpha", 100>>)
  /\ stale' = stale \cup Up /\ UNCHANGED fwd

Script ==
  \/ Unpack \/ unpackTENNISON \/ UnpackFails \/ StartNode \/ StartActive \/ StartNew
  \/ Delete \/ Add \/ Wait \/ DiedAlert
  \/ StartSwitches \/ StartTennison \/ Cut \/ Heal \/ Sort \/ Grow \/ Shrink
  \/ StopNode \/ Exit

Next == (\E k \in Kinds : Begin(k)) \/ Script \/ HealthAlert \/ Killed \/ Quit \/ QuitMulti
          \/ \E n \in Nodes : Boot(n) \/ Die(n)

Spec == Init /\ [][Next]_vars

(* The script goes on by itself but at the CLI. Nothing makes an ONOS boot    *)
(* whose peers are not there, and nothing makes one exit that does not boot.  *)
FairSpec ==
  /\ Spec /\ WF_vars(Script)
  /\ \A n \in Nodes : WF_vars(Boot(n) /\ \A m \in Peers(n) : isRunning(m))
-----------------------------------------------------------------------------
Steps == {"none", "unpack", "start", "join", "delete", "append", "wait", "switches", "tennison",
          "cut", "heal", "sort", "grow", "shrink", "cli", "undo", "stop", "stopped"}

TypeOK ==
  /\ kind \in Kinds \cup {"none"} /\ at \in Steps /\ cluster \in 0 .. 2 /\ test \in 0 .. Tests
  /\ SetOf(list) \subseteq Nodes \cup Tennisons /\ SetOf(active) \subseteq Nodes
  /\ started \subseteq Nodes /\ link \in {"up", "down"}
  /\ proc \in [Nodes -> {"none", "up", "dead"}] /\ stage \in [Nodes -> 0 .. Tests]
  /\ at \in {"unpack", "start", "join", "wait", "stop"} => pos \in DOMAIN list
  /\ dir \subseteq Nodes \cup Tennisons /\ stale \subseteq Nodes
  /\ services \subseteq Tennisons \X {"mongod", "coordinator"}
  /\ sessions \in 0 .. MaxSessions /\ extra \in 0 .. sessions

Running == at \in {"switches", "tennison", "cut", "heal", "cli"} /\ kind # "scaling"

(* Whatever sessions that were killed have left in iptables: a port never    *)
(* leads to two addresses, a rule is there once - once more for each scaling *)
(* session, which deletes none before it adds - and while an experiment runs *)
(* each of its nodes is reached at its ports.                                *)
PortsLeadToNodes ==
  /\ \A r, q \in BagToSet(fwd) : r.from = q.from /\ r.from # 0 => r = q
  /\ \A r \in BagToSet(fwd) : fwd[r] <= 1 + extra
  /\ Running => \A c \in 1 .. Len(ClustersOf(kind)) :
       LET l == HostsOf(kind, ClustersOf(kind)[c]) IN
       \A r \in SetOf(OnosRules(l)) : BagIn(r, fwd)

(* No switch is given a node that has not passed every test of waitStarted,  *)
(* and no test of an experiment runs before all its nodes have.              *)
SwitchesFindReadyNodes ==
  /\ \A c \in DOMAIN ctl : \A n \in ctl[c] : stage[n] = Tests
  /\ at \in {"tennison", "cut", "heal", "grow", "shrink", "cli"} =>
       \A n \in started : stage[n] = Tests

(* cluster.json, which all nodes of the scaling test fetch, lists the nodes  *)
(* that are active whenever the test lets them settle; each partition has as *)
(* many different members as there are, up to three, and with up to five     *)
(* nodes, none is left without a partition.                                  *)
FileListsActive ==
  kind = "scaling" /\ at \notin {"unpack", "start", "join"} =>
    /\ file.nodes = SetOf(active)
    /\ \A p \in 1 .. 3 : /\ file.parts[p] \subseteq file.nodes
                         /\ Cardinality(file.parts[p]) = IF Len(active) < 3 THEN Len(active) ELSE 3
    /\ Len(active) <= 5 => UNION SetOf(file.parts) = file.nodes

(* Whom switches and nodes are told of is there and ready.                   *)
ToldIsReady == SwitchesFindReadyNodes /\ FileListsActive

(* A partition test that comes to its end leaves none of what it made, and   *)
(* no ONOS of an earlier session either; rules too are gone, unless scaling  *)
(* sessions have added them twice.                                           *)
PartitionCleansUp ==
  kind = "partition" /\ at = "stopped" =>
    /\ stale = {} /\ Up = {} /\ dir \cap started = {}
    /\ extra = 0 => \A r \in SetOf(Rules(active)) : ~BagIn(r, fwd)

(* What a session finds, needs and leaves at the host.                       *)
HostIsInOrder == PortsLeadToNodes /\ PartitionCleansUp

(* The waits have no timeout, and sanityCheck looks only at the process of   *)
(* the node that is waited for. So waiting comes to an end, for good or with *)
(* an exception, but where a node of the cluster has died and the one waited *)
(* for runs and is not ready without it, or the alert is only a warning: that *)
(* is the one way to wait for ever, and a node on its own never does.        *)
WaitsForTheDead ==
  /\ \E m \in Peers(list[pos]) : proc[m] = "dead"
  /\ ~Passes(list[pos])
  /\ kind = "scaling" \/ isRunning(list[pos])
WaitEnds == (at = "wait") ~> (at # "wait" \/ WaitsForTheDead)
=============================================================================
