# A TLA+ verification project for TENNISON

TENNISON watches an OpenFlow network and reacts to what it sees. The switches
of an ONOS controller export flow records and mirror or redirect traffic to
Snort; a coordinator receives records and alerts, compares them with
thresholds and asks the controller for treatments (monitor, mirror, redirect,
block); applications read what happened and change the thresholds over a
northbound REST interface.

    switches -- OpenFlow --> ONOS: ipfix, flowmonitor, snort, mervynapi
                               |  IPFIX over UDP            ^  GET /mervyn/...
                               v                            |
    Snort -- pig-relay -->  collectors --ZMQ--> main loop --+
    sFlow-RT ------------>  (threads)            |  |
                                                 v  |shared dicts, thresholds.yaml
    applications <---- REST ---- WatsonNBI <-- MongoDB

This directory holds TLA+ modules of the parts in which interleavings, order
and failures matter, TLC configurations that check them on small instances,
and proofs that hold for every instance. `PROJECT.json` maps every definition
to the lines it translates and lists runs, findings, hazards and theorems.

    tlc -config MCAlertQuery.cfg MCAlertQuery      check one run
    tlapm PigProofs.tla                            check one module's proofs

## 1. Inventory

Paths are below `src/`.

| Part | State | Operations | What is hard | What makes it correct |
|---|---|---|---|---|
| Collectors, `coordinator/core/collector.py` | PUSH sockets | receive a record or alert, stamp, type, push | five threads feed one queue; UTC stamps | each alert reaches the database once, with the time and type queries look for |
| Main loop, `coordinator/tennison.py` | PULL socket, `alerts` collection, thresholds | receive, insert, handle | any exception but two ends the process and every daemon thread | a message cannot stop it |
| Queries, `core/watson.py` 72-279 | `applications`: last query times | register, query ipfix / snort / sflowrt | own thread; time moved after the find | no alert twice, none missed |
| Thresholds over REST, `core/watson.py` 281-465 | two dicts shared with the main loop, `thresholds.yaml` | add, remove, update, save | writes while the loop iterates; truncate-then-write | acknowledged changes are in force and survive a restart |
| IPFIX handler, `core/messagehandler.py` 158-388 | masks, shallow copy, flow statistics | reload, match, choose, test, treat | rebuilt from a dict that changes under it | matching through masks = matching the thresholds in force |
| Snort, sFlow-RT handlers, `core/messagehandler.py` 79-155, `treatment.py`, `rpc.py` | the thresholds themselves | match, choose, fill "$", call | writes into shared thresholds; calls without retry | each alert is treated with its own fields, as asked |
| Interfix polling, `core/interfixpoll.py` | running flag | poll the controller | no timeout, no handler | polls for ever |
| Snort application, `onos-tennison-apps/snort/.../SnortManager.java` | instances and ports, pending instances, mirrors and redirects, rules in the switches | add / remove / clear instances, add / delete mirror, redirect, block; host events | events and requests in any order; rules expire; rule identity; failures half way | what is asked is sent to Snort once an instance is there; what is blocked is not |
| Snort tunnels, `.../SnortTunnel.java` | ports, hops, groups | device events, add / remove / clear | two unsynchronised threads, breadth-first walks over changing links | groups lead to the nearest instance, never round |
| Controller's REST, `onos-tennison-apps/mervynapi` | none | one route per service call | timeouts it passes | - |
| IPFIX application and flow monitor, `onos-tennison-apps/ipfix`, `flowmonitor` | monitoring rules, sequence number | packet-in, rule removed, query | UDP, unsynchronised counter, conversions that raise | each monitored flow's final counters are exported |
| Pig relay, `pig-relay` | rule file, rule queue, Snort process, alert queue | add / delete / clear rule, reload, relay | reload against shutdown; file rewritten in place | the running Snort has the rules of the file |
| Pig relay, alerts, `pig-relay/pigrelay.py`, `alert.py`; `collector.py` Snort collector | unix socket, queue, sender's buffer, request, PUSH socket | receive, parse, post, push | two threads, two processes that end and start, a request that fails though it was handled | first in, first out; nothing twice; nothing lost unless something failed |
| Coordinator's process, `tennison.py`, `watson.py` 112-198 | main thread's place, sockets, `app_procs`, processes of applications | start, signal, close; start, stop, default applications | a signal comes anywhere; the northbound thread goes on while the main thread closes | no application runs that nobody knows of; a signal takes it down |
| Applications, `coordinator/apps` | detection tables, cache of thresholds | poll, detect, add threshold, forecast | repeated and missed records, answers that are not looked at | one treatment per detection; the cache is what is set |
| GUI, `coordinator/apps/gui` | lists, three shared counters | poll, send, connect | two threads and requests, no lock | each record is shown once |
| Experimenter, `tools/dev/tennison-experimenter/experimenter` | nodes and their processes, iptables, directories, `cluster.json` | unpack, start, forward, wait, partition, scale, stop | the host outlives a killed session; nodes boot one by one and die | the next session works whatever the last one left |
| Encoders, tiered manager, further tools | - | - | - | not modelled |

Threads of the coordinator: the main loop; one UDP collector for each of
prefix, ipfix, interfix; two Flask collectors; InterfixPoll; WatsonNBI. Flask
is pinned to 0.12.3 (`coordinator/requirements.txt`), whose `app.run` serves
one request at a time, so requests to WatsonNBI never overlap each other, only
the main loop. Threads of the controller: ONOS delivers device and host events
in threads of its own, and the REST container serves requests in others;
nothing in the snort application is synchronised.

## 2. Plan

In order of importance; everything in this list is done.

1. `AlertQuery`: the path of an alert to an application.
2. `ThresholdStore`: the shared dict, its requests and its file, with `Rpc` used by
3. `IpfixHandler` (main loop on records) and
4. `AlertHandler` (main loop on alerts, treatments, URL).
5. `SnortManager` and `SnortTunnel` for the controller's side.
6. `PigRelay`: rule queue, rule file, the Snort process.
7. `Exporter` and `FlowStatistics`: monitoring rules, prefix, interfix and final
   records, UDP loss, duplication and reordering, and the differences and rates
   the coordinator makes of what arrives.
8. `AlertChannel`, an abstract specification, and `AlertRelay`, which implements
   it: an alert from Snort to the main loop.
9. `Coordinator`: start, signal, close, and the processes of applications.
10. `PortScan`, `Ddos`, `ThresholdApp`, `Gui`, put together by `Applications`.
11. `Experimenter`: sessions on a host that remembers.

Who uses whom: `IpfixHandler` and `AlertHandler` extend `ThresholdStore` and `Rpc`
(what the call to the controller makes of a protocol);
`FlowStatistics` extends `Exporter`; `AlertRelay` instantiates `AlertChannel`
under a refinement mapping; `Applications` instantiates its four applications. The
proofs about a module are in a module named after it with `Proofs`; those about
modules that belong together are in one: `HandlersProofs` (`ThresholdStore`, `Rpc`,
`IpfixHandler`, `AlertHandler`), `SnortProofs` (`SnortTunnel`, `SnortManager`),
`PigProofs` (`PigRelay`, `AlertRelay`, `AlertChannel`). Modules that one proof module extends
have no name in common, hence `ManagerInit`, `AlertSpec` and the like.

What a next step could add, in this order:

- The threads of `SnortManager` (a request against a host event), and the
  manager composed with `SnortTunnel`.
- Calls of the coordinator that time out and yet take effect: `AlertHandler` and
  `IpfixHandler` composed with the manager.
- Statistics against thresholds: `_check_threshold` with `FlowStatistics`.
- The applications as requesters of the thresholds of `ThresholdStore`, with
  more than one of them running.

## 3. The modules and the code

### AlertQuery

State: the clock (utcnow), each collector's queue, the database, for each
application the types it has a query time for and those times, and the request
WatsonNBI is serving. `late`, `got` and `since` are history variables.

| Action | Code |
|---|---|
| `Collect` | a collector stamps with `form_pyobj` and pushes |
| `Insert`, `InsertFails`, `HandlerRaises` | `Tennison.listen`: insert and handle; insert raises; the handler raises and the process ends |
| `Expire` | the TTL index |
| `RegisterApp` | `register_app`, whose third key no query reads |
| `StartQuery`, `EndQuery` | the three query routes, split at the end of the find; the first part also registers an unknown application |
| `Tick`, `Restart` | time; a new coordinator process |

Data abstracted: messages are an identity, a type and a time. The order of
collectors in the queue is free: ZeroMQ's fair queueing promises an order only
within one socket. `Skew` is now() minus utcnow(): the host's offset from UTC.
A restart drops the queues, also where a push socket might have kept a message
for a moment: a collector lives in the same process.

### ThresholdStore, IpfixHandler, AlertHandler

`ThresholdStore` has the heap that Python's references make visible: `live` is
the dict, from ids to objects; `obj` gives the content of each. Both handlers
extend it; their northbound actions add to the store's what a write means to
an iteration in progress. Requests are split where another thread can see the
difference: between the assignments of an update, and between the deep copy
with `open(.., 'w')` and the dump. Each half of a save may raise (`OpenFails`,
`DumpFails`): Flask answers 500 and the process lives on, with the change in
memory, a file that is old or not whole (`file.whole`), and `nbi` at `Failed`
until the next request. Loading is modelled by what it does: new objects, one for each entry. Assumed: the coordinator is started with the file
it saves (`-t /opt/mervyn/thresholds.yaml`; the default is the one in
`examples/`, with which no request survives a restart at all).

The IPFIX loop is cut into receive, check, copy, iterate, build (one entry per
step), match, treat. `best` keeps an object, not a content, as the code does.
An iterator over a dict that changes size raises (`BuildRaises`); an entry that
is added and another removed may go unnoticed, and the new one may or may not be
met. A treatment is given the threshold's own `treatment_fields`, and the call
leaves a protocol's name there where there was a number (`Treat`, `NamedContent` of
`Rpc`): memory changes without a request. Flow statistics are abstracted: for a threshold with a metric the test of
`_check_threshold` may go either way. The conversions of protocol numbers are
kept: a number without a name raises. An address may be a network (`Networks`),
and a subtype need not be given. The fields of a threshold are compared in
an order of their own, so a difference found first hides a raise (`MayRaise`,
`MustRaise`). `seen` is a history variable: the contents that were in force at
some moment since the message was received. `IpfixAssumption` and
`AlertAssumption` say that a threshold has the attributes its loop reads: the
two `/add` requests refuse one without `fields`, `priority` or `treatment`, and
`alertmsg` and `treatment_fields`, which they do not ask for, are `Absent` where
they are missing.

The alert loop is cut into receive, scan (one threshold per step), choose, fill
(one field per step), treat. Filling writes into the threshold; the URL code
(`Rpc`) may do so too. `call` is the last URL asked of the controller, with a wildcard
for each key that has no value (`OnosKeys`). What a Snort alert says of the
packet is `snort_pkt_values`: the addresses of an IP packet, ports and protocol
of one that has them, and "Absent" where there is no IP packet; an ICMP packet
has a protocol and no ports. `Sflow` is the other handler of the loop, which
looks at no threshold.

Exceptions leave the loop at `raised`, from where the process stops (`Stop`) and
may be started again.

### SnortManager

State as in the Java class: pending instances, the nested map of ports
(`mapped` is the set of its outer keys, which may have empty inner maps), the
pending lists (how often a selector is in the list of each device), the rules in
TUNNEL_TABLE (`send`) and BLOCK_TABLE (`block`, `dup`), plus the tunnel's keys.
ONOS identifies a rule by device, table, priority and selector, so a mirror and
a redirect of a flow are one entry of `send`. `Places` are the pairs of switch
and port a host may be attached to, `Switches` and `Ips` the devices and addresses
there are; an instance without a port is `Nowhere`.

A request or host event is one action, with every step that it makes, the
iterations over devices that a raise cuts short included (`Reached`: what has
been done before is any set of the other devices). `getSuitableDevices` counts
a device once for each flow entry that matches; entries of other applications
are a free choice up to `MaxOther`. Three history variables say what the
properties are conditional on: `blocked` (the last request for the flow was a
block that did not raise), `repeated` (a selector was twice in one list),
`strayed` (a host moved or shared a port). The requests ask `getDevices()` each
time; it returns every device the store knows, also one that is off line, so
`Switches` is the same throughout a run. An operator who removes a device from
the store, or adds one, during a run is not modelled. Instances are kept four times over: as
announced, in the nested map, in the tunnel's map and as rules that drop what an
instance sends back; `InstanceMapsAgree` relates the last three.

### SnortTunnel

Fine-grained: two threads, "event" and "rest", each on a walk with its own
`seenDevices` and queue; one link per step (`Look`). The reset of the hops and
the start of a walk are single steps. The history variables say when nothing
has changed behind the walks since the last event (`steady`), and whether a
reset or a walk ever began while another walk was under way (`overlapped`). Not
modelled: the corruption of a `HashMap` itself by unsynchronised writes; a
device change and its event are one step; a missing key in `snortHops` and the
value -1 are the same, as `setupSnortTunnel` fills in.

### PigRelay

State: where the main thread is, the rule queue, where the update thread is, the
rule file, what the thread is about to write into it, a table of processes
(`proc`, `rules`: what each Snort has read) and the relay's `_proc` (`own`).

| Action | Code |
|---|---|
| `PigBoot`, `Announce`, `PigInterrupt`, `Exit`, `Kill` | `pigrelay.py`'s main: `snort_start`, `add_snort_to_onos`, KeyboardInterrupt and `snort.stop()`, the end; a kill or an exception of the announcement |
| `Put` | `truffle.py`: each rule of a request is put into the queue |
| `Get`, `Process`, `Dump`, `ProcessRaises` | `SnortUpdateThread`: `get`, `_process_rule`, split where the file is truncated but not written; what raises is caught in `run()` |
| `Hangup`, `HangupRaises`, `ReloadStops`, `ReloadStarts`, `SpawnFails` | the callback, `reload`: SIGHUP, `stop`, `start` |
| `Read`, `Die` | Snort itself, external |

A rule file is the set of its lines. A dead child keeps its pid until it has
been waited for (`poll()`, or the collection of the old Popen object), after
which SIGHUP raises; pids are not reused. `stop` and `start` hold a lock each, so
each is one step; `reload` holds none across them.

### Exporter, FlowStatistics

`Exporter` is the controller's side with the switches. State: the devices the
device service knows, the rules in each switch and their counters, the
controller's flow entries (state, counter as last polled), packets on their way
to the flow monitor, events on their way to the listener, a query in progress,
datagrams in flight. A rule is named by the flow it was made for; `Covers` says
what else it matches, and `Unfit` which flows never get one.

| Action | Code |
|---|---|
| `Packet` | a switch counts a packet by a rule that matches, or punts it; external |
| `Process`, `SendPrefix` | `FlowMonitorPacketProcessor.process`, split between the rule and the prefix record, each of which can raise alone |
| `AddIpfix` | `/ipfix/add`: a rule on every device, no record |
| `Install`, `ReadCounters`, `Timeout`, `Leave` | ONOS and the switches, external |
| `Notify` | `IpfixManager.event`, RULE_REMOVED |
| `StartQuery`, `QueryDevice`, `EndQuery`, `QueryRaises` | `getFlowEntries`, asked by `InterfixPoll` or an operator, one device per step |
| `Lose` | a datagram is lost; `sendRecords` loses it too when its socket fails |

`FlowStatistics` adds the coordinator: `Handle` is the arrival of a datagram at
`IPFIX.handle` up to line 254, in any order and perhaps twice (UDP), with any
time of `Elapsed` since the last one of its flow. `Key` is the 4-tuple, which
leaves out device and protocol. A record's `life` and `at` (which rule it is
about and when it was made) are the model's; no code reads them.

Simplified: one query at a time; a rule times out only once it is installed;
packets of one flow that are punted at once are one packet; packet counts
follow byte counts and are left out; rates are rounded down where the code
divides floats, which makes no difference after one second.

### AlertChannel, AlertRelay

`AlertChannel` says what the way of an alert is for: a pipe that reports enter at
one end and the main loop empties at the other, and from which a failure takes
some neighbouring alerts. `AlertRelay` has the pieces that pipe is made of; its
refinement mapping strings them together, oldest first:

    Way == pushed \o wire \o hand \o queue \o sock

| Action | Code |
|---|---|
| `Report` | Snort writes a datagram to the unix socket, or there is none; external |
| `Boot`, `Listen`, `Interrupt`, `RelayEnds` | `pigrelay.py`'s main; `start_recv`, which removes an old socket; `pig.stop()`; the end |
| `Recv`, `Take` | the listener's and the sender's rounds |
| `Post`, `Refused`, `Answer`, `Broken` | `requests.post`: accepted, refused, answered, or cut off before the answer, when the collector may have the alert all the same |
| `Handle`, `HandleRaises`, `Receive` | `post_alert` of the Snort collector, its exception, `recv_pyobj` of the main loop |
| `CoordStarts`, `CoordEnds` | the other process |

Why alerts are not cut in pieces: the sender cuts `BUFSIZE` bytes off its buffer
and reads an alert field by field from them. `AlertPkt` is the layout of the
structures in `alert.py`; `AlertPktAssumption`, which TLC evaluates, says that the
fields are contiguous and end at `BUFSIZE`, so a datagram is one alert.

`requests.post` has no timeout, so a request never runs out while it waits; the
collector's Flask serves one request at a time, so `wire` is first in, first out.
The alerts of a relay that ended may still be in `wire` when the next relay
posts, and come before its own.

### Coordinator

The main thread's place (`main`), the collectors with the messages their sockets
hold, the northbound thread (`nbi`), `app_procs`, and the processes of the host
(`proc`): each has a shell above it or not, a main, and for the GUI a child. A
process is what `Popen` was given; `HeadRuns` says whether that still runs.

| Action | Code |
|---|---|
| `Boot`, `Setup`, `SetupCollector`, `SetupWatson`, `Listen` | `Tennison.__init__` in its order, then the loop |
| `Dies` | an exception of the main thread, or SIGKILL, at any step |
| `Push`, `Transfer` | a collector's push, and ZeroMQ behind it |
| `Signal`, `SignalEarly` | `_close`, run by the main thread wherever it is; early, it raises |
| `CloseCollector`, `CloseApp`, `CloseAppRaises`, `Exit` | the contexts, `close()` of the northbound interface over a dict that may change its size meanwhile, `sys.exit` |
| `StartDefault`, `start_app`, `Record`, `stop_app`, `Forget` | the northbound thread, split where a process runs and its entry does not say so yet, or does still |
| `Step`, `Fail`, `FailChild` | an application's own main, external to the coordinator |

`late` and `orphans` are history variables: what was started while the main
thread closed, and what the coordinator had when it died without closing.

### Applications: PortScan, Ddos, ThresholdApp, Gui

Each is a module of its own with its polls, tables and requests, and the part of
the coordinator it asks (its own thresholds) as a set. The applications have query
times and threshold names of their own and share nothing else, so `Applications`
runs one of them, any one, at a time.

- `PortScan`: `read_ipfix`, `Track` (`flow_to_port_tracker`), `treat_flow` in its
  two requests. A record without an address ends the application as the code
  does. The ten seconds of `time_last_treat` pass at any time (`Expire`).
- `Ddos`: `sources_clean_up`, `source_tracker`, `install_mirror`; ages in ticks.
- `ThresholdApp`: `Learn` is `Flow.update`, `Update` and `PostThreshold`
  `updateThresholdsLLT`, `PostSmoothed` `updateThresholds`. The forecast is any
  rate; what it is cut down to (`int`) is kept (`Whole`). A flow is a 4-tuple, as
  its hash: any number of rules (`Rules`), at other switches, of another
  protocol, or made again after one went, count for it, each by itself, with or
  without a prefix record (`Send`); only the counter of one rule never falls. An answer has any
  set of the records sent so far (`Query`), which is loss, delay, reordering and
  copies. `posting` names the flow at which it stopped and waits for a key.
- `Gui`: `poll_coordinator` and `background_thread` cut at every read and write
  of the shared counter, and the handler of a connecting client. Alerts do with
  their counter what records of flows do with theirs and are left out.

`excused` and `removed` are history variables that name the circumstances under
which the properties do not hold of this code; `taken` has the records a flow's
counter was last made of, which `StopsForACause` looks at.

### Experimenter

A session of `multicluster.py` or of `ha.py` (its partition and scaling tests) as
a script: `at` is its step, `list` and `pos` the loop it is in. The host is a part
of the state that a session does not reset: the rules of iptables as a bag (`-A`
adds one more, `-D` removes one), directories, ONOS processes of earlier
sessions (`stale`), services. `Killed` ends a session at any step, `UnpackFails`
and `sanityAlert` with the exceptions of the code. ONOS nodes pass the five
tests of `waitStarted` one by one (`Boot`) or die (`Die`); the last of them, READY,
takes more than half of the members it was started with (`Quorum`). `GenParts` is `genParts`
with its rotating deque; `Sorted` stands for the order of addresses, any order of
the nodes that stays. `PortsAssumption` says that there are fewer than 100 nodes,
100 being the host number of a TENNISON, and that the forwarded ports, with the
offset of `beta`, lie further apart than there are nodes: with those of `onos.py`
(8101, 8181, 6653 and 5000 for TENNISON) it holds for up to 20 nodes. With more,
ports of the two clusters would meet, and the code does not look.

## 4. Runs

"pass" runs check what the code does guarantee; the "violation" run shows where a
docstring promises something else. Each property of a passing run has a mutant
in `PROJECT.json`: a plausible bug that breaks it. The mutated forms (`MovedAll`,
`CheckNever`, ...) stand beside the definitions they replace and are used by
nothing else. Every run that passes also checks its module's types (`TypeOK`,
`ManagerTypeOK`, `AlertTypeOK`).

| Run | Instance | What it shows |
|---|---|---|
| `alert_query` | 2 alerts, 1 application, 2 collectors of different types, 3 times, TTL 1, 1 restart; fair | `AtMostOnce`; `NoLossOutsideWindow`: what is missed was in flight during a query, expired, or met a restart; `StoredIsAnswered` |
| `ipfix_handler` | 2 ids, 3 objects, 2 requests, 1 restart, 4 messages, a network, a protocol given by number; fair | `MessagesMeetLive`: masks against the dict, and what was applied was in force; `FileIsCurrent`: after a save that did not raise, the file has what is in memory, up to the names treatments write; `LoadedCatchesUp` |
| `alert_handler` | 2 ids, 3 objects, 2 requests, 1 restart, 3 alerts | `CallsCarryAskedFields`: the controller is asked exactly what the operator asked for |
| `alert_handler_dollar` | the same | `DollarIsThisAlert` fails: stale "$" |
| `snort_manager` | 2 switches, 3 places, 2 instances that move and share ports, 1 flow | `NothingWaitsInVain`: nothing waits where Snort is, nor of what is blocked; `InstanceMapsAgree` |
| `snort_tunnel` | 3 switches, all topologies, overlapping threads | `TunnelsLeadToSnort` once things are steady, whatever races came before; `NoForwardingLoop` before the first overlap, at any moment of a walk |
| `pig_relay` | 2 rules, one of them in the template, 2 requests, 2 starts, 3 processes; fair | `SnortHasFile`, `OthersAreAbandoned`, `RulesReachSnort` |
| `flow_statistics` | 2 switches, 3 flows (echo replies, GRE, UDP from port 40000), 6 scenarios, 2 datagrams in flight, records 1 second or 1 day apart | `EveryRuleIsReported`, `QueryIsComplete`, `SeenIsAnnounced` of the exporter; `RatesAddUp` and `CountersGoBackForCause` of exporter, network and handler together |
| `alert_relay` | 3 alerts, socket and queue of 1, 2 starts of each process; fair | `IsChannel`: the relay implements `AlertChannel`; `AlertsArrive` unless something failed |
| `coordinator` | 2 applications, one of them the default one and the GUI, 1 collector, 2 processes, 2 messages, 2 starts; fair | `NoneUnseen`: what runs is known, or one of the exceptions named; `QuitsUnlessUnsent` |
| `applications` | each application by itself: 2 sources, 2 ports, limit 1; 3 sources, limit 1, period 1; 1 flow, 2 rules, 2 rates, 3 records or 2 records and 3 settings; 4 records, 2 clients | `DetectorsAreRight`, `LearnerIsRight`, `SentOnce` |
| `experimenter` | 2 sessions of each kind, 1 + 2 nodes, 2 ports, kills everywhere; fair | `HostIsInOrder`: ports lead to this session's nodes, what ends leaves nothing; `ToldIsReady`: switches and nodes are told of nodes that are there; `WaitEnds`: unless a peer of the node waited for has died |

Bounds and why they are enough. `MaxClock = 2` with `Ttl = 1` lets an alert be
stamped before, during and after a query and expire between two; two alerts let
one be answered and the other lost in the same query. One application is
enough for `AlertQuery` because applications share nothing but the serial
service of WatsonNBI: the query times are kept per application, and answering
one does not change the database. Two thresholds, and three objects, allow one
to be replaced while another stays, and a removed object to be referenced; two
requests are what the races with one rebuild need (one that the rebuild
misses, one that hides it). One flow suffices in `SnortManager` because no
operation relates two; two switches let a request fail between them; two ports
of one switch let an instance stray without leaving it; `MaxPending = 2` lets a
selector wait twice. Three switches in a triangle contain the only cycles that
tunnels of that size can make and both an equal and a longer way round; the run
starts from every topology and changes links and devices at will; the theorem
`TunnelsDoNotLoop` covers every size. In `PigRelay` two requests overlap (one
queued, one being applied), two starts let a relay meet the Snort of the one
before, and three processes are two starts and a reload; when they are used up,
`ReloadStarts` is not possible but `SpawnFails` is, so that the thread goes on.
In `flow_statistics` each scenario (`MCBudgets`) bounds how often each event
may come: a rule from its first packets through poll and query to its final
record; a rule added again while its first life is reported; two flows with an
added rule between; two queries with a duplicated record; a device that leaves
before and after. The three flows are the three kinds the code tells apart: one
whose rule matches it alone, one whose rule (of addresses only) matches the
others, one that gets no rule; the first two share a 4-tuple. Two datagrams in
flight are what a reordering needs. The proofs cover everything beyond.

In `alert_relay` three alerts are one pushed, one on the wire and one in the
hand or behind, which is where an order could break; a second start of each
process lets alerts of an earlier one be met; limits of one make both the
socket and the push wait. In `coordinator` two processes are one recorded and
one about to be, so that the table changes its size under the closing thread;
the second start meets orphans of the first. In `applications` two ports exceed
a limit of one, two identities collide, and one pair of hosts is treated while
another waits; a period of one tick lets a source be forgotten and come back;
rates 3 and 4 differ in what is left of them (`Whole` of 3 is 2), so that what is
read back at a start is not what was set; three records are two of one rule
and one of another, in any order, enough for each way of falling and a final
record between; thresholds are set in the instance with two records and three
settings (`MCShares`), since a request depends on no more than that a rate was
learned. A record starts at most one tick before its end (`MaxLife`), and a
counter has two values. In `experimenter` the second session finds whatever the first left
at any of its steps, of another kind or the same. The scaling test grows from
one node to three, so that a file of one, of two and of three members is seen.

Deadlock is not checked where the model's clock or budget of requests or events
runs out
(`CHECK_DEADLOCK FALSE`); `SnortManager` and `SnortTunnel` are checked for it.

Symmetry is used only without liveness, over sets no definition orders: the
addresses in `snort_manager`, the switches in `snort_tunnel` and
`flow_statistics`, the rules of a flow in `applications`.

## 5. Fairness

`AlertQuery!FairSpec`: weak fairness of the main loop per collector (a thread
blocked in `recv_pyobj` wakes up when there is a message), weak fairness of the
request being served, strong fairness of starting a query: applications poll in
endless loops, and the listening socket hands out waiting connections in order,
although another application's request may be in the way each time. Nothing is
assumed of collectors, clock, TTL or restart.

`IpfixHandler!FairSpec`: weak fairness of each step of the loop once it has a
message, and of the request being served. Receiving is not fair: messages come
or not, so `LoadedCatchesUp` is about a loop that keeps receiving.

`PigFairSpec`: weak fairness of the update thread, which never leaves its
`while` loop and whose `get` wakes up when there is a rule, and of each Snort's
reading of its configuration. Nothing is assumed of the main thread, of requests,
or that a Snort ends.

`AlertRelay!FairSpec`: weak fairness of each thread's step: `recv`, `get`, `put`
and `recv_pyobj` wake up when they can go on, a request is accepted or refused
by the operating system, and one that was handled is answered. Nothing is
assumed of Snort, of starts or of ends.

`Coordinator!FairSpec`: weak fairness of closing alone: once a signal came the
main thread does nothing else. Where a collector's context waits for messages to
be sent that nobody receives any more it does not go on, and the property says so.

`Experimenter!FairSpec`: weak fairness of the script, a sequential program that
only the user stops at the CLI, and of each ONOS node's booting while all its
peers run. Nothing is assumed of a node with a dead peer, which may wait for it
for ever, or of deaths: no node has to exit because it does not boot. That a
healthy node is suspected (`HealthAlert`) is not fair.

## 6. Proofs

All for arbitrary constants, from the `ASSUME`s named in the modules: any number of
alerts, applications, switches, flows, processes, records.

`AlertQueryProofs`
- `TypeCorrect`: the type invariant.
- `AnsweredAtMostOnce`, assuming `Skew >= 0`: `AtMostOnce` alone is not
  inductive; the invariant adds that what was answered to a registered
  application is stamped at or below its query time, and that whatever a query
  in progress has found is stamped at or below now. Stamps never exceed the
  clock, the clock never goes back, and that is all the argument needs.
- `QueryWindowMovesForward`: query times never exceed now, hence moving them
  to now moves them forward.
- `OnlyTheLateAreMissed`, assuming `Skew <= 0`: `NoLossOutsideWindow`. Of what was
  stored or pushed, whatever lies below an application's query time has been
  answered to it, or is late (`CoveredIsSettled`); and whatever lies below the end
  of the window of a query in progress has been found by it, or is late
  (`WindowIsSettled`). When local time is ahead of UTC that fails at once: an
  alert is stamped below a window that was closed before it came.

`HandlersProofs`
- What both handlers share is stated once, for a section whose thresholds have
  the attributes `A` (`StoreInv(A)`): objects have contents, the dict leads to
  objects, an update is of an object that was in the dict, what is saved has
  every attribute. There is one lemma for each request, stop and start
  (`AddStep`, ..., `StartStep`); `Loading` says that a start finds an object for
  each entry, by a bijection from the ids to `1 .. n`.
- `FileHoldsThresholds`, assuming `RemoveSaves`: `FileIsCurrent` is not inductive.
  The text a save has copied must be that of the thresholds in force but for what
  treatments have named since (`FileInv`, `Holds`), which it is because requests come
  one at a time, and naming a protocol twice is naming it once (`NamedOnce`, by
  `RpcAssumption`): a content that is what the file has, or what a treatment
  made of that, stays one of the two. A save that raises leaves `Failed`, of
  which nothing is claimed. For the snort section the assumption does not hold of
  the code, and neither does the property (section 7).
- `HandlerTypes`: the walk of a rebuild stays within the dict (`TypeInv`), and what
  is removed stays an object for whoever holds it.
- `MessagesMeetThresholds`: masks are those of the copy at each label outside a
  rebuild, and those of the part of the dict walked so far within one
  (`MaskInv`); contents in the copy and in force are among those seen since
  the message came (`SeenInv`). `MasksFindAll` is the step from there to the lookup:
  comparing by masks first finds what comparing everything finds.
- `AlertTypes`: the walk stays within the dict, and the threshold that is filled in
  is one that matched, in the dict or not any more (`WalkInv`).
- `AskedFieldsAreCarried`: the fields of a threshold have the keys it was given, and
  each the value it was given, what an alert put in place of "$", or the name of
  the protocol that was given (`AskedInv`). Calls may rename a field any number
  of times, so the proof needs that no name is a number (`RpcAssumption`,
  which the table in `rpc.py` satisfies): a field that was renamed is not
  renamed again. A "$" that is replaced was a "$" that was asked for, as no name is
  "$".

`SnortProofs`: the tunnels
- `TypeCorrect`: also for overlapping walks. The invariant adds that a walk's
  current switch is known while it has links left, without which the hop
  count of the next could not be typed.
- `TunnelsDoNotLoop`: until a reset or a walk begins in the midst of another,
  no set of switches forwards only into itself. The invariant: each switch with
  a bucket either has hops below zero (`Ranked` leaves it out) or leads to one
  with fewer hops; what a walk has reached it has reached from a switch with
  fewer hops; switches not reached since the last reset keep old groups, which
  by themselves do not loop. A step of a walk turns one group from the old part
  into the new; a loop would have to leave the new part, which only leads to
  lower hops, or lie in the old part, which is a subset of one that did not
  loop. The lemma `LeastExists` takes the switch of least hops from a supposed
  loop, by well-founded induction on an explicit relation. `overlapped` never
  goes back to false (`OverlapStep`), so the invariant is needed only before it
  becomes true.
- `TunnelsAreShortest`: once things are steady the hops are the distances to the
  nearest instance and the groups follow them, whatever walks overlapped before.
  This is about completed walks; what is inductive (`SteadyInv`) says what a walk
  under way still owes. Only one walk is under way (`Separate`); 0 is the distance
  of those set up and of no others (`Zeros`); each group leads to a smaller
  distance (`Leads`); a link leads at most one hop farther unless the walk has
  yet to look at it (`Relaxed`). That a breadth-first walk never has to correct
  itself is `InOrder`: its queue is sorted by distance, what it has queued or
  seen is at most one hop beyond where it stands, so a switch that it has seen
  need not be seen again. A walk that has ended waits for nothing, which leaves
  `Relaxed` for all links, hence distances.

`SnortProofs`: the manager
- `ManagerTypes`: with each request's effect on the lists of what waits as a lemma
  (`Forgetting`, `Waiting`, `Installing`, `Flushing`).
- `NothingWaitsForNothing`: a block takes one entry off each list, so the invariant
  says that a flow not asked for twice is there at most once (`OnceEach`).
- `InstancesAgree`: a switch with an instance has an inner map, a tunnel ends at
  an instance; until a host moves no two are at one port, each is where the map
  has it, and the blocks of what comes back are exactly theirs (`MapsInv`).

`FlowStatisticsProofs`
- `TypeCorrect`: in particular, an entry the controller believes to be added has
  a rule in its switch.
- `SeenAnnounced`, inductive as it stands: what a step takes from one of the
  sets it puts in another, and no device comes back.
- `QueriesAreComplete`: what a query owes is an entry of a device it has not
  reached (`OwedInv`); a rule added again stays owed, one that times out does
  not.
- `EveryRuleReported`: the difference of two counters is the cardinality of the
  events on their way (`CountInv`). An event is new because its time is later
  than any other's.
- `CountersGoBackOnlyForCause`: of all that was said and may still arrive
  (`Said`: in flight, on its way to the listener, or remembered), what was said
  later of one rule is no less (`CounterInv`). It needs that what was said is at
  most what the controller knows while the rule lives, that this is at most the
  switch's counter, and that a rule added again has a life of its own.
- `RatesAddUpAlways`, assuming that `Seconds` of every time in `Elapsed` is 0 or
  1: otherwise a sum of rates is not a number of bytes.

`PigProofs`: the way of alerts
- `OrderIsKept`, `NothingComesTwice`, `NothingGetsLost`, about the channel: what is
  received or on its way is a subsequence of the reports, each of which is there
  once; while nothing has failed it is all of them.
- `TypeCorrect`: the invariant adds that there is a socket only while there is a
  listener (`Unbound`).
- `RelayIsChannel`: `Spec => IsChannel`. Each step of the relay takes from one part
  of `Way` what it puts at the end of the one before, and is then a stutter
  (`PassesOn`); or appends a report; or takes the head, which is only possible
  where nothing is before it (`HeadOfWay`); or cuts out a part, with a fault added
  (`CutIsFail`). The end of the relay cuts `hand`, `queue` and `sock`, which lie
  side by side; that of the coordinator `pushed` and `wire`.
- `RelayKeepsOrder`: the three theorems about the channel, instantiated through
  the mapping.

`PigProofs`: the way of rules
- `PigTypes`: the invariant adds that each end of the relay is preceded by a
  start of its own, which bounds `abandoned`. That `pc` never leaves its labels
  says that no exception ends the update thread.
- `RunningSnortHasFile`: `SnortHasFile` also has to hold once a rule has been
  taken and before the file is touched, and between the reload's stop and start
  the relay's Snort does not run: the one started next has read nothing yet.
- `SnortsLeftAreCounted`: only the end of the relay adds to the Snorts that run
  and are not its own (`StepOwns`: the new Snort is the relay's own, and the one
  it replaces does not run). A relay that was stopped while it did not reload
  has stopped its Snort and starts no other (`Quiet`); for any other end there
  is one in `abandoned`.

`CoordinatorProofs`
- `TypeCorrect`.
- `NothingRunsUnseen`: `NoneUnseen` needs what the northbound thread has in its hands
  (`InHand`: one that it spawned has an application without an entry; one that
  it kills does not run and has its entry still), that entries are of their own
  application (`Entries`), and that while closing what was visited does not run
  or is late (`ClosedSoFar`). A new process has a number of its own (`PopenStep`);
  what a process does by itself never makes it run again (`Tame`).

`ApplicationsProofs`
- `ApplicationTypes`: the types of all four. For the GUI this is where the counters
  may go wrong: what a thread has read, or still wants to send, is never more than
  what there is, and none falls below zero.
- `DetectorsDetect`: what used too many ports was treated, and what was treated is
  blocked, excused, or what `treat_flow` is about; what is counted while an answer
  is taken was heard within the period.
- `LearnerLearns`: the cache needs that what the coordinator has is whole. For the
  stop, what a rule sent earlier has no more octets than what it sent later, but for
  prefix records (`CountsOn`); and what the application knows of a
  flow is what it took last of it: its octets, or zero after a final record, and a
  time among those taken (`Knows`). A record that falls below the last of its own
  rule was then sent before it. Nothing is assumed of the network.
- `RecordsAreSentOnce`: the counter says which records are still to be sent
  (`Sent`); wherever a step of one thread falls between two of the other, the
  records that are there are excused (`Excuses`).

`ExperimenterProofs`
- `ExperimenterTypes`: the type invariant says which script is at which step and
  what the loop of each step goes over, the active nodes without repetition. The
  order of addresses is any order, so it has to be shown that a finite set can be
  sorted (`SortedExists`, by its cardinality).
- `NodesAreReady`: `ToldIsReady` needs which nodes are started at each step
  (`StartedInv`), that all started nodes but those of the loop are ready
  (`ReadyInv`) and that the file was written for the active nodes, in whatever order
  (`FileInv`; the node that leaves is missing from it). `PartsFacts` is about
  `genParts`: what the remainders of neighbouring places can be.
- `HostStaysInOrder`: rules that are forwarded from the same port are the same
  (`KnownApart`, from `PortsAssumption`), and a list has none twice
  (`FirstRulesKnown`), so deleting each and then adding each leaves it as often as
  it was, or once (`BagInv`, in the midst of both loops); the two clusters and the
  TENNISON nodes delete none of each other's (`DeletesOwn`, for `KeptInv`). What is
  taken down is gone step by step (`CleanInv`).

Only model-checked: all liveness (`StoredIsAnswered`, `LoadedCatchesUp`, `RulesReachSnort`, `AlertsArrive`,
`QuitsUnlessUnsent`, `WaitEnds` with what `WaitsForTheDead` exempts), which the prover cannot treat. Each strengthened
invariant was checked by TLC on its run's instance before it was proved.

## 7. What the checks found

One docstring is contradicted by a run; `PROJECT.json` quotes the lines.

- "$" is replaced for good by the first alert (`core/messagehandler.py:74`, run
  `alert_handler_dollar`).

The following was seen in the code while it was translated. The models have it,
at the place named, and the properties are stated so that they hold with it; no
run is devoted to it.

- An alert in flight during a query is never answered (`core/watson.py:223`):
  `late` of `AlertQuery`, the exception of `NoLossOutsideWindow`.
- An update of a threshold's fields leaves its mask as it was, because the copy
  it is compared with is shallow (`core/messagehandler.py:213`): `raced` of
  `IpfixHandler`.
- Which threshold has the highest priority is decided before its metric is
  tested (`core/messagehandler.py:258`), so one that is not exceeded hides others:
  `Found`.
- A blocked flow can be sent to Snort again, when it had been waiting twice
  (`SnortManager.java:372` and `:402`): `repeated`.
- Overlapping walks can leave a forwarding loop, although the walk is said to
  have none (`SnortTunnel.java:65`, `:126`): `overlapped`.
- Alerts are stamped in UTC and queried in local time (`core/collector.py:49`):
  `Skew` of `AlertQuery`. Behind UTC (`Skew < 0`) alerts are answered repeatedly,
  hence the assumption of `AnsweredAtMostOnce`; ahead of it they are lost.
- sFlow-RT alerts are never answered (`core/watson.py:279`): `Mute`.
- A nameless protocol, such as the 255 the exporter sends for flows without
  one, ends the coordinator (`core/messagehandler.py:355`): `MatchRaises`.
- A crash during a save, or a dump that raises, loses all thresholds at the next
  start (`core/watson.py:464`): `file = Truncated`, from which `Start` is not possible.
- A save that raises is answered 500, but its change is in force, and the file is
  the old one until another save (`core/watson.py:464-465`): `OpenFails`, `Failed`.
- A treatment writes the name of a protocol over its number in the threshold it
  treats by (`core/messagehandler.py:263`, `core/rpc.py:96`), in memory, and in the
  file from the next save on: `Treat`, the second content of `FileIsCurrent`.
- Removed snort thresholds come back after a restart (`core/watson.py:397`):
  `RemoveSaves = FALSE`.
- A threshold on protocol 58 calls once (`core/rpc.py:96`): `Sendable`.
- A mirror and a redirect share one identity, what waited is installed for 10
  seconds whatever was asked, an instance that is removed leaves an empty map
  that raises, the block of a moved instance's old port stays
  (`SnortManager.java`): `send`, `Connect`, `Emptied`, `strayed`.
- Hops of gone instances stay until the next device event, an event can end
  half way, new links get no tunnels until then (`SnortTunnel.java`): `steady`.
- A relay that is killed, whose announcement raises, or that is interrupted
  while it reloads, leaves a Snort (`pig-relay/pigrelay.py:298`): `abandoned`.
- When Snort is found dead and its next start fails, every later reload raises at
  SIGHUP and no Snort is started again (`pig-relay/snort.py:156-169`):
  `HangupRaises`.
- The rule file is not reset to the template at a start, only by a clear
  (`pig-relay/snort.py:67`), so rules outlive the relay: `PigBoot`.

- The statistics are kept per 4-tuple (`core/messagehandler.py:165`), so a flow's
  counter goes back when two switches, or two protocols, take turns, and its
  rate is negative: the causes in `CountersGoBackForCause`. The prefix record
  that starts a new rule has the same effect.
- UDP ports above 32767, ICMP types or codes above 127 and IPv6 flows are never
  monitored, and their prefix records never sent, because the selector cannot be
  built (`IpfixManager.java:331`, `FlowMonitorManager.java:304`): `Unfit`.
- A flow of a protocol without ports gets a rule of addresses only, which counts
  every other flow between the two hosts, so that these are not announced
  (`IpfixManager.java:321`): `Covers`, `covered`.
- `/ipfix/add` installs rules without a prefix record (`IpfixManager.java:353`),
  while `onos-tennison-apps/README.md:15` has one sent for
  each rule that is added: `AddIpfix`.
- The collector of prefix records is a constant, whatever is configured
  (`FlowMonitorManager.java:315`).
- A device that leaves during a query ends it (`IpfixManager.java:545`), and the
  polling thread ends with the first exception (`core/interfixpoll.py:18`):
  `QueryRaises`; `StartQuery` is not fair.

- A signal does not end a coordinator that has messages nobody will receive: the
  contexts of the collectors wait for ever (`tennison.py:212-215`): the exception of
  `QuitsUnlessUnsent`.
- An application started in a shell, or by a GUI, outlives the coordinator's
  `terminate` or `kill`, which ends only what it spawned: `Terminated`, `Killed`. One
  that is started while the coordinator closes, or that it has when it dies, is
  left running: `late`, `orphans`.
- The threshold application waits for a key when time stands still or a counter
  falls, which it does when two switches or protocols share a 4-tuple, when a
  rule is made again (`/ipfix/add` sends no prefix record), or when records are
  reordered or copied (`Flow.py:123`), and makes differences of differences
  (`Flow.py:69`): `Learn`, the causes in `StopsForACause`.
- The GUI sends records as `threshold_update`, and its counter of thresholds is
  set to zero by nobody but a new client (`app.py:54`): `Emit`.
- The DDoS application asks for the same mirror again and again, as its list of
  attacks stays empty: `source_tracker`.
- A call of the coordinator that times out is not repeated, and may have been
  carried out (`core/rpc.py:82`, `:96`, `:108`); `query_sflow` answers nothing at
  all (`core/watson.py:279`).
- Stopping a TENNISON node of the experimenter kills every Python of the host,
  the script itself among them, so the second node and the clusters are never
  stopped (`tennison.py:80` of the experimenter): `StopTennison`.
- The scaling test adds its rules without deleting old ones, so rules pile up
  (`extra`); nodes it drops are never stopped and keep their rules; switches are
  told of the first nodes only; with more than five nodes some are in no
  partition; and it waits for ever for a node that has died (`ha.py:215`): `Grow`,
  `Shrink`, `StartSwitches`, `WaitsForTheDead`.
- No wait of the experimenter has a timeout or looks at another process than that
  of the node waited for (`onos.py:164`, `:362-394`): a live node that misses a
  dead peer is waited for for ever, in any session: `Boot`, `WaitsForTheDead`.
- The partition test asks its nodes to warn only, an option that never reaches
  them (`ha.py:390`): `AlertAction`.

## 8. Not modelled

Parsing and encoding (IPFIX packets, pickles, Scapy, YAML) has no state and is
represented by what it yields; of a Snort alert the layout is modelled, not the
values in it. The tiered manager is a stub, `FlowRuleEventListener` is not used,
and neither are the raw and the JSON-RPC relay nor `pig-relay/daemon.py`. Of the
exporter, the query for one flow (`IpfixManager.java` 563-), records of reactive
forwarding's entries and changes of the configuration are left out; of the
statistics, the comparison with thresholds. Of the applications, the anomaly
detection and the visualisation are scripts over their output; of the graphical
interfaces, pages and templates are presentation. Of the experimenter, the
commands of its CLI, its environment variables and the server of `cluster.json`
are left out; of its `old` directory only `ha.py` is modelled, the other copies are
left out, and so are the other development tools, which nothing of the system
calls.
