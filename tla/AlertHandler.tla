---------------------------- MODULE AlertHandler ----------------------------
(***************************************************************************)
(* The main loop of the coordinator on a Snort or sFlow-RT alert:          *)
(* messagehandler.Snort and sFlowRT, Treatment.apply and the URL that      *)
(* rpc.RPC forms, next to the northbound requests on the snort thresholds  *)
(* (ThresholdStore).                                                       *)
(*                                                                         *)
(* A threshold's treatment_fields may hold "$": the value of that field in *)
(* the alert. The loop writes it into the threshold itself, the object the *)
(* northbound requests, the file and the next alerts use too.              *)
(***************************************************************************)
EXTENDS ThresholdStore, Rpc, TLC

CONSTANTS
  Alerts,      \* Snort alerts: [alertmsg, pkt : field name -> value]
  SflowAlerts, \* sFlow-RT alerts: [action, host]
  Absent,      \* a threshold without the key ("alertmsg", "treatment_fields")
  Method       \* treatment -> [module, method] of the call it makes

(* add_snort_threshold refuses a threshold without priority or treatment;    *)
(* one without alertmsg or treatment_fields is Absent there.                 *)
ASSUME AlertAssumption ==
  \A c \in Contents \cup {Boot[id] : id \in DOMAIN Boot} :
    {"alertmsg", "priority", "treatment", "treatment_fields"} \subseteq DOMAIN c

VARIABLES
  step,      \* where the main loop is
  alert,     \* the alert being handled
  ahead, length,  \* the iterator over the live dict: entries ahead, size at start
  matches,   \* thresholds whose alertmsg is the alert's
  chosen,    \* the one of highest priority
  tf,        \* the treatment_fields dict being walked by _create_treatment_fields
  rest,      \* its fields not walked yet
  call,      \* the last call sent to ONOS, or Absent
  asked,     \* history: object -> the treatment_fields last written by a request
  torn       \* history: objects a request wrote while the loop was filling them

alertLoop == <<step, alert, ahead, length, matches, chosen, tf, rest>>
memory == <<asked, torn>>
alertVars == <<store, alertLoop, call, memory>>

(* snort_pkt_values: the fields the collector finds in the packet of an      *)
(* alert; a frame has MAC addresses, IP in it addresses, and three protocols *)
(* have a name and ports, ICMP its type and code.                            *)
OfIP(frame) == [sourceIPv4Address |-> frame.ip, destinationIPv4Address |-> frame.to]
OfProtocol(frame) == [protocolIdentifier |-> frame.proto, sourceTransportPort |-> frame.port,
                      destinationTransportPort |-> frame.port]
snort_pkt_values(frame) ==
  [sourceMacAddress |-> frame.mac, destinationMacAddress |-> frame.mac]
    @@ (IF frame.ip = Absent THEN <<>> ELSE OfIP(frame))
    @@ (IF frame.ip # Absent /\ frame.proto \in {"tcp", "udp", "icmp"} THEN OfProtocol(frame) ELSE <<>>)

AtStep(label) == up /\ step = label
GoTo(label) == step' = label
FieldsOf(o) == obj[o].treatment_fields
-----------------------------------------------------------------------------
(* RPC._wildcard_payload: fields that are missing become '*'.                *)
OnosKeys     == {"sourceIPv4Address", "sourceTransportPort", "destinationIPv4Address",
                 "destinationTransportPort", "protocolIdentifier"}
WildcardProtocol(f) ==                                   \* mutant: one key too few
  [k \in OnosKeys |-> IF k \in DOMAIN f \ {"protocolIdentifier"} THEN f[k] ELSE "*"]
Wildcard(f) == [k \in OnosKeys |-> IF k \in DOMAIN f THEN f[k] ELSE "*"]

(* Treatment.apply and RPC._onos, whose failure nobody looks at. An empty    *)
(* dict is no payload: the URL ends after the method.                        *)
Send(treatment, f) ==
  call' = IF Sendable(f)
          THEN [at |-> Method[treatment],
                fields |-> IF DOMAIN f = {} THEN f ELSE Wildcard(Named(f))]
          ELSE Absent
-----------------------------------------------------------------------------
AlertInit == /\ StoreInit
             /\ step = "recv" /\ alert \in Alerts
             /\ ahead = {} /\ length = 0 /\ matches = {} /\ chosen = None
             /\ tf = Absent /\ rest = {} /\ call = Absent
             /\ asked = [o \in DOMAIN obj |-> FieldsOf(o)]
             /\ torn = {}

ReceiveAlert == /\ AtStep("recv") /\ GoTo("scan")
                /\ alert' \in Alerts
                /\ matches' = {} /\ ahead' = Present /\ length' = Cardinality(Present)
                /\ UNCHANGED <<store, chosen, tf, rest, call, memory>>

(* Snort._find_match: walk the live dict. A write by a request that changes  *)
(* its size ends the walk with RuntimeError, a threshold that was added      *)
(* without 'alertmsg' with KeyError.                                         *)
Scan == /\ AtStep("scan")
        /\ Cardinality(Present) = length
        /\ \E id \in ahead :
             LET o == live[id]
             IN  /\ ahead' = ahead \ {id}
                 /\ IF obj[o].alertmsg = Absent
                    THEN GoTo("raised") /\ UNCHANGED matches
                    ELSE /\ matches' = IF obj[o].alertmsg = alert.alertmsg
                                       THEN matches \cup {o} ELSE matches
                         /\ UNCHANGED step
        /\ UNCHANGED <<store, alert, length, chosen, tf, rest, call, memory>>

ScanRaises == /\ AtStep("scan")
              /\ Cardinality(Present) # length
              /\ GoTo("raised")
              /\ UNCHANGED <<store, alert, ahead, length, matches, chosen, tf, rest, call, memory>>

HighestMatches == {o \in matches : \A p \in matches : obj[p].priority <= obj[o].priority}

(* _find_highest_priority_match; without treatment_fields the alert's own    *)
(* packet is what is treated.                                                *)
ChooseNone == /\ AtStep("scan")                          \* mutant: nothing assigned
              /\ Cardinality(Present) = length /\ ahead = {}
              /\ GoTo(IF matches = {} THEN "recv" ELSE "fill")
              /\ UNCHANGED <<store, alert, ahead, length, matches, chosen, tf, rest, call, memory>>

Choose == /\ AtStep("scan")
          /\ Cardinality(Present) = length /\ ahead = {}
          /\ IF matches = {}
             THEN GoTo("recv") /\ UNCHANGED <<chosen, tf, rest>>
             ELSE \E o \in HighestMatches :
                    /\ chosen' = o
                    /\ tf' = FieldsOf(o)
                    /\ rest' = IF FieldsOf(o) = Absent THEN {} ELSE DOMAIN FieldsOf(o)
                    /\ GoTo("fill")
          /\ UNCHANGED <<store, alert, ahead, length, matches, call, memory>>

(* _create_treatment_fields: a "$" is overwritten, in the threshold, by the  *)
(* packet's field; a packet without that field raises KeyError.              *)
Fills(k)       == tf[k] = "$"

Fill == /\ AtStep("fill")
        /\ \E k \in rest :
             /\ rest' = rest \ {k}
             /\ \/ ~Fills(k) /\ UNCHANGED <<obj, step>>
                \/ Fills(k) /\ k \notin DOMAIN alert.pkt /\ GoTo("raised") /\ UNCHANGED obj
                \/ /\ Fills(k) /\ k \in DOMAIN alert.pkt
                   /\ obj' = [obj EXCEPT ![chosen].treatment_fields =
                                [x \in DOMAIN @ \cup {k} |->
                                   IF x = k THEN alert.pkt[k] ELSE @[x]]]
                   /\ UNCHANGED step
        /\ UNCHANGED <<live, file, nbi, up, writes, starts>>
        /\ UNCHANGED <<alert, ahead, length, matches, chosen, tf, call, memory>>

(* Treatment.apply, with the dict as it is now: the threshold's own, where   *)
(* the URL may leave a protocol's name instead of its number, or the packet. *)
TreatAlert == /\ AtStep("fill") /\ rest = {}
              /\ LET own == tf # Absent
                     f == IF own THEN FieldsOf(chosen) ELSE alert.pkt
                 IN  IF obj[chosen].treatment \notin DOMAIN Method
                     THEN GoTo("raised") /\ UNCHANGED <<obj, call>>
                     ELSE /\ GoTo("recv") /\ Send(obj[chosen].treatment, f)
                          /\ obj' = IF own /\ Sendable(f)
                                    THEN [obj EXCEPT ![chosen].treatment_fields = Named(f)]
                                    ELSE obj
              /\ UNCHANGED <<live, file, nbi, up, writes, starts>>
              /\ UNCHANGED <<alert, ahead, length, matches, chosen, tf, rest, memory>>

(* sFlowRT.handle: no threshold is looked at; the action names the treatment. *)
Sflow == /\ AtStep("recv")
         /\ \E a \in SflowAlerts :
              IF a.action \in DOMAIN Method
              THEN Send(a.action, [sourceIPv4Address |-> a.host]) /\ UNCHANGED step
              ELSE GoTo("raised") /\ UNCHANGED call
         /\ UNCHANGED <<store, alert, ahead, length, matches, chosen, tf, rest, memory>>

AlertLoop == ReceiveAlert \/ Scan \/ ScanRaises \/ Choose \/ Fill \/ TreatAlert \/ Sflow
-----------------------------------------------------------------------------
(* The northbound requests on the snort thresholds. *)
SnortAdd(id) == /\ Add(id)
                /\ ahead' \in IF step = "scan" THEN {ahead, ahead \cup {id}} ELSE {ahead}
                /\ asked' = [o \in DOMAIN obj' |-> IF o = Fresh THEN obj'[o].treatment_fields
                                                    ELSE asked[o]]
                /\ UNCHANGED torn

SnortRemove(id) == Remove(id) /\ ahead' = ahead \ {id} /\ UNCHANGED memory

SnortPatch(k) == /\ PatchKey(k)
                 /\ asked' = IF k = "treatment_fields"
                             THEN [asked EXCEPT ![nbi.of] = nbi.patch[k]] ELSE asked
                 /\ torn' = IF k = "treatment_fields" /\ step = "fill" /\ chosen = nbi.of
                            THEN torn \cup {nbi.of} ELSE torn
                 /\ UNCHANGED ahead

SnortOther == /\ (\E id \in Ids : Update(id)) \/ SaveElsewhere \/ Save
              /\ UNCHANGED <<ahead, memory>>

SnortNbi == /\ \/ \E id \in Ids : SnortAdd(id) \/ SnortRemove(id)
               \/ \E k \in ToPatch : SnortPatch(k)
               \/ SnortOther
            /\ UNCHANGED <<step, alert, length, matches, chosen, tf, rest, call>>

AlertKill == Stop /\ UNCHANGED <<alertLoop, call, memory>>

AlertBoots == /\ Start /\ GoTo("recv")
              /\ asked' = [o \in DOMAIN obj' |-> obj'[o].treatment_fields]
              /\ call' = Absent /\ torn' = {}
              /\ UNCHANGED <<alert, ahead, length, matches, chosen, tf, rest>>

AlertNext == AlertLoop \/ SnortNbi \/ AlertKill \/ AlertBoots

AlertSpec == AlertInit /\ [][AlertNext]_alertVars
-----------------------------------------------------------------------------
AlertTypeOK ==
  /\ StoreTypeOK
  /\ step \in {"recv", "scan", "fill", "raised"}
  /\ alert \in Alerts
  /\ ahead \subseteq Ids /\ length \in 0 .. Cardinality(Ids)
  /\ matches \subseteq Objects
  /\ (up /\ step = "fill") => chosen \in matches \cap DOMAIN obj

Asks(o, k) == asked[o] # Absent /\ k \in DOMAIN asked[o] /\ asked[o][k] = "$"

(* "Combination of fields within message and variable treatment_fields"      *)
(* (core/messagehandler.py:63): when the treatment is about to be applied, a *)
(* field the operator gave as "$" has the value it has in this alert.        *)
DollarIsThisAlert ==
  (up /\ step = "fill" /\ rest = {} /\ tf # Absent) =>
    \A k \in DOMAIN FieldsOf(chosen) :
      (Asks(chosen, k) /\ k \in DOMAIN alert.pkt) => FieldsOf(chosen)[k] = alert.pkt[k]

(* A treatment reaches ONOS with exactly the fields the operator asked for:  *)
(* each field that is not "$" with its value (a protocol by name), and a     *)
(* wildcard for each field that is not asked for, where some are.            *)
CallsCarryAskedFields ==
  [][(step = "fill" /\ step' = "recv" /\ call' # Absent /\ tf # Absent /\ chosen \notin torn
      /\ DOMAIN asked[chosen] # {}) =>
       LET f == asked[chosen]
       IN  \A k \in OnosKeys :
             \/ k \in DOMAIN f /\ (f[k] = "$" \/ call'.fields[k] = Named(f)[k])
             \/ k \notin DOMAIN f /\ call'.fields[k] = "*"]_alertVars

=============================================================================
