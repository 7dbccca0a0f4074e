--------------------------- MODULE MCAlertHandler ---------------------------
(* Thresholds, alerts and calls for TLC. The protocol number 58 is "58", its *)
(* name "icmp6": the only name that is not in _valid_protocol_identifiers.   *)
EXTENDS AlertHandler, TLC

T(alertmsg, priority, fields) ==
  [alertmsg |-> alertmsg, priority |-> priority, treatment |-> "block",
   treatment_fields |-> fields]

Source == [sourceIPv4Address |-> "$"]
Icmp6  == [sourceIPv4Address |-> "$", protocolIdentifier |-> "58"]
Plain  == T("scan", 10, Absent)

MCBoot == "s1" :> T("scan", 10, Source)

MCContents == {T("scan", 20, Icmp6), T(Absent, 10, Absent)}
MCPatches  == {[treatment_fields |-> [sourceIPv4Address |-> "h3"], treatment |-> "redirect"]}
NoPatches  == {}

Alert(ip, proto) ==
  [alertmsg |-> "scan",
   pkt |-> snort_pkt_values([mac |-> "m1", ip |-> ip, to |-> "h9", proto |-> proto, port |-> "80"])]
MCAlerts == {Alert("h1", "tcp"), Alert("h2", "gre"), Alert(Absent, Absent)}
MCSflow == {[action |-> "ddos_set", host |-> "h1"], [action |-> "ddos_clear", host |-> "h1"]}

MCMethod == [ipfix |-> "ipfix/add", snort_mirror |-> "mirror/add",
             snort_redir |-> "redirect/add", block |-> "block/add",
             ddos_set |-> "block/add", ddos_clear |-> "block/delete"]
MCNameOf == ("1" :> "icmp" @@ "6" :> "tcp" @@ "17" :> "udp" @@ "58" :> "icmp6")
MCValidNames == {"icmp", "tcp", "udp"}
=============================================================================
