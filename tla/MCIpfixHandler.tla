--------------------------- MODULE MCIpfixHandler ---------------------------
(* Thresholds and messages for TLC. Field values: "h1", "h2" are hosts, and  *)
(* "p255" is what the exporter sends for a flow entry without an IP protocol *)
(* criterion, a number that has no name; a message with protocol 6 has       *)
(* "tcp" here. The network "net" has both hosts. The number 6 is "6" in the  *)
(* treatment_fields of the second threshold.                                 *)
EXTENDS IpfixHandler, TLC

T(fields, priority, treatment) ==
  [fields |-> fields, priority |-> priority, treatment |-> treatment]
Prefix   == [subtype |-> "prefix"]
Interfix == [subtype |-> "interfix"]
Metric   == [metric |-> "byte_total", threshold |-> 1]

Src  == [sourceIPv4Address |-> "net"]
Port == [sourceIPv4Address |-> "h1", destinationTransportPort |-> 21]
Tcp  == [protocolIdentifier |-> "tcp"]

Low  == T(Src, 10, "snort_mirror")
High == T(Port, 20, "block") @@ Prefix @@ Metric
Own  == T(Tcp, 20, "block") @@ [treatment_fields |-> [protocolIdentifier |-> "6"]]

BootTcp == "t1" :> Low @@ "t2" :> Own

MCContents == {Low, High}
MCPatches  == {[fields |-> Port, priority |-> 30], [treatment |-> "blok"] @@ Prefix}

M(fields) == [fields |-> fields] @@ Prefix
AllMessages ==
  {M([sourceIPv4Address |-> "h1", destinationTransportPort |-> 21]),
   [fields |-> [sourceIPv4Address |-> "h2", protocolIdentifier |-> "p255"]] @@ Interfix,
   M([sourceIPv4Address |-> "h1", protocolIdentifier |-> "tcp"]),
   M([sourceMacAddress |-> "m1"])}

MCFlowFields == {"sourceIPv4Address"}
MCNetworks   == "net" :> {"h1", "h2"}
MCNameOf     == "6" :> "tcp"
MCValidNames == {"tcp"}
MCTreatments == {"ipfix", "snort_mirror", "snort_redir", "block"}
=============================================================================
