-------------------------- MODULE MCFlowStatistics --------------------------
(* One pair of hosts: echo replies (ICMP type 0, code 0) and GRE, whose rule *)
(* matches everything between the two hosts. Both have ports 0 in their      *)
(* records. A UDP flow from port 40000 has no selector.                      *)
EXTENDS FlowStatistics, TLC

DeviceSymmetry == Permutations(Devices)

CONSTANTS s1, s2

MCCovers == [f \in Flows |-> IF f = "gre" THEN Flows ELSE {f}]
MCKey == [f \in Flows |-> IF f = "udp" THEN "h1-h2-40000-53" ELSE "h1-h2-0-0"]

(* Scenarios: rules from their first packet to their final record; rules     *)
(* added again; two queries; a device that leaves.                           *)
B(p, o, t, a, q, l, c) == [packet |-> p, poll |-> o, timeout |-> t, add |-> a,
                           query |-> q, leave |-> l, copy |-> c]

MCBudgets == {B(2, 1, 1, 0, 1, 0, 0), B(1, 1, 1, 1, 1, 0, 0), B(2, 0, 0, 1, 0, 0, 0),
              B(1, 0, 0, 0, 2, 0, 1), B(1, 0, 1, 0, 1, 1, 0), B(1, 0, 2, 1, 0, 1, 0)}
=============================================================================
