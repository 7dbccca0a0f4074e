---------------------------- MODULE AlertChannel ----------------------------
(***************************************************************************)
(* What the way of an alert from Snort to the coordinator promises: a pipe *)
(* that is first in, first out, that delivers nothing twice and invents    *)
(* nothing, and that loses nothing but where something has failed.         *)
(* AlertRelay implements it.                                               *)
(***************************************************************************)
EXTENDS Integers, Sequences

CONSTANT Alerts   \* the events Snort reports, each once

VARIABLES
  log,     \* what Snort has reported, in order
  pipe,    \* what is on its way, oldest first
  got,     \* what the coordinator has received, in order
  faulty   \* whether anything has failed yet

chanVars == <<log, pipe, got, faulty>>

Reported == {log[i] : i \in DOMAIN log}

Init == log = <<>> /\ pipe = <<>> /\ got = <<>> /\ faulty = FALSE

Report(a) ==
  /\ a \notin Reported
  /\ log' = Append(log, a)
  /\ \/ pipe' = Append(pipe, a) /\ UNCHANGED <<got, faulty>>
     \/ faulty' = TRUE /\ UNCHANGED <<pipe, got>>

Deliver ==
  /\ pipe # <<>>
  /\ got' = Append(got, Head(pipe)) /\ pipe' = Tail(pipe)
  /\ UNCHANGED <<log, faulty>>

(* A failure takes what is next to each other in one part of the way.        *)
Fail ==
  /\ \E i \in 0 .. Len(pipe) : \E j \in i .. Len(pipe) :
       pipe' = SubSeq(pipe, 1, i) \o SubSeq(pipe, j + 1, Len(pipe))
  /\ faulty' = TRUE
  /\ UNCHANGED <<log, got>>

Next == (\E a \in Alerts : Report(a)) \/ Deliver \/ Fail

Spec == Init /\ [][Next]_chanVars
-----------------------------------------------------------------------------
Line == got \o pipe

(* Of any two alerts received, or on their way, the one before the other     *)
(* was reported before the other: none twice, none out of order.             *)
InOrder ==
  \A i, j \in DOMAIN Line : i < j =>
    \E m, n \in DOMAIN log : m < n /\ log[m] = Line[i] /\ log[n] = Line[j]

(* As long as nothing has failed everything reported is received or on its   *)
(* way.                                                                      *)
NoFaultNoLoss == ~faulty => log = Line
=============================================================================
