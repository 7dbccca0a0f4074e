----------------------------- MODULE AlertRelay -----------------------------
(***************************************************************************)
(* The way of an alert: Snort writes a datagram to a unix socket; the      *)
(* relay's listener thread moves it into a queue, its sender thread posts  *)
(* one after the other to the coordinator's Snort collector; the collector *)
(* decodes a request and pushes it to the main loop. The relay and the     *)
(* coordinator may each end and start again.                               *)
(*                                                                         *)
(* A datagram of Snort has the size of one alert, so the sender's buffer   *)
(* holds whole alerts, one at a time.                                      *)
(***************************************************************************)
EXTENDS Integers, Sequences

CONSTANTS
  Alerts,     \* the events Snort reports, each once
  SockSize,   \* datagrams the socket holds before Snort has to wait
  Hwm,        \* messages a ZeroMQ socket holds before a push has to wait
  MaxStarts   \* bound: starts of the relay, and of the coordinator

ASSUME AlertRelayAssumption ==
  SockSize \in Nat \ {0} /\ Hwm \in Nat \ {0} /\ MaxStarts \in Nat

(* alert.py: an alert is read field by field, each from where the one before *)
(* it ends: the first byte of a field, and its bytes.                        *)
Words(at, n) == {[at |-> at + 4 * i, bytes |-> 4] : i \in 0 .. n - 1}
SfTimeval32(at) == Words(at, 2)
PcapPktHdr32(at) == SfTimeval32(at) \cup Words(at + 8, 2)
Event(at) == Words(at, 7) \cup SfTimeval32(at + 28)
AlertPkt ==
  {[at |-> 0, bytes |-> 256]} \cup PcapPktHdr32(256)
    \cup Words(256 + 16, 5) \cup {[at |-> 272 + 20, bytes |-> 65535]}
    \cup Event(272 + 20 + 65535)

BUFSIZE == 65863

(* What is cut from the sender's buffer is what is read from it: the fields  *)
(* follow each other without a gap, and the last ends where the alert does.  *)
ASSUME AlertPktAssumption ==
  \A f \in AlertPkt :
    \/ f.at + f.bytes = BUFSIZE /\ \A g \in AlertPkt : g.at <= f.at
    \/ \E g \in AlertPkt : g.at = f.at + f.bytes /\ \A h \in AlertPkt \ {f} : h.at <= f.at \/ h.at >= g.at

Nothing == <<>>

VARIABLES
  relay,    \* the relay: "down", "boot" (no socket yet), "up", "stopped"
  sock,     \* datagrams in the socket
  queue,    \* out_q, in_q
  hand,     \* the alert the sender has parsed and not posted
  asked,    \* the alert it has posted and waits for an answer to
  last,     \* the threads that may make one more round after a stop
  coord,    \* whether the coordinator runs
  wire,     \* requests the collector has accepted and not handled
  pushed,   \* messages pushed and not received by the main loop
  got,      \* history: what the main loop has received
  log,      \* history: what Snort has reported
  faults,   \* history: what has failed
  starts    \* starts of each process

onRelay == <<relay, sock, queue, hand, asked, last>>
onCoord == <<coord, wire, pushed, got>>
vars    == <<onRelay, onCoord, log, faults, starts>>

Elements(s) == {s[i] : i \in DOMAIN s}

(* The refinement mapping: what is on its way, oldest first.                 *)
Way == pushed \o wire \o hand \o queue \o sock
Channel == INSTANCE AlertChannel WITH pipe <- Way, faulty <- (faults # {})

Init ==
  /\ relay = "down" /\ sock = <<>> /\ queue = <<>> /\ hand = <<>> /\ asked = Nothing
  /\ last = {} /\ coord = FALSE /\ wire = <<>> /\ pushed = <<>> /\ got = <<>>
  /\ log = <<>> /\ faults = {} /\ starts = [relay |-> 0, coord |-> 0]
-----------------------------------------------------------------------------
(* Snort, external: it reports where a listener has bound the socket, and    *)
(* waits while that is full; where nobody listens the alert is gone.         *)
Report(a) ==
  /\ a \notin Elements(log) /\ log' = Append(log, a)
  /\ \/ /\ relay \in {"up", "stopped"} /\ Len(sock) < SockSize
        /\ sock' = Append(sock, a) /\ UNCHANGED faults
     \/ /\ relay \in {"down", "boot"}
        /\ faults' = faults \cup {"nobody"} /\ UNCHANGED sock
  /\ UNCHANGED <<relay, queue, hand, asked, last, onCoord, starts>>

(* Snort runs before the listener: snort_start, then pigrelay_start.         *)
Boot ==
  /\ relay = "down" /\ starts.relay < MaxStarts /\ relay' = "boot"
  /\ starts' = [starts EXCEPT !.relay = @ + 1]
  /\ UNCHANGED <<sock, queue, hand, asked, last, onCoord, log, faults>>

(* start_recv: an old socket file is removed, whatever it still held.        *)
Listen ==
  /\ relay = "boot" /\ relay' = "up"
  /\ sock' = <<>>
  /\ UNCHANGED <<queue, hand, asked, last, onCoord, log, faults, starts>>

(* Each loop tests its flag at the start of a round, then waits: a thread    *)
(* that waits when the flag is cleared makes one more round.                 *)
Round(thread) ==
  /\ relay = "up" \/ thread \in last
  /\ last' = last \ {thread}

(* The listener: sleep, recv, put.                                           *)
Recv ==
  /\ Round("recv") /\ sock # <<>>
  /\ queue' = Append(queue, Head(sock)) /\ sock' = Tail(sock)
  /\ UNCHANGED <<relay, hand, asked, onCoord, log, faults, starts>>

(* The sender: a chunk of the buffer, parsed.                                *)
Waiting == hand = <<>> /\ asked = Nothing
TakeMore ==                                             \* mutant: > for >=
  /\ Round("take") /\ Waiting /\ Len(queue) > 1
  /\ hand' = <<Head(queue)>> /\ queue' = Tail(queue)
  /\ UNCHANGED <<relay, sock, asked, onCoord, log, faults, starts>>
Take ==
  /\ Round("take") /\ Waiting /\ queue # <<>>
  /\ hand' = <<Head(queue)>> /\ queue' = Tail(queue)
  /\ UNCHANGED <<relay, sock, asked, onCoord, log, faults, starts>>

(* requests.post, without a timeout: the request is accepted ...             *)
Post ==
  /\ relay \in {"up", "stopped"} /\ hand # <<>> /\ coord
  /\ wire' = wire \o hand /\ asked' = hand /\ hand' = <<>>
  /\ UNCHANGED <<relay, sock, queue, last, coord, pushed, got, log, faults, starts>>

(* ... or it is not; the exception is logged, and the alert with it gone.    *)
Refused ==
  /\ relay \in {"up", "stopped"} /\ hand # <<>>
  /\ hand' = <<>> /\ faults' = faults \cup {"refused"}
  /\ UNCHANGED <<relay, sock, queue, asked, last, onCoord, log, starts>>

(* The answer, 201 whatever became of the alert; or the end of a connection  *)
(* whose collector has gone.                                                 *)
Answer ==
  /\ asked # Nothing /\ asked[1] \notin Elements(wire)
  /\ asked' = Nothing
  /\ UNCHANGED <<relay, sock, queue, hand, last, onCoord, log, faults, starts>>

(* The connection ends before the answer: an exception as above, though the  *)
(* collector may have handled the request, or may yet.                       *)
BrokenRetried ==                                        \* mutant: posts it again
  /\ asked # Nothing /\ hand' = asked /\ asked' = Nothing
  /\ faults' = faults \cup {"broken"}
  /\ UNCHANGED <<relay, sock, queue, last, onCoord, log, starts>>
Broken ==
  /\ asked # Nothing /\ asked' = Nothing
  /\ faults' = faults \cup {"broken"}
  /\ UNCHANGED <<relay, sock, queue, hand, last, onCoord, log, starts>>

(* KeyboardInterrupt: pig.stop() clears the flags, and the process ends with *)
(* the main thread.                                                          *)
Interrupt ==
  /\ relay = "up" /\ relay' = "stopped"
  /\ last' = IF Waiting THEN {"recv", "take"} ELSE {"recv"}
  /\ faults' = faults \cup {"relay"}
  /\ UNCHANGED <<sock, queue, hand, asked, onCoord, log, starts>>

RelayEnds ==
  /\ relay # "down" /\ relay' = "down"
  /\ sock' = <<>> /\ queue' = <<>> /\ hand' = <<>> /\ asked' = Nothing /\ last' = {}
  /\ faults' = faults \cup {"relay"}
  /\ UNCHANGED <<onCoord, log, starts>>
-----------------------------------------------------------------------------
(* post_alert: unpickle, form_pyobj, push; the push waits while the queue is *)
(* full, and the requests behind it with it.                                 *)
HandleUnbounded ==                                      \* mutant: no limit
  /\ coord /\ wire # <<>>
  /\ pushed' = Append(pushed, Head(wire)) /\ wire' = Tail(wire)
  /\ UNCHANGED <<onRelay, coord, got, log, faults, starts>>
Handle ==
  /\ coord /\ wire # <<>> /\ Len(pushed) < Hwm
  /\ pushed' = Append(pushed, Head(wire)) /\ wire' = Tail(wire)
  /\ UNCHANGED <<onRelay, coord, got, log, faults, starts>>

(* What raises is printed, and the request answered as any other.            *)
HandleRaises ==
  /\ coord /\ wire # <<>>
  /\ wire' = Tail(wire) /\ faults' = faults \cup {"raised"}
  /\ UNCHANGED <<onRelay, coord, pushed, got, log, starts>>

(* The main loop's recv_pyobj.                                               *)
Receive ==
  /\ coord /\ pushed # <<>>
  /\ got' = Append(got, Head(pushed)) /\ pushed' = Tail(pushed)
  /\ UNCHANGED <<onRelay, coord, wire, log, faults, starts>>

CoordStarts ==
  /\ ~coord /\ starts.coord < MaxStarts /\ coord' = TRUE
  /\ starts' = [starts EXCEPT !.coord = @ + 1]
  /\ UNCHANGED <<onRelay, wire, pushed, got, log, faults>>

CoordEnds ==
  /\ coord /\ coord' = FALSE
  /\ wire' = <<>> /\ pushed' = <<>>
  /\ faults' = faults \cup {"coordinator"}
  /\ UNCHANGED <<onRelay, got, log, starts>>

Next == (\E a \in Alerts : Report(a)) \/ Boot \/ Listen \/ Recv \/ Take \/ Post
          \/ Refused \/ Answer \/ Broken \/ Interrupt \/ RelayEnds
          \/ Handle \/ HandleRaises \/ Receive \/ CoordStarts \/ CoordEnds

Spec == Init /\ [][Next]_vars

(* Both threads of the relay and both of the coordinator loop for ever: a    *)
(* blocked recv, get or push goes on when it can, a post is accepted or      *)
(* refused, and an answer arrives. Snort, starts and ends are not fair.      *)
FairSpec ==
  Spec /\ WF_vars(Recv) /\ WF_vars(Take) /\ WF_vars(Post \/ Refused) /\ WF_vars(Answer)
       /\ WF_vars(Handle \/ HandleRaises) /\ WF_vars(Receive)
-----------------------------------------------------------------------------
TypeOK ==
  /\ relay \in {"down", "boot", "up", "stopped"} /\ coord \in BOOLEAN
  /\ sock \in Seq(Alerts) /\ Len(sock) <= SockSize
  /\ queue \in Seq(Alerts) /\ wire \in Seq(Alerts)
  /\ hand \in Seq(Alerts) /\ asked \in Seq(Alerts) /\ Len(hand) + Len(asked) <= 1
  /\ pushed \in Seq(Alerts) /\ Len(pushed) <= Hwm /\ last \subseteq {"recv", "take"}
  /\ got \in Seq(Alerts) /\ log \in Seq(Alerts)
  /\ faults \subseteq {"nobody", "refused", "broken", "relay", "raised", "coordinator"}
  /\ starts \in [{"relay", "coord"} -> 0 .. MaxStarts]

(* The relay and the collector are a channel: an alert reaches the main loop *)
(* at most once and in the order Snort reported it, whatever request fails,  *)
(* whichever process ends, and although a sender may go on while an earlier  *)
(* request of its own, or of the relay before it, is still to be handled;    *)
(* and nothing is lost in sockets, queues, buffers or requests unless one of *)
(* them failed.                                                              *)
IsChannel == Channel!Spec

(* An alert of a running Snort reaches the main loop, unless something fails. *)
AlertsArrive ==
  \A a \in Alerts :
    (a \in Elements(log) /\ coord) ~> (a \in Elements(got) \/ faults # {})
=============================================================================
