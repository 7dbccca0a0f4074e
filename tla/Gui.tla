-------------------------------- MODULE Gui --------------------------------
(***************************************************************************)
(* The web interface: a thread polls the coordinator and counts what is    *)
(* new; another sends what is new to the clients; a client that connects   *)
(* sets the counters to zero. No lock is taken.                            *)
(*                                                                         *)
(* Alerts have a list, a counter and a function to send them of their own, *)
(* which do with them what is done here with the records of flows.         *)
(***************************************************************************)
EXTENDS Integers, FiniteSets

CONSTANTS
  MaxReports,     \* bound: records polled
  MaxThresholds,  \* bound: thresholds of the coordinator
  MaxConnects     \* bound: clients that connect

GuiAssumption == MaxReports \in Nat /\ MaxThresholds \in Nat /\ MaxConnects \in Nat

VARIABLES
  poll,              \* where the polling thread is
  count,             \* the counter it has read and is about to write
  traffic_report,    \* how many records it has appended
  shown,             \* how many thresholds it shows, and old_thresholds_length
  traffic_dirty, thresholds_dirty,
  send,              \* where the sending thread is, and for which event
  want,              \* the counter it has read
  slice,             \* the records it has taken
  updates,           \* history: record -> times it was sent as ipfix_update
  connects,
  excused            \* history: records that may not have been sent just once

pollVars == <<poll, count, traffic_report, shown>>
sendVars == <<send, want, slice, updates>>
dirty    == <<traffic_dirty, thresholds_dirty>>
guiVars  == <<pollVars, sendVars, dirty, connects, excused>>

Reports == 1 .. MaxReports
At(step, event) == [step |-> step, event |-> event]
Sleeping == At("sleep", "none")
Events   == {"ipfix_update", "threshold_update"}

Init ==
  /\ poll = "register" /\ count = 0 /\ traffic_report = 0
  /\ shown = [now |-> 0, old |-> -1] /\ traffic_dirty = 0 /\ thresholds_dirty = 0
  /\ send = At("none", "none") /\ want = 0 /\ slice = {}
  /\ updates = [i \in Reports |-> 0] /\ connects = 0 /\ excused = {}
-----------------------------------------------------------------------------
(* poll_coordinator: registered, then round and round. An answer is taken    *)
(* record by record: append, then += 1, which reads and writes.              *)
Register ==
  /\ poll = "register" /\ poll' = "ipfix"
  /\ UNCHANGED <<count, traffic_report, shown, sendVars, dirty, connects>>

Append ==
  /\ poll = "ipfix" /\ traffic_report < MaxReports
  /\ poll' = "read" /\ traffic_report' = traffic_report + 1
  /\ UNCHANGED <<count, shown, sendVars, dirty, connects>>

Read ==
  /\ poll = "read" /\ poll' = "write" /\ count' = traffic_dirty
  /\ UNCHANGED <<traffic_report, shown, sendVars, dirty, connects>>

WriteTwice ==                                           \* mutant: counted twice
  /\ poll = "write" /\ poll' = "ipfix" /\ traffic_dirty' = count + 2 /\ count' = 0
  /\ UNCHANGED <<traffic_report, shown, sendVars, thresholds_dirty, connects>>
Write ==
  /\ poll = "write" /\ poll' = "ipfix" /\ traffic_dirty' = count + 1 /\ count' = 0
  /\ UNCHANGED <<traffic_report, shown, sendVars, thresholds_dirty, connects>>

(* The thresholds, all of them each time; a list longer than the one before  *)
(* it is news.                                                               *)
Thresholds ==
  /\ poll = "ipfix" /\ poll' = "thresholds"
  /\ thresholds_dirty' = IF shown.old # -1 /\ shown.now > shown.old
                         THEN shown.now - shown.old ELSE thresholds_dirty
  /\ \E n \in 0 .. MaxThresholds : shown' = [now |-> n, old |-> shown.now]
  /\ UNCHANGED <<count, traffic_report, sendVars, traffic_dirty, connects>>

Sleep ==
  /\ poll = "thresholds" /\ poll' = "ipfix"
  /\ UNCHANGED <<count, traffic_report, shown, sendVars, dirty, connects>>

(* A request that fails, but for the first, or a field that is not there     *)
(* ends the thread, and the process goes on.                                 *)
PollEnds ==
  /\ poll \in {"ipfix", "thresholds"} /\ poll' = "ended"
  /\ UNCHANGED <<count, traffic_report, shown, sendVars, dirty, connects>>
-----------------------------------------------------------------------------
(* background_thread: ipfix_available, then thresholds_available, each with  *)
(* get_new_ipfix behind it.                                                  *)
Dirty(event) == IF event = "ipfix_update" THEN traffic_dirty ELSE thresholds_dirty

Check ==
  /\ \/ send = Sleeping /\ send' = At(IF Dirty("ipfix_update") > 0 THEN "read" ELSE "next", "ipfix_update")
     \/ /\ send = At("next", "ipfix_update")
        /\ send' = IF Dirty("threshold_update") > 0 THEN At("read", "threshold_update") ELSE Sleeping
  /\ UNCHANGED <<want, slice, updates, pollVars, dirty, connects>>

(* The counter is read, the list sliced - from -0, all of it - the counter   *)
(* set to zero, and the records sent.                                        *)
ReadDirty ==
  /\ send.step = "read" /\ send' = [send EXCEPT !.step = "slice"]
  /\ want' = traffic_dirty
  /\ UNCHANGED <<slice, updates, pollVars, dirty, connects>>

FromShort == IF want = 0 THEN 1 ELSE traffic_report - want + 2  \* mutant: one less
From == IF want = 0 THEN 1 ELSE traffic_report - want + 1

Slice ==
  /\ send.step = "slice" /\ send' = [send EXCEPT !.step = "reset"]
  /\ slice' = From .. traffic_report /\ want' = 0
  /\ UNCHANGED <<updates, pollVars, dirty, connects>>

Emit ==
  /\ send.step = "reset" /\ traffic_dirty' = 0 /\ slice' = {}
  /\ IF send.event = "ipfix_update"
     THEN /\ send' = At("next", "ipfix_update")
          /\ updates' = [i \in Reports |-> IF i \in slice THEN updates[i] + 1 ELSE updates[i]]
     ELSE send' = Sleeping /\ UNCHANGED updates
  /\ UNCHANGED <<want, pollVars, thresholds_dirty, connects>>

(* test_connect: the first client starts the sending thread.                 *)
Connect ==
  /\ connects < MaxConnects /\ connects' = connects + 1
  /\ traffic_dirty' = 0 /\ thresholds_dirty' = 0
  /\ send' = IF send.step = "none" THEN Sleeping ELSE send
  /\ UNCHANGED <<want, slice, updates, pollVars>>
-----------------------------------------------------------------------------
(* One thread between its read of the counter and its write while the other  *)
(* is between an append and its count; a client that has just connected and  *)
(* is shown the list as it is; records that leave under the wrong name.      *)
Counting(step) == step \in {"read", "write"}
Overlap == Counting(poll) /\ send.step \in {"slice", "reset"}

Next ==
  /\ \/ Register \/ Append \/ Read \/ Write \/ Thresholds \/ Sleep \/ PollEnds
     \/ Check \/ ReadDirty \/ Slice \/ Emit \/ Connect
  /\ excused' = IF Overlap' \/ connects' # connects \/ send'.event = "threshold_update"
                THEN 1 .. traffic_report' ELSE excused
-----------------------------------------------------------------------------
TypeOK ==
  /\ poll \in {"register", "ipfix", "read", "write", "thresholds", "ended"}
  /\ traffic_report \in 0 .. MaxReports
  /\ count \in 0 .. traffic_report /\ traffic_dirty \in 0 .. traffic_report
  /\ want \in 0 .. traffic_report /\ thresholds_dirty \in 0 .. MaxThresholds
  /\ shown \in [now : 0 .. MaxThresholds, old : -1 .. MaxThresholds]
  /\ send \in [step : {"none", "sleep", "read", "slice", "reset", "next"},
               event : Events \cup {"none"}]
  /\ slice \subseteq Reports /\ excused \subseteq Reports
  /\ updates \in [Reports -> Nat] /\ connects \in 0 .. MaxConnects

(* Although nothing is locked, a record reaches the clients as an            *)
(* ipfix_update exactly once, and the counter says which are still to be     *)
(* sent; but for those that were there when a client connected, when a count *)
(* and a sending overlapped, or when a threshold_update took them: whatever  *)
(* these did to the counter, records that come later are sent once again.    *)
SentOnce ==
  (send.step \in {"sleep", "next"} /\ ~Counting(poll)) =>
    \A i \in 1 .. traffic_report \ excused :
      updates[i] = IF i > traffic_report - traffic_dirty THEN 0 ELSE 1
=============================================================================
