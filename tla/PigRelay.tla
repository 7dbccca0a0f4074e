------------------------------ MODULE PigRelay ------------------------------
(***************************************************************************)
(* The pig relay's Snort: rule requests (truffle.py) are put into a queue, *)
(* a thread applies each to the rule file and then reloads Snort: SIGHUP,  *)
(* stop, start. The main thread starts Snort, announces it to ONOS, and    *)
(* stops it when it is interrupted; stop and start hold a lock each, the   *)
(* reload as a whole does not. Snort reads the rule file some time after   *)
(* it was started. The relay may be killed, and started again; what it     *)
(* spawned lives on.                                                       *)
(*                                                                         *)
(* A rule file is the set of its lines: adding a line twice and deleting   *)
(* it removes both.                                                        *)
(***************************************************************************)
EXTENDS Integers, Sequences, FiniteSets

CONSTANTS
  Rules,        \* lines
  Base,         \* the lines of base_rule_config
  Pids,         \* bound: process ids
  MaxRequests,  \* bound: rules and clears accepted
  MaxBoots     \* bound: restarts of the relay

None == 0

ASSUME RelayAssumption ==
  /\ Base \subseteq Rules
  /\ IsFiniteSet(Pids) /\ None \notin Pids
  /\ MaxRequests \in Nat /\ MaxBoots \in Nat

Commands == [type : {"add", "delete"}, rule : Rules] \cup [type : {"clear"}]

VARIABLES
  main,      \* the main thread: "announce", "run", "stopped", or "ended"
  pending,     \* the rule queue
  pc,        \* the update thread: "get", "process", "dump", "hup", "stop", "start"
  cmd,       \* the rule it processes
  lines,     \* what it is going to write into the file it has truncated
  file,      \* the rule file
  proc,      \* pid -> "none", "boots", "runs", or "dead" and not waited for
  rules,     \* pid -> the rules it has read
  own,       \* _proc, or None
  requests, boots,
  wanted,    \* history: what the file should hold when the queue is empty
  failed,    \* history: what has failed: since the relay started, to "write"
             \* a rule; since Snort was started, "half" a write; Snort "died"
  reloading, \* history: whether a reload ran when the relay was stopped, or since
  abandoned  \* history: how often the relay was killed, or reloading when stopped

thread  == <<pending, pc, cmd, lines>>
snorts  == <<proc, rules, own>>
bounds  == <<requests, boots>>
pigVars    == <<main, thread, file, snorts, bounds, wanted, failed, reloading, abandoned>>

Up == main # "ended"
Alive == {p \in Pids : proc[p] \in {"boots", "runs"}}

PigInit ==
  /\ main = "ended" /\ pending = <<>> /\ pc = "get" /\ lines = {}
  /\ cmd = [type |-> "clear"]
  /\ file \in SUBSET Rules /\ wanted = file
  /\ proc = [p \in Pids |-> "none"] /\ rules = [p \in Pids |-> {}] /\ own = None
  /\ requests = 0 /\ boots = 0
  /\ failed = {} /\ reloading = FALSE /\ abandoned = 0
-----------------------------------------------------------------------------
(* start: a new process; the Popen object it replaces waits for its own, if  *)
(* that is dead, when it is collected.                                       *)
Spawn ==
  \E p \in Pids :
    /\ proc[p] = "none"
    /\ own' = p
    /\ proc' = [q \in Pids |-> IF q = p THEN "boots"
                               ELSE IF q = own /\ proc[q] = "dead" THEN "none"
                               ELSE proc[q]]
    /\ rules' = [rules EXCEPT ![p] = {}]

(* stop: kill it if poll() says that it runs; poll() waits for a dead one.   *)
StopNothing == UNCHANGED snorts                         \* mutant: no kill
StopSnort ==
  /\ proc' = [p \in Pids |-> IF p # own THEN proc[p]
                             ELSE IF p \in Alive THEN "dead" ELSE "none"]
  /\ UNCHANGED <<rules, own>>
-----------------------------------------------------------------------------
(* The main thread: snort_start, add_snort_to_onos, which raises when ONOS   *)
(* does not answer (Kill), and the other threads.                            *)
PigBoot ==
  /\ ~Up /\ boots < MaxBoots
  /\ main' = "announce" /\ boots' = boots + 1
  /\ Spawn
  /\ wanted' = file /\ failed' = {} /\ reloading' = FALSE
  /\ UNCHANGED <<thread, file, requests, abandoned>>

Announce ==
  /\ main = "announce" /\ main' = "run"
  /\ UNCHANGED <<thread, file, snorts, bounds, wanted, failed, reloading, abandoned>>

(* KeyboardInterrupt: snort.stop(), under the lock. *)
PigInterrupt ==
  /\ main = "run" /\ main' = "stopped"
  /\ StopSnort
  /\ reloading' = (pc \in {"hup", "stop", "start"})
  /\ UNCHANGED <<thread, file, bounds, wanted, failed, abandoned>>

(* The process ends, its daemon threads and what is queued with it; dead     *)
(* children are waited for by init, those that run go on.                    *)
End(unfinished) ==
  /\ main' = "ended" /\ pending' = <<>> /\ pc' = "get" /\ lines' = {} /\ own' = None
  /\ proc' = [p \in Pids |-> IF p \in Alive THEN proc[p] ELSE "none"]
  /\ abandoned' = IF unfinished THEN abandoned + 1 ELSE abandoned
  /\ UNCHANGED <<cmd, file, rules, bounds, wanted, failed, reloading>>

Exit == main = "stopped" /\ End(reloading)
Kill == Up /\ End(TRUE)
-----------------------------------------------------------------------------
(* add_rules, delete_rules, clear_rules: each rule of a request in turn.     *)
Effect(c, f) == CASE c.type = "add"    -> f \cup {c.rule}
                  [] c.type = "delete" -> f \ {c.rule}
                  [] c.type = "clear"  -> Base

Put(c) ==
  /\ main \in {"run", "stopped"}
  /\ requests < MaxRequests /\ requests' = requests + 1
  /\ pending' = Append(pending, c)
  /\ wanted' = Effect(c, wanted)
  /\ UNCHANGED <<main, pc, cmd, lines, file, snorts, boots, failed, reloading, abandoned>>

TakeRule ==
  /\ Up /\ pending # <<>>
  /\ pc = "get" /\ pc' = "process"
  /\ UNCHANGED <<main, lines, file, snorts, bounds, wanted, failed, reloading, abandoned>>

Get     == TakeRule /\ cmd' = Head(pending) /\ pending' = Tail(pending)

(* Once the file is written the thread calls back: reload.                   *)
CallbackLess == pc' = "get" /\ UNCHANGED reloading      \* mutant: no callback
Callback == pc' = "hup" /\ reloading' = (reloading \/ main = "stopped")

(* _add_rule appends a line; the others open the file, which truncates it,   *)
(* and write it. The file may not be readable or writable.                   *)
Process ==
  /\ Up /\ pc = "process"
  /\ IF cmd.type = "add"
     THEN file' = Effect(cmd, file) /\ Callback /\ UNCHANGED lines
     ELSE /\ lines' = Effect(cmd, file) /\ file' = {}
          /\ pc' = "dump" /\ UNCHANGED reloading
  /\ UNCHANGED <<main, pending, cmd, snorts, bounds, wanted, failed, abandoned>>

Dump ==
  /\ Up /\ pc = "dump"
  /\ file' = lines /\ lines' = {} /\ Callback
  /\ UNCHANGED <<main, pending, cmd, snorts, bounds, wanted, failed, abandoned>>

(* An exception is caught in run(): the rule is skipped, and so the reload.  *)
ProcessRaises ==
  /\ Up /\ pc \in {"process", "dump"} /\ pc' = "get"
  /\ lines' = {}
  /\ IF pc = "process" THEN UNCHANGED file ELSE file' \in SUBSET lines
  /\ failed' = failed \cup (IF pc = "process" THEN {"write"} ELSE {"write", "half"})
  /\ UNCHANGED <<main, pending, cmd, snorts, bounds, wanted, reloading, abandoned>>

(* reload: what Snort makes of SIGHUP is its own matter.                     *)
Hangup ==
  /\ Up /\ pc = "hup" /\ proc[own] # "none" /\ pc' = "stop"
  /\ \E now \in IF own \in Alive THEN {"runs", "boots", "dead"} ELSE {"dead"} :
       /\ now = "runs" => proc[own] = "runs"
       /\ proc' = [proc EXCEPT ![own] = now]
  /\ UNCHANGED <<main, pending, cmd, lines, file, rules, own, bounds>>
  /\ UNCHANGED <<wanted, failed, reloading, abandoned>>

(* A pid that has been waited for has no process: OSError, caught in run().  *)
RaiseUncaught == pc' = "gone"                           \* mutant
RaiseCaught   == pc' = "get"

HangupRaises ==
  /\ Up /\ pc = "hup" /\ proc[own] = "none" /\ RaiseCaught
  /\ UNCHANGED <<main, pending, cmd, lines, file, snorts, bounds>>
  /\ UNCHANGED <<wanted, failed, reloading, abandoned>>

ReloadStops ==
  /\ Up /\ pc = "stop" /\ pc' = "start"
  /\ StopSnort
  /\ UNCHANGED <<main, pending, cmd, lines, file, bounds>>
  /\ UNCHANGED <<wanted, failed, reloading, abandoned>>

ReloadStarts ==
  /\ Up /\ pc = "start" /\ pc' = "get"
  /\ Spawn
  /\ failed' = failed \ {"half", "died"}
  /\ UNCHANGED <<main, pending, cmd, lines, file, bounds, wanted, reloading, abandoned>>

SpawnFails ==
  /\ Up /\ pc = "start" /\ pc' = "get"
  /\ failed' = failed \cup {"died"}
  /\ UNCHANGED <<main, pending, cmd, lines, file, snorts, bounds, wanted, reloading, abandoned>>
-----------------------------------------------------------------------------
(* Snort, external: it reads the rule file, and it may die.                  *)
Read(p) ==
  /\ proc[p] = "boots"
  /\ proc' = [proc EXCEPT ![p] = "runs"]
  /\ rules' = [rules EXCEPT ![p] = file]
  /\ UNCHANGED <<main, thread, file, own, bounds, wanted, failed, reloading, abandoned>>

Die(p) ==
  /\ p \in Alive
  /\ proc' = [proc EXCEPT ![p] = IF p = own THEN "dead" ELSE "none"]
  /\ failed' = IF p = own THEN failed \cup {"died"} ELSE failed
  /\ UNCHANGED <<main, thread, file, rules, own, bounds, wanted, reloading, abandoned>>

Update == Get \/ Process \/ Dump \/ ProcessRaises \/ Hangup \/ HangupRaises
            \/ ReloadStops \/ ReloadStarts \/ SpawnFails

PigNext == PigBoot \/ Announce \/ PigInterrupt \/ Exit \/ Kill \/ Update
          \/ (\E c \in Commands : Put(c)) \/ (\E p \in Pids : Read(p) \/ Die(p))

PigSpec == PigInit /\ [][PigNext]_pigVars

(* The update thread runs as long as the relay does, and a Snort that was    *)
(* started reads its rules.                                                  *)
PigFairSpec == PigSpec /\ WF_pigVars(Update) /\ \A p \in Pids : WF_pigVars(Read(p))
-----------------------------------------------------------------------------
PigTypeOK ==
  /\ main \in {"announce", "run", "stopped", "ended"}
  /\ pending \in Seq(Commands) /\ cmd \in Commands
  /\ pc \in {"get", "process", "dump", "hup", "stop", "start"}
  /\ lines \subseteq Rules /\ file \subseteq Rules /\ wanted \subseteq Rules
  /\ proc \in [Pids -> {"none", "boots", "runs", "dead"}]
  /\ rules \in [Pids -> SUBSET Rules]
  /\ own \in Pids \cup {None} /\ (Up <=> own # None)
  /\ requests \in 0 .. MaxRequests /\ boots \in 0 .. MaxBoots
  /\ failed \subseteq {"write", "half", "died"}
  /\ reloading \in BOOLEAN /\ abandoned \in 0 .. MaxBoots

(* Whenever the update thread waits for a rule, a Snort that runs has the    *)
(* rules of the file, though it read the file at a time of its own, perhaps  *)
(* while it was being rewritten; only a write that failed half way may have  *)
(* changed the file behind it.                                               *)
SnortHasFile ==
  (Up /\ pc = "get" /\ "half" \notin failed /\ proc[own] = "runs") => rules[own] = file

(* Every Snort that runs is the relay's own, but for one for each time the   *)
(* relay was killed or was stopped while it reloaded.                        *)
OthersAreAbandoned == Cardinality(Alive \ {own}) <= abandoned

(* A running relay that accepted a rule gets to where Snort runs with the    *)
(* rules wanted, unless a write or Snort failed.                             *)
RulesReachSnort ==
  (main = "run" /\ pending # <<>>) ~>
    \/ main # "run" \/ failed # {}
    \/ pending = <<>> /\ proc[own] = "runs" /\ rules[own] = wanted
=============================================================================
