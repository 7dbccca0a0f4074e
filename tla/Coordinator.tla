---------------------------- MODULE Coordinator ----------------------------
(***************************************************************************)
(* The coordinator as a process: how its main thread starts database,      *)
(* collectors, polling and northbound interface; how the northbound thread *)
(* starts and stops applications; and how a signal takes it all down.      *)
(*                                                                         *)
(* A signal handler of Python runs in the main thread, wherever that is.   *)
(* An application is a process of the host, with a shell above it where    *)
(* one was asked for and does not exec, and for the GUI with the process   *)
(* of its web server below it.                                             *)
(***************************************************************************)
EXTENDS Integers, FiniteSets

CONSTANTS
  Apps,        \* installed applications
  Default,     \* those whose config.json says default_app
  Forking,     \* those whose main.py runs a process of its own: the GUIs
  Collectors,  \* those of the configuration
  MaxPids,     \* bound: applications started
  Hwm,         \* messages a ZeroMQ socket holds
  MaxMsgs,     \* bound: messages that collectors push
  MaxStarts    \* bound: starts of the coordinator

ASSUME CoordinatorAssumption ==
  /\ Default \subseteq Apps /\ Forking \subseteq Apps
  /\ IsFiniteSet(Apps) /\ MaxPids \in Nat
  /\ Hwm \in Nat \ {0} /\ MaxMsgs \in Nat /\ MaxStarts \in Nat

None == 0
Pids == 1 .. MaxPids

VARIABLES
  main,      \* where the main thread is
  running,   \* the collectors in _collectors
  inbox,     \* messages the PULL socket holds
  unsent,    \* collector -> messages its PUSH socket holds
  nbi,       \* the northbound thread: what it does, to whom
  todo,      \* default applications it has not started yet
  app_procs, \* application -> the process recorded, or None
  visited,   \* the applications close() has been at
  size,      \* how many there were when it began
  proc,      \* the processes of applications
  msgs, starts,
  late,      \* history: processes started, or to be recorded, while it closed
  orphans    \* history: processes the coordinator had when it died

queues == <<running, inbox, unsent, msgs>>
apps   == <<nbi, todo, app_procs, proc, late>>
closes == <<visited, size>>
vars   == <<main, queues, apps, closes, starts, orphans>>

Starting == {"load", "db", "collectors", "interfix", "watson"}
Closing  == {"closeCollectors", "closeApps", "closePoll"}
Idle     == [does |-> "idle", pid |-> None]
Off      == [does |-> "off", pid |-> None]

Tracked == {a \in Apps : app_procs[a] # None}

(* shell, main and child are "none", or run, or have ended; a main that runs *)
(* a child is "forked" before it has set its signal handlers.                *)
NoProc == [app |-> "none", shell |-> "none", main |-> "none", child |-> "none"]
MainRuns(r) == r.main \in {"boot", "forked", "ready"}

(* What was spawned: the shell, or the application without one.              *)
HeadRuns(r) == IF r.shell = "none" THEN MainRuns(r) ELSE r.shell = "runs"

Init ==
  /\ main = "down" /\ running = {} /\ inbox = 0
  /\ unsent = [c \in Collectors |-> 0] /\ msgs = 0
  /\ nbi = Off /\ todo = {} /\ app_procs = [a \in Apps |-> None]
  /\ proc = [p \in Pids |-> NoProc]
  /\ visited = {} /\ size = 0 /\ starts = 0
  /\ late = {} /\ orphans = {}
-----------------------------------------------------------------------------
(* The process ends, and every daemon thread with it.                        *)
End(gone) ==
  /\ main' = "down" /\ running' = {} /\ inbox' = 0
  /\ unsent' = [c \in Collectors |-> 0]
  /\ nbi' = Off /\ todo' = {} /\ app_procs' = [a \in Apps |-> None]
  /\ visited' = {} /\ size' = 0
  /\ orphans' = orphans \cup {p \in gone : HeadRuns(proc[p])}
  /\ UNCHANGED <<msgs, proc, late, starts>>

Ours == {app_procs[a] : a \in Tracked} \cup ({nbi.pid} \ {None})

(* An exception of the main thread, or SIGKILL.                              *)
Dies == main # "down" /\ End(Ours)

(* __init__: load, bind, set the handlers; the database; each collector and  *)
(* its thread; the polling thread; the northbound thread; then listen.       *)
Boot ==
  /\ main = "down" /\ starts < MaxStarts
  /\ main' = "load" /\ starts' = starts + 1
  /\ UNCHANGED <<queues, apps, closes, orphans>>

After == [load |-> "db", db |-> "collectors", interfix |-> "watson"]

Setup ==
  /\ main \in DOMAIN After /\ main' = After[main]
  /\ UNCHANGED <<queues, apps, closes, starts, orphans>>

SetupCollector ==
  /\ main = "collectors"
  /\ \/ \E c \in Collectors \ running : running' = running \cup {c} /\ UNCHANGED main
     \/ running = Collectors /\ main' = "interfix" /\ UNCHANGED running
  /\ UNCHANGED <<inbox, unsent, msgs, apps, closes, starts, orphans>>

SetupWatson ==
  /\ main = "watson" /\ main' = "listen"
  /\ nbi' = [does |-> "defaults", pid |-> None] /\ todo' = Default
  /\ UNCHANGED <<queues, app_procs, proc, late, closes, starts, orphans>>

(* listen: what a handler raises ends the process (Dies).                    *)
Listen ==
  /\ main = "listen" /\ inbox > 0 /\ inbox' = inbox - 1
  /\ UNCHANGED <<main, running, unsent, msgs, apps, closes, starts, orphans>>
-----------------------------------------------------------------------------
(* A collector pushes; what the main loop's socket has no room for, or what  *)
(* is pushed once that is closed, stays with the sender.                     *)
Connected == main \in Starting \cup {"listen"}

PushAnyway(c) ==                                         \* mutant: no limit
  /\ c \in running /\ msgs < MaxMsgs /\ msgs' = msgs + 1
  /\ IF Connected THEN inbox' = inbox + 1 /\ UNCHANGED unsent
     ELSE unsent[c] < Hwm /\ unsent' = [unsent EXCEPT ![c] = @ + 1] /\ UNCHANGED inbox
  /\ UNCHANGED <<main, running, apps, closes, starts, orphans>>
Push(c) ==
  /\ c \in running /\ msgs < MaxMsgs /\ msgs' = msgs + 1
  /\ IF Connected /\ inbox < Hwm
     THEN inbox' = inbox + 1 /\ UNCHANGED unsent
     ELSE unsent[c] < Hwm /\ unsent' = [unsent EXCEPT ![c] = @ + 1] /\ UNCHANGED inbox
  /\ UNCHANGED <<main, running, apps, closes, starts, orphans>>

Transfer(c) ==
  /\ Connected /\ unsent[c] > 0 /\ inbox < Hwm
  /\ inbox' = inbox + 1 /\ unsent' = [unsent EXCEPT ![c] = @ - 1]
  /\ UNCHANGED <<main, running, msgs, apps, closes, starts, orphans>>
-----------------------------------------------------------------------------
(* _close: the receiver's context first, and the database; before there is a *)
(* database client that raises, and ends the process, as the test for the    *)
(* northbound interface does where there is none yet.                        *)
Signal ==
  /\ main \in (Starting \ {"load", "db"}) \cup {"listen"}
  /\ main' = "closeCollectors" /\ inbox' = 0
  /\ late' = late \cup (IF nbi.does = "popen" THEN {nbi.pid} ELSE {})
  /\ UNCHANGED <<running, unsent, msgs, nbi, todo, app_procs, proc, closes, starts, orphans>>

SignalEarly == main \in {"load", "db"} /\ End(Ours)

(* A collector's context ends only when all it was given has been sent.      *)
CloseCollector ==
  /\ main = "closeCollectors"
  /\ \/ \E c \in running : unsent[c] = 0 /\ running' = running \ {c} /\ UNCHANGED main
     \/ running = {} /\ main' = "closeApps" /\ UNCHANGED running
  /\ visited' = {} /\ size' = Cardinality(Tracked)
  /\ UNCHANGED <<inbox, unsent, msgs, apps, starts, orphans>>

(* terminate(): a shell it ends, and that only; of the GUI a handler ends the *)
(* web server, once it is set; anything else ends.                           *)
Terminated(r) ==
  IF r.shell # "none" THEN [r EXCEPT !.shell = "ended"]
  ELSE [r EXCEPT !.main = "ended",
                 !.child = IF r.main = "ready" /\ @ = "runs" THEN "ended" ELSE @]
Killed(r) == IF r.shell # "none" THEN [r EXCEPT !.shell = "ended"]
             ELSE [r EXCEPT !.main = "ended"]

(* A dict that has changed its size raises when its iteration goes on.       *)
CloseForEver ==                                         \* mutant: the iterator restarts
  /\ main = "closeApps" /\ Cardinality(Tracked) = size
  /\ Tracked = {} /\ main' = "closePoll"
  /\ UNCHANGED <<queues, apps, visited, size, starts, orphans>>
CloseApp ==
  /\ main = "closeApps" /\ Cardinality(Tracked) = size
  /\ \/ \E a \in Tracked \ visited :
          LET p == app_procs[a] IN
          /\ visited' = visited \cup {a}
          /\ proc' = [proc EXCEPT ![p] = Terminated(@)]
          /\ UNCHANGED main
     \/ /\ Tracked \subseteq visited /\ main' = "closePoll"
        /\ UNCHANGED <<visited, proc>>
  /\ UNCHANGED <<queues, nbi, todo, app_procs, late, size, starts, orphans>>

CloseAppRaises ==
  main = "closeApps" /\ Cardinality(Tracked) # size /\ End(Ours)

(* sys.exit(0). What was started meanwhile lives on.                         *)
Exit == main = "closePoll" /\ End({})
-----------------------------------------------------------------------------
(* Popen: of a list, or of a line for a shell.                               *)
Popen(a, shells) ==
  \E p \in Pids, shell \in shells :
    /\ proc[p] = NoProc /\ \A q \in Pids : q < p => proc[q] # NoProc
    /\ proc' = [proc EXCEPT ![p] = [app |-> a, shell |-> shell, main |-> "boot", child |-> "none"]]
    /\ nbi' = [does |-> "popen", pid |-> p]
    /\ late' = IF main \in Closing THEN late \cup {p} ELSE late

(* The northbound thread: default applications, then requests.               *)
StartDefault ==
  /\ nbi.does = "defaults"
  /\ \/ \E a \in todo : Popen(a, {"none"}) /\ todo' = todo \ {a}
     \/ todo = {} /\ nbi' = Idle /\ UNCHANGED <<todo, proc, late>>
  /\ UNCHANGED <<main, queues, app_procs, closes, starts, orphans>>

StartAgain(a) ==                                        \* mutant: no test
  /\ nbi = Idle
  /\ Popen(a, {"none", "runs"})
  /\ UNCHANGED <<main, queues, todo, app_procs, closes, starts, orphans>>
start_app(a) ==
  /\ nbi = Idle /\ app_procs[a] = None
  /\ Popen(a, {"none", "runs"})
  /\ UNCHANGED <<main, queues, todo, app_procs, closes, starts, orphans>>

Record ==
  /\ nbi.does = "popen"
  /\ app_procs' = [app_procs EXCEPT ![proc[nbi.pid].app] = nbi.pid]
  /\ nbi' = IF todo = {} THEN Idle ELSE [does |-> "defaults", pid |-> None]
  /\ UNCHANGED <<main, queues, todo, proc, late, closes, starts, orphans>>

(* kill(), then the entry goes.                                              *)
stop_app(a) ==
  /\ nbi = Idle /\ app_procs[a] # None
  /\ LET p == app_procs[a] IN
       /\ proc' = [proc EXCEPT ![p] = Killed(@)]
       /\ nbi' = [does |-> "kill", pid |-> p]
  /\ UNCHANGED <<main, queues, todo, app_procs, late, closes, starts, orphans>>

Forget ==
  /\ nbi.does = "kill" /\ nbi' = Idle
  /\ app_procs' = [app_procs EXCEPT ![proc[nbi.pid].app] = None]
  /\ UNCHANGED <<main, queues, todo, proc, late, closes, starts, orphans>>
-----------------------------------------------------------------------------
(* main.py of an application; that of the GUI spawns the web server, then    *)
(* sets its handlers.                                                        *)
Step(p) ==
  /\ \/ /\ proc[p].main = "boot"
        /\ proc' = [proc EXCEPT ![p].main = IF proc[p].app \in Forking THEN "forked" ELSE "ready",
                                ![p].child = IF proc[p].app \in Forking THEN "runs" ELSE "none"]
     \/ proc[p].main = "forked" /\ proc' = [proc EXCEPT ![p].main = "ready"]
  /\ UNCHANGED <<main, queues, nbi, todo, app_procs, late, closes, starts, orphans>>

(* It ends by itself, and a shell above it: an exception, the machine.       *)
Fail(p) ==
  /\ MainRuns(proc[p])
  /\ proc' = [proc EXCEPT ![p].main = "ended",
                       ![p].shell = IF @ = "runs" THEN "ended" ELSE @]
  /\ UNCHANGED <<main, queues, nbi, todo, app_procs, late, closes, starts, orphans>>

FailChild(p) ==
  /\ proc[p].child = "runs"
  /\ proc' = [proc EXCEPT ![p].child = "ended"]
  /\ UNCHANGED <<main, queues, nbi, todo, app_procs, late, closes, starts, orphans>>

Close == CloseCollector \/ CloseApp \/ CloseAppRaises \/ Exit
Northbound == StartDefault \/ Record \/ Forget

Next == Boot \/ Setup \/ SetupCollector \/ SetupWatson \/ Listen \/ Dies
          \/ (\E c \in Collectors : Push(c) \/ Transfer(c))
          \/ Signal \/ SignalEarly \/ Close \/ Northbound
          \/ (\E a \in Apps : start_app(a) \/ stop_app(a))
          \/ (\E p \in Pids : Step(p) \/ Fail(p) \/ FailChild(p))

Spec == Init /\ [][Next]_vars

FairSpec == Spec /\ WF_vars(Close)
-----------------------------------------------------------------------------
TypeOK ==
  /\ main \in {"down", "listen"} \cup Starting \cup Closing
  /\ running \subseteq Collectors /\ inbox \in 0 .. Hwm
  /\ unsent \in [Collectors -> 0 .. Hwm]
  /\ nbi \in [does : {"off", "defaults", "idle", "popen", "kill"}, pid : Pids \cup {None}]
  /\ todo \subseteq Default /\ app_procs \in [Apps -> Pids \cup {None}]
  /\ visited \subseteq Apps /\ size \in 0 .. Cardinality(Apps)
  /\ msgs \in 0 .. MaxMsgs /\ starts \in 0 .. MaxStarts
  /\ late \subseteq Pids /\ orphans \subseteq Pids
  /\ \A p \in Pids : proc[p] \in
       [app : Apps \cup {"none"}, shell : {"none", "runs", "ended"},
        main : {"none", "boot", "forked", "ready", "ended"}, child : {"none", "runs", "ended"}]

(* The table app_procs accounts for what the coordinator spawned: whatever   *)
(* starts, stops, requests and signals come between each other, a process    *)
(* that runs is recorded, or about to be, unless the coordinator died over   *)
(* it or the northbound thread started it while the main thread was closing. *)
NoneUnseen ==
  \A p \in Pids : HeadRuns(proc[p]) => p \in Ours \cup orphans \cup late

(* A signal takes the coordinator down, unless a collector holds messages    *)
(* that its context waits to send.                                           *)
QuitsUnlessUnsent ==
  (main \in Closing) ~> (main = "down" \/ \E c \in Collectors : unsent[c] > 0)

=============================================================================
