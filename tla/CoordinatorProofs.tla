------------------------- MODULE CoordinatorProofs -------------------------
(***************************************************************************)
(* Proofs about Coordinator, for any applications, collectors, processes   *)
(* and starts: its types, and that no application runs unseen.             *)
(***************************************************************************)
EXTENDS Coordinator, FiniteSetTheorems, TLAPS

Proc == [app : Apps \cup {"none"}, shell : {"none", "runs", "ended"},
         main : {"none", "boot", "forked", "ready", "ended"}, child : {"none", "runs", "ended"}]

(* What the northbound thread is about: only where it spawns or kills is     *)
(* there a process in its hands; one that it has spawned has an application  *)
(* without an entry, one that it kills has its entry still.                  *)
InHand ==
  /\ nbi.does \in {"popen", "kill"} <=> nbi.pid # None
  /\ nbi.pid # None => proc[nbi.pid].main # "none" /\ proc[nbi.pid].app \in Apps
  /\ nbi.does = "popen" =>
       app_procs[proc[nbi.pid].app] = None /\ proc[nbi.pid].app \notin todo
  /\ nbi.does = "kill" =>
       ~HeadRuns(proc[nbi.pid]) /\ app_procs[proc[nbi.pid].app] = nbi.pid
  /\ nbi.does \in {"idle", "kill", "off"} => todo = {}

(* An entry is the entry of a process of that application; a default one is  *)
(* not started again.                                                        *)
Entries ==
  \A a \in Apps :
    /\ a \in todo => app_procs[a] = None
    /\ app_procs[a] # None => proc[app_procs[a]].main # "none" /\ proc[app_procs[a]].app = a

NoneYet ==
  main \in {"down"} \cup Starting => nbi = Off /\ todo = {} /\ \A a \in Apps : app_procs[a] = None

(* While it closes, what it has terminated does not run, and what the        *)
(* northbound thread starts is late.                                         *)
Done(p) == HeadRuns(proc[p]) => p \in late
ClosedSoFar ==
  /\ main \in Closing /\ nbi.does = "popen" => nbi.pid \in late
  /\ main = "closeApps" => \A a \in Tracked \cap visited : Done(app_procs[a])
  /\ main = "closePoll" => \A a \in Tracked : Done(app_procs[a])

Types  == TypeOK /\ proc \in [Pids -> Proc]
-----------------------------------------------------------------------------
QueueTypes ==
  /\ main \in {"down", "listen"} \cup Starting \cup Closing
  /\ running \subseteq Collectors /\ inbox \in 0 .. Hwm
  /\ unsent \in [Collectors -> 0 .. Hwm]
  /\ msgs \in 0 .. MaxMsgs /\ starts \in 0 .. MaxStarts

AppTypes ==
  /\ nbi \in [does : {"off", "defaults", "idle", "popen", "kill"}, pid : Pids \cup {None}]
  /\ todo \subseteq Default /\ app_procs \in [Apps -> Pids \cup {None}]
  /\ visited \subseteq Apps /\ size \in 0 .. Cardinality(Apps)
  /\ late \subseteq Pids /\ orphans \subseteq Pids
  /\ proc \in [Pids -> Proc]

LEMMA TypesSplit == Types <=> QueueTypes /\ AppTypes
  BY DEF Types, TypeOK, QueueTypes, AppTypes, Proc

LEMMA QueueStep == QueueTypes /\ [Next]_vars => QueueTypes'
<1> SUFFICES ASSUME QueueTypes, [Next]_vars PROVE QueueTypes'
  OBVIOUS
<1> USE CoordinatorAssumption DEF CoordinatorAssumption, QueueTypes
<1>1. CASE UNCHANGED <<main, queues, starts>>
  BY <1>1 DEF queues
<1>2. ASSUME NEW gone, End(gone) PROVE QueueTypes'
  BY <1>2 DEF End
<1>3. CASE Boot \/ Setup \/ SetupCollector \/ SetupWatson \/ Listen \/ Signal
  BY <1>3 DEF Boot, Setup, SetupCollector, SetupWatson, Listen, Signal, After, Starting, Closing,
              queues
<1>4. ASSUME NEW c \in Collectors, Push(c) \/ Transfer(c) PROVE QueueTypes'
  <2>1. \A d \in Collectors : unsent[d] \in 0 .. Hwm
    OBVIOUS
  <2>2. CASE Push(c)
    <3>1. CASE UNCHANGED unsent
      BY <2>2, <3>1 DEF Push
    <3>2. CASE unsent[c] < Hwm /\ unsent' = [unsent EXCEPT ![c] = @ + 1] /\ UNCHANGED inbox
      <4>1. unsent' \in [Collectors -> 0 .. Hwm]
        BY <2>1, <3>2
      <4>2. QED
        BY <2>2, <3>2, <4>1 DEF Push
    <3>3. QED
      BY <2>2, <3>1, <3>2 DEF Push
  <2>3. CASE Transfer(c)
    <3>1. unsent' \in [Collectors -> 0 .. Hwm]
      BY <2>1, <2>3 DEF Transfer
    <3>2. QED
      BY <2>3, <3>1 DEF Transfer
  <2>4. QED
    BY <1>4, <2>2, <2>3
<1>5. CASE CloseCollector \/ CloseApp
  BY <1>5 DEF CloseCollector, CloseApp, Closing, queues
<1>6. CASE Dies \/ SignalEarly \/ CloseAppRaises \/ Exit
  BY <1>2, <1>6 DEF Dies, SignalEarly, CloseAppRaises, Exit
<1>7. CASE Northbound
  BY <1>1, <1>7 DEF Northbound, StartDefault, Record, Forget
<1>8. ASSUME NEW a \in Apps, start_app(a) \/ stop_app(a) PROVE QueueTypes'
  BY <1>1, <1>8 DEF start_app, stop_app
<1>9. ASSUME NEW p \in Pids, Step(p) \/ Fail(p) \/ FailChild(p) PROVE QueueTypes'
  BY <1>1, <1>9 DEF Step, Fail, FailChild
<1>10. CASE UNCHANGED vars
  BY <1>1, <1>10 DEF vars
<1>11. QED
  BY <1>3, <1>4, <1>5, <1>6, <1>7, <1>8, <1>9, <1>10 DEF Next, Close
-----------------------------------------------------------------------------
(* What happens to processes, but for a new one: none of them changes its    *)
(* application, nor begins to run.                                           *)
Tame ==
  /\ proc' \in [Pids -> Proc]
  /\ \A p \in Pids :
       /\ proc'[p].app = proc[p].app
       /\ proc[p].main # "none" => proc'[p].main # "none"
       /\ HeadRuns(proc'[p]) => HeadRuns(proc[p])

LEMMA TerminatedEnds ==
  ASSUME NEW r \in Proc
  PROVE  /\ Terminated(r) \in Proc /\ Terminated(r).app = r.app /\ ~HeadRuns(Terminated(r))
         /\ r.main # "none" => Terminated(r).main # "none"
<1>1. CASE r.shell # "none"
  BY <1>1 DEF Terminated, HeadRuns, Proc
<1>2. CASE r.shell = "none"
  <2>1. PICK c \in {"none", "runs", "ended"} :
          Terminated(r) = [app |-> r.app, shell |-> r.shell, main |-> "ended", child |-> c]
    BY <1>2 DEF Terminated, Proc
  <2>2. QED
    BY <1>2, <2>1 DEF HeadRuns, MainRuns, Proc
<1>3. QED
  BY <1>1, <1>2

LEMMA KilledEnds ==
  ASSUME NEW r \in Proc
  PROVE  /\ Killed(r) \in Proc /\ Killed(r).app = r.app /\ ~HeadRuns(Killed(r))
         /\ r.main # "none" => Killed(r).main # "none"
<1>1. CASE r.shell # "none"
  BY <1>1 DEF Killed, HeadRuns, Proc
<1>2. CASE r.shell = "none"
  BY <1>2 DEF Killed, HeadRuns, MainRuns, Proc
<1>3. QED
  BY <1>1, <1>2

LEMMA OneIsTame ==
  ASSUME proc \in [Pids -> Proc], NEW p \in Pids, NEW r \in Proc,
         r.app = proc[p].app, proc[p].main # "none" => r.main # "none",
         HeadRuns(r) => HeadRuns(proc[p]), proc' = [proc EXCEPT ![p] = r]
  PROVE  Tame
<1>1. proc' \in [Pids -> Proc] /\ proc'[p] = r /\ \A q \in Pids \ {p} : proc'[q] = proc[q]
  OBVIOUS
<1>2. QED
  BY <1>1 DEF Tame

LEMMA OwnStepIsTame ==
  ASSUME proc \in [Pids -> Proc], NEW p \in Pids, Step(p) \/ Fail(p) \/ FailChild(p)
  PROVE  Tame
<1> DEFINE r == proc[p]
<1>1. r \in Proc
  OBVIOUS
<1>2. CASE Step(p)
  <2>1. PICK m \in {"forked", "ready"}, c \in {"none", "runs", "ended"} :
          /\ r.main \in {"boot", "forked"}
          /\ proc' = [proc EXCEPT ![p] = [r EXCEPT !.main = m, !.child = c]]
    <3>1. CASE r.main = "boot" /\ r.app \in Forking
      BY <1>1, <1>2, <3>1 DEF Step, Proc
    <3>2. CASE r.main = "boot" /\ r.app \notin Forking
      BY <1>1, <1>2, <3>2 DEF Step, Proc
    <3>3. CASE r.main = "forked"
      <4>1. proc' = [proc EXCEPT ![p] = [r EXCEPT !.main = "ready", !.child = r.child]]
        BY <1>1, <1>2, <3>3 DEF Step, Proc
      <4>2. QED
        BY <1>1, <3>3, <4>1 DEF Proc
    <3>4. QED
      BY <1>2, <3>1, <3>2, <3>3 DEF Step
  <2>2. [r EXCEPT !.main = m, !.child = c] \in Proc
    BY <1>1 DEF Proc
  <2>3. QED
    BY <1>1, <2>1, <2>2, OneIsTame DEF Proc, HeadRuns, MainRuns
<1>3. CASE Fail(p)
  <2>1. PICK h \in {"none", "ended"} :
          /\ r.main # "none" /\ MainRuns(r) /\ (h = "none" <=> r.shell = "none")
          /\ proc' = [proc EXCEPT ![p] = [r EXCEPT !.main = "ended", !.shell = h]]
    BY <1>1, <1>3 DEF Fail, Proc, MainRuns
  <2>2. [r EXCEPT !.main = "ended", !.shell = h] \in Proc
    BY <1>1 DEF Proc
  <2>3. QED
    BY <1>1, <2>1, <2>2, OneIsTame DEF Proc, HeadRuns, MainRuns
<1>4. CASE FailChild(p)
  <2>1. proc' = [proc EXCEPT ![p] = [r EXCEPT !.child = "ended"]]
    BY <1>4 DEF FailChild
  <2>2. [r EXCEPT !.child = "ended"] \in Proc
    BY <1>1 DEF Proc
  <2>3. QED
    BY <1>1, <2>1, <2>2, OneIsTame DEF Proc, HeadRuns, MainRuns
<1>5. QED
  BY <1>2, <1>3, <1>4
-----------------------------------------------------------------------------
Inv == AppTypes /\ InHand /\ Entries /\ NoneYet /\ ClosedSoFar /\ NoneUnseen

LEMMA OursArePids == ASSUME AppTypes PROVE Ours \subseteq Pids /\ None \notin Ours
<1>1. \A a \in Tracked : app_procs[a] \in Pids
  BY DEF AppTypes, Tracked
<1>2. None \notin Pids
  BY DEF None, Pids
<1>3. nbi.pid \in Pids \cup {None}
  BY DEF AppTypes
<1>4. QED
  BY <1>1, <1>2, <1>3 DEF Ours

(* The process ends: what it had is an orphan, or was taken care of.         *)
LEMMA EndStep ==
  ASSUME Inv, NEW gone, gone \subseteq Pids, End(gone),
         \A p \in Ours : HeadRuns(proc[p]) => p \in gone \cup late
  PROVE  Inv'
<1>1. /\ main' = "down" /\ nbi' = Off /\ todo' = {} /\ app_procs' = [a \in Apps |-> None]
      /\ visited' = {} /\ size' = 0 /\ orphans' = orphans \cup {p \in gone : HeadRuns(proc[p])}
      /\ UNCHANGED <<proc, late>>
  BY DEF End
<1>2. AppTypes'
  <2>1. Cardinality(Apps) \in Nat
    BY CoordinatorAssumption, FS_CardinalityType DEF CoordinatorAssumption
  <2>2. QED
    BY <1>1, <2>1 DEF Inv, AppTypes, Off
<1>3. InHand' /\ Entries' /\ NoneYet'
  BY <1>1 DEF InHand, Entries, NoneYet, Off, None
<1>4. ClosedSoFar'
  BY <1>1 DEF ClosedSoFar, Closing
<1>5. NoneUnseen'
  BY <1>1 DEF Inv, NoneUnseen
<1>6. QED
  BY <1>2, <1>3, <1>4, <1>5 DEF Inv

LEMMA TameStep ==
  ASSUME Inv, Tame, UNCHANGED <<main, nbi, todo, app_procs, late, closes, orphans>>
  PROVE  Inv'
<1>1. AppTypes'
  BY DEF Inv, AppTypes, Tame, closes
<1>2. /\ \A a \in Apps : app_procs[a] \in Pids \cup {None}
      /\ nbi.pid \in Pids \cup {None}
  BY DEF Inv, AppTypes
<1>3. InHand'
  BY <1>2 DEF Inv, InHand, Tame
<1>4. Entries' /\ NoneYet'
  BY <1>2 DEF Inv, Entries, NoneYet, Tame
<1>5. Tracked' = Tracked /\ Ours' = Ours
  BY DEF Tracked, Ours
<1>6. \A a \in Tracked : app_procs[a] \in Pids
  BY <1>2 DEF Tracked
<1>7. ClosedSoFar'
  BY <1>5, <1>6 DEF Inv, ClosedSoFar, Done, Tame, closes
<1>8. NoneUnseen'
  BY <1>5 DEF Inv, NoneUnseen, Tame
<1>9. QED
  BY <1>1, <1>3, <1>4, <1>7, <1>8 DEF Inv

LEMMA StartSteps ==
  ASSUME Inv, Boot \/ Setup \/ SetupCollector \/ SetupWatson PROVE Inv'
<1>1. UNCHANGED <<proc, late, closes, orphans, app_procs>>
  BY DEF Boot, Setup, SetupCollector, SetupWatson, apps
<1>2. nbi = Off /\ todo = {} /\ \A a \in Apps : app_procs[a] = None
  BY DEF Inv, NoneYet, Boot, Setup, SetupCollector, SetupWatson, Starting, After
<1>3. main' \in Starting \cup {"listen"}
  BY DEF Boot, Setup, SetupCollector, SetupWatson, Starting, After
<1>4. Tracked = {} /\ Ours = {}
  BY <1>2 DEF Tracked, Ours, Off
<1>5. CASE UNCHANGED <<nbi, todo>> /\ main' \in Starting
  <2>1. AppTypes'
    BY <1>1, <1>5 DEF Inv, AppTypes, closes
  <2>2. InHand' /\ Entries' /\ NoneYet'
    BY <1>1, <1>2, <1>5 DEF Inv, InHand, Entries, NoneYet
  <2>3. ClosedSoFar'
    BY <1>5 DEF ClosedSoFar, Closing, Starting
  <2>4. Ours' = Ours
    BY <1>1, <1>5 DEF Ours, Tracked
  <2>5. NoneUnseen'
    BY <1>1, <2>4 DEF Inv, NoneUnseen
  <2>6. QED
    BY <2>1, <2>2, <2>3, <2>5 DEF Inv
<1>6. CASE SetupWatson
  <2>1. main' = "listen" /\ nbi' = [does |-> "defaults", pid |-> None] /\ todo' = Default
    BY <1>6 DEF SetupWatson
  <2>2. AppTypes'
    BY <1>1, <2>1 DEF Inv, AppTypes, closes
  <2>3. InHand' /\ Entries' /\ NoneYet' /\ ClosedSoFar'
    BY <1>1, <1>2, <2>1 DEF InHand, Entries, NoneYet, ClosedSoFar, Closing, Starting
  <2>4. NoneUnseen'
    BY <1>1, <1>4 DEF Inv, NoneUnseen
  <2>5. QED
    BY <2>2, <2>3, <2>4 DEF Inv
<1>7. QED
  BY <1>5, <1>6 DEF Boot, Setup, SetupCollector, apps, After, Starting

LEMMA SignalStep == ASSUME Inv, Signal PROVE Inv'
<1>1. /\ main' = "closeCollectors" /\ UNCHANGED <<nbi, todo, app_procs, proc, closes, orphans>>
      /\ late' = late \cup (IF nbi.does = "popen" THEN {nbi.pid} ELSE {})
  BY DEF Signal
<1>2. AppTypes'
  <2>1. nbi.does = "popen" => nbi.pid \in Pids
    BY DEF Inv, InHand, AppTypes
  <2>2. QED
    BY <1>1, <2>1 DEF Inv, AppTypes, closes
<1>3. InHand' /\ Entries'
  BY <1>1 DEF Inv, InHand, Entries
<1>4. NoneYet' /\ ClosedSoFar'
  BY <1>1 DEF NoneYet, ClosedSoFar, Starting
<1>5. NoneUnseen'
  BY <1>1 DEF Inv, NoneUnseen, Ours, Tracked
<1>6. QED
  BY <1>2, <1>3, <1>4, <1>5 DEF Inv

LEMMA CloseCollectorStep == ASSUME Inv, CloseCollector PROVE Inv'
<1>1. /\ main = "closeCollectors" /\ main' \in {"closeCollectors", "closeApps"}
      /\ visited' = {} /\ size' = Cardinality(Tracked)
      /\ UNCHANGED <<nbi, todo, app_procs, proc, late, orphans>>
  BY DEF CloseCollector, apps
<1>2. AppTypes'
  <2>1. Cardinality(Tracked) \in 0 .. Cardinality(Apps)
    BY CoordinatorAssumption, FS_Subset, FS_CardinalityType DEF CoordinatorAssumption, Tracked
  <2>2. QED
    BY <1>1, <2>1 DEF Inv, AppTypes
<1>3. InHand' /\ Entries'
  BY <1>1 DEF Inv, InHand, Entries
<1>4. NoneYet' /\ ClosedSoFar'
  BY <1>1 DEF Inv, NoneYet, ClosedSoFar, Starting, Closing
<1>5. NoneUnseen'
  BY <1>1 DEF Inv, NoneUnseen, Ours, Tracked
<1>6. QED
  BY <1>2, <1>3, <1>4, <1>5 DEF Inv

LEMMA CloseAppStep == ASSUME Inv, CloseApp PROVE Inv'
<1>1. main = "closeApps" /\ UNCHANGED <<nbi, todo, app_procs, late, size, orphans>>
  BY DEF CloseApp
<1>2. CASE UNCHANGED <<visited, proc>> /\ Tracked \subseteq visited /\ main' = "closePoll"
  <2>1. AppTypes' /\ InHand' /\ Entries' /\ NoneYet'
    BY <1>1, <1>2 DEF Inv, AppTypes, InHand, Entries, NoneYet, Starting
  <2>2. ClosedSoFar'
    BY <1>1, <1>2 DEF Inv, ClosedSoFar, Closing, Tracked, Done
  <2>3. NoneUnseen'
    BY <1>1, <1>2 DEF Inv, NoneUnseen, Ours, Tracked
  <2>4. QED
    BY <2>1, <2>2, <2>3 DEF Inv
<1>3. ASSUME NEW a \in Tracked \ visited, visited' = visited \cup {a}, UNCHANGED main,
             proc' = [proc EXCEPT ![app_procs[a]] = Terminated(@)]
      PROVE  Inv'
  <2> DEFINE p == app_procs[a]  r == Terminated(proc[p])
  <2>1. a \in Apps /\ p \in Pids /\ proc \in [Pids -> Proc] /\ proc[p] \in Proc
    BY DEF Inv, AppTypes, Tracked
  <2>2. /\ r \in Proc /\ r.app = proc[p].app /\ ~HeadRuns(r)
        /\ proc[p].main # "none" => r.main # "none"
    BY <2>1, TerminatedEnds
  <2> HIDE DEF p, r
  <2>3. proc' = [proc EXCEPT ![p] = r]
    BY <1>3 DEF p, r
  <2>4. Tame
    BY <2>1, <2>2, <2>3, OneIsTame
  <2>5. AppTypes' /\ InHand' /\ Entries' /\ NoneYet'
    <3>1. \A b \in Apps : app_procs[b] \in Pids \cup {None}
      BY DEF Inv, AppTypes
    <3>2. nbi.pid \in Pids \cup {None}
      BY DEF Inv, AppTypes
    <3>3. AppTypes'
      BY <1>1, <1>3, <2>1, <2>4 DEF Inv, AppTypes, Tame
    <3>4. InHand'
      BY <1>1, <2>4, <3>2 DEF Inv, InHand, Tame
    <3>5. Entries' /\ NoneYet'
      BY <1>1, <1>3, <2>4, <3>1 DEF Inv, Entries, NoneYet, Tame
    <3>6. QED
      BY <3>3, <3>4, <3>5
  <2>6. Tracked' = Tracked /\ Ours' = Ours
    BY <1>1 DEF Tracked, Ours
  <2>7. ClosedSoFar'
    <3>1. \A b \in Tracked : app_procs[b] \in Pids
      BY DEF Inv, AppTypes, Tracked
    <3>2. \A b \in Tracked \cap visited : HeadRuns(proc'[app_procs[b]]) => app_procs[b] \in late
      BY <1>1, <2>4, <3>1 DEF Inv, ClosedSoFar, Done, Tame
    <3>3. ~HeadRuns(proc'[app_procs[a]])
      BY <2>1, <2>2, <2>3 DEF p
    <3>4. \A b \in Tracked' \cap visited' : Done(app_procs[b])'
      BY <1>1, <1>3, <2>6, <3>2, <3>3 DEF Done
    <3>5. main' # "closePoll" /\ (nbi'.does = "popen" => nbi'.pid \in late')
      BY <1>1, <1>3 DEF Inv, ClosedSoFar, Closing
    <3>6. QED
      BY <3>4, <3>5 DEF ClosedSoFar
  <2>8. NoneUnseen'
    BY <1>1, <2>4, <2>6 DEF Inv, NoneUnseen, Tame
  <2>9. QED
    BY <2>5, <2>7, <2>8 DEF Inv
<1>4. QED
  BY <1>2, <1>3 DEF CloseApp

LEMMA EndSteps == ASSUME Inv, Dies \/ SignalEarly \/ CloseAppRaises \/ Exit PROVE Inv'
<1>1. Ours \subseteq Pids
  BY OursArePids DEF Inv
<1>2. CASE End(Ours)
  BY <1>1, <1>2, EndStep
<1>3. CASE Exit
  <2>1. main = "closePoll" /\ End({})
    BY <1>3 DEF Exit
  <2>2. ASSUME NEW p \in Ours, HeadRuns(proc[p]) PROVE p \in late
    <3>1. CASE p = nbi.pid /\ nbi.pid # None
      BY <2>1, <2>2, <3>1 DEF Inv, InHand, ClosedSoFar, Closing
    <3>2. CASE \E a \in Tracked : p = app_procs[a]
      BY <2>1, <2>2, <3>2 DEF Inv, ClosedSoFar, Done
    <3>3. QED
      BY <3>1, <3>2 DEF Ours
  <2>3. QED
    BY <2>1, <2>2, EndStep
<1>4. QED
  BY <1>2, <1>3 DEF Dies, SignalEarly, CloseAppRaises

(* A new process has a number of its own and nothing to do with any other.   *)
LEMMA PopenStep ==
  ASSUME Inv, NEW a \in Apps, NEW shells, shells \subseteq {"none", "runs"}, Popen(a, shells),
         nbi.pid = None, app_procs[a] = None, main \notin {"down"} \cup Starting,
         todo' \subseteq todo \ {a}, UNCHANGED <<main, app_procs, closes, orphans>>
  PROVE  Inv'
<1>1. PICK p \in Pids, shell \in shells :
        /\ proc[p] = NoProc
        /\ proc' = [proc EXCEPT ![p] = [app |-> a, shell |-> shell, main |-> "boot", child |-> "none"]]
        /\ nbi' = [does |-> "popen", pid |-> p]
        /\ late' = IF main \in Closing THEN late \cup {p} ELSE late
  BY DEF Popen
<1> DEFINE r == [app |-> a, shell |-> shell, main |-> "boot", child |-> "none"]
<1>2. r \in Proc /\ r.app = a /\ r.main # "none"
  BY DEF Proc
<1>3. proc \in [Pids -> Proc] /\ proc[p].main = "none"
  BY <1>1 DEF Inv, AppTypes, NoProc
<1>4. proc' = [proc EXCEPT ![p] = r]
  BY <1>1
<1> HIDE DEF r
<1>5. proc' \in [Pids -> Proc] /\ proc'[p] = r /\ \A q \in Pids \ {p} : proc'[q] = proc[q]
  BY <1>2, <1>3, <1>4
<1>6. p # None
  BY DEF Pids, None
<1>7. AppTypes'
  BY <1>1, <1>5 DEF Inv, AppTypes, closes
<1>8. InHand'
  BY <1>1, <1>2, <1>5, <1>6 DEF InHand
<1>9. \A b \in Apps : app_procs[b] # None => app_procs[b] \in Pids \ {p}
  BY <1>3 DEF Inv, AppTypes, Entries
<1>10. Entries'
  BY <1>5, <1>9 DEF Inv, Entries
<1>11. NoneYet'
  BY DEF NoneYet
<1>12. ClosedSoFar'
  <2>1. Tracked' = Tracked /\ \A b \in Tracked : app_procs[b] \in Pids \ {p}
    BY <1>9 DEF Tracked
  <2>2. \A b \in Tracked : Done(app_procs[b]) => Done(app_procs[b])'
    BY <1>1, <1>5, <2>1 DEF Done
  <2>3. QED
    BY <1>1, <2>1, <2>2 DEF Inv, ClosedSoFar, closes
<1>13. NoneUnseen'
  <2>1. Ours' = Ours \cup {p}
    BY <1>1, <1>6 DEF Ours, Tracked
  <2>2. QED
    BY <1>1, <1>5, <2>1 DEF Inv, NoneUnseen
<1>14. QED
  BY <1>7, <1>8, <1>10, <1>11, <1>12, <1>13 DEF Inv

LEMMA NorthboundStep == ASSUME Inv, Northbound PROVE Inv'
<1>1. UNCHANGED <<main, closes, orphans>> /\ nbi.does \in {"defaults", "popen", "kill"}
  BY DEF Northbound, StartDefault, Record, Forget
<1>2. main \notin {"down"} \cup Starting
  BY <1>1 DEF Inv, NoneYet, Off
<1>3. CASE StartDefault
  <2>1. nbi.does = "defaults" /\ nbi.pid = None /\ UNCHANGED app_procs
    BY <1>3 DEF Inv, InHand, StartDefault
  <2>2. CASE \E a \in todo : Popen(a, {"none"}) /\ todo' = todo \ {a}
    <3>1. PICK a \in todo : Popen(a, {"none"}) /\ todo' = todo \ {a}
      BY <2>2
    <3>2. a \in Apps /\ app_procs[a] = None
      BY CoordinatorAssumption DEF CoordinatorAssumption, Inv, AppTypes, Entries
    <3>3. QED
      BY <1>1, <1>2, <2>1, <3>1, <3>2, PopenStep
  <2>3. CASE todo = {} /\ nbi' = Idle /\ UNCHANGED <<todo, proc, late>>
    <3>1. AppTypes' /\ InHand' /\ Entries' /\ NoneYet'
      BY <1>1, <1>2, <2>1, <2>3 DEF Inv, AppTypes, InHand, Entries, NoneYet, Idle, None, closes
    <3>2. ClosedSoFar'
      BY <1>1, <2>1, <2>3 DEF Inv, ClosedSoFar, Idle, Done, Tracked, closes
    <3>3. NoneUnseen'
      BY <1>1, <2>1, <2>3 DEF Inv, NoneUnseen, Idle, Ours, Tracked
    <3>4. QED
      BY <3>1, <3>2, <3>3 DEF Inv
  <2>4. QED
    BY <1>3, <2>2, <2>3 DEF StartDefault
<1> DEFINE p == nbi.pid  a == proc[nbi.pid].app
<1>4. CASE Record
  <2>1. nbi.does = "popen" /\ UNCHANGED <<todo, proc, late>>
    BY <1>4 DEF Record
  <2>2. /\ p \in Pids /\ p # None /\ a \in Apps /\ proc[p].main # "none"
        /\ app_procs[a] = None /\ a \notin todo
    BY <2>1 DEF Inv, InHand, AppTypes
  <2>3. /\ nbi'.pid = None /\ nbi'.does \in {"idle", "defaults"}
        /\ nbi'.does = "idle" => todo = {}
        /\ nbi' \in [does : {"off", "defaults", "idle", "popen", "kill"}, pid : Pids \cup {None}]
    BY <1>4 DEF Record, Idle
  <2>4. app_procs' \in [Apps -> Pids \cup {None}] /\ app_procs' = [app_procs EXCEPT ![a] = p]
    BY <1>4, <2>2 DEF Inv, AppTypes, Record
  <2> HIDE DEF p, a
  <2>5. app_procs'[a] = p /\ \A b \in Apps \ {a} : app_procs'[b] = app_procs[b]
    BY <2>2, <2>4 DEF Inv, AppTypes
  <2>6. AppTypes'
    BY <1>1, <2>1, <2>3, <2>4 DEF Inv, AppTypes, closes
  <2>7. InHand'
    BY <2>1, <2>3 DEF InHand
  <2>8. Entries'
    BY <2>1, <2>2, <2>5 DEF Inv, Entries, a, p
  <2>9. NoneYet'
    BY <1>1, <1>2 DEF NoneYet
  <2>10. ClosedSoFar'
    <3>1. main \in Closing => p \in late
      BY <2>1 DEF Inv, ClosedSoFar, p
    <3>2. Tracked' \subseteq Tracked \cup {a}
      BY <2>5 DEF Tracked
    <3>3. QED
      BY <1>1, <2>1, <2>3, <2>5, <3>1, <3>2 DEF Inv, ClosedSoFar, Done, Tracked, Closing, closes
  <2>11. NoneUnseen'
    <3>1. Ours \subseteq Ours'
      BY <2>2, <2>5 DEF Ours, Tracked, p
    <3>2. QED
      BY <1>1, <2>1, <3>1 DEF Inv, NoneUnseen
  <2>12. QED
    BY <2>6, <2>7, <2>8, <2>9, <2>10, <2>11 DEF Inv
<1>5. CASE Forget
  <2>1. nbi.does = "kill" /\ nbi' = Idle /\ UNCHANGED <<todo, proc, late>>
    BY <1>5 DEF Forget
  <2>2. /\ p \in Pids /\ p # None /\ a \in Apps /\ ~HeadRuns(proc[p])
        /\ app_procs[a] = p /\ todo = {}
    BY <2>1 DEF Inv, InHand, AppTypes
  <2>3. app_procs' \in [Apps -> Pids \cup {None}] /\ app_procs' = [app_procs EXCEPT ![a] = None]
    BY <1>5, <2>2 DEF Inv, AppTypes, Forget
  <2> HIDE DEF p, a
  <2>4. app_procs'[a] = None /\ \A b \in Apps \ {a} : app_procs'[b] = app_procs[b]
    BY <2>2, <2>3 DEF Inv, AppTypes
  <2>5. AppTypes'
    BY <1>1, <2>1, <2>3 DEF Inv, AppTypes, Idle, closes
  <2>6. InHand' /\ Entries' /\ NoneYet'
    BY <1>1, <1>2, <2>1, <2>2, <2>4 DEF Inv, InHand, Entries, NoneYet, Idle, None
  <2>7. ClosedSoFar'
    <3>1. Tracked' = Tracked \ {a}
      BY <2>4 DEF Tracked
    <3>2. QED
      BY <1>1, <2>1, <2>4, <3>1 DEF Inv, ClosedSoFar, Done, Tracked, Idle, closes
  <2>8. NoneUnseen'
    <3>1. Ours \ {p} \subseteq Ours'
      BY <2>2, <2>4 DEF Ours, Tracked, p
    <3>2. QED
      BY <1>1, <2>1, <2>2, <3>1 DEF Inv, NoneUnseen
  <2>9. QED
    BY <2>5, <2>6, <2>7, <2>8 DEF Inv
<1>6. QED
  BY <1>3, <1>4, <1>5 DEF Northbound

LEMMA RequestSteps ==
  ASSUME Inv, NEW a \in Apps, start_app(a) \/ stop_app(a) PROVE Inv'
<1>1. nbi = Idle /\ nbi.pid = None /\ todo = {}
  BY DEF Inv, InHand, start_app, stop_app, Idle
<1>2. main \notin {"down"} \cup Starting
  BY <1>1 DEF Inv, NoneYet, Off, Idle
<1>3. CASE start_app(a)
  <2>1. /\ app_procs[a] = None /\ Popen(a, {"none", "runs"})
        /\ todo' \subseteq todo \ {a} /\ UNCHANGED <<main, app_procs, closes, orphans>>
    BY <1>1, <1>3 DEF start_app
  <2>2. QED
    BY <1>1, <1>2, <2>1, PopenStep
<1>4. CASE stop_app(a)
  <2> DEFINE p == app_procs[a]  r == Killed(proc[p])
  <2>1. /\ app_procs[a] # None /\ proc' = [proc EXCEPT ![p] = r]
        /\ nbi' = [does |-> "kill", pid |-> p]
        /\ UNCHANGED <<main, todo, app_procs, late, closes, orphans>>
    BY <1>4 DEF stop_app
  <2>2. /\ p \in Pids /\ p # None /\ proc \in [Pids -> Proc] /\ proc[p] \in Proc
        /\ proc[p].main # "none" /\ proc[p].app = a
    BY <2>1 DEF Inv, AppTypes, Entries
  <2>3. /\ r \in Proc /\ r.app = proc[p].app /\ ~HeadRuns(r) /\ r.main # "none"
    BY <2>2, KilledEnds
  <2> HIDE DEF r
  <2>4. Tame
    BY <2>1, <2>2, <2>3, OneIsTame
  <2>5. proc'[p] = r
    BY <2>1, <2>2
  <2>6. AppTypes'
    BY <2>1, <2>2, <2>4 DEF Inv, AppTypes, Tame, closes
  <2>7. InHand'
    BY <1>1, <2>1, <2>2, <2>3, <2>5 DEF InHand
  <2>8. \A b \in Apps : app_procs[b] \in Pids \cup {None}
    BY DEF Inv, AppTypes
  <2>9. Entries' /\ NoneYet'
    BY <1>2, <2>1, <2>4, <2>8 DEF Inv, Entries, NoneYet, Tame
  <2>10. ClosedSoFar'
    <3>1. \A b \in Tracked : Done(app_procs[b]) => Done(app_procs[b])'
      BY <2>1, <2>4, <2>8 DEF Done, Tracked, Tame
    <3>2. QED
      BY <2>1, <3>1 DEF Inv, ClosedSoFar, Tracked, closes
  <2>11. NoneUnseen'
    <3>1. Ours \subseteq Ours'
      BY <1>1, <2>1 DEF Ours, Tracked
    <3>2. QED
      BY <2>1, <2>4, <3>1 DEF Inv, NoneUnseen, Tame
  <2>12. QED
    BY <2>6, <2>7, <2>9, <2>10, <2>11 DEF Inv
<1>5. QED
  BY <1>3, <1>4
-----------------------------------------------------------------------------
LEMMA InitInv == Init => QueueTypes /\ Inv
<1> SUFFICES ASSUME Init PROVE QueueTypes /\ Inv
  OBVIOUS
<1>1. Cardinality(Apps) \in Nat
  BY CoordinatorAssumption, FS_CardinalityType DEF CoordinatorAssumption
<1>2. QueueTypes
  BY CoordinatorAssumption DEF CoordinatorAssumption, Init, QueueTypes
<1>3. AppTypes
  BY <1>1 DEF Init, AppTypes, Off, NoProc, Proc
<1>4. InHand /\ Entries /\ NoneYet /\ ClosedSoFar
  BY DEF Init, InHand, Entries, NoneYet, ClosedSoFar, Off, None, Closing
<1>5. NoneUnseen
  BY DEF Init, NoneUnseen, NoProc, HeadRuns, MainRuns
<1>6. QED
  BY <1>2, <1>3, <1>4, <1>5 DEF Inv

LEMMA InvStep == Inv /\ [Next]_vars => Inv'
<1> SUFFICES ASSUME Inv, [Next]_vars PROVE Inv'
  OBVIOUS
<1>1. CASE UNCHANGED <<main, apps, closes, orphans>>
  <2>1. AppTypes' /\ InHand' /\ Entries' /\ NoneYet'
    BY <1>1 DEF Inv, AppTypes, InHand, Entries, NoneYet, apps, closes
  <2>2. ClosedSoFar' /\ NoneUnseen'
    BY <1>1 DEF Inv, ClosedSoFar, Done, NoneUnseen, Ours, Tracked, apps, closes
  <2>3. QED
    BY <2>1, <2>2 DEF Inv
<1>2. CASE Boot \/ Setup \/ SetupCollector \/ SetupWatson
  BY <1>2, StartSteps
<1>3. CASE Listen \/ \E c \in Collectors : Push(c) \/ Transfer(c)
  BY <1>1, <1>3 DEF Listen, Push, Transfer
<1>4. CASE Dies \/ SignalEarly \/ CloseAppRaises \/ Exit
  BY <1>4, EndSteps
<1>5. CASE Signal \/ CloseCollector \/ CloseApp
  BY <1>5, SignalStep, CloseCollectorStep, CloseAppStep
<1>6. CASE Northbound
  BY <1>6, NorthboundStep
<1>7. CASE \E a \in Apps : start_app(a) \/ stop_app(a)
  BY <1>7, RequestSteps
<1>8. ASSUME NEW p \in Pids, Step(p) \/ Fail(p) \/ FailChild(p) PROVE Inv'
  <2>1. Tame
    BY <1>8, OwnStepIsTame DEF Inv, AppTypes
  <2>2. UNCHANGED <<main, nbi, todo, app_procs, late, closes, orphans>>
    BY <1>8 DEF Step, Fail, FailChild
  <2>3. QED
    BY <2>1, <2>2, TameStep
<1>9. CASE UNCHANGED vars
  BY <1>1, <1>9 DEF vars
<1>10. QED
  BY <1>2, <1>3, <1>4, <1>5, <1>6, <1>7, <1>8, <1>9 DEF Next, Close

(* Queues, table and processes keep their types: no socket holds more than   *)
(* its limit, and what is in the hands of the northbound thread, when a      *)
(* signal or an exception comes between its steps, is a process.             *)
THEOREM TypeCorrect == Spec => []TypeOK
<1>1. Init => QueueTypes /\ Inv
  BY InitInv
<1>2. (QueueTypes /\ Inv) /\ [Next]_vars => (QueueTypes /\ Inv)'
  BY QueueStep, InvStep
<1>3. QueueTypes /\ Inv => TypeOK
  BY TypesSplit DEF Inv, Types
<1>4. QED
  BY <1>1, <1>2, <1>3, PTL DEF Spec

(* Whatever starts, requests, signals and failures come between each other,  *)
(* and however many applications and collectors there are: a process that    *)
(* was spawned and runs is in app_procs, or about to be, unless it is one of *)
(* those left behind when the coordinator ended.                             *)
THEOREM NothingRunsUnseen == Spec => []NoneUnseen
<1>1. Init => Inv
  BY InitInv
<1>2. Inv => NoneUnseen
  BY DEF Inv
<1>3. QED
  BY <1>1, <1>2, InvStep, PTL DEF Spec
=============================================================================
