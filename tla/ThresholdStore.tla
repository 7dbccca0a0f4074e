--------------------------- MODULE ThresholdStore ---------------------------
(***************************************************************************)
(* One section ("ipfix" or "snort") of the coordinator's thresholds: the   *)
(* dict shared by the main loop and the WatsonNBI thread, the northbound   *)
(* requests that change it, and the file it is written to after a change.  *)
(*                                                                         *)
(* A threshold is a mutable dict object. `live` maps the ids that are      *)
(* present to their objects, `obj` gives the objects there are a content:  *)
(* an update changes the content of the same object in place, so whoever   *)
(* holds the object sees it, and a removed object lives on where it is     *)
(* still referenced.                                                       *)
(*                                                                         *)
(* Flask serves one request at a time, in the WatsonNBI thread; its steps  *)
(* interleave with the main loop (IpfixHandler, SnortHandler), and the     *)
(* process may be killed between any two.                                  *)
(***************************************************************************)
EXTENDS Integers, FiniteSets

CONSTANTS
  Ids,            \* threshold ids
  Objects,        \* bound: the objects 1..n the heap may hold
  Contents,       \* the contents of well-formed /add requests
  Patches,        \* /update requests: functions from some attributes to values
  Boot,           \* the thresholds file at the first start: id -> content
  RemoveSaves,    \* whether this section's /remove writes the file
  MaxWrites,      \* bound: northbound requests
  MaxStarts       \* bound: restarts

None == 0     \* no object (objects are positive)

ASSUME StoreAssumption ==
  /\ IsFiniteSet(Ids) /\ IsFiniteSet(Objects)
  /\ Objects = 1 .. Cardinality(Objects) /\ Cardinality(Ids) <= Cardinality(Objects)
  /\ Boot = [id \in DOMAIN Boot |-> Boot[id]] /\ DOMAIN Boot \subseteq Ids
  /\ RemoveSaves \in BOOLEAN
  /\ MaxWrites \in Nat /\ MaxStarts \in Nat

VARIABLES
  obj,      \* object -> content, for the objects there are
  live,     \* id -> object, for the ids present
  file,     \* this section of thresholds.yaml, and whether the file is whole
  nbi,      \* progress of the northbound request being served
  up,       \* whether the coordinator runs
  writes, starts   \* requests and restarts so far

store == <<obj, live, file, nbi, up, writes, starts>>

Present == DOMAIN live
ContentOf(d) == [id \in DOMAIN d |-> obj[d[id]]]
Free  == Objects \ DOMAIN obj
Fresh == CHOOSE o \in Free : TRUE

Written(f) == [whole |-> TRUE, text |-> f]      \* f: id -> content
Truncated  == [whole |-> FALSE, text |-> <<>>]  \* opened for writing, not yet written

Idle == [at |-> "idle"]
Failed == [at |-> "failed"]     \* as idle, and the last save raised
Opening == [at |-> "open"]
Dumping(c) == [at |-> "dump", copy |-> c]
Patching(o, p, rest) == [at |-> "patch", of |-> o, patch |-> p, rest |-> rest]

(* _extract_ipfix_thresholds, _extract_snort_thresholds: a new object for    *)
(* each entry of the file, under the id written in it.                       *)
LoadedLive(f) == CHOOSE p \in [DOMAIN f -> 1 .. Cardinality(DOMAIN f)] :
                   \A i, j \in DOMAIN f : p[i] = p[j] => i = j
LoadedObj(f)  == [o \in {LoadedLive(f)[id] : id \in DOMAIN f} |->
                    f[CHOOSE id \in DOMAIN f : LoadedLive(f)[id] = o]]

StoreInit ==
  /\ file = Written(Boot) /\ live = LoadedLive(Boot) /\ obj = LoadedObj(Boot)
  /\ nbi = Idle /\ up = TRUE
  /\ writes = 0 /\ starts = 0
-----------------------------------------------------------------------------
Accept == /\ up /\ nbi \in {Idle, Failed}
          /\ writes < MaxWrites
          /\ writes' = writes + 1

(* The request saves the file before it is answered, or not. *)
SaveNever(saves) == nbi' = Idle                           \* mutant: not saved
SaveIf(saves) == nbi' = IF saves THEN Opening ELSE Idle

(* add_ipfix_threshold, add_snort_threshold: refused when the id is present. *)
Add(id) ==
  /\ Accept
  /\ id \notin Present
  /\ Free # {}
  /\ \E c \in Contents : obj' = [o \in DOMAIN obj \cup {Fresh} |-> IF o = Fresh THEN c ELSE obj[o]]
  /\ live' = [i \in Present \cup {id} |-> IF i = id THEN Fresh ELSE live[i]]
  /\ SaveIf(TRUE)
  /\ UNCHANGED <<file, up, starts>>

(* remove_ipfix_threshold saves; remove_snort_threshold does not. *)
Remove(id) ==
  /\ Accept
  /\ id \in Present
  /\ live' = [i \in Present \ {id} |-> live[i]]
  /\ SaveIf(RemoveSaves)
  /\ UNCHANGED <<obj, file, up, starts>>

(* update_ipfix_threshold, update_snort_threshold: assign the keys of the    *)
(* request to the stored object one after the other, then save.              *)
Update(id) ==
  /\ Accept
  /\ id \in Present
  /\ \E p \in Patches : nbi' = Patching(live[id], p, DOMAIN p)
  /\ UNCHANGED <<obj, live, file, up, starts>>

ToPatch == IF nbi.at = "patch" THEN nbi.rest ELSE {}

PatchKey(k) ==
  /\ up /\ k \in ToPatch
  /\ LET old == obj[nbi.of]
     IN  obj' = [obj EXCEPT ![nbi.of] =
                   [x \in DOMAIN old \cup {k} |-> IF x = k THEN nbi.patch[k] ELSE old[x]]]
  /\ nbi' = IF nbi.rest = {k} THEN Opening
            ELSE Patching(nbi.of, nbi.patch, nbi.rest \ {k})
  /\ UNCHANGED <<live, file, up, writes, starts>>

(* A request that changes the other section of the file saves this one too. *)
SaveElsewhere ==
  /\ Accept
  /\ SaveIf(TRUE)
  /\ UNCHANGED <<obj, live, file, up, starts>>

(* _threshold_to_file: deep copies, then open(.., 'w'), which truncates, ... *)
OpenFile ==
  /\ up /\ nbi = Opening
  /\ nbi' = Dumping(ContentOf(live))
  /\ file' = Truncated
  /\ UNCHANGED <<obj, live, up, writes, starts>>

(* ... then yaml.dump, whose text is in the file when it is closed. *)
DumpFile ==
  /\ up /\ nbi.at = "dump"
  /\ file' = Written(nbi.copy)
  /\ nbi' = Idle
  /\ UNCHANGED <<obj, live, up, writes, starts>>

(* Either may raise: the request is answered with an error, the process      *)
(* lives on with what the request changed in memory, and the file is as it   *)
(* was, or what the dump left of it, which no start can read.                *)
OpenFailsQuietly ==                                       \* mutant: nobody knows
  /\ up /\ nbi = Opening
  /\ nbi' = Idle
  /\ UNCHANGED <<obj, live, file, up, writes, starts>>
OpenFails ==
  /\ up /\ nbi = Opening
  /\ nbi' = Failed
  /\ UNCHANGED <<obj, live, file, up, writes, starts>>

DumpFails ==
  /\ up /\ nbi.at = "dump"
  /\ nbi' = Failed
  /\ UNCHANGED <<obj, live, file, up, writes, starts>>

Save == OpenFile \/ DumpFile \/ OpenFails \/ DumpFails
-----------------------------------------------------------------------------
(* The process is killed, or its main loop raises: the daemon WatsonNBI      *)
(* thread ends with it wherever it is.                                       *)
Stop == /\ up
        /\ up' = FALSE
        /\ nbi' = Idle
        /\ UNCHANGED <<obj, live, file, writes, starts>>

(* A start with the saved file; _setup_thresholds raises on a truncated one. *)
Start == /\ ~up /\ starts < MaxStarts
         /\ file.whole
         /\ up' = TRUE /\ starts' = starts + 1
         /\ live' = LoadedLive(file.text) /\ obj' = LoadedObj(file.text)
         /\ UNCHANGED <<file, nbi, writes>>
-----------------------------------------------------------------------------
StoreTypeOK ==
  /\ DOMAIN obj \subseteq Objects
  /\ Present \subseteq Ids /\ \A id \in Present : live[id] \in DOMAIN obj
  /\ nbi.at \in {"idle", "failed", "open", "dump", "patch"}
  /\ up \in BOOLEAN
  /\ writes \in 0 .. MaxWrites /\ starts \in 0 .. MaxStarts
=============================================================================
