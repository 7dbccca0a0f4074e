---------------------------- MODULE IpfixHandler ----------------------------
(***************************************************************************)
(* The main loop of the coordinator on an IPFIX message: listen() and      *)
(* messagehandler.IPFIX, next to the northbound requests that change the   *)
(* thresholds (ThresholdStore).                                            *)
(*                                                                         *)
(* Thresholds are grouped into masks by their field names. The masks are   *)
(* rebuilt when the live dict differs from a shallow copy taken at the     *)
(* last rebuild; both read the live dict while WatsonNBI may write it.     *)
(***************************************************************************)
EXTENDS ThresholdStore, Rpc

CONSTANTS
  Messages,     \* IPFIX messages: [fields : name -> value, subtype]
  Treatments,   \* the treatments treatment.py has a method for
  FlowFields,   \* the fields without which a message is not recognised
  Unnamed,      \* protocolIdentifiers absent from _protocol_identifiers
  Networks      \* the networks thresholds are given: name -> the addresses in it

(* A threshold has fields, priority and treatment, in a request too.         *)
ASSUME IpfixAssumption ==
  \A c \in Contents \cup {Boot[id] : id \in DOMAIN Boot} :
    {"fields", "priority", "treatment"} \subseteq DOMAIN c

VARIABLES
  pc,       \* where the main loop is
  msg,      \* the message being handled
  loaded,   \* _loaded_thresholds, a shallow copy of the live dict
  masks,    \* _masks: the pairs of a tuple of field names and an object
  todo,     \* entries of the live dict the iterator has not reached
  size,     \* the dict's size when the iterator was made
  best,     \* highest_match
  raced,    \* history: a request wrote during the rebuild, or patched fields since
  fresh,    \* history: no request has written since this message's check
  seen      \* history: contents in force since this message was received

loop == <<pc, msg, loaded, masks, todo, size, best>>
ghost == <<raced, fresh, seen>>
vars == <<store, loop, ghost>>

InForce == {obj[live[id]] : id \in Present}
MaskOf(o) == [keys |-> DOMAIN obj[o].fields, of |-> o]
-----------------------------------------------------------------------------
(* _test_match_similarity and _test_subtype on the values; a key the message *)
(* lacks, or a protocol without a name, raises KeyError when it is reached.  *)
(* An address may be given as a network, and a subtype need not be given.    *)
Troubles(c, m) == {k \in DOMAIN c.fields :
                     k \notin DOMAIN m.fields
                     \/ (k = "protocolIdentifier" /\ m.fields[k] \in Unnamed)}
Agrees(k, given, has) ==
  IF k \in {"sourceIPv4Address", "destinationIPv4Address"} /\ given \in DOMAIN Networks
  THEN has \in Networks[given] ELSE has = given
Similar(c, m) == /\ \A k \in DOMAIN c.fields \ Troubles(c, m) : Agrees(k, c.fields[k], m.fields[k])
                 /\ Troubles(c, m) = {}
Matches(c, m) == /\ Similar(c, m)
                 /\ "subtype" \in DOMAIN c \cap DOMAIN m => c.subtype = m.subtype

(* _find_mask_match: the masks whose names are all in the message. *)
CandidatesExact(m) == {x.of : x \in {y \in masks : y.keys = DOMAIN m.fields}}  \* mutant
Candidates(m) == {x.of : x \in {y \in masks : y.keys \subseteq DOMAIN m.fields}}
MaskMatches(m) == {o \in Candidates(m) : Matches(obj[o], m)}

(* The dict of fields is walked in an order of its own: a difference found   *)
(* before the trouble ends the walk.                                         *)
MayRaise(m)  == \E o \in Candidates(m) : Troubles(obj[o], m) # {}
MustRaise(m) == \E o \in Candidates(m) :
                  /\ Troubles(obj[o], m) # {}
                  /\ \A k \in DOMAIN obj[o].fields \ Troubles(obj[o], m) :
                       Agrees(k, obj[o].fields[k], m.fields[k])

(* _find_highest_priority_match: the first of the highest. *)
Highest(os) == {o \in os : \A p \in os : obj[p].priority <= obj[o].priority}
-----------------------------------------------------------------------------
Init == /\ StoreInit
        /\ pc = "recv" /\ msg \in Messages
        /\ loaded = live
        /\ masks = {MaskOf(live[id]) : id \in Present}
        /\ todo = {} /\ size = 0 /\ best = None
        /\ raced = FALSE /\ fresh = FALSE /\ seen = {}

At(label) == up /\ pc = label
Go(label) == pc' = label

(* listen: recv_pyobj, insert_one. *)
Receive == /\ At("recv") /\ Go("check")
           /\ msg' \in Messages
           /\ seen' = InForce
           /\ UNCHANGED <<store, loaded, masks, todo, size, best, raced, fresh>>

(* handle: `if self._loaded_thresholds != self._thresholds`. Dicts compare   *)
(* by content, and an object is always equal to itself.                      *)
CheckNever == /\ At("check") /\ Go("match")                \* mutant: no reload
              /\ fresh' = TRUE
              /\ UNCHANGED <<store, msg, loaded, masks, todo, size, best, raced, seen>>

Check == /\ At("check")
         /\ Go(IF ContentOf(loaded) = ContentOf(live) THEN "match" ELSE "copy")
         /\ fresh' = TRUE
         /\ UNCHANGED <<store, msg, loaded, masks, todo, size, best, raced, seen>>

(* _create_initial_masks: dict(thresholds), then _masks = {}, ... *)
Copy == /\ At("copy") /\ Go("iter")
        /\ loaded' = live /\ masks' = {}
        /\ raced' = FALSE
        /\ UNCHANGED <<store, msg, todo, size, best, fresh, seen>>

(* ... the iterator over the live dict, ... *)
Iterate == /\ At("iter") /\ Go("build")
           /\ todo' = Present /\ size' = Cardinality(Present)
           /\ UNCHANGED <<store, msg, loaded, masks, best, ghost>>

(* ... and _add_mask for each entry. The iterator raises RuntimeError as     *)
(* soon as it sees that the size of the dict is not what it was.             *)
Build ==
  /\ At("build")
  /\ Cardinality(Present) = size
  /\ IF todo = {}
     THEN Go("match") /\ UNCHANGED <<masks, todo>>
     ELSE \E id \in todo : /\ masks' = masks \cup {MaskOf(live[id])}
                           /\ todo' = todo \ {id}
                           /\ UNCHANGED pc
  /\ UNCHANGED <<store, msg, loaded, size, best, ghost>>

BuildRaises == /\ At("build")
               /\ Cardinality(Present) # size
               /\ Go("raised")
               /\ UNCHANGED <<store, msg, loaded, masks, todo, size, best, ghost>>

FoundUnassigned == /\ Go(IF MaskMatches(msg) = {} THEN "recv" ELSE "treat")  \* mutant
                   /\ UNCHANGED best

Found == LET ms == MaskMatches(msg)
         IN  IF ms = {} THEN Go("recv") /\ UNCHANGED best
             ELSE \E o \in Highest(ms) :
                    /\ best' = o
                    /\ \/ Go("treat")
                       \/ {"metric", "threshold"} \subseteq DOMAIN obj[o]
                          /\ Go("recv")                     \* _check_threshold says no

(* handle: "Did not recognise IPFIX message", after the reload. *)
Ignore == /\ At("match")
          /\ ~ FlowFields \subseteq DOMAIN msg.fields
          /\ Go("recv")
          /\ UNCHANGED <<store, msg, loaded, masks, todo, size, best, ghost>>

(* _find_mask_match, _find_highest_priority_match, _check_threshold. *)
Match == /\ At("match")
         /\ FlowFields \subseteq DOMAIN msg.fields
         /\ ~MustRaise(msg)
         /\ Found
         /\ UNCHANGED <<store, msg, loaded, masks, todo, size, ghost>>

MatchRaises == /\ At("match")
               /\ FlowFields \subseteq DOMAIN msg.fields
               /\ MayRaise(msg)
               /\ Go("raised")
               /\ UNCHANGED <<store, msg, loaded, masks, todo, size, best, ghost>>

(* Treatment.apply reads match['treatment'] from the shared object; the RPC  *)
(* catches what goes wrong and its result is not looked at. It is given the  *)
(* threshold's own treatment_fields, where it has them, and leaves a         *)
(* protocol's name there; of a record or an empty dict nothing is left.      *)
Treat == /\ At("treat")
         /\ obj[best].treatment \in Treatments
         /\ Go("recv")
         /\ obj' = [obj EXCEPT ![best] = NamedContent(@)]
         /\ UNCHANGED <<live, file, nbi, up, writes, starts>>
         /\ UNCHANGED <<msg, loaded, masks, todo, size, best, ghost>>

TreatRaises == /\ At("treat")
               /\ obj[best].treatment \notin Treatments
               /\ Go("raised")
               /\ UNCHANGED <<store, msg, loaded, masks, todo, size, best, ghost>>

Loop == Receive \/ Check \/ Copy \/ Iterate \/ Build \/ Ignore \/ Match \/ Treat
Raise == BuildRaises \/ MatchRaises \/ TreatRaises
-----------------------------------------------------------------------------
(* A write by a northbound request: the iterator of a rebuild in progress    *)
(* meets a new entry or not, depending on where the dict placed it, and      *)
(* never meets a removed one.                                                *)
Seen == seen' = seen \cup {obj'[live'[id]] : id \in DOMAIN live'}

Rebuilding == pc \in {"iter", "build"}

NbiAdd(id) == /\ Add(id)
              /\ todo' \in IF pc = "build" THEN {todo, todo \cup {id}} ELSE {todo}
              /\ raced' = (raced \/ Rebuilding)
NbiRemove(id) == /\ Remove(id)
                 /\ todo' = todo \ {id}
                 /\ raced' = (raced \/ Rebuilding)
NbiPatch(k) == /\ PatchKey(k)
               /\ raced' = (raced \/ k = "fields")
               /\ UNCHANGED todo

NbiWrite == /\ \/ \E id \in Ids : NbiAdd(id) \/ NbiRemove(id)
               \/ \E k \in ToPatch : NbiPatch(k)
            /\ fresh' = FALSE /\ Seen
            /\ UNCHANGED <<pc, msg, loaded, masks, size, best>>

NbiOther == /\ (\E id \in Ids : Update(id)) \/ SaveElsewhere \/ Save
            /\ UNCHANGED <<loop, ghost>>

Nbi == NbiWrite \/ NbiOther
-----------------------------------------------------------------------------
(* A kill between any two steps; an exception out of listen() ends it too.   *)
Kill == Stop /\ UNCHANGED <<loop, ghost>>

Boots == /\ Start
         /\ Go("recv")
         /\ loaded' = live'
         /\ masks' = {[keys |-> DOMAIN obj'[o].fields, of |-> o] :
                        o \in {live'[id] : id \in DOMAIN live'}}
         /\ raced' = FALSE /\ fresh' = FALSE /\ seen' = {}
         /\ UNCHANGED <<msg, todo, size, best>>

Next == Loop \/ Raise \/ Nbi \/ Kill \/ Boots

Spec == Init /\ [][Next]_vars

(* The main loop runs as long as it is not killed; messages and requests     *)
(* come or not.                                                              *)
FairSpec == /\ Spec
            /\ WF_vars(Check) /\ WF_vars(Copy) /\ WF_vars(Iterate)
            /\ WF_vars(Build \/ BuildRaises) /\ WF_vars(Ignore \/ Match \/ MatchRaises)
            /\ WF_vars(Treat \/ TreatRaises)
            /\ WF_vars(NbiOther)
-----------------------------------------------------------------------------
Labels == {"recv", "check", "copy", "iter", "build", "match", "treat", "raised"}

TypeOK ==
  /\ StoreTypeOK
  /\ pc \in Labels /\ msg \in Messages
  /\ DOMAIN loaded \subseteq Ids /\ \A id \in DOMAIN loaded : loaded[id] \in DOMAIN obj
  /\ \A x \in masks : x.of \in DOMAIN obj
  /\ todo \subseteq Ids /\ size \in 0 .. Cardinality(Ids)
  /\ best \in Objects \cup {None}
  /\ (up /\ pc = "treat") => best \in DOMAIN obj
  /\ raced \in BOOLEAN /\ fresh \in BOOLEAN

(* The thresholds a message should be matched against: those in force.       *)
LiveMatches(m) == {live[id] : id \in {i \in Present : Matches(obj[live[i]], m)}}

(* Unless a request wrote while the masks were being rebuilt, or patched the *)
(* fields of a threshold since, looking a message up through the masks finds *)
(* the thresholds that a look at every threshold in force finds, with the    *)
(* same contents, and every one of them.                                     *)
MasksMatchLive ==
  (up /\ pc = "match" /\ fresh /\ ~raced) =>
    {obj[o] : o \in MaskMatches(msg)} = {obj[o] : o \in LiveMatches(msg)}

(* What a message is treated by was in force, with those fields, priority    *)
(* and treatment, at some moment since the message was received: a removed   *)
(* threshold is out of use from the next message on, and a request changing  *)
(* a threshold between its match and its treatment is the latest version.    *)
TreatmentWasInForce ==
  (up /\ pc = "treat" /\ ~raced) => obj[best] \in seen

(* From its match to its treatment a message meets the thresholds in force.  *)
MessagesMeetLive == MasksMatchLive /\ TreatmentWasInForce

(* After a save that did not raise, the file holds the thresholds in force,  *)
(* whatever requests, treatments, failing saves, stops and starts came       *)
(* before: the same ids, each with the content it has in memory or, where    *)
(* its treatment has written a protocol's name over its number since, with   *)
(* the content that the same treatment makes of it.                          *)
FileIsCurrent ==
  (up /\ nbi = Idle) =>
    /\ file.whole /\ DOMAIN file.text = Present
    /\ \A id \in Present : obj[live[id]] \in {file.text[id], NamedContent(file.text[id])}

(* A coordinator that keeps receiving keeps catching up: again and again the *)
(* copy it compares with has the content of the live thresholds.             *)
LoadedCatchesUp ==
  []<>(up /\ pc = "check") => []<>(ContentOf(loaded) = ContentOf(live))
=============================================================================
