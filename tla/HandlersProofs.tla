--------------------------- MODULE HandlersProofs ---------------------------
(***************************************************************************)
(* Proofs about ThresholdStore, IpfixHandler and AlertHandler, for any     *)
(* thresholds, requests, messages and alerts.                              *)
(***************************************************************************)
EXTENDS IpfixHandler, AlertHandler, FiniteSetTheorems, FunctionTheorems, TLAPS

(* The section of the thresholds. All contents have the attributes A.        *)
IsFcn(f) == f = [x \in DOMAIN f |-> f[x]]
Saved(f, A) == IsFcn(f) /\ DOMAIN f \subseteq Ids /\ \A id \in DOMAIN f : A \subseteq DOMAIN f[id]

StoreInv(A) ==
  /\ DOMAIN obj \subseteq Objects /\ \A o \in DOMAIN obj : A \subseteq DOMAIN obj[o]
  /\ Present \subseteq Ids /\ \A id \in Present : live[id] \in DOMAIN obj
  /\ nbi.at \in {"idle", "failed", "open", "dump", "patch"} /\ (nbi.at = "idle" => nbi = Idle)
  /\ nbi.at = "patch" => \E id \in Present : nbi.of = live[id]
  /\ nbi.at = "dump" => Saved(nbi.copy, A)
  /\ file.whole => Saved(file.text, A)
  /\ up \in BOOLEAN /\ (~up => nbi = Idle)
  /\ writes \in 0 .. MaxWrites /\ starts \in 0 .. MaxStarts

(* A start finds a place for each entry.                                     *)
LEMMA PlacesExist ==
  ASSUME NEW S, IsFiniteSet(S)
  PROVE  \E p \in [S -> 1 .. Cardinality(S)] : \A i, j \in S : p[i] = p[j] => i = j
<1>1. ExistsBijection(S, 1 .. Cardinality(S))
  BY FS_CardinalityType, Fun_ExistsBijSymmetric
<1>2. QED
  BY <1>1 DEF ExistsBijection, Bijection, Injection, IsInjective

LEMMA Loading ==
  ASSUME NEW f, DOMAIN f \subseteq Ids
  PROVE  /\ DOMAIN LoadedLive(f) = DOMAIN f /\ DOMAIN LoadedObj(f) \subseteq Objects
         /\ \A id \in DOMAIN f : /\ LoadedLive(f)[id] \in DOMAIN LoadedObj(f)
                                 /\ LoadedObj(f)[LoadedLive(f)[id]] = f[id]
         /\ \A o \in DOMAIN LoadedObj(f) : \E id \in DOMAIN f : o = LoadedLive(f)[id]
<1> DEFINE D == DOMAIN f  n == Cardinality(D)  p == LoadedLive(f)
<1>1. IsFiniteSet(D) /\ n \in Nat /\ 1 .. n \subseteq Objects
  <2>1. IsFiniteSet(D) /\ n \in Nat /\ n <= Cardinality(Ids)
    BY StoreAssumption, FS_Subset, FS_CardinalityType DEF StoreAssumption
  <2>2. Cardinality(Ids) \in Nat /\ Cardinality(Objects) \in Nat
    BY StoreAssumption, FS_CardinalityType DEF StoreAssumption
  <2>3. QED
    BY <2>1, <2>2, StoreAssumption DEF StoreAssumption
<1>2. p \in [D -> 1 .. n] /\ \A i, j \in D : p[i] = p[j] => i = j
  <2>1. \E q \in [D -> 1 .. n] : \A i, j \in D : q[i] = q[j] => i = j
    BY <1>1, PlacesExist
  <2>2. QED
    BY <2>1, Zenon DEF LoadedLive
<1> HIDE DEF p, n
<1>3. LoadedObj(f) = [o \in {p[id] : id \in D} |-> f[CHOOSE id \in D : p[id] = o]]
  BY DEF LoadedObj, p
<1>4. DOMAIN p = D /\ DOMAIN LoadedObj(f) = {p[id] : id \in D}
  BY <1>2, <1>3
<1>5. ASSUME NEW id \in D PROVE LoadedObj(f)[p[id]] = f[id]
  <2>1. (CHOOSE i \in D : p[i] = p[id]) = id
    BY <1>2
  <2>2. QED
    BY <2>1, <1>3
<1>6. DOMAIN LoadedObj(f) \subseteq Objects
  BY <1>1, <1>2, <1>4
<1>7. QED
  BY <1>4, <1>5, <1>6 DEF p

(* The object of a new threshold is one that was not there.                  *)
LEMMA FreshIsFree == ASSUME Free # {} PROVE Fresh \in Objects \ DOMAIN obj
BY DEF Fresh, Free

Saving == (\E id \in Ids : Update(id)) \/ SaveElsewhere \/ Save

AllHave(A) == \A c \in Contents \cup {Boot[id] : id \in DOMAIN Boot} : A \subseteq DOMAIN c

LEMMA StoreInitOK ==
  ASSUME NEW A, AllHave(A), StoreInit
  PROVE  StoreInv(A) /\ file.whole /\ file.text = ContentOf(live)
<1>0. file.whole /\ file.text = Boot
  BY DEF StoreInit, Written
<1> USE StoreAssumption DEF StoreAssumption, StoreInit
<1>1. Saved(Boot, A)
  BY DEF Saved, IsFcn, AllHave
<1>2. /\ DOMAIN obj \subseteq Objects /\ DOMAIN live = DOMAIN Boot
      /\ \A id \in Present : live[id] \in DOMAIN obj /\ obj[live[id]] = Boot[id]
      /\ \A o \in DOMAIN obj : \E id \in DOMAIN Boot : o = live[id]
  BY Loading DEF Present
<1>3. \A o \in DOMAIN obj : A \subseteq DOMAIN obj[o]
  BY <1>1, <1>2 DEF Saved, Present
<1>4. StoreInv(A)
  BY <1>0, <1>1, <1>2, <1>3 DEF StoreInv, Idle, Present
<1>5. ContentOf(live) = [id \in DOMAIN Boot |-> Boot[id]]
  BY <1>2, Zenon DEF ContentOf, Present
<1>6. QED
  BY <1>0, <1>4, <1>5

LEMMA AddStep ==
  ASSUME NEW A, AllHave(A), StoreInv(A), NEW id \in Ids, Add(id)
  PROVE  /\ StoreInv(A)' /\ nbi' = Opening /\ up
         /\ DOMAIN obj \subseteq DOMAIN obj' /\ \A o \in DOMAIN obj : obj'[o] = obj[o]
         /\ DOMAIN live' = Present \cup {id} /\ \A i \in Present : live'[i] = live[i]
<1> DEFINE n == Fresh
<1>1. n \in Objects \ DOMAIN obj
  BY FreshIsFree DEF Add
<1> HIDE DEF n
<1>2. PICK c \in Contents : obj' = [o \in DOMAIN obj \cup {n} |-> IF o = n THEN c ELSE obj[o]]
  BY DEF Add, n
<1>3. live' = [i \in Present \cup {id} |-> IF i = id THEN n ELSE live[i]]
  BY DEF Add, n
<1>4. /\ DOMAIN obj' = DOMAIN obj \cup {n} /\ obj'[n] = c /\ \A o \in DOMAIN obj : obj'[o] = obj[o]
  BY <1>1, <1>2
<1>5. DOMAIN live' = Present \cup {id} /\ live'[id] = n /\ id \notin Present
      /\ \A i \in Present : live'[i] = live[i]
  BY <1>3 DEF Add
<1>6. nbi' = Opening /\ up /\ UNCHANGED <<file, up, starts>> /\ writes' = writes + 1 /\ writes < MaxWrites
  BY DEF Add, Accept, SaveIf
<1>7. A \subseteq DOMAIN c
  BY <1>2 DEF AllHave
<1>8. /\ DOMAIN obj' \subseteq Objects /\ \A o \in DOMAIN obj' : A \subseteq DOMAIN obj'[o]
      /\ DOMAIN live' \subseteq Ids /\ \A i \in DOMAIN live' : live'[i] \in DOMAIN obj'
  BY <1>1, <1>4, <1>5, <1>7 DEF StoreInv
<1>9. StoreInv(A)'
  BY <1>6, <1>8, StoreAssumption DEF StoreInv, StoreAssumption, Opening, Present, Saved
<1>10. QED
  BY <1>4, <1>5, <1>6, <1>9

LEMMA RemoveStep ==
  ASSUME NEW A, StoreInv(A), NEW id \in Ids, Remove(id)
  PROVE  /\ StoreInv(A)' /\ up /\ obj' = obj /\ (RemoveSaves => nbi' = Opening)
         /\ id \in Present /\ DOMAIN live' = Present \ {id} /\ \A i \in DOMAIN live' : live'[i] = live[i]
<1>1. /\ up /\ id \in Present /\ live' = [i \in Present \ {id} |-> live[i]]
      /\ nbi' = (IF RemoveSaves THEN Opening ELSE Idle)
      /\ UNCHANGED <<obj, file, up, starts>> /\ writes' = writes + 1 /\ writes < MaxWrites
  BY DEF Remove, Accept, SaveIf
<1>2. DOMAIN live' = Present \ {id} /\ \A i \in DOMAIN live' : live'[i] = live[i]
  BY <1>1
<1>3. StoreInv(A)'
  BY <1>1, <1>2, StoreAssumption DEF StoreInv, StoreAssumption, Opening, Idle, Present, Saved
<1>4. QED
  BY <1>1, <1>2, <1>3

Patched(c, k, v) == [x \in DOMAIN c \cup {k} |-> IF x = k THEN v ELSE c[x]]

LEMMA PatchStep ==
  ASSUME NEW A, StoreInv(A), NEW k, PatchKey(k)
  PROVE  /\ StoreInv(A)' /\ up /\ live' = live /\ DOMAIN obj' = DOMAIN obj
         /\ nbi.at = "patch" /\ nbi'.at \in {"patch", "open"}
         /\ \E id \in Present : nbi.of = live[id]
         /\ \A o \in DOMAIN obj : o # nbi.of => obj'[o] = obj[o]
         /\ obj'[nbi.of] = Patched(obj[nbi.of], k, nbi.patch[k])
<1>1. /\ up /\ nbi.at = "patch" /\ obj' = [obj EXCEPT ![nbi.of] = Patched(obj[nbi.of], k, nbi.patch[k])]
      /\ UNCHANGED <<live, file, up, writes, starts>>
      /\ nbi' = (IF nbi.rest = {k} THEN Opening ELSE Patching(nbi.of, nbi.patch, nbi.rest \ {k}))
  BY DEF PatchKey, ToPatch, Patched
<1>2. PICK id \in Present : nbi.of = live[id] /\ live[id] \in DOMAIN obj
  BY <1>1 DEF StoreInv
<1>3. /\ DOMAIN obj' = DOMAIN obj
      /\ obj'[nbi.of] = Patched(obj[nbi.of], k, nbi.patch[k])
      /\ \A o \in DOMAIN obj : o # nbi.of => obj'[o] = obj[o]
  BY <1>1, <1>2
<1>4. \A o \in DOMAIN obj : DOMAIN obj[o] \subseteq DOMAIN obj'[o]
  BY <1>3 DEF Patched
<1>5. nbi' = Opening \/ (nbi'.at = "patch" /\ nbi'.of = nbi.of)
  BY <1>1 DEF Patching
<1>6. /\ nbi'.at \in {"open", "patch"} /\ nbi' # Idle /\ nbi'.at # "idle"
      /\ (nbi'.at = "patch" => nbi'.of = nbi.of)
  BY <1>5 DEF Opening, Idle
<1>7. StoreInv(A)'
  BY <1>1, <1>2, <1>3, <1>4, <1>6 DEF StoreInv, Present, Saved
<1>8. QED
  BY <1>1, <1>2, <1>3, <1>6, <1>7

LEMMA SavingStep ==
  ASSUME NEW A, StoreInv(A), Saving
  PROVE  StoreInv(A)' /\ up /\ UNCHANGED <<obj, live>>
<1>1. ASSUME NEW id \in Ids, Update(id) PROVE StoreInv(A)' /\ up /\ UNCHANGED <<obj, live>>
  <2>1. PICK p \in Patches : nbi' = Patching(live[id], p, DOMAIN p)
    BY <1>1 DEF Update
  <2>2. nbi'.at = "patch" /\ nbi'.of = live[id] /\ id \in Present
    BY <1>1, <2>1 DEF Patching, Update
  <2>3. up /\ UNCHANGED <<obj, live, file, up, starts>> /\ writes' = writes + 1 /\ writes < MaxWrites
    BY <1>1 DEF Update, Accept
  <2>4. StoreInv(A)'
    BY <2>2, <2>3, StoreAssumption DEF StoreInv, StoreAssumption, Present, Saved
  <2>5. QED
    BY <2>3, <2>4
<1>2. CASE SaveElsewhere
  BY <1>2, StoreAssumption DEF StoreInv, StoreAssumption, SaveElsewhere, Accept, SaveIf, Opening, Present, Saved
<1>3. CASE OpenFile
  <2>1. /\ up /\ nbi'.at = "dump" /\ nbi'.copy = ContentOf(live) /\ ~file'.whole
        /\ UNCHANGED <<obj, live, up, writes, starts>>
    BY <1>3 DEF OpenFile, Dumping, Truncated
  <2>2. Saved(ContentOf(live), A)
    BY DEF ContentOf, Saved, IsFcn, StoreInv, Present
  <2>3. QED
    BY <2>1, <2>2 DEF StoreInv, Present, Saved
<1>4. CASE DumpFile
  <2>1. /\ up /\ nbi.at = "dump" /\ file'.text = nbi.copy /\ nbi' = Idle
        /\ UNCHANGED <<obj, live, up, writes, starts>>
    BY <1>4 DEF DumpFile, Written
  <2>2. Saved(nbi.copy, A)
    BY <2>1 DEF StoreInv
  <2>3. QED
    BY <2>1, <2>2 DEF StoreInv, Idle, Present, Saved
<1>5. CASE OpenFails \/ DumpFails
  BY <1>5 DEF StoreInv, OpenFails, DumpFails, Failed, Present, Saved
<1>6. QED
  BY <1>1, <1>2, <1>3, <1>4, <1>5 DEF Saving, Save

LEMMA StopStep == ASSUME NEW A, StoreInv(A), Stop PROVE StoreInv(A)' /\ UNCHANGED <<obj, live>> /\ ~up'
BY DEF Stop, StoreInv, Idle, Present, Saved

LEMMA StartStep ==
  ASSUME NEW A, StoreInv(A), Start
  PROVE  StoreInv(A)' /\ nbi = Idle /\ nbi' = Idle /\ file'.whole /\ (file.text = ContentOf(live))'
<1>1. /\ ~up /\ up' = TRUE /\ starts < MaxStarts /\ starts' = starts + 1 /\ nbi = Idle
      /\ live' = LoadedLive(file.text) /\ obj' = LoadedObj(file.text) /\ UNCHANGED <<file, nbi, writes>>
      /\ file.whole /\ Saved(file.text, A)
  BY DEF Start, StoreInv
<1>2. /\ DOMAIN obj' \subseteq Objects /\ DOMAIN live' = DOMAIN file.text
      /\ \A id \in DOMAIN file.text : live'[id] \in DOMAIN obj' /\ obj'[live'[id]] = file.text[id]
      /\ \A o \in DOMAIN obj' : \E id \in DOMAIN file.text : o = live'[id]
  BY <1>1, Loading DEF Saved
<1>3. \A o \in DOMAIN obj' : A \subseteq DOMAIN obj'[o]
  BY <1>1, <1>2 DEF Saved
<1>4. StoreInv(A)'
  BY <1>1, <1>2, <1>3, StoreAssumption DEF StoreInv, Present, Idle, Saved, StoreAssumption
<1>5. ContentOf(live)' = [id \in DOMAIN file.text |-> file.text[id]]
  <2>1. ContentOf(live)' = [id \in DOMAIN live' |-> obj'[live'[id]]]
    BY DEF ContentOf
  <2>2. QED
    BY <2>1, <1>2
<1>6. (file.text = ContentOf(live))'
  BY <1>1, <1>5 DEF Saved, IsFcn
<1>7. QED
  BY <1>1, <1>4, <1>6
-----------------------------------------------------------------------------
(* IpfixHandler. How its steps use the section of the thresholds.            *)
Attributes == {"fields", "priority", "treatment"}

(* A treatment writes no more than names of protocols into an object.        *)
Names(o) ==
  /\ obj' = [obj EXCEPT ![o] = NamedContent(@)]
  /\ UNCHANGED <<live, file, nbi, up, writes, starts>>

LEMMA StoreMoves ==
  ASSUME Next
  PROVE  \/ UNCHANGED store
         \/ Names(best)
         \/ \E id \in Ids : Add(id) \/ Remove(id)
         \/ \E k \in ToPatch : PatchKey(k)
         \/ Saving \/ Stop \/ Start
<1>1. CASE Loop
  BY <1>1 DEF Loop, Receive, Check, Copy, Iterate, Build, Ignore, Match, Treat, Names
<1>2. CASE Raise
  BY <1>2 DEF Raise, BuildRaises, MatchRaises, TreatRaises
<1>3. CASE NbiWrite
  BY <1>3 DEF NbiWrite, NbiAdd, NbiRemove, NbiPatch
<1>4. CASE NbiOther
  BY <1>4 DEF NbiOther, Saving
<1>5. QED
  BY <1>1, <1>2, <1>3, <1>4 DEF Next, Nbi, Kill, Boots

LEMMA AttributesOfAll == AllHave(Attributes)
BY IpfixAssumption DEF IpfixAssumption, AllHave, Attributes

LEMMA StoreKept == ASSUME NEW A, StoreInv(A), UNCHANGED store PROVE StoreInv(A)'
BY DEF StoreInv, store, Present, Saved

(* The name of a protocol is no number: naming once is naming for good.      *)
LEMMA NamedOnce ==
  ASSUME NEW c
  PROVE  /\ NamedContent(NamedContent(c)) = NamedContent(c)
         /\ DOMAIN NamedContent(c) = DOMAIN c
         /\ \A k \in DOMAIN c : k # "treatment_fields" => NamedContent(c)[k] = c[k]
<1> DEFINE p == "protocolIdentifier"  t == "treatment_fields"
<1>1. ASSUME NEW f PROVE Named(Named(f)) = Named(f)
  <2>1. CASE p \in DOMAIN f /\ f[p] \in DOMAIN NameOf
    <3>1. Named(f) = [f EXCEPT ![p] = NameOf[f[p]]]
      BY <2>1 DEF Named, Protocol
    <3>2. p \in DOMAIN Named(f) /\ Named(f)[p] \notin DOMAIN NameOf
      BY <2>1, <3>1, RpcAssumption DEF RpcAssumption
    <3>3. QED
      BY <3>2 DEF Named, Protocol
  <2>2. CASE ~(p \in DOMAIN f /\ f[p] \in DOMAIN NameOf)
    BY <2>2 DEF Named, Protocol
  <2>3. QED
    BY <2>1, <2>2
<1>2. CASE t \in DOMAIN c
  <2>1. NamedContent(c) = [c EXCEPT ![t] = Named(c[t])]
    BY <1>2 DEF NamedContent
  <2>2. t \in DOMAIN NamedContent(c) /\ NamedContent(c)[t] = Named(c[t])
    BY <1>2, <2>1
  <2>3. NamedContent(NamedContent(c)) = [NamedContent(c) EXCEPT ![t] = Named(c[t])]
    BY <1>1, <2>2 DEF NamedContent
  <2>4. QED
    BY <2>1, <2>3
<1>3. CASE t \notin DOMAIN c
  BY <1>3 DEF NamedContent
<1>4. QED
  BY <1>2, <1>3

LEMMA NamesStep ==
  ASSUME NEW A, StoreInv(A), NEW o, Names(o)
  PROVE  /\ StoreInv(A)' /\ DOMAIN obj' = DOMAIN obj
         /\ \A p \in DOMAIN obj : obj'[p] \in {obj[p], NamedContent(obj[p])}
<1>1. DOMAIN obj' = DOMAIN obj /\ \A p \in DOMAIN obj : obj'[p] \in {obj[p], NamedContent(obj[p])}
  BY DEF Names
<1>2. \A p \in DOMAIN obj : DOMAIN obj'[p] = DOMAIN obj[p]
  BY <1>1, NamedOnce
<1>3. StoreInv(A)'
  BY <1>1, <1>2 DEF StoreInv, Names, Present, Saved
<1>4. QED
  BY <1>1, <1>3

(* The file, and the text a save is about to write, against what is in force.*)
Holds(f) == DOMAIN f = Present /\ \A id \in Present : obj[live[id]] \in {f[id], NamedContent(f[id])}

FileInv == /\ (up /\ nbi.at = "idle") => file.whole /\ Holds(file.text)
           /\ (up /\ nbi.at = "dump") => Holds(nbi.copy)

LEMMA HoldsNow == Holds(ContentOf(live))
BY DEF Holds, ContentOf, Present

LEMMA FileStep ==
  ASSUME RemoveSaves, StoreInv(Attributes), FileInv, [Next]_vars
  PROVE  StoreInv(Attributes)' /\ FileInv'
<1> USE AttributesOfAll
<1>0. Opening.at = "open" /\ Idle.at = "idle" /\ Failed.at = "failed"
  BY DEF Opening, Idle, Failed
<1>1. CASE UNCHANGED store
  BY <1>1, StoreKept DEF store, FileInv, Holds, Present
<1>2. ASSUME NEW id \in Ids, Add(id) PROVE StoreInv(Attributes)' /\ FileInv'
  BY <1>0, <1>2, AddStep DEF FileInv
<1>3. ASSUME NEW id \in Ids, Remove(id) PROVE StoreInv(Attributes)' /\ FileInv'
  BY <1>0, <1>3, RemoveStep DEF FileInv
<1>4. ASSUME NEW k \in ToPatch, PatchKey(k) PROVE StoreInv(Attributes)' /\ FileInv'
  BY <1>4, PatchStep DEF FileInv
<1>5. CASE Names(best)
  <2>1. /\ StoreInv(Attributes)' /\ UNCHANGED <<live, file, nbi, up>>
        /\ \A p \in DOMAIN obj : obj'[p] \in {obj[p], NamedContent(obj[p])}
    BY <1>5, NamesStep DEF Names
  <2>2. ASSUME NEW f, Holds(f) PROVE DOMAIN f = DOMAIN live' /\ \A id \in DOMAIN live' :
                                       obj'[live'[id]] \in {f[id], NamedContent(f[id])}
    <3>1. ASSUME NEW id \in Present PROVE obj'[live[id]] \in {f[id], NamedContent(f[id])}
      <4>1. /\ obj'[live[id]] \in {obj[live[id]], NamedContent(obj[live[id]])}
            /\ obj[live[id]] \in {f[id], NamedContent(f[id])}
        BY <2>1, <2>2 DEF StoreInv, Holds
      <4>2. NamedContent(NamedContent(f[id])) = NamedContent(f[id])
        BY NamedOnce
      <4>3. QED
        BY <4>1, <4>2
    <3>2. QED
      BY <2>1, <2>2, <3>1 DEF Holds, Present
  <2>3. (up /\ nbi.at = "idle") => file'.whole /\ Holds(file.text)'
    BY <2>1, <2>2 DEF FileInv, Holds, Present
  <2>4. (up /\ nbi.at = "dump") => Holds(nbi.copy)'
    BY <2>1, <2>2 DEF FileInv, Holds, Present
  <2>5. QED
    BY <2>1, <2>3, <2>4 DEF FileInv
<1>6. CASE Saving
  <2>1. StoreInv(Attributes)' /\ up /\ UNCHANGED <<obj, live>>
    BY <1>6, SavingStep
  <2>2. \A f : Holds(f) => DOMAIN f = DOMAIN live' /\ \A id \in DOMAIN live' :
                                       obj'[live'[id]] \in {f[id], NamedContent(f[id])}
    BY <2>1 DEF Holds, Present
  <2>3. CASE \E id \in Ids : Update(id)
    BY <2>1, <2>3 DEF Update, Patching, FileInv
  <2>4. CASE SaveElsewhere
    BY <1>0, <2>1, <2>4 DEF SaveElsewhere, SaveIf, FileInv
  <2>5. CASE OpenFile
    BY <2>1, <2>2, <2>5, HoldsNow DEF OpenFile, Dumping, FileInv, Holds, Present
  <2>6. CASE DumpFile
    <3>1. nbi' = Idle /\ file'.whole /\ file'.text = nbi.copy /\ Holds(nbi.copy)
      BY <2>1, <2>6 DEF DumpFile, Written, FileInv
    <3>2. Holds(file.text)'
      BY <2>2, <3>1 DEF Holds, Present
    <3>3. QED
      BY <1>0, <2>1, <3>1, <3>2 DEF FileInv
  <2>7. CASE OpenFails \/ DumpFails
    BY <1>0, <2>1, <2>7 DEF OpenFails, DumpFails, FileInv
  <2>8. QED
    BY <1>6, <2>1, <2>3, <2>4, <2>5, <2>6, <2>7 DEF Saving, Save
<1>7. CASE Stop
  BY <1>7, StopStep DEF FileInv
<1>8. CASE Start
  <2>1. /\ StoreInv(Attributes)' /\ nbi' = Idle /\ file'.whole /\ (file.text = ContentOf(live))'
    BY <1>8, StartStep
  <2>2. Holds(file.text)'
    BY <2>1 DEF Holds, ContentOf, Present
  <2>3. QED
    BY <1>0, <2>1, <2>2 DEF FileInv
<1>9. QED
  BY <1>1, <1>2, <1>3, <1>4, <1>5, <1>6, <1>7, <1>8, StoreMoves DEF vars

(* A section whose removals are saved is in its file once a save has not     *)
(* raised and while no request is served, but for the names of protocols     *)
(* that treatments have written since (add_ipfix_threshold,                  *)
(* remove_ipfix_threshold, update_ipfix_threshold, _threshold_to_file,       *)
(* _dict_to_url_string).                                                     *)
THEOREM FileHoldsThresholds == ASSUME RemoveSaves PROVE Spec => []FileIsCurrent
<1>1. Init => StoreInv(Attributes) /\ FileInv
  <2>1. Init => StoreInv(Attributes) /\ file.whole /\ file.text = ContentOf(live) /\ nbi.at = "idle"
    BY AttributesOfAll, StoreInitOK DEF Init, StoreInit, Idle
  <2>2. QED
    BY <2>1, HoldsNow DEF FileInv
<1>2. (StoreInv(Attributes) /\ FileInv) /\ [Next]_vars => (StoreInv(Attributes) /\ FileInv)'
  BY FileStep
<1>3. StoreInv(Attributes) /\ FileInv => FileIsCurrent
  BY DEF FileInv, FileIsCurrent, Idle, Holds
<1>4. QED
  BY <1>1, <1>2, <1>3, PTL DEF Spec
-----------------------------------------------------------------------------
(* The main loop.                                                            *)
TypeInv ==
  /\ StoreInv(Attributes)
  /\ pc \in Labels /\ msg \in Messages
  /\ DOMAIN loaded \subseteq Ids /\ \A id \in DOMAIN loaded : loaded[id] \in DOMAIN obj
  /\ \A x \in masks : x.of \in DOMAIN obj
  /\ todo \subseteq Ids /\ size \in 0 .. Cardinality(Ids)
  /\ (up /\ pc = "build") => todo \subseteq Present
  /\ best \in Objects \cup {None}
  /\ (up /\ pc = "treat") => best \in DOMAIN obj
  /\ raced \in BOOLEAN /\ fresh \in BOOLEAN

LEMMA SizeOfPresent == ASSUME Present \subseteq Ids PROVE Cardinality(Present) \in 0 .. Cardinality(Ids)
BY StoreAssumption, FS_Subset, FS_CardinalityType DEF StoreAssumption

LEMMA TypeInit == ASSUME Init PROVE TypeInv
<1>1. StoreInv(Attributes)
  BY AttributesOfAll, StoreInitOK DEF Init
<1>2. Cardinality(Ids) \in Nat
  BY StoreAssumption, FS_CardinalityType DEF StoreAssumption
<1>3. \A x \in masks : x.of \in DOMAIN obj
  BY <1>1 DEF Init, MaskOf, StoreInv
<1>4. DOMAIN live \subseteq Ids /\ \A id \in DOMAIN live : live[id] \in DOMAIN obj
  BY <1>1 DEF StoreInv, Present
<1>5. loaded = live /\ pc = "recv" /\ todo = {} /\ size = 0 /\ best = None /\ raced = FALSE /\ fresh = FALSE
      /\ msg \in Messages
  BY DEF Init
<1>6. size \in 0 .. Cardinality(Ids)
  BY <1>2, <1>5
<1>7. QED
  BY <1>1, <1>3, <1>4, <1>5, <1>6 DEF TypeInv, Labels

(* All steps of the loop but a treatment leave the section as it is.         *)
Looks == Receive \/ Check \/ Copy \/ Iterate \/ Build \/ Ignore \/ Match \/ Raise

LEMMA TypeTreat == ASSUME TypeInv, Treat PROVE TypeInv'
<1>1. /\ Names(best) /\ pc' = "recv"
      /\ UNCHANGED <<msg, loaded, masks, todo, size, best, raced, fresh>>
  BY DEF Treat, Names, Go, ghost
<1>2. StoreInv(Attributes)' /\ DOMAIN obj' = DOMAIN obj
  BY <1>1, NamesStep DEF TypeInv
<1>3. QED
  BY <1>1, <1>2 DEF TypeInv, Labels

LEMMA TypeLoop == ASSUME TypeInv, Looks PROVE TypeInv'
<1>1. StoreInv(Attributes)' /\ UNCHANGED <<obj, live, up>>
  BY StoreKept DEF TypeInv, Looks, Raise, Receive, Check, Copy, Iterate, Build, Ignore, Match,
                   BuildRaises, MatchRaises, TreatRaises, store
<1>2. /\ DOMAIN obj \subseteq Objects /\ Present \subseteq Ids /\ \A id \in Present : live[id] \in DOMAIN obj
  BY DEF TypeInv, StoreInv
<1>3. CASE Receive
  BY <1>1, <1>3 DEF TypeInv, Receive, Go, Labels
<1>4. CASE Check
  BY <1>1, <1>4 DEF TypeInv, Check, Go, Labels
<1>5. CASE Copy
  BY <1>1, <1>2, <1>5 DEF TypeInv, Copy, Go, Labels, Present
<1>6. CASE Iterate
  BY <1>1, <1>2, <1>6, SizeOfPresent DEF TypeInv, Iterate, Go, Labels, ghost, Present
<1>7. CASE Build
  <2>1. CASE todo = {}
    BY <1>1, <1>7, <2>1 DEF TypeInv, Build, Go, Labels, ghost
  <2>2. CASE todo # {}
    <3>1. PICK id \in todo : masks' = masks \cup {MaskOf(live[id])} /\ todo' = todo \ {id} /\ UNCHANGED pc
      BY <1>7, <2>2 DEF Build
    <3>2. id \in Present /\ MaskOf(live[id]).of = live[id]
      BY <1>7 DEF Build, At, TypeInv, MaskOf
    <3>3. \A x \in masks' : x.of \in DOMAIN obj
      BY <1>2, <3>1, <3>2 DEF TypeInv
    <3>4. QED
      BY <1>1, <1>7, <3>1, <3>3 DEF TypeInv, Build, ghost, Present
  <2>3. QED
    BY <2>1, <2>2
<1>8. CASE Ignore
  BY <1>1, <1>8 DEF TypeInv, Ignore, Go, Labels, ghost
<1>9. CASE Match
  <2>1. CASE MaskMatches(msg) = {}
    BY <1>1, <1>9, <2>1 DEF TypeInv, Match, Found, Go, Labels, ghost
  <2>2. CASE MaskMatches(msg) # {}
    <3>1. PICK o \in Highest(MaskMatches(msg)) : best' = o /\ pc' \in {"treat", "recv"}
      BY <1>9, <2>2 DEF Match, Found, Go
    <3>2. o \in DOMAIN obj
      BY <3>1 DEF Highest, MaskMatches, Candidates, TypeInv
    <3>3. QED
      BY <1>1, <1>2, <1>9, <3>1, <3>2 DEF TypeInv, Match, Labels, ghost
  <2>3. QED
    BY <2>1, <2>2
<1>10. CASE Raise
  BY <1>1, <1>10 DEF TypeInv, Raise, BuildRaises, MatchRaises, TreatRaises, Go, Labels, ghost
<1>11. QED
  BY <1>3, <1>4, <1>5, <1>6, <1>7, <1>8, <1>9, <1>10 DEF Looks

LEMMA TypeNbi == ASSUME TypeInv, Nbi PROVE TypeInv'
<1> USE AttributesOfAll
<1>1. CASE NbiOther
  <2>1. StoreInv(Attributes)' /\ up /\ UNCHANGED <<obj, live>>
    BY <1>1, SavingStep DEF NbiOther, Saving, TypeInv
  <2>2. UNCHANGED <<loop, ghost>>
    BY <1>1 DEF NbiOther
  <2>3. QED
    BY <2>1, <2>2 DEF TypeInv, loop, ghost, Present
<1>2. CASE NbiWrite
  <2>1. UNCHANGED <<pc, msg, loaded, masks, size, best>> /\ fresh' = FALSE
    BY <1>2 DEF NbiWrite
  <2>2. ASSUME NEW id \in Ids, NbiAdd(id) PROVE TypeInv'
    <3>1. /\ StoreInv(Attributes)' /\ up /\ DOMAIN obj \subseteq DOMAIN obj' /\ Present' = Present \cup {id}
      BY <2>2, AddStep DEF NbiAdd, TypeInv, Present
    <3>2. todo' \subseteq todo \cup {id} /\ raced' \in BOOLEAN
      BY <2>2 DEF NbiAdd, TypeInv
    <3>3. QED
      BY <2>1, <3>1, <3>2 DEF TypeInv
  <2>3. ASSUME NEW id \in Ids, NbiRemove(id) PROVE TypeInv'
    <3>1. /\ StoreInv(Attributes)' /\ up /\ obj' = obj /\ Present' = Present \ {id}
      BY <2>3, RemoveStep DEF NbiRemove, TypeInv, Present
    <3>2. todo' = todo \ {id} /\ raced' \in BOOLEAN
      BY <2>3 DEF NbiRemove, TypeInv
    <3>3. QED
      BY <2>1, <3>1, <3>2 DEF TypeInv
  <2>4. ASSUME NEW k \in ToPatch, NbiPatch(k) PROVE TypeInv'
    <3>1. /\ StoreInv(Attributes)' /\ up /\ live' = live /\ DOMAIN obj' = DOMAIN obj
      BY <2>4, PatchStep DEF NbiPatch, TypeInv
    <3>2. todo' = todo /\ raced' \in BOOLEAN
      BY <2>4 DEF NbiPatch, TypeInv
    <3>3. QED
      BY <2>1, <3>1, <3>2 DEF TypeInv, Present
  <2>5. QED
    BY <1>2, <2>2, <2>3, <2>4 DEF NbiWrite
<1>3. QED
  BY <1>1, <1>2 DEF Nbi

LEMMA TypeKill == ASSUME TypeInv, Kill PROVE TypeInv'
BY StopStep DEF TypeInv, Kill, loop, ghost

LEMMA TypeBoots == ASSUME TypeInv, Boots PROVE TypeInv'
<1>1. StoreInv(Attributes)'
  BY StartStep DEF TypeInv, Boots
<1>2. /\ DOMAIN loaded' \subseteq Ids /\ \A id \in DOMAIN loaded' : loaded'[id] \in DOMAIN obj'
  BY <1>1 DEF Boots, StoreInv, Present
<1>3. \A x \in masks' : x.of \in DOMAIN obj'
  BY <1>1 DEF Boots, StoreInv, Present
<1>4. QED
  BY <1>1, <1>2, <1>3 DEF TypeInv, Boots, Go, Labels

LEMMA TypeStep == ASSUME TypeInv, [Next]_vars PROVE TypeInv'
<1>1. CASE UNCHANGED vars
  <2>1. StoreInv(Attributes)'
    BY <1>1, StoreKept DEF TypeInv, vars
  <2>2. QED
    BY <1>1, <2>1 DEF TypeInv, vars, store, loop, ghost, Present
<1>2. QED
  BY <1>1, TypeLoop, TypeTreat, TypeNbi, TypeKill, TypeBoots DEF Next, Loop, Looks

(* The loop and the requests keep to their types and to the objects there    *)
(* are: no copy, mask or match holds an object without a content.            *)
THEOREM HandlerTypes == Spec => []TypeOK
<1>1. TypeInv => TypeOK
  BY DEF TypeInv, TypeOK, StoreTypeOK, StoreInv
<1>2. QED
  BY <1>1, TypeInit, TypeStep, PTL DEF Spec
-----------------------------------------------------------------------------
(* The masks, outside a rebuild, are those of the copy; during a rebuild     *)
(* that no request disturbs, those of the entries walked so far.             *)
Settled == {"recv", "check", "copy", "match", "treat"}
MasksOf(d, ids) == {MaskOf(d[id]) : id \in ids}

MaskInv ==
  (up /\ ~raced) =>
    /\ pc \in Settled => masks = MasksOf(loaded, DOMAIN loaded)
    /\ Rebuilding => loaded = live
    /\ pc = "iter" => masks = {}
    /\ pc = "build" => masks = MasksOf(live, Present \ todo)
    /\ (fresh /\ pc = "match") => ContentOf(loaded) = ContentOf(live)

(* What the loop holds since a message was received was once in force.       *)
SeenInv ==
  up =>
    /\ pc # "recv" => InForce \subseteq seen
    /\ pc \in {"iter", "build", "match"} => \A id \in DOMAIN loaded : obj[loaded[id]] \in seen
    /\ (pc = "treat" /\ ~raced) => obj[best] \in seen

(* Masks that are those of the copy, a copy with the content of what is in   *)
(* force: the mask lookup finds the thresholds that a full search finds.     *)
LEMMA MasksFindAll ==
  ASSUME masks = MasksOf(loaded, DOMAIN loaded), ContentOf(loaded) = ContentOf(live), NEW m
  PROVE  {obj[o] : o \in MaskMatches(m)} = {obj[o] : o \in LiveMatches(m)}
<1>1. DOMAIN loaded = Present /\ \A id \in Present : obj[loaded[id]] = obj[live[id]]
  <2>1. DOMAIN ContentOf(loaded) = DOMAIN loaded /\ DOMAIN ContentOf(live) = Present
    BY DEF ContentOf, Present
  <2>2. \A id \in DOMAIN loaded : ContentOf(loaded)[id] = obj[loaded[id]]
    BY DEF ContentOf
  <2>3. \A id \in Present : ContentOf(live)[id] = obj[live[id]]
    BY DEF ContentOf, Present
  <2>4. QED
    BY <2>1, <2>2, <2>3
<1>2. ASSUME NEW o \in MaskMatches(m) PROVE \E p \in LiveMatches(m) : obj[p] = obj[o]
  <2>1. o \in Candidates(m) /\ Matches(obj[o], m)
    BY DEF MaskMatches
  <2>2. PICK id \in DOMAIN loaded : o = loaded[id]
    BY <2>1 DEF Candidates, MasksOf, MaskOf
  <2>3. id \in Present /\ obj[live[id]] = obj[o]
    BY <1>1, <2>2
  <2>4. live[id] \in LiveMatches(m)
    BY <2>1, <2>3 DEF LiveMatches
  <2>5. QED
    BY <2>3, <2>4
<1>3. ASSUME NEW o \in LiveMatches(m) PROVE \E p \in MaskMatches(m) : obj[p] = obj[o]
  <2>1. PICK id \in Present : o = live[id] /\ Matches(obj[live[id]], m)
    BY DEF LiveMatches
  <2> DEFINE p == loaded[id]
  <2>2. id \in DOMAIN loaded /\ obj[p] = obj[o] /\ Matches(obj[p], m)
    BY <1>1, <2>1
  <2>3. MaskOf(p) \in masks /\ MaskOf(p).keys = DOMAIN obj[p].fields /\ MaskOf(p).of = p
    BY <2>2 DEF MasksOf, MaskOf
  <2>4. DOMAIN obj[p].fields \subseteq DOMAIN m.fields
    BY <2>2 DEF Matches, Similar, Troubles
  <2>5. p \in Candidates(m)
    BY <2>3, <2>4 DEF Candidates
  <2>6. p \in MaskMatches(m)
    BY <2>2, <2>5 DEF MaskMatches
  <2>7. QED
    BY <2>2, <2>6
<1>4. QED
  BY <1>2, <1>3

LEMMA MasksMeet == ASSUME MaskInv, SeenInv PROVE MessagesMeetLive
<1>1. MasksMatchLive
  BY MasksFindAll DEF MaskInv, MasksMatchLive, Settled
<1>2. QED
  BY <1>1 DEF SeenInv, TreatmentWasInForce, MessagesMeetLive

LEMMA MaskInit == ASSUME Init PROVE MaskInv /\ SeenInv
<1>1. masks = MasksOf(loaded, DOMAIN loaded)
  BY DEF Init, MasksOf, Present
<1>2. QED
  BY <1>1 DEF Init, MaskInv, SeenInv, Rebuilding

LEMMA MaskTreat == ASSUME TypeInv, MaskInv, SeenInv, Treat PROVE MaskInv' /\ SeenInv'
<1>1. /\ Names(best) /\ up /\ pc = "treat" /\ pc' = "recv"
      /\ UNCHANGED <<loaded, masks, raced, live, up>>
  BY DEF Treat, Names, At, Go, ghost
<1>2. \A o \in DOMAIN obj : obj'[o].fields = obj[o].fields
  <2>1. \A o \in DOMAIN obj : obj'[o] \in {obj[o], NamedContent(obj[o])}
    BY <1>1, NamesStep DEF TypeInv
  <2>2. \A o \in DOMAIN obj : "fields" \in DOMAIN obj[o]
    BY DEF TypeInv, StoreInv, Attributes
  <2>3. QED
    BY <2>1, <2>2, NamedOnce
<1>3. MasksOf(loaded, DOMAIN loaded)' = MasksOf(loaded, DOMAIN loaded)
  BY <1>1, <1>2 DEF MasksOf, MaskOf, TypeInv
<1>4. MaskInv'
  BY <1>1, <1>3 DEF MaskInv, Settled, Rebuilding
<1>5. SeenInv'
  BY <1>1 DEF SeenInv
<1>6. QED
  BY <1>4, <1>5

LEMMA MaskLoop == ASSUME TypeInv, MaskInv, SeenInv, Looks PROVE MaskInv' /\ SeenInv'
<1>1. UNCHANGED <<obj, live, up>> /\ up
  BY DEF Looks, Raise, Receive, Check, Copy, Iterate, Build, Ignore, Match,
         BuildRaises, MatchRaises, TreatRaises, At, store
<1>2. /\ InForce' = InForce /\ ContentOf(live)' = ContentOf(live)
      /\ loaded' = loaded => /\ MasksOf(loaded, DOMAIN loaded)' = MasksOf(loaded, DOMAIN loaded)
                             /\ ContentOf(loaded)' = ContentOf(loaded)
  <2>1. InForce' = InForce /\ ContentOf(live)' = ContentOf(live)
    BY <1>1 DEF InForce, Present, ContentOf
  <2>2. ASSUME loaded' = loaded
        PROVE  /\ MasksOf(loaded, DOMAIN loaded)' = MasksOf(loaded, DOMAIN loaded)
               /\ ContentOf(loaded)' = ContentOf(loaded)
    BY <1>1, <2>2 DEF MasksOf, MaskOf, ContentOf
  <2>3. QED
    BY <2>1, <2>2
<1>3. CASE Receive
  BY <1>1, <1>2, <1>3 DEF Receive, At, Go, MaskInv, SeenInv, Settled, Rebuilding
<1>4. CASE Check
  <2>1. /\ pc = "check" /\ pc' \in {"match", "copy"} /\ UNCHANGED <<loaded, masks, raced, seen>>
        /\ pc' = "match" => ContentOf(loaded) = ContentOf(live)
    BY <1>4 DEF Check, At, Go
  <2>2. MaskInv'
    BY <1>1, <1>2, <2>1 DEF MaskInv, Settled, Rebuilding
  <2>3. ASSUME pc' = "match", NEW id \in DOMAIN loaded PROVE obj[loaded[id]] \in seen
    <3>1. ContentOf(loaded)[id] = obj[loaded[id]] /\ id \in DOMAIN ContentOf(live)
      BY <2>1, <2>3 DEF ContentOf
    <3>2. id \in Present /\ ContentOf(live)[id] = obj[live[id]]
      BY <3>1 DEF ContentOf, Present
    <3>3. obj[loaded[id]] \in InForce
      BY <2>1, <2>3, <3>1, <3>2 DEF InForce
    <3>4. QED
      BY <1>1, <2>1, <3>3 DEF SeenInv
  <2>4. SeenInv'
    BY <1>1, <1>2, <2>1, <2>3 DEF SeenInv
  <2>5. QED
    BY <2>2, <2>4
<1>5. CASE Copy
  <2>1. pc = "copy" /\ pc' = "iter" /\ loaded' = live /\ masks' = {} /\ seen' = seen
    BY <1>5 DEF Copy, At, Go
  <2>2. MaskInv'
    BY <1>1, <2>1 DEF MaskInv, Settled, Rebuilding
  <2>3. InForce \subseteq seen
    BY <1>1, <2>1 DEF SeenInv
  <2>4. \A id \in DOMAIN live : obj[live[id]] \in seen
    BY <2>3 DEF InForce, Present
  <2>5. SeenInv'
    BY <1>1, <1>2, <2>1, <2>3, <2>4 DEF SeenInv
  <2>6. QED
    BY <2>2, <2>5
<1>6. CASE Iterate
  <2>1. /\ pc = "iter" /\ pc' = "build" /\ todo' = Present
        /\ UNCHANGED <<loaded, masks, raced, seen>>
    BY <1>6 DEF Iterate, At, Go, ghost
  <2>2. MasksOf(live, Present \ todo)' = {}
    BY <1>1, <2>1 DEF MasksOf, Present
  <2>3. MaskInv'
    BY <1>1, <2>1, <2>2 DEF MaskInv, Settled, Rebuilding
  <2>4. SeenInv'
    BY <1>1, <1>2, <2>1 DEF SeenInv
  <2>5. QED
    BY <2>3, <2>4
<1>7. CASE Build
  <2>1. pc = "build" /\ UNCHANGED <<loaded, raced, seen, fresh, best>>
    BY <1>7 DEF Build, At, ghost
  <2>2. CASE todo = {}
    <3>1. pc' = "match" /\ UNCHANGED <<masks, todo>>
      BY <1>7, <2>2 DEF Build, Go
    <3>2. raced \/ (loaded = live /\ masks = MasksOf(live, DOMAIN live))
      BY <1>1, <2>1, <2>2 DEF MaskInv, Present, Rebuilding
    <3>3. MaskInv'
      BY <1>1, <1>2, <2>1, <3>1, <3>2 DEF MaskInv, Settled, Rebuilding
    <3>4. SeenInv'
      BY <1>1, <1>2, <2>1, <3>1 DEF SeenInv
    <3>5. QED
      BY <3>3, <3>4
  <2>3. CASE todo # {}
    <3>1. PICK id \in todo : masks' = masks \cup {MaskOf(live[id])} /\ todo' = todo \ {id} /\ UNCHANGED pc
      BY <1>7, <2>3 DEF Build
    <3>2. id \in Present
      BY <1>1, <2>1 DEF TypeInv
    <3>3. masks = MasksOf(live, Present \ todo) => masks' = MasksOf(live, Present \ todo')
      BY <3>1, <3>2 DEF MasksOf
    <3>4. MasksOf(live, Present \ todo)' = MasksOf(live, Present \ todo')
      BY <1>1 DEF MasksOf, MaskOf, Present
    <3>5. MaskInv'
      BY <1>1, <2>1, <3>1, <3>3, <3>4 DEF MaskInv, Settled, Rebuilding
    <3>6. SeenInv'
      BY <1>1, <1>2, <2>1, <3>1 DEF SeenInv
    <3>7. QED
      BY <3>5, <3>6
  <2>4. QED
    BY <2>2, <2>3
<1>8. CASE Ignore
  <2>1. /\ pc = "match" /\ pc' = "recv" /\ UNCHANGED <<loaded, masks, raced, seen>>
    BY <1>8 DEF Ignore, At, Go, ghost
  <2>2. QED
    BY <1>1, <1>2, <2>1 DEF MaskInv, SeenInv, Settled, Rebuilding
<1>9. CASE Match
  <2>1. /\ pc = "match" /\ UNCHANGED <<loaded, masks, raced, seen, fresh>>
        /\ \/ pc' = "recv"
           \/ pc' = "treat" /\ \E o \in MaskMatches(msg) : best' = o
    BY <1>9 DEF Match, At, Go, ghost, Found, Highest
  <2>2. MaskInv'
    BY <1>1, <1>2, <2>1 DEF MaskInv, Settled, Rebuilding
  <2>3. ASSUME NEW o \in MaskMatches(msg), ~raced PROVE obj[o] \in seen
    <3>1. PICK id \in DOMAIN loaded : o = loaded[id]
      BY <1>1, <2>1, <2>3 DEF MaskInv, MaskMatches, Candidates, MasksOf, MaskOf, Settled
    <3>2. QED
      BY <1>1, <2>1, <3>1 DEF SeenInv
  <2>4. SeenInv'
    BY <1>1, <1>2, <2>1, <2>3 DEF SeenInv
  <2>5. QED
    BY <2>2, <2>4
<1>10. CASE Raise
  <2>1. pc # "recv" /\ pc' = "raised" /\ seen' = seen
    BY <1>10 DEF Raise, BuildRaises, MatchRaises, TreatRaises, At, Go, ghost
  <2>2. QED
    BY <1>1, <1>2, <2>1 DEF MaskInv, SeenInv, Settled, Rebuilding
<1>11. QED
  BY <1>3, <1>4, <1>5, <1>6, <1>7, <1>8, <1>9, <1>10 DEF Looks

(* A write leaves what it does not patch, and notes what is in force now.    *)
LEMMA WriteSeen ==
  ASSUME TypeInv, SeenInv, up, up', pc' = pc, loaded' = loaded, best' = best, raced => raced',
         seen' = seen \cup {obj'[live'[id]] : id \in DOMAIN live'},
         \A o \in DOMAIN obj : obj'[o] = obj[o] \/ \E id \in DOMAIN live' : o = live'[id]
  PROVE  SeenInv'
<1>1. InForce' \subseteq seen'
  BY DEF InForce, Present
<1>2. \A o \in DOMAIN obj : obj[o] \in seen => obj'[o] \in seen'
  OBVIOUS
<1>3. \A id \in DOMAIN loaded : loaded[id] \in DOMAIN obj
  BY DEF TypeInv
<1>4. pc = "treat" => best \in DOMAIN obj
  BY DEF TypeInv
<1>5. QED
  BY <1>1, <1>2, <1>3, <1>4 DEF SeenInv

LEMMA WriteMasks ==
  ASSUME TypeInv, MaskInv, up, UNCHANGED <<pc, loaded, masks>>, fresh' = FALSE, raced => raced',
         raced' \/ /\ \A o \in DOMAIN obj : obj'[o].fields = obj[o].fields
                   /\ Rebuilding => UNCHANGED <<live, todo>>
  PROVE  MaskInv'
<1>1. SUFFICES ASSUME ~raced' PROVE MaskInv'
  BY DEF MaskInv
<1>2. /\ \A id \in DOMAIN loaded : loaded[id] \in DOMAIN obj
      /\ \A id \in Present : live[id] \in DOMAIN obj
  BY DEF TypeInv, StoreInv
<1>3. /\ \A o \in DOMAIN obj : obj'[o].fields = obj[o].fields
      /\ Rebuilding => UNCHANGED <<live, todo>>
  BY <1>1
<1>4. MasksOf(loaded, DOMAIN loaded)' = MasksOf(loaded, DOMAIN loaded)
  BY <1>2, <1>3 DEF MasksOf, MaskOf
<1>5. Rebuilding => MasksOf(live, Present \ todo)' = MasksOf(live, Present \ todo)
  BY <1>2, <1>3 DEF MasksOf, MaskOf, Present
<1>6. QED
  BY <1>1, <1>3, <1>4, <1>5 DEF MaskInv, Rebuilding

LEMMA MaskNbi == ASSUME TypeInv, MaskInv, SeenInv, Nbi PROVE MaskInv' /\ SeenInv'
<1> USE AttributesOfAll
<1>0. StoreInv(Attributes) /\ raced \in BOOLEAN /\ \A id \in DOMAIN loaded : loaded[id] \in DOMAIN obj
  BY DEF TypeInv
<1>1. CASE NbiOther
  <2>1. up /\ UNCHANGED <<obj, live, loop, ghost>>
    BY <1>0, <1>1, SavingStep DEF NbiOther, Saving
  <2>2. /\ up /\ UNCHANGED <<obj, live, pc, loaded, masks, todo, best, raced, fresh, seen>>
    BY <2>1 DEF loop, ghost
  <2>3. MaskInv'
    BY <2>2 DEF MaskInv, MasksOf, MaskOf, ContentOf, Present, Rebuilding
  <2>4. SeenInv'
    BY <2>2 DEF SeenInv, InForce, Present
  <2>5. QED
    BY <2>3, <2>4
<1>2. CASE NbiWrite
  <2>1. /\ UNCHANGED <<pc, msg, loaded, masks, size, best>> /\ fresh' = FALSE
        /\ seen' = seen \cup {obj'[live'[id]] : id \in DOMAIN live'}
    BY <1>2 DEF NbiWrite, Seen
  <2>2. ASSUME NEW id \in Ids, NbiAdd(id) PROVE MaskInv' /\ SeenInv'
    <3>1. /\ up /\ up' /\ \A o \in DOMAIN obj : obj'[o] = obj[o]
      BY <1>0, <2>2, AddStep DEF NbiAdd, Add, Accept
    <3>2. raced' = (raced \/ Rebuilding)
      BY <2>2 DEF NbiAdd
    <3>3. MaskInv'
      BY <1>0, <2>1, <3>1, <3>2, WriteMasks
    <3>4. SeenInv'
      BY <2>1, <3>1, <3>2, WriteSeen
    <3>5. QED
      BY <3>3, <3>4
  <2>3. ASSUME NEW id \in Ids, NbiRemove(id) PROVE MaskInv' /\ SeenInv'
    <3>1. /\ up /\ up' /\ obj' = obj
      BY <1>0, <2>3, RemoveStep DEF NbiRemove, Remove, Accept
    <3>2. raced' = (raced \/ Rebuilding)
      BY <2>3 DEF NbiRemove
    <3>3. MaskInv'
      BY <2>1, <3>1, <3>2, WriteMasks
    <3>4. SeenInv'
      BY <2>1, <3>1, <3>2, WriteSeen
    <3>5. QED
      BY <3>3, <3>4
  <2>4. ASSUME NEW k \in ToPatch, NbiPatch(k) PROVE MaskInv' /\ SeenInv'
    <3>1. /\ up /\ up' /\ live' = live /\ \E id \in Present : nbi.of = live[id]
          /\ \A o \in DOMAIN obj : o # nbi.of => obj'[o] = obj[o]
          /\ obj'[nbi.of] = Patched(obj[nbi.of], k, nbi.patch[k])
      BY <1>0, <2>4, PatchStep DEF NbiPatch, PatchKey
    <3>2. raced' = (raced \/ k = "fields")
      BY <2>4 DEF NbiPatch
    <3>3. k # "fields" => \A o \in DOMAIN obj : obj'[o].fields = obj[o].fields
      BY <1>0, <3>1 DEF StoreInv, Attributes, Patched
    <3>4. MaskInv'
      BY <1>0, <2>1, <2>4, <3>1, <3>2, <3>3, WriteMasks DEF NbiPatch
    <3>5. SeenInv'
      BY <2>1, <3>1, <3>2, WriteSeen DEF Present
    <3>6. QED
      BY <3>4, <3>5
  <2>5. QED
    BY <1>2, <2>2, <2>3, <2>4 DEF NbiWrite
<1>3. QED
  BY <1>1, <1>2 DEF Nbi

LEMMA MaskBoots == ASSUME TypeInv, Boots PROVE MaskInv' /\ SeenInv'
<1>1. /\ pc' = "recv" /\ loaded' = live' /\ fresh' = FALSE
      /\ masks' = {[keys |-> DOMAIN obj'[o].fields, of |-> o] : o \in {live'[id] : id \in DOMAIN live'}}
  BY DEF Boots, Go
<1>2. masks' = MasksOf(loaded, DOMAIN loaded)'
  BY <1>1 DEF MasksOf, MaskOf
<1>3. QED
  BY <1>1, <1>2 DEF MaskInv, SeenInv, Rebuilding

LEMMA MaskStep == ASSUME TypeInv, MaskInv, SeenInv, [Next]_vars PROVE MaskInv' /\ SeenInv'
<1>1. CASE Kill
  BY <1>1, StopStep DEF Kill, MaskInv, SeenInv, TypeInv
<1>2. CASE UNCHANGED vars
  <2>1. UNCHANGED <<obj, live, up, pc, loaded, masks, todo, best, raced, fresh, seen>>
    BY <1>2 DEF vars, store, loop, ghost
  <2>2. MaskInv'
    BY <2>1 DEF MaskInv, MasksOf, MaskOf, ContentOf, Present, Rebuilding
  <2>3. SeenInv'
    BY <2>1 DEF SeenInv, InForce, Present
  <2>4. QED
    BY <2>2, <2>3
<1>3. QED
  BY <1>1, <1>2, MaskLoop, MaskTreat, MaskNbi, MaskBoots DEF Next, Loop, Looks

(* From its match to its treatment a message meets the thresholds in force,  *)
(* whatever requests, stops and restarts come in between (IPFIX.handle,      *)
(* _create_initial_masks, _find_mask_match and the northbound handlers).     *)
THEOREM MessagesMeetThresholds == Spec => []MessagesMeetLive
<1>1. Init => TypeInv /\ MaskInv /\ SeenInv
  BY TypeInit, MaskInit
<1>2. TypeInv /\ MaskInv /\ SeenInv /\ [Next]_vars => (TypeInv /\ MaskInv /\ SeenInv)'
  BY TypeStep, MaskStep
<1>3. MaskInv /\ SeenInv => MessagesMeetLive
  BY MasksMeet
<1>4. QED
  BY <1>1, <1>2, <1>3, PTL DEF Spec
-----------------------------------------------------------------------------
(* AlertHandler. How its steps use the section of the thresholds: like the   *)
(* steps of IpfixHandler, but for the treatment_fields that the loop writes. *)
AlertAttributes == {"alertmsg", "priority", "treatment", "treatment_fields"}

Writes(o, v) ==
  /\ obj' = [obj EXCEPT ![o].treatment_fields = v]
  /\ UNCHANGED <<live, file, nbi, up, writes, starts>>

LEMMA AlertAttributesOfAll == AllHave(AlertAttributes)
BY AlertAssumption DEF AlertAssumption, AllHave, AlertAttributes

LEMMA WritesStep ==
  ASSUME StoreInv(AlertAttributes), NEW o \in DOMAIN obj, NEW v, Writes(o, v)
  PROVE  /\ StoreInv(AlertAttributes)' /\ DOMAIN obj' = DOMAIN obj /\ FieldsOf(o)' = v
         /\ \A p \in DOMAIN obj : p # o => obj'[p] = obj[p]
<1>1. obj' = [obj EXCEPT ![o] = [obj[o] EXCEPT !.treatment_fields = v]]
  BY DEF Writes
<1>2. "treatment_fields" \in DOMAIN obj[o]
  BY DEF StoreInv, AlertAttributes
<1>3. /\ DOMAIN obj' = DOMAIN obj /\ obj'[o] = [obj[o] EXCEPT !.treatment_fields = v]
      /\ \A p \in DOMAIN obj : p # o => obj'[p] = obj[p]
  BY <1>1
<1>4. obj'[o].treatment_fields = v /\ DOMAIN obj'[o] = DOMAIN obj[o]
  BY <1>2, <1>3
<1>5. \A p \in DOMAIN obj' : AlertAttributes \subseteq DOMAIN obj'[p]
  BY <1>3, <1>4 DEF StoreInv
<1>6. StoreInv(AlertAttributes)'
  BY <1>3, <1>5 DEF StoreInv, Writes, Present, Saved
<1>7. QED
  BY <1>3, <1>4, <1>6 DEF FieldsOf

(* The walk over the section, and the threshold it ends with.                *)
WalkInv ==
  /\ step \in {"recv", "scan", "fill", "raised"} /\ alert \in Alerts
  /\ ahead \subseteq Ids /\ length \in 0 .. Cardinality(Ids) /\ matches \subseteq Objects
  /\ AtStep("scan") => ahead \subseteq Present
  /\ (AtStep("scan") \/ AtStep("fill")) => matches \subseteq DOMAIN obj
  /\ AtStep("fill") => chosen \in matches

(* The fields g of a threshold carry the fields f a request gave it: the     *)
(* same keys, each with the value asked for, filled in or put by name.       *)
Carries(f, g) ==
  /\ DOMAIN g = DOMAIN f
  /\ \A k \in DOMAIN f :
       \/ f[k] = "$" \/ g[k] = f[k]
       \/ k = "protocolIdentifier" /\ f[k] \in DOMAIN NameOf /\ g[k] = NameOf[f[k]]

AskedInv ==
  /\ DOMAIN asked = DOMAIN obj
  /\ \A o \in DOMAIN obj \ torn : Carries(asked[o], FieldsOf(o))
  /\ (AtStep("fill") /\ chosen \notin torn) =>
       /\ rest \subseteq DOMAIN asked[chosen]
       /\ \A k \in rest : tf[k] = "$" => asked[chosen][k] = "$"

AlertInv == StoreInv(AlertAttributes) /\ WalkInv /\ AskedInv

LEMMA AlertInitOK == ASSUME AlertInit PROVE AlertInv
<1>1. StoreInv(AlertAttributes)
  BY AlertAttributesOfAll, StoreInitOK DEF AlertInit
<1>2. Cardinality(Ids) \in Nat
  BY StoreAssumption, FS_CardinalityType DEF StoreAssumption
<1>3. WalkInv
  BY <1>2 DEF AlertInit, WalkInv, AtStep
<1>4. AskedInv
  BY DEF AlertInit, AskedInv, AtStep, Carries
<1>5. QED
  BY <1>1, <1>3, <1>4 DEF AlertInv

(* The steps of the loop up to the choice of a threshold leave the section.  *)
LEMMA WalkStep ==
  ASSUME AlertInv, ReceiveAlert \/ Scan \/ ScanRaises \/ Sflow
  PROVE  AlertInv'
<1>1. StoreInv(AlertAttributes)' /\ UNCHANGED <<store, memory>>
  BY StoreKept DEF AlertInv, ReceiveAlert, Scan, ScanRaises, Sflow
<1>2. Cardinality(Present) \in 0 .. Cardinality(Ids)
  BY SizeOfPresent DEF AlertInv, StoreInv
<1>3. WalkInv'
  <2>1. CASE ReceiveAlert
    BY <1>1, <1>2, <2>1 DEF AlertInv, StoreInv, WalkInv, ReceiveAlert, AtStep, GoTo, store, Present
  <2>2. CASE Scan
    <3>1. PICK id \in ahead :
             /\ ahead' = ahead \ {id}
             /\ \/ step' = "raised" /\ matches' = matches
                \/ step' = step /\ matches' \subseteq matches \cup {live[id]}
      BY <2>2 DEF Scan, GoTo
    <3>2. live[id] \in DOMAIN obj /\ DOMAIN obj \subseteq Objects /\ up /\ step = "scan"
      BY <2>2, <3>1 DEF AlertInv, WalkInv, StoreInv, Scan, AtStep
    <3>3. UNCHANGED <<alert, length, obj, live, up>>
      BY <2>2 DEF Scan, store
    <3>4. QED
      BY <3>1, <3>2, <3>3 DEF AlertInv, WalkInv, AtStep, Present
  <2>3. CASE ScanRaises
    BY <1>1, <2>3 DEF AlertInv, WalkInv, ScanRaises, AtStep, GoTo, store, Present
  <2>4. CASE Sflow
    BY <1>1, <2>4 DEF AlertInv, WalkInv, Sflow, AtStep, GoTo, store, Present
  <2>5. QED
    BY <2>1, <2>2, <2>3, <2>4
<1>4. AskedInv'
  <2>1. AtStep("fill")' => AtStep("fill") /\ UNCHANGED <<chosen, rest, tf>>
    BY DEF ReceiveAlert, Scan, ScanRaises, Sflow, AtStep, GoTo, store
  <2>2. UNCHANGED <<obj, asked, torn>>
    BY <1>1 DEF store, memory
  <2>3. QED
    BY <2>1, <2>2 DEF AlertInv, AskedInv, FieldsOf
<1>5. QED
  BY <1>1, <1>3, <1>4 DEF AlertInv

LEMMA ChooseStep == ASSUME AlertInv, Choose PROVE AlertInv'
<1>1. /\ StoreInv(AlertAttributes)' /\ UNCHANGED <<obj, live, up, alert, ahead, length, matches, asked, torn>>
      /\ AtStep("scan")
  BY StoreKept DEF AlertInv, Choose, store, memory
<1>2. CASE matches = {}
  <2>1. step' = "recv"
    BY <1>2 DEF Choose, GoTo
  <2>2. QED
    BY <1>1, <2>1 DEF AlertInv, WalkInv, AskedInv, AtStep, FieldsOf
<1>3. CASE matches # {}
  <2>1. PICK o \in matches : /\ chosen' = o /\ tf' = FieldsOf(o) /\ step' = "fill"
                             /\ rest' \in {{}, DOMAIN FieldsOf(o)}
    BY <1>3 DEF Choose, HighestMatches, GoTo
  <2>2. o \in DOMAIN obj
    BY <1>1 DEF AlertInv, WalkInv
  <2>3. WalkInv'
    BY <1>1, <2>1 DEF AlertInv, WalkInv, AtStep
  <2>4. ASSUME o \notin torn, NEW k \in rest' PROVE k \in DOMAIN asked[o] /\ (tf'[k] = "$" => asked[o][k] = "$")
    <3>1. Carries(asked[o], FieldsOf(o))
      BY <2>2, <2>4 DEF AlertInv, AskedInv
    <3>2. k \in DOMAIN asked[o]
      BY <2>1, <2>4, <3>1 DEF Carries
    <3>3. \A n \in DOMAIN NameOf : NameOf[n] # "$"
      BY RpcAssumption DEF RpcAssumption
    <3>4. QED
      BY <2>1, <3>1, <3>2, <3>3 DEF Carries
  <2>5. AskedInv'
    <3>1. \A p \in DOMAIN obj \ torn : Carries(asked[p], FieldsOf(p))'
      BY <1>1 DEF AlertInv, AskedInv, FieldsOf, Carries
    <3>2. QED
      BY <1>1, <2>1, <2>4, <3>1 DEF AlertInv, AskedInv
  <2>6. QED
    BY <1>1, <2>3, <2>5 DEF AlertInv
<1>4. QED
  BY <1>2, <1>3

(* Filling a field in, and what rpc makes of the fields.                     *)
LEMMA NamedKeeps ==
  ASSUME NEW f, NEW g, Carries(f, g)
  PROVE  /\ Carries(f, Named(g)) /\ DOMAIN Named(g) = DOMAIN f /\ DOMAIN Named(f) = DOMAIN f
         /\ \A k \in DOMAIN f : f[k] = "$" \/ Named(g)[k] = Named(f)[k]
<1> DEFINE p == "protocolIdentifier"
<1>1. \A h, k : /\ DOMAIN Named(h) = DOMAIN h
                /\ k \in DOMAIN h /\ k # p => Named(h)[k] = h[k]
                /\ k \in DOMAIN h /\ k = p =>
                     Named(h)[k] = IF h[k] \in DOMAIN NameOf THEN NameOf[h[k]] ELSE h[k]
  <2> TAKE h, k
  <2>1. CASE p \in DOMAIN h
    <3>1. Named(h) = IF h[p] \in DOMAIN NameOf THEN [h EXCEPT ![p] = NameOf[h[p]]] ELSE h
      BY <2>1 DEF Named, Protocol
    <3>2. QED
      BY <3>1
  <2>2. CASE p \notin DOMAIN h
    BY <2>2 DEF Named, Protocol
  <2>3. QED
    BY <2>1, <2>2
<1>2. \A n \in DOMAIN NameOf : NameOf[n] \notin DOMAIN NameOf
  BY RpcAssumption DEF RpcAssumption
<1>3. DOMAIN Named(g) = DOMAIN f /\ DOMAIN Named(f) = DOMAIN f /\ DOMAIN g = DOMAIN f
  BY <1>1 DEF Carries
<1>4. ASSUME NEW k \in DOMAIN f, f[k] # "$"
      PROVE  /\ Named(g)[k] = Named(f)[k]
             /\ \/ Named(g)[k] = f[k]
                \/ k = p /\ f[k] \in DOMAIN NameOf /\ Named(g)[k] = NameOf[f[k]]
  <2>1. g[k] = f[k] \/ (k = p /\ f[k] \in DOMAIN NameOf /\ g[k] = NameOf[f[k]])
    BY <1>4 DEF Carries
  <2>2. k \in DOMAIN g
    BY <1>3, <1>4
  <2>3. CASE k # p
    <3>1. Named(g)[k] = g[k] /\ Named(f)[k] = f[k]
      BY <1>1, <1>4, <2>2, <2>3
    <3>2. QED
      BY <2>1, <2>3, <3>1
  <2>4. CASE k = p
    <3>1. /\ Named(g)[k] = IF g[k] \in DOMAIN NameOf THEN NameOf[g[k]] ELSE g[k]
          /\ Named(f)[k] = IF f[k] \in DOMAIN NameOf THEN NameOf[f[k]] ELSE f[k]
      BY <1>1, <1>4, <2>2, <2>4
    <3>2. QED
      BY <1>2, <2>1, <2>4, <3>1
  <2>5. QED
    BY <2>3, <2>4
<1>5. QED
  BY <1>3, <1>4 DEF Carries

(* A step that only writes the fields of the threshold being treated.        *)
LEMMA OwnFieldsStep ==
  ASSUME AlertInv, AtStep("fill"), NEW v, Writes(chosen, v),
         chosen \notin torn => Carries(asked[chosen], v),
         UNCHANGED <<alert, ahead, length, matches, chosen, asked, torn>>,
         UNCHANGED tf /\ rest' \subseteq rest, step' \in {"recv", "fill", "raised"}
  PROVE  AlertInv' /\ FieldsOf(chosen)' = v
<1>1. chosen \in DOMAIN obj
  BY DEF AlertInv, WalkInv
<1>2. /\ StoreInv(AlertAttributes)' /\ DOMAIN obj' = DOMAIN obj /\ FieldsOf(chosen)' = v
      /\ \A o \in DOMAIN obj : o # chosen => obj'[o] = obj[o]
  BY <1>1, WritesStep DEF AlertInv
<1>3. UNCHANGED <<live, up>>
  BY DEF Writes
<1>4. WalkInv'
  BY <1>2, <1>3 DEF AlertInv, WalkInv, AtStep, Present
<1>5. ASSUME NEW o \in DOMAIN obj' \ torn' PROVE Carries(asked[o], FieldsOf(o))'
  <2>1. CASE o = chosen
    BY <1>2, <1>5, <2>1 DEF Carries
  <2>2. CASE o # chosen
    <3>1. Carries(asked[o], FieldsOf(o)) /\ FieldsOf(o)' = FieldsOf(o) /\ asked'[o] = asked[o]
      BY <1>2, <1>5, <2>2 DEF AlertInv, AskedInv, FieldsOf
    <3>2. QED
      BY <3>1 DEF Carries
  <2>3. QED
    BY <2>1, <2>2
<1>6. AskedInv'
  BY <1>2, <1>5 DEF AlertInv, AskedInv
<1>7. QED
  BY <1>2, <1>4, <1>6 DEF AlertInv

LEMMA FillStep == ASSUME AlertInv, Fill PROVE AlertInv'
<1>1. PICK k \in rest :
         /\ rest' = rest \ {k}
         /\ \/ obj' = obj /\ step' \in {step, "raised"}
            \/ /\ tf[k] = "$" /\ step' = step
               /\ obj' = [obj EXCEPT ![chosen].treatment_fields =
                            [x \in DOMAIN @ \cup {k} |-> IF x = k THEN alert.pkt[k] ELSE @[x]]]
  BY DEF Fill, Fills, GoTo
<1>2. /\ AtStep("fill") /\ UNCHANGED <<live, file, nbi, up, writes, starts>>
      /\ UNCHANGED <<alert, ahead, length, matches, chosen, tf, asked, torn>>
  BY DEF Fill, memory
<1>3. CASE obj' = obj /\ step' \in {step, "raised"}
  <2>1. StoreInv(AlertAttributes)'
    BY <1>2, <1>3, StoreKept DEF AlertInv, store
  <2>2. WalkInv'
    BY <1>2, <1>3 DEF AlertInv, WalkInv, AtStep, Present
  <2>3. \A o \in DOMAIN obj' \ torn' : Carries(asked[o], FieldsOf(o))'
    BY <1>2, <1>3 DEF AlertInv, AskedInv, FieldsOf, Carries
  <2>4. AskedInv'
    BY <1>1, <1>2, <1>3, <2>3 DEF AlertInv, AskedInv, AtStep
  <2>5. QED
    BY <2>1, <2>2, <2>4 DEF AlertInv
<1>4. CASE /\ tf[k] = "$" /\ step' = step
           /\ obj' = [obj EXCEPT ![chosen].treatment_fields =
                        [x \in DOMAIN @ \cup {k} |-> IF x = k THEN alert.pkt[k] ELSE @[x]]]
  <2> DEFINE g == FieldsOf(chosen)
             v == [x \in DOMAIN g \cup {k} |-> IF x = k THEN alert.pkt[k] ELSE g[x]]
  <2>1. Writes(chosen, v)
    BY <1>2, <1>4 DEF Writes, FieldsOf
  <2>2. ASSUME chosen \notin torn PROVE Carries(asked[chosen], v)
    <3>1. Carries(asked[chosen], g) /\ k \in DOMAIN asked[chosen] /\ asked[chosen][k] = "$"
      BY <1>1, <1>2, <1>4, <2>2 DEF AlertInv, WalkInv, AskedInv
    <3>2. DOMAIN v = DOMAIN g /\ \A x \in DOMAIN g : x # k => v[x] = g[x]
      BY <3>1 DEF Carries
    <3>3. QED
      BY <3>1, <3>2 DEF Carries
  <2> HIDE DEF v
  <2>3. QED
    BY <1>1, <1>2, <1>4, <2>1, <2>2, OwnFieldsStep DEF AtStep
<1>5. QED
  BY <1>1, <1>3, <1>4

LEMMA TreatAlertStep == ASSUME AlertInv, TreatAlert PROVE AlertInv'
<1> DEFINE g == FieldsOf(chosen)
<1>1. /\ AtStep("fill") /\ UNCHANGED <<live, file, nbi, up, writes, starts>>
      /\ UNCHANGED <<alert, ahead, length, matches, chosen, tf, rest, asked, torn>>
      /\ step' \in {"recv", "raised"}
      /\ obj' = obj \/ obj' = [obj EXCEPT ![chosen].treatment_fields = Named(g)]
  BY DEF TreatAlert, memory, GoTo
<1>2. chosen \in DOMAIN obj
  BY <1>1 DEF AlertInv, WalkInv
<1>3. CASE obj' = obj
  <2>1. StoreInv(AlertAttributes)'
    BY <1>1, <1>3, StoreKept DEF AlertInv, store
  <2>2. WalkInv'
    BY <1>1, <1>3 DEF AlertInv, WalkInv, AtStep, Present
  <2>3. \A o \in DOMAIN obj' \ torn' : Carries(asked[o], FieldsOf(o))'
    BY <1>1, <1>3 DEF AlertInv, AskedInv, FieldsOf, Carries
  <2>4. AskedInv'
    BY <1>1, <1>3, <2>3 DEF AlertInv, AskedInv, AtStep
  <2>5. QED
    BY <2>1, <2>2, <2>4 DEF AlertInv
<1>4. CASE obj' = [obj EXCEPT ![chosen].treatment_fields = Named(g)]
  <2>1. chosen \notin torn => Carries(asked[chosen], Named(g))
    BY <1>2, NamedKeeps DEF AlertInv, AskedInv
  <2>2. Writes(chosen, Named(g))
    BY <1>1, <1>4 DEF Writes
  <2>3. QED
    BY <1>1, <2>1, <2>2, OwnFieldsStep
<1>5. QED
  BY <1>1, <1>3, <1>4
-----------------------------------------------------------------------------
(* The northbound requests, a kill and a start.                              *)
LEMMA SnortAddStep ==
  ASSUME AlertInv, NEW id \in Ids, SnortAdd(id),
         UNCHANGED <<step, alert, length, matches, chosen, tf, rest>>
  PROVE  AlertInv'
<1>1. /\ Add(id) /\ torn' = torn
      /\ ahead' = ahead \/ ahead' = ahead \cup {id}
      /\ asked' = [o \in DOMAIN obj' |-> IF o = Fresh THEN obj'[o].treatment_fields ELSE asked[o]]
  BY DEF SnortAdd
<1>2. /\ StoreInv(AlertAttributes)' /\ up /\ up' = up
      /\ DOMAIN obj \subseteq DOMAIN obj' /\ \A o \in DOMAIN obj : obj'[o] = obj[o]
      /\ DOMAIN live' = Present \cup {id}
  BY <1>1, AlertAttributesOfAll, AddStep DEF AlertInv, Add
<1>3. Fresh \notin DOMAIN obj /\ DOMAIN obj' = DOMAIN obj \cup {Fresh}
  <2>1. Free # {} /\ \E c \in Contents :
          obj' = [o \in DOMAIN obj \cup {Fresh} |-> IF o = Fresh THEN c ELSE obj[o]]
    BY <1>1 DEF Add
  <2>2. QED
    BY <2>1, FreshIsFree
<1>4. WalkInv'
  BY <1>1, <1>2 DEF AlertInv, WalkInv, AtStep, Present
<1>5. ASSUME NEW o \in DOMAIN obj' \ torn' PROVE Carries(asked[o], FieldsOf(o))'
  <2>1. CASE o = Fresh
    BY <1>1, <1>5, <2>1 DEF Carries, FieldsOf
  <2>2. CASE o # Fresh
    <3>1. Carries(asked[o], FieldsOf(o)) /\ FieldsOf(o)' = FieldsOf(o) /\ asked'[o] = asked[o]
      BY <1>1, <1>2, <1>3, <1>5, <2>2 DEF AlertInv, AskedInv, FieldsOf
    <3>2. QED
      BY <3>1 DEF Carries
  <2>3. QED
    BY <2>1, <2>2
<1>6. AtStep("fill") => asked'[chosen] = asked[chosen]
  BY <1>1, <1>2, <1>3 DEF AlertInv, WalkInv
<1>7. AskedInv'
  BY <1>1, <1>2, <1>5, <1>6 DEF AlertInv, AskedInv, AtStep
<1>8. QED
  BY <1>2, <1>4, <1>7 DEF AlertInv

LEMMA SnortRemoveStep ==
  ASSUME AlertInv, NEW id \in Ids, SnortRemove(id),
         UNCHANGED <<step, alert, length, matches, chosen, tf, rest>>
  PROVE  AlertInv'
<1>1. Remove(id) /\ ahead' = ahead \ {id} /\ UNCHANGED <<asked, torn>>
  BY DEF SnortRemove, memory
<1>2. /\ StoreInv(AlertAttributes)' /\ up /\ up' = up /\ obj' = obj /\ DOMAIN live' = Present \ {id}
  BY <1>1, RemoveStep DEF AlertInv, Remove
<1>3. WalkInv'
  BY <1>1, <1>2 DEF AlertInv, WalkInv, AtStep, Present
<1>4. \A o \in DOMAIN obj' \ torn' : Carries(asked[o], FieldsOf(o))'
  BY <1>1, <1>2 DEF AlertInv, AskedInv, FieldsOf, Carries
<1>5. AskedInv'
  BY <1>1, <1>2, <1>4 DEF AlertInv, AskedInv, AtStep
<1>6. QED
  BY <1>2, <1>3, <1>5 DEF AlertInv

LEMMA SnortPatchStep ==
  ASSUME AlertInv, NEW k, SnortPatch(k),
         UNCHANGED <<step, alert, length, matches, chosen, tf, rest>>
  PROVE  AlertInv'
<1>0. PICK o : o = nbi.of
  OBVIOUS
<1>1. /\ PatchKey(k) /\ ahead' = ahead
      /\ asked' = IF k = "treatment_fields" THEN [asked EXCEPT ![o] = nbi.patch[k]] ELSE asked
      /\ torn' = IF k = "treatment_fields" /\ step = "fill" /\ chosen = o THEN torn \cup {o} ELSE torn
  BY <1>0 DEF SnortPatch
<1>2. /\ StoreInv(AlertAttributes)' /\ up /\ up' = up /\ live' = live /\ DOMAIN obj' = DOMAIN obj
      /\ o \in DOMAIN obj /\ \A p \in DOMAIN obj : p # o => obj'[p] = obj[p]
      /\ obj'[o] = Patched(obj[o], k, nbi.patch[k])
  BY <1>0, <1>1, PatchStep DEF AlertInv, PatchKey, StoreInv
<1>3. FieldsOf(o)' = IF k = "treatment_fields" THEN nbi.patch[k] ELSE FieldsOf(o)
  <2>1. "treatment_fields" \in DOMAIN obj[o]
    BY <1>2 DEF AlertInv, StoreInv, AlertAttributes
  <2>2. obj'[o].treatment_fields = IF k = "treatment_fields" THEN nbi.patch[k] ELSE obj[o].treatment_fields
    BY <1>2, <2>1 DEF Patched
  <2>3. QED
    BY <2>2 DEF FieldsOf
<1>4. DOMAIN asked = DOMAIN obj /\ DOMAIN asked' = DOMAIN obj
  BY <1>1 DEF AlertInv, AskedInv
<1>5. asked'[o] = (IF k = "treatment_fields" THEN nbi.patch[k] ELSE asked[o])
      /\ \A p \in DOMAIN obj : p # o => asked'[p] = asked[p]
  BY <1>1, <1>2, <1>4
<1>6. torn \subseteq torn' /\ (AtStep("fill") /\ chosen \notin torn' => asked'[chosen] = asked[chosen])
  <2>1. CASE k = "treatment_fields"
    BY <1>1, <1>5, <2>1 DEF AlertInv, WalkInv, AtStep
  <2>2. CASE k # "treatment_fields"
    BY <1>1, <2>2
  <2>3. QED
    BY <2>1, <2>2
<1>7. WalkInv'
  BY <1>1, <1>2 DEF AlertInv, WalkInv, AtStep, Present
<1>8. ASSUME NEW p \in DOMAIN obj' \ torn' PROVE Carries(asked[p], FieldsOf(p))'
  <2>1. Carries(asked[p], FieldsOf(p))
    BY <1>2, <1>6, <1>8 DEF AlertInv, AskedInv
  <2>2. CASE p = o /\ k = "treatment_fields"
    BY <1>3, <1>5, <2>2 DEF Carries
  <2>3. CASE ~(p = o /\ k = "treatment_fields")
    <3>1. FieldsOf(p)' = FieldsOf(p) /\ asked'[p] = asked[p]
      <4>1. CASE p = o
        BY <1>3, <1>5, <2>3, <4>1
      <4>2. CASE p # o
        BY <1>2, <1>5, <1>8, <4>2 DEF FieldsOf
      <4>3. QED
        BY <4>1, <4>2
    <3>2. QED
      BY <2>1, <3>1 DEF Carries
  <2>4. QED
    BY <2>2, <2>3
<1>9. AskedInv'
  BY <1>2, <1>4, <1>6, <1>8 DEF AlertInv, AskedInv, AtStep
<1>10. QED
  BY <1>2, <1>7, <1>9 DEF AlertInv

LEMMA AlertStep == ASSUME AlertInv, [AlertNext]_alertVars PROVE AlertInv'
<1>1. CASE AlertLoop
  BY <1>1, WalkStep, ChooseStep, FillStep, TreatAlertStep DEF AlertLoop
<1>2. CASE SnortNbi
  <2>1. UNCHANGED <<step, alert, length, matches, chosen, tf, rest>>
    BY <1>2 DEF SnortNbi
  <2>2. ASSUME SnortOther PROVE AlertInv'
    <3>1. StoreInv(AlertAttributes)' /\ UNCHANGED <<obj, live, up, ahead, asked, torn>>
      <4>1. Saving
        BY <2>2 DEF SnortOther, Saving
      <4>2. StoreInv(AlertAttributes)' /\ UNCHANGED <<obj, live>>
        BY <4>1, SavingStep DEF AlertInv
      <4>3. up' = up
        BY <4>1 DEF Saving, Save, Update, SaveElsewhere, OpenFile, DumpFile, OpenFails, DumpFails
      <4>4. QED
        BY <2>2, <4>2, <4>3 DEF SnortOther, memory
    <3>2. WalkInv'
      BY <2>1, <3>1 DEF AlertInv, WalkInv, AtStep, Present
    <3>3. \A o \in DOMAIN obj' \ torn' : Carries(asked[o], FieldsOf(o))'
      BY <3>1 DEF AlertInv, AskedInv, FieldsOf, Carries
    <3>4. AskedInv'
      BY <2>1, <3>1, <3>3 DEF AlertInv, AskedInv, AtStep
    <3>5. QED
      BY <3>1, <3>2, <3>4 DEF AlertInv
  <2>3. QED
    BY <1>2, <2>1, <2>2, SnortAddStep, SnortRemoveStep, SnortPatchStep DEF SnortNbi
<1>3. CASE AlertKill
  <2>1. StoreInv(AlertAttributes)' /\ ~up' /\ UNCHANGED <<obj, step, alert, ahead, length, matches, asked, torn>>
    BY <1>3, StopStep DEF AlertInv, AlertKill, alertLoop, memory
  <2>2. \A o \in DOMAIN obj' \ torn' : Carries(asked[o], FieldsOf(o))'
    BY <2>1 DEF AlertInv, AskedInv, FieldsOf, Carries
  <2>3. QED
    BY <2>1, <2>2 DEF AlertInv, WalkInv, AskedInv, AtStep
<1>4. CASE AlertBoots
  <2>1. /\ StoreInv(AlertAttributes)' /\ step' = "recv"
        /\ UNCHANGED <<alert, ahead, length, matches>>
        /\ asked' = [o \in DOMAIN obj' |-> obj'[o].treatment_fields]
    BY <1>4, StartStep DEF AlertInv, AlertBoots, GoTo
  <2>2. WalkInv'
    BY <2>1 DEF AlertInv, WalkInv, AtStep
  <2>3. \A o \in DOMAIN obj' : asked'[o] = FieldsOf(o)'
    BY <2>1 DEF FieldsOf
  <2>4. \A o \in DOMAIN obj' : Carries(asked[o], FieldsOf(o))'
    BY <2>3 DEF Carries
  <2>5. AskedInv'
    BY <2>1, <2>4 DEF AskedInv, AtStep
  <2>6. QED
    BY <2>1, <2>2, <2>5 DEF AlertInv
<1>5. CASE UNCHANGED alertVars
  <2>1. StoreInv(AlertAttributes)'
    BY <1>5, StoreKept DEF AlertInv, alertVars
  <2>2. UNCHANGED <<obj, live, up, step, alert, ahead, length, matches, chosen, tf, rest, asked, torn>>
    BY <1>5 DEF alertVars, alertLoop, store, memory
  <2>3. \A o \in DOMAIN obj' \ torn' : Carries(asked[o], FieldsOf(o))'
    BY <2>2 DEF AlertInv, AskedInv, FieldsOf, Carries
  <2>4. QED
    BY <2>1, <2>2, <2>3 DEF AlertInv, WalkInv, AskedInv, AtStep, Present
<1>6. QED
  BY <1>1, <1>2, <1>3, <1>4, <1>5 DEF AlertNext

(* The walk over the section, the chosen threshold and the section itself    *)
(* keep their types under every interleaving with the northbound requests:   *)
(* what is being treated is a threshold that matched, removed or not.        *)
THEOREM AlertTypes == AlertSpec => []AlertTypeOK
<1>1. AlertInit => AlertInv
  BY AlertInitOK
<1>2. AlertInv /\ [AlertNext]_alertVars => AlertInv'
  BY AlertStep
<1>3. AlertInv => AlertTypeOK
  BY DEF AlertInv, StoreInv, WalkInv, AlertTypeOK, StoreTypeOK, AtStep
<1>4. QED
  BY <1>1, <1>2, <1>3, PTL DEF AlertSpec

(* A treatment reaches ONOS with exactly the fields the operator asked for   *)
(* (Snort.handle, _create_treatment_fields, Treatment.apply, RPC), whatever  *)
(* alerts came before it and however a protocol's name replaced its number.  *)
THEOREM AskedFieldsAreCarried == AlertSpec => CallsCarryAskedFields
<1> DEFINE Calls == (step = "fill" /\ step' = "recv" /\ call' # Absent /\ tf # Absent /\ chosen \notin torn
                      /\ DOMAIN asked[chosen] # {}) =>
                       LET f == asked[chosen]
                       IN  \A k \in OnosKeys :
                             \/ k \in DOMAIN f /\ (f[k] = "$" \/ call'.fields[k] = Named(f)[k])
                             \/ k \notin DOMAIN f /\ call'.fields[k] = "*"
<1>1. AlertInit => AlertInv
  BY AlertInitOK
<1>2. AlertInv /\ [AlertNext]_alertVars => AlertInv'
  BY AlertStep
<1>3. ASSUME AlertInv, [AlertNext]_alertVars, step = "fill", step' = "recv", call' # Absent, tf # Absent,
             chosen \notin torn, DOMAIN asked[chosen] # {}, NEW k \in OnosKeys
      PROVE  \/ k \in DOMAIN asked[chosen]
                /\ (asked[chosen][k] = "$" \/ call'.fields[k] = Named(asked[chosen])[k])
             \/ k \notin DOMAIN asked[chosen] /\ call'.fields[k] = "*"
  <2> DEFINE f == asked[chosen]  g == FieldsOf(chosen)
  <2>1. TreatAlert
    <3>1. ~AlertBoots /\ ~AlertKill /\ ~SnortNbi
      BY <1>3 DEF AlertBoots, AlertKill, SnortNbi, alertLoop
    <3>2. AlertLoop
      BY <1>3, <3>1 DEF AlertNext, alertVars, alertLoop
    <3>3. QED
      BY <1>3, <3>2 DEF AlertLoop, ReceiveAlert, Scan, ScanRaises, Choose, Fill, Sflow, AtStep, GoTo
  <2>2. Send(obj[chosen].treatment, g) /\ AtStep("fill")
    BY <1>3, <2>1 DEF TreatAlert, GoTo
  <2>3. Carries(f, g) /\ DOMAIN g # {}
    BY <1>3, <2>2 DEF AlertInv, WalkInv, AskedInv, Carries
  <2>4. call'.fields = Wildcard(Named(g))
    BY <1>3, <2>2, <2>3 DEF Send
  <2>5. /\ DOMAIN Named(g) = DOMAIN f
        /\ \A x \in DOMAIN f : f[x] = "$" \/ Named(g)[x] = Named(f)[x]
    BY <2>3, NamedKeeps
  <2>6. call'.fields[k] = IF k \in DOMAIN Named(g) THEN Named(g)[k] ELSE "*"
    BY <2>4 DEF Wildcard
  <2>7. QED
    BY <2>5, <2>6
<1>4. AlertInv /\ [AlertNext]_alertVars => [Calls]_alertVars
  BY <1>3
<1>5. QED
  BY <1>1, <1>2, <1>4, PTL DEF AlertSpec, CallsCarryAskedFields
=============================================================================
