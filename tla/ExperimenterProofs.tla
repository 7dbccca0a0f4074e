------------------------- MODULE ExperimenterProofs -------------------------
(***************************************************************************)
(* Proofs about the Experimenter, for any number of nodes, forwarded ports *)
(* and sessions: its types, that whom switches and nodes are told of is    *)
(* there and ready, and that the host's rules and leftovers are in order.  *)
(***************************************************************************)
EXTENDS Experimenter, FiniteSetTheorems, TLAPS

(* A step of the script that serves the node of a TENNISON.                  *)
Serves == at \in {"delete", "append"} /\ IsTennison(list[1])

(* The clusters are all started.                                             *)
Later == at \in {"switches", "tennison", "cut", "heal", "sort", "grow", "join", "shrink",
                 "cli", "undo", "stop", "stopped"}

(* The nodes of the scaling test have been sorted.                           *)
Grown ==
  at \in {"grow", "join", "shrink", "cli", "undo", "stop", "stopped"} \/ (at = "wait" /\ ctl # <<>>)

(* Which script is at which step.                                            *)
ScriptInv ==
  /\ kind \in Kinds \cup {"none"} /\ at \in Steps /\ (kind = "none" <=> at = "none")
  /\ cluster \in 0 .. 2
  /\ kind # "none" => cluster \in 1 .. Len(ClustersOf(kind))
  /\ at = "unpack" => cluster = 1
  /\ at \in {"sort", "grow", "join", "shrink"} => kind = "scaling"
  /\ at \in {"cut", "heal"} => kind = "partition"
  /\ at = "tennison" => kind = "multi"
  /\ at = "delete" => kind # "scaling"
  /\ at \in {"undo", "stop", "stopped"} => kind # "multi"
  /\ Later \/ Serves => cluster = Len(ClustersOf(kind))

(* What the loop of each step goes over, and that it is within.              *)
ListInv ==
  /\ test \in 0 .. Tests /\ (at = "wait" => test \in 1 .. Tests)
  /\ list \in Seq(Nodes \cup Tennisons)
  /\ at = "unpack" => list = Machines(kind)
  /\ at \in {"start", "undo", "stop"} => list = active
  /\ at \in {"delete", "append"} => list = active \/ (kind = "multi" /\ \E m \in Tennisons : list = <<m>>)
  /\ at \in {"wait", "join"} => list \in Seq(Nodes)
  /\ at = "wait" /\ kind # "scaling" => list = active
  /\ at = "tennison" => \E m \in Tennisons : list = <<m>>
  /\ at \in {"unpack", "start", "join", "wait", "stop"} => pos \in 1 .. Len(list)
  /\ at \in {"delete", "append", "undo"} => pos \in 1 .. Len(Rules(list))

(* The nodes of the cluster that the script is at.                           *)
ActiveInv ==
  /\ active \in Seq(Nodes) /\ IsInjective(active)
  /\ kind # "none" => active # <<>>
  /\ kind \in {"multi", "partition"} => active = HostsOf(kind, ClustersOf(kind)[cluster])
  /\ kind = "scaling" => active \in Seq(Onos("c0"))
  /\ kind = "scaling" /\ (ctl = <<>> \/ at = "sort") => active = First("c0", ServerCount)
  /\ kind = "scaling" /\ Grown => order \in Orders(Onos("c0"))

(* Switches are started when the clusters are.                               *)
CtlInv ==
  /\ kind = "none" => ctl = <<>>
  /\ kind = "multi" /\ ctl # <<>> => at \in {"tennison", "cli"} \/ Serves
  /\ kind = "partition" /\ ctl # <<>> => at \in {"cut", "heal", "cli", "undo", "stop", "stopped"}
  /\ kind = "scaling" => (ctl # <<>> <=> Grown \/ at = "sort")

HostInv ==
  /\ started \subseteq Nodes /\ link \in {"up", "down"}
  /\ proc \in [Nodes -> {"none", "up", "dead"}] /\ stage \in [Nodes -> 0 .. Tests]
  /\ dir \subseteq Nodes \cup Tennisons /\ stale \subseteq Nodes
  /\ services \subseteq Tennisons \X {"mongod", "coordinator"}
  /\ sessions \in 0 .. MaxSessions /\ extra \in 0 .. sessions
  /\ kind = "scaling" /\ at \in {"unpack", "start"} => extra < sessions

TypeInv == ScriptInv /\ ListInv /\ ActiveInv /\ CtlInv /\ HostInv
-----------------------------------------------------------------------------
(* The first nodes of a cluster.                                             *)
LEMMA FirstFacts ==
  ASSUME NEW c, NEW n \in Nat, n <= (IF c = "c0" THEN ServerCount + Scale ELSE 1)
  PROVE  /\ First(c, n) \in Seq(Onos(c)) /\ Len(First(c, n)) = n
         /\ \A i \in 1 .. n : First(c, n)[i] = <<c, i>>
         /\ IsInjective(First(c, n))
<1>1. \A i \in 1 .. n : <<c, i>> \in Onos(c)
  BY ExperimenterAssumption DEF Onos, Scale
<1>2. First(c, n) \in [1 .. n -> Onos(c)]
  BY <1>1 DEF First
<1>3. First(c, n) \in Seq(Onos(c)) /\ Len(First(c, n)) = n
  BY <1>2
<1>4. QED
  BY <1>2, <1>3 DEF First, IsInjective

LEMMA OneFacts ==
  ASSUME NEW c \in {"alpha", "beta"}
  PROVE  First(c, 1) \in Seq(Onos(c)) /\ Len(First(c, 1)) = 1 /\ IsInjective(First(c, 1))
<1>1. 1 <= (IF c = "c0" THEN ServerCount + Scale ELSE 1)
  OBVIOUS
<1>2. QED
  BY <1>1, FirstFacts

LEMMA HostsFacts ==
  ASSUME NEW k \in {"multi", "partition"}, NEW c \in 1 .. Len(ClustersOf(k))
  PROVE  LET l == HostsOf(k, ClustersOf(k)[c]) IN
         /\ l \in Seq(Nodes) /\ l # <<>> /\ IsInjective(l)
         /\ k = "partition" => c = 1 /\ l = First("c0", Members)
         /\ k = "multi" => l = First(ClustersOf(k)[c], 1) /\ ClustersOf(k)[c] \in {"alpha", "beta"}
<1>1. CASE k = "multi"
  <2>1. ClustersOf(k)[c] \in {"alpha", "beta"}
    BY <1>1 DEF ClustersOf
  <2>2. HostsOf(k, ClustersOf(k)[c]) = First(ClustersOf(k)[c], 1)
    BY <1>1 DEF HostsOf
  <2>3. First(ClustersOf(k)[c], 1) \in Seq(Onos(ClustersOf(k)[c])) /\ Len(First(ClustersOf(k)[c], 1)) = 1
        /\ IsInjective(First(ClustersOf(k)[c], 1))
    BY <2>1, OneFacts
  <2>4. Onos(ClustersOf(k)[c]) \subseteq Nodes
    BY <2>1 DEF Nodes
  <2>5. First(ClustersOf(k)[c], 1) \in Seq(Nodes) /\ First(ClustersOf(k)[c], 1) # <<>>
    BY <2>3, <2>4
  <2>6. QED
    BY <1>1, <2>1, <2>2, <2>3, <2>5
<1>2. CASE k = "partition"
  <2>1. c = 1 /\ ClustersOf(k)[c] = "c0"
    BY <1>2 DEF ClustersOf
  <2>2. HostsOf(k, ClustersOf(k)[c]) = First("c0", Members)
    BY <1>2, <2>1 DEF HostsOf
  <2>3. First("c0", Members) \in Seq(Onos("c0")) /\ Len(First("c0", Members)) = Members
        /\ IsInjective(First("c0", Members)) /\ Members > 0
    BY FirstFacts, ExperimenterAssumption DEF Scale
  <2>4. First("c0", Members) \in Seq(Nodes) /\ First("c0", Members) # <<>>
    BY <2>3 DEF Nodes
  <2>5. QED
    BY <1>2, <2>1, <2>2, <2>3, <2>4
<1>3. QED
  BY <1>1, <1>2

LEMMA BeginsWithNodes ==
  /\ First("c0", ServerCount) \in Seq(Onos("c0")) /\ First("c0", ServerCount) \in Seq(Nodes)
  /\ First("c0", ServerCount) # <<>> /\ IsInjective(First("c0", ServerCount))
  /\ Len(First("c0", ServerCount)) = ServerCount
<1>1. First("c0", ServerCount) \in Seq(Onos("c0")) /\ Len(First("c0", ServerCount)) = ServerCount
        /\ IsInjective(First("c0", ServerCount)) /\ ServerCount > 0
  BY FirstFacts, ExperimenterAssumption DEF Scale
<1>2. First("c0", ServerCount) \in Seq(Nodes) /\ First("c0", ServerCount) # <<>>
  BY <1>1 DEF Nodes
<1>3. QED
  BY <1>1, <1>2

LEMMA MachinesFacts ==
  ASSUME NEW k \in Kinds
  PROVE  Machines(k) \in Seq(Nodes \cup Tennisons) /\ Len(Machines(k)) > 0
<1>1. CASE k = "multi"
  <2>1. First("alpha", 1) \in Seq(Onos("alpha")) /\ First("beta", 1) \in Seq(Onos("beta"))
        /\ Len(First("alpha", 1)) = 1
    BY OneFacts
  <2>2. First("alpha", 1) \in Seq(Nodes \cup Tennisons) /\ First("beta", 1) \in Seq(Nodes \cup Tennisons)
    BY <2>1 DEF Nodes
  <2>3. <<<<"alpha", 100>>, <<"beta", 100>>>> \in Seq(Nodes \cup Tennisons)
    BY DEF Tennisons
  <2>4. QED
    BY <1>1, <2>1, <2>2, <2>3 DEF Machines
<1>2. CASE k = "partition"
  <2>1. Machines(k) = HostsOf(k, ClustersOf(k)[1]) /\ 1 \in 1 .. Len(ClustersOf(k))
    BY <1>2 DEF Machines, ClustersOf
  <2>2. QED
    BY <1>2, <2>1, HostsFacts
<1>3. CASE k = "scaling"
  <2>1. Machines(k) = First("c0", ServerCount + Scale)
    BY <1>3 DEF Machines, HostsOf
  <2>2. Machines(k) \in Seq(Onos("c0")) /\ Len(Machines(k)) = ServerCount + Scale
    BY <2>1, FirstFacts, ExperimenterAssumption DEF Scale
  <2>3. QED
    BY <2>2, ExperimenterAssumption DEF Nodes, Scale
<1>4. QED
  BY <1>1, <1>2, <1>3 DEF Kinds

LEMMA NotTennison ==
  \A n \in Nodes : ~IsTennison(n)
BY PortsAssumption, ExperimenterAssumption DEF Nodes, Onos, IsTennison, Scale

LEMMA RulesAreSeq ==
  ASSUME NEW l, (l \in Seq(Nodes) /\ l # <<>>) \/ \E m \in Tennisons : l = <<m>>
  PROVE  Len(Rules(l)) \in Nat \ {0} /\ DOMAIN Rules(l) = 1 .. Len(Rules(l))
<1>1. CASE l \in Seq(Nodes) /\ l # <<>>
  <2>1. l[1] \in Nodes
    BY <1>1
  <2>2. Rules(l) = <<NetworkRule(l[1][1])>> \o OnosRules(l)
    BY <2>1, NotTennison DEF Rules
  <2>3. Len(Forward) * Len(l) \in Nat
    BY <1>1, ExperimenterAssumption
  <2>4. OnosRules(l) \in Seq({OnosRules(l)[k] : k \in 1 .. Len(Forward) * Len(l)})
    BY <2>3 DEF OnosRules
  <2>5. QED
    BY <2>2, <2>4
<1>2. CASE \E m \in Tennisons : l = <<m>>
  <2>1. PICK m \in Tennisons : l = <<m>>
    BY <1>2
  <2>2. IsTennison(l[1])
    BY <2>1 DEF Tennisons, IsTennison
  <2>3. Rules(l) = TennisonRules(m)
    BY <2>1, <2>2 DEF Rules
  <2>4. QED
    BY <2>3 DEF TennisonRules
<1>3. QED
  BY <1>1, <1>2
-----------------------------------------------------------------------------
(* sorted(): of a finite set whose elements have different places in an      *)
(* order, there is a sequence in that order. The one whose element has the   *)
(* i-th place has i elements that are not after it.                          *)
LEMMA SortedExists ==
  ASSUME NEW S, IsFiniteSet(S), NEW o, \A x \in S : o[x] \in Nat,
         \A x, y \in S : x # y => o[x] # o[y]
  PROVE  \E s \in [1 .. Cardinality(S) -> S] : \A i, j \in DOMAIN s : i < j => o[s[i]] < o[s[j]]
<1> DEFINE upTo(x) == {y \in S : o[y] <= o[x]}
           rank == [x \in S |-> Cardinality(upTo(x))]
           n == Cardinality(S)
<1>1. n \in Nat
  BY FS_CardinalityType
<1>2. \A x \in S : upTo(x) \subseteq S /\ x \in upTo(x)
  OBVIOUS
<1>3. \A x \in S : IsFiniteSet(upTo(x)) /\ Cardinality(upTo(x)) \in Nat /\ Cardinality(upTo(x)) <= n
  BY <1>2, FS_Subset, FS_CardinalityType
<1>4. \A x \in S : Cardinality(upTo(x)) # 0
  BY <1>2, <1>3, FS_EmptySet
<1>5. ASSUME NEW x \in S, NEW y \in S, o[x] < o[y]
      PROVE  Cardinality(upTo(x)) < Cardinality(upTo(y))
  <2>1. upTo(x) \subseteq upTo(y) /\ y \in upTo(y) /\ y \notin upTo(x)
    BY <1>5
  <2>2. IsFiniteSet(upTo(y)) /\ Cardinality(upTo(x)) \in Nat /\ Cardinality(upTo(y)) \in Nat
    BY <1>3
  <2> HIDE DEF upTo
  <2>3. QED
    BY <2>1, <2>2, FS_Subset
<1>6. rank \in Injection(S, 1 .. n)
  <2>1. rank \in [S -> 1 .. n]
    BY <1>1, <1>3, <1>4
  <2>2. ASSUME NEW x \in S, NEW y \in S, rank[x] = rank[y]
        PROVE  x = y
    <3>1. ~(o[x] < o[y]) /\ ~(o[y] < o[x])
      <4>1. Cardinality(upTo(x)) = Cardinality(upTo(y)) /\ Cardinality(upTo(x)) \in Nat
        BY <2>2, <1>3
      <4> HIDE DEF upTo
      <4>2. QED
        BY <4>1, <1>5
    <3>2. QED
      BY <3>1
  <2> HIDE DEF rank, n
  <2>3. QED
    BY <2>1, <2>2 DEF Injection, IsInjective
<1>7. rank \in Surjection(S, 1 .. n)
  <2>1. IsFiniteSet(1 .. n) /\ Cardinality(1 .. n) = n
    BY <1>1, FS_Interval
  <2> HIDE DEF rank
  <2>2. QED
    BY <2>1, <1>6, FS_Injection
<1> DEFINE s == [i \in 1 .. n |-> CHOOSE x \in S : rank[x] = i]
<1>8. \A i \in 1 .. n : s[i] \in S /\ rank[s[i]] = i
  <2> HIDE DEF rank
  <2>1. QED
    BY <1>7 DEF Surjection
<1>9. ASSUME NEW i \in 1 .. n, NEW j \in 1 .. n, i < j
      PROVE  o[s[i]] < o[s[j]]
  <2>1. s[i] \in S /\ s[j] \in S /\ Cardinality(upTo(s[i])) = i /\ Cardinality(upTo(s[j])) = j
    BY <1>8
  <2> HIDE DEF s, upTo
  <2>2. s[i] # s[j]
    BY <2>1, <1>9
  <2>3. ~(o[s[j]] < o[s[i]])
    BY <2>1, <1>5, <1>9
  <2>4. QED
    BY <2>1, <2>2, <2>3
<1>10. s \in [1 .. n -> S]
  BY <1>8
<1>11. QED
  <2> HIDE DEF s
  <2>1. QED
    BY <1>9, <1>10

LEMMA SortedFacts ==
  ASSUME NEW S, IsFiniteSet(S), NEW o, \A x \in S : o[x] \in Nat,
         \A x, y \in S : x # y => o[x] # o[y]
  PROVE  /\ Sorted(S, o) \in Seq(S) /\ Len(Sorted(S, o)) = Cardinality(S)
         /\ Cardinality(S) \in Nat
         /\ Sorted(S, o) \in [1 .. Cardinality(S) -> S]
         /\ IsInjective(Sorted(S, o)) /\ SetOf(Sorted(S, o)) = S
<1> DEFINE s == Sorted(S, o)  n == Cardinality(S)
<1>1. s \in [1 .. n -> S] /\ \A i, j \in DOMAIN s : i < j => o[s[i]] < o[s[j]]
  BY SortedExists DEF Sorted
<1>2. n \in Nat
  BY FS_CardinalityType
<1> HIDE DEF s
<1>3. s \in Seq(S) /\ Len(s) = n
  BY <1>1, <1>2
<1>4. IsInjective(s)
  <2>1. ASSUME NEW i \in 1 .. n, NEW j \in 1 .. n, s[i] = s[j]
        PROVE  i = j
    <3>1. s[i] \in S /\ o[s[i]] \in Nat
      BY <1>1
    <3>2. ~(i < j) /\ ~(j < i)
      BY <1>1, <2>1, <3>1
    <3>3. QED
      BY <3>2, <1>2
  <2>2. QED
    BY <2>1, <1>1 DEF IsInjective
<1>5. SetOf(s) = S
  <2>1. s \in Injection(1 .. n, S)
    <3> HIDE DEF n
    <3>1. QED
      BY <1>1, <1>4 DEF Injection, IsInjective
  <2>2. Cardinality(1 .. n) = n
    BY <1>2, FS_Interval
  <2>3. s \in Surjection(1 .. n, S)
    BY <2>1, <2>2, FS_Injection
  <2>4. QED
    BY <2>3, <1>1 DEF Surjection, SetOf
<1>6. QED
  BY <1>1, <1>2, <1>3, <1>4, <1>5 DEF s

LEMMA OnosFinite == IsFiniteSet(Onos("c0"))
<1>1. IsFiniteSet({"c0"}) /\ IsFiniteSet(1 .. ServerCount + Scale)
  <2>1. 1 \in Int /\ ServerCount + Scale \in Int
    BY ExperimenterAssumption DEF Scale
  <2>2. QED
    BY <2>1, FS_Singleton, FS_Interval
<1>2. IsFiniteSet({"c0"} \X (1 .. ServerCount + Scale))
  BY <1>1, FS_Product
<1>3. QED
  BY <1>2 DEF Onos

(* Nodes of the scaling test, by address or by number.                       *)
LEMMA SortedNodes ==
  ASSUME NEW S \in SUBSET Onos("c0"), NEW o, o \in Orders(Onos("c0")) \/ o = HostNumber
  PROVE  /\ Sorted(S, o) \in Seq(S) /\ Len(Sorted(S, o)) = Cardinality(S)
         /\ Cardinality(S) \in Nat
         /\ Sorted(S, o) \in [1 .. Cardinality(S) -> S]
         /\ IsInjective(Sorted(S, o)) /\ SetOf(Sorted(S, o)) = S
<1>1. IsFiniteSet(S)
  BY OnosFinite, FS_Subset
<1>2. (\A x \in S : o[x] \in Nat) /\ (\A x, y \in S : x # y => o[x] # o[y])
  <2>1. CASE o \in Orders(Onos("c0"))
    BY <2>1 DEF Orders
  <2>2. CASE o = HostNumber
    BY <2>2, ExperimenterAssumption DEF HostNumber, Onos, Scale
  <2>3. QED
    BY <2>1, <2>2
<1>3. QED
  BY <1>1, <1>2, SortedFacts

(* A sequence without repetitions has as many elements as its set.           *)
LEMMA LenIsCardinality ==
  ASSUME NEW T, NEW s \in Seq(T), IsInjective(s)
  PROVE  IsFiniteSet(SetOf(s)) /\ Cardinality(SetOf(s)) = Len(s)
<1>1. s \in Bijection(1 .. Len(s), SetOf(s))
  <2>1. s \in [1 .. Len(s) -> SetOf(s)] /\ DOMAIN s = 1 .. Len(s)
    BY DEF SetOf
  <2>2. s \in Injection(1 .. Len(s), SetOf(s))
    BY <2>1 DEF Injection, IsInjective
  <2>3. s \in Surjection(1 .. Len(s), SetOf(s))
    BY <2>1 DEF Surjection, SetOf
  <2>4. QED
    BY <2>2, <2>3 DEF Bijection
<1>2. ExistsBijection(1 .. Len(s), SetOf(s))
  BY <1>1 DEF ExistsBijection
<1>3. IsFiniteSet(SetOf(s))
  BY <1>2, FS_NatBijection
<1>4. QED
  BY <1>2, <1>3, FS_CountingElements
(* The first elements of a sequence.                                         *)
LEMMA PrefixFacts ==
  ASSUME NEW T, NEW s \in Seq(T), NEW n \in 0 .. Len(s)
  PROVE  /\ SubSeq(s, 1, n) \in Seq(T) /\ Len(SubSeq(s, 1, n)) = n
         /\ \A i \in 1 .. n : SubSeq(s, 1, n)[i] = s[i]
         /\ IsInjective(s) => IsInjective(SubSeq(s, 1, n))
         /\ SetOf(SubSeq(s, 1, n)) \subseteq SetOf(s)
<1>1. /\ SubSeq(s, 1, n) \in Seq(T) /\ Len(SubSeq(s, 1, n)) = n
      /\ \A i \in 1 .. n : SubSeq(s, 1, n)[i] = s[i]
  OBVIOUS
<1>2. DOMAIN SubSeq(s, 1, n) = 1 .. n /\ 1 .. n \subseteq DOMAIN s
  BY <1>1
<1>3. IsInjective(s) => IsInjective(SubSeq(s, 1, n))
  BY <1>1, <1>2 DEF IsInjective
<1>4. SetOf(SubSeq(s, 1, n)) \subseteq SetOf(s)
  BY <1>1, <1>2 DEF SetOf
<1>5. QED
  BY <1>1, <1>3, <1>4
-----------------------------------------------------------------------------
LEMMA TypeStart ==
  ASSUME Init
  PROVE  TypeInv
<1>1. ScriptInv /\ ListInv
  BY DEF Init, ScriptInv, ListInv, Kinds, Steps, Tests, Later, Serves
<1>2. ActiveInv /\ CtlInv
  BY DEF Init, ActiveInv, CtlInv, IsInjective
<1>3. HostInv
  BY ExperimenterAssumption DEF Init, HostInv, Tests
<1>4. QED
  BY <1>1, <1>2, <1>3 DEF TypeInv

(* At the end of a session nothing is left of it but what the host has.      *)
LEMMA LeaveKeepsTypes ==
  ASSUME TypeInv, Leave,
         dir' \subseteq Nodes \cup Tennisons, stale' \subseteq Nodes,
         services' \subseteq Tennisons \X {"mongod", "coordinator"}
  PROVE  TypeInv'
<1>1. ScriptInv' /\ ListInv'
  BY DEF Leave, ScriptInv, ListInv, Kinds, Steps, Tests, Later, Serves
<1>2. ActiveInv' /\ CtlInv'
  BY DEF Leave, ActiveInv, CtlInv, IsInjective
<1>3. HostInv'
  BY DEF Leave, TypeInv, HostInv, hist, Tests
<1>4. QED
  BY <1>1, <1>2, <1>3 DEF TypeInv

LEMMA UpAreNodes == Up \subseteq Nodes
BY DEF Up

LEMMA TypeStep ==
  ASSUME TypeInv, [Next]_vars
  PROVE  TypeInv'
<1> USE DEF TypeInv
<1>1. ASSUME NEW k \in Kinds, Begin(k) PROVE TypeInv'
  <2>1. Machines(k) \in Seq(Nodes \cup Tennisons) /\ Len(Machines(k)) > 0
    BY MachinesFacts
  <2>2. ScriptInv'
    BY <1>1 DEF Begin, Go, ScriptInv, Steps, Later, Serves, ClustersOf, Kinds
  <2>3. ListInv'
    BY <1>1, <2>1 DEF Begin, Go, ListInv, Tests
  <2>4. ActiveInv'
    <3>1. CASE k = "scaling"
      BY <1>1, <3>1, BeginsWithNodes DEF Begin, Go, ActiveInv, Grown, CtlInv
    <3>2. CASE k \in {"multi", "partition"}
      <4>1. 1 \in 1 .. Len(ClustersOf(k))
        BY DEF ClustersOf
      <4>2. QED
        BY <1>1, <3>2, <4>1, HostsFacts DEF Begin, Go, ActiveInv
    <3>3. QED
      BY <3>1, <3>2 DEF Kinds
  <2>5. CtlInv'
    BY <1>1 DEF Begin, Go, CtlInv, Grown
  <2>6. HostInv'
    BY <1>1, ExperimenterAssumption DEF Begin, HostInv, onos, host
  <2>7. QED
    BY <2>2, <2>3, <2>4, <2>5, <2>6
<1>2. CASE Unpack \/ unpackTENNISON
  <2>1. Unpacked(pos = Len(list)) /\ at = "unpack"
    BY <1>2 DEF Unpack, unpackTENNISON
  <2>2. list[pos] \in Nodes \cup Tennisons /\ kind \in Kinds
    BY <2>1 DEF ListInv, ScriptInv
  <2>3. ScriptInv'
    BY <2>1 DEF Unpacked, Go, Onward, ScriptInv, Steps, Later, Serves
  <2>4. ListInv'
    <3>1. Len(active) \in Nat \ {0} /\ active \in Seq(Nodes \cup Tennisons)
      BY <2>2 DEF ActiveInv, Kinds
    <3>2. CASE pos = Len(list)
      BY <2>1, <2>2, <3>1, <3>2 DEF Unpacked, Go, ListInv, net, Tests, Kinds
    <3>3. CASE pos # Len(list)
      BY <2>1, <2>2, <3>3 DEF Unpacked, Onward, ListInv, net, Tests, Kinds
    <3>4. QED
      BY <3>2, <3>3
  <2>5. ActiveInv' /\ CtlInv'
    BY <2>1 DEF Unpacked, Go, Onward, ActiveInv, CtlInv, Grown, net, Serves
  <2>6. HostInv'
    BY <2>1, <2>2 DEF Unpacked, Go, Onward, HostInv, net, onos, hist
  <2>7. QED
    BY <2>3, <2>4, <2>5, <2>6
<1>3. CASE UnpackFails
  <2>1. list[pos] \in Nodes \cup Tennisons
    BY <1>3 DEF ListInv, UnpackFails
  <2>2. QED
    BY <1>3, <2>1, LeaveKeepsTypes DEF UnpackFails, HostInv
<1>4. CASE Killed \/ QuitMulti \/ Exit \/ DiedAlert \/ HealthAlert
  <2>1. Leave /\ dir' \subseteq dir /\ stale' \subseteq stale \cup Up /\ services' \subseteq services
    BY <1>4 DEF Killed, QuitMulti, StopTennison, Exit, DiedAlert, HealthAlert, sanityAlert, host
  <2>2. QED
    BY <2>1, LeaveKeepsTypes, UpAreNodes DEF HostInv
<1>5. CASE StartNode
  <2>1. /\ at = "start" /\ kind \in {"multi", "partition"} /\ list[pos] \in Nodes /\ list = active
        /\ active \in Seq(Nodes) /\ active # <<>> /\ active[1] \in Nodes
    BY <1>5 DEF StartNode, ListInv, ScriptInv, ActiveInv, Kinds
  <2>2. Len(Rules(list)) \in Nat \ {0}
    BY <2>1, RulesAreSeq
  <2>3. ScriptInv'
    BY <1>5, <2>1, NotTennison DEF StartNode, Go, Onward, ScriptInv, Steps, Later, Serves
  <2>4. ListInv'
    BY <1>5, <2>1, <2>2 DEF StartNode, Go, Onward, ListInv, Tests
  <2>5. ActiveInv' /\ CtlInv'
    BY <1>5, <2>1 DEF StartNode, Go, Onward, ActiveInv, CtlInv, Serves
  <2>6. HostInv'
    BY <1>5, <2>1 DEF StartNode, StartOnos, Go, Onward, HostInv, host, hist, Tests
  <2>7. QED
    BY <2>3, <2>4, <2>5, <2>6
<1>6. CASE StartActive
  <2>1. /\ at = "start" /\ kind = "scaling" /\ list[pos] \in Nodes /\ list = active
        /\ active \in Seq(Nodes) /\ active # <<>> /\ active[1] \in Nodes
    BY <1>6 DEF StartActive, ListInv, ScriptInv, ActiveInv, Kinds
  <2>2. Len(Rules(list)) \in Nat \ {0}
    BY <2>1, RulesAreSeq
  <2>3. ScriptInv'
    BY <1>6, <2>1, NotTennison DEF StartActive, Go, Onward, ScriptInv, Steps, Later, Serves
  <2>4. ListInv'
    BY <1>6, <2>1, <2>2 DEF StartActive, Go, Onward, ListInv, Tests
  <2>5. ActiveInv' /\ CtlInv'
    BY <1>6, <2>1 DEF StartActive, Go, Onward, ActiveInv, CtlInv, Grown
  <2>6. HostInv'
    BY <1>6, <2>1 DEF StartActive, StartDynamic, StartOnos, Go, Onward, HostInv, host, Tests
  <2>7. QED
    BY <2>3, <2>4, <2>5, <2>6
<1>7. CASE StartNew
  <2>1. at = "join" /\ kind = "scaling" /\ list[pos] \in Nodes /\ list \in Seq(Nodes) /\ ctl # <<>>
    BY <1>7 DEF StartNew, ListInv, ScriptInv, CtlInv, Grown
  <2>2. ScriptInv'
    BY <1>7, <2>1 DEF StartNew, Go, Onward, ScriptInv, Steps, Later, Serves
  <2>3. ListInv'
    BY <1>7, <2>1 DEF StartNew, Go, Onward, ListInv, Tests
  <2>4. ActiveInv' /\ CtlInv'
    BY <1>7, <2>1 DEF StartNew, Go, Onward, ActiveInv, CtlInv, Grown
  <2>5. HostInv'
    BY <1>7, <2>1 DEF StartNew, StartDynamic, StartOnos, Go, Onward, HostInv, host, hist, Tests
  <2>6. QED
    BY <2>2, <2>3, <2>4, <2>5
<1>8. CASE Delete
  <2>1. /\ at \in {"delete", "undo"} /\ active \in Seq(Nodes) /\ active # <<>>
        /\ (list = active \/ (kind = "multi" /\ \E m \in Tennisons : list = <<m>>))
        /\ kind \in Kinds
    BY <1>8 DEF Delete, ListInv, ScriptInv, ActiveInv
  <2>2. Len(Rules(list)) \in Nat \ {0}
    BY <2>1, RulesAreSeq
  <2>3. ScriptInv'
    BY <1>8, <2>1 DEF Delete, Go, Onward, ScriptInv, Steps, Later, Serves, net
  <2>4. ListInv'
    BY <1>8, <2>1, <2>2 DEF Delete, Go, Onward, ListInv, Tests, net, ScriptInv
  <2>5. ActiveInv' /\ CtlInv'
    BY <1>8, <2>1 DEF Delete, Go, Onward, ActiveInv, CtlInv, Grown, net, Serves, ScriptInv
  <2>6. HostInv'
    BY <1>8, <2>1 DEF Delete, Go, Onward, HostInv, net, onos, hist
  <2>7. QED
    BY <2>3, <2>4, <2>5, <2>6
<1>9. CASE Add
  <2>1. /\ at = "append" /\ active \in Seq(Nodes) /\ active # <<>> /\ active[1] \in Nodes
        /\ (list = active \/ (kind = "multi" /\ \E m \in Tennisons : list = <<m>>))
        /\ kind \in Kinds
    BY <1>9 DEF Add, ListInv, ScriptInv, ActiveInv
  <2>2. Len(Rules(list)) \in Nat \ {0}
    BY <2>1, RulesAreSeq
  <2>3. IsTennison(list[1]) => kind = "multi" /\ cluster = Len(ClustersOf(kind))
    BY <2>1, NotTennison DEF ScriptInv, Serves
  <2>4. ~IsTennison(list[1]) => list = active /\ list \in Seq(Nodes) /\ Len(list) > 0
    BY <2>1 DEF Tennisons, IsTennison
  <2>5. /\ <<"beta", 100>> \in Tennisons /\ <<<<"beta", 100>>>> \in Seq(Nodes \cup Tennisons)
        /\ <<>> \in Seq(Nodes \cup Tennisons)
    BY DEF Tennisons
  <2>6. CASE pos < Len(Rules(list))
    <3>1. ScriptInv' /\ ListInv'
      BY <1>9, <2>1, <2>6 DEF Add, Onward, ScriptInv, ListInv, Steps, Later, Serves, Tests, net
    <3>2. ActiveInv' /\ CtlInv' /\ HostInv'
      BY <1>9, <2>1, <2>6 DEF Add, Onward, ActiveInv, CtlInv, HostInv, Grown, Serves, net, onos, hist
    <3>3. QED
      BY <3>1, <3>2
  <2>7. CASE pos >= Len(Rules(list)) /\ ~IsTennison(list[1])
    <3>1. pos' = 1 /\ test' = 1 /\ at' = "wait" /\ UNCHANGED <<list, cluster, kind, net>>
      BY <1>9, <2>2, <2>7 DEF Add, Go, ListInv, ScriptInv
    <3>2. ScriptInv' /\ ListInv'
      BY <2>1, <2>4, <2>7, <3>1 DEF ScriptInv, ListInv, Steps, Later, Serves, Tests, net
    <3>3. ActiveInv' /\ CtlInv' /\ HostInv'
      BY <1>9, <2>1, <2>7, <3>1 DEF Add, ActiveInv, CtlInv, HostInv, Grown, Serves, net, onos, hist
    <3>4. QED
      BY <3>2, <3>3
  <2>8. CASE pos >= Len(Rules(list)) /\ IsTennison(list[1])
    <3>1. /\ UNCHANGED <<cluster, kind, net>> /\ pos' = 1 /\ test' = 1
          /\ \/ at' = "tennison" /\ list' = <<<<"beta", 100>>>>
             \/ at' = "cli" /\ list' = <<>>
      BY <1>9, <2>2, <2>8 DEF Add, Go, ListInv, ScriptInv
    <3>2. ScriptInv'
      BY <2>1, <2>3, <2>8, <3>1 DEF ScriptInv, Steps, Later, Serves
    <3>3. ListInv'
      <4>a. test' \in 0 .. Tests
        BY <3>1 DEF Tests
      <4>b. list' = <<<<"beta", 100>>>> \/ list' = <<>>
        BY <3>1
      <4>1. test' \in 0 .. Tests /\ list' \in Seq(Nodes \cup Tennisons)
        BY <4>a, <4>b, <2>5, Zenon
      <4>2. at' = "tennison" => \E m \in Tennisons : list' = <<m>>
        BY <2>5, <3>1
      <4>3. QED
        BY <3>1, <4>1, <4>2 DEF ListInv
    <3>4. ActiveInv' /\ CtlInv' /\ HostInv'
      BY <1>9, <2>1, <2>3, <2>8, <3>1 DEF Add, ActiveInv, CtlInv, HostInv, Grown, Serves, net, onos, hist
    <3>5. QED
      BY <3>2, <3>3, <3>4
  <2>9. QED
    BY <2>1, <2>2, <2>6, <2>7, <2>8 DEF ListInv
<1>10. ASSUME NEW n \in Nodes, Boot(n) \/ Die(n) PROVE TypeInv'
  <2>1. UNCHANGED <<script, net, host, hist>>
    BY <1>10 DEF Boot, Die
  <2>2. ScriptInv' /\ ListInv' /\ ActiveInv' /\ CtlInv'
    BY <2>1 DEF script, net, ScriptInv, ListInv, ActiveInv, CtlInv, Grown, Later, Serves
  <2>3. HostInv'
    BY <1>10, <2>1 DEF Boot, Die, HostInv, script, net, host, hist, Tests
  <2>4. QED
    BY <2>2, <2>3
<1>11. CASE Wait
  <2>1. /\ at = "wait" /\ kind \in Kinds /\ list \in Seq(Nodes) /\ pos \in 1 .. Len(list)
        /\ UNCHANGED <<kind, order, started, ctl, link, file, onos, host, hist>>
        /\ cluster \in 1 .. Len(ClustersOf(kind))
    BY <1>11 DEF Wait, ScriptInv, ListInv
  <2>2. HostInv'
    <3>1. at' \notin {"unpack", "start"} \/ kind # "scaling"
      BY <1>11, <2>1 DEF Wait, Waited, Go, Onward, ClustersOf
    <3>2. QED
      BY <2>1, <3>1 DEF HostInv, onos, host, hist
  <2>3. CASE test < Tests
    <3>1. test' = test + 1 /\ UNCHANGED <<at, list, pos, cluster, active>>
      BY <1>11, <2>3 DEF Wait
    <3>2. ScriptInv' /\ ListInv'
      BY <2>1, <2>3, <3>1 DEF ScriptInv, ListInv, Later, Serves, Tests
    <3>3. ActiveInv' /\ CtlInv'
      BY <2>1, <3>1 DEF ActiveInv, CtlInv, Grown, Serves
    <3>4. QED
      BY <2>2, <3>2, <3>3
  <2>4. CASE test >= Tests /\ pos < Len(list)
    <3>1. at' = at /\ pos' = pos + 1 /\ test' = 1 /\ UNCHANGED <<list, cluster, active>>
      BY <1>11, <2>1, <2>4 DEF Wait, Onward, ListInv, Tests
    <3>2. ScriptInv' /\ ListInv'
      BY <2>1, <2>4, <3>1 DEF ScriptInv, ListInv, Later, Serves, Tests
    <3>3. ActiveInv' /\ CtlInv'
      BY <2>1, <3>1 DEF ActiveInv, CtlInv, Grown, Serves
    <3>4. QED
      BY <2>2, <3>2, <3>3
  <2>5. CASE test >= Tests /\ pos >= Len(list) /\ (ctl # <<>> \/ cluster >= Len(ClustersOf(kind)))
    <3>1. /\ UNCHANGED <<cluster, active>> /\ list' = <<>> /\ pos' = 1 /\ test' = 1
          /\ at' = IF ctl # <<>> THEN "grow" ELSE "switches"
      BY <1>11, <2>1, <2>5 DEF Wait, Waited, Go, ListInv, Tests, ScriptInv
    <3>2. ctl # <<>> => kind = "scaling" /\ Len(ClustersOf(kind)) = 1
      BY <2>1 DEF CtlInv, Serves, Kinds, ClustersOf
    <3>3. ScriptInv'
      <4>1. Len(ClustersOf(kind)) \in {1, 2}
        BY <2>1 DEF ClustersOf
      <4>2. cluster = Len(ClustersOf(kind))
        <5> DEFINE n == Len(ClustersOf(kind))
        <5>1. n \in {1, 2} /\ cluster \in 1 .. n /\ (n = 1 \/ cluster >= n)
          BY <2>1, <2>5, <3>2, <4>1
        <5> HIDE DEF n
        <5>2. cluster = n
          BY <5>1
        <5>3. QED
          BY <5>2 DEF n
      <4>3. QED
        BY <2>1, <3>1, <3>2, <4>2 DEF ScriptInv, Later, Serves, Steps
    <3>4. ListInv'
      BY <3>1 DEF ListInv, Tests
    <3>5. ActiveInv' /\ CtlInv'
      BY <2>1, <3>1, <3>2 DEF ActiveInv, CtlInv, Grown, Serves
    <3>6. QED
      BY <2>2, <3>3, <3>4, <3>5
  <2>6. CASE test >= Tests /\ pos >= Len(list) /\ ctl = <<>> /\ cluster < Len(ClustersOf(kind))
    <3>1. kind = "multi" /\ cluster = 1 /\ Len(ClustersOf(kind)) = 2
      BY <2>1, <2>6 DEF ClustersOf, Kinds
    <3> DEFINE l == HostsOf(kind, ClustersOf(kind)[2])
    <3>2. cluster' = 2 /\ active' = l /\ list' = l /\ pos' = 1 /\ test' = 1 /\ at' = "start"
      BY <1>11, <2>1, <2>6, <3>1 DEF Wait, Waited, Go, ListInv, Tests
    <3>3. l \in Seq(Nodes) /\ l # <<>> /\ IsInjective(l)
      BY <3>1, HostsFacts
    <3>4. l \in Seq(Nodes \cup Tennisons) /\ Len(l) > 0
      BY <3>3
    <3>5. ScriptInv'
      BY <2>1, <3>1, <3>2 DEF ScriptInv, Later, Serves, Steps
    <3>6. ListInv'
      BY <3>2, <3>4 DEF ListInv, Tests
    <3>7. ActiveInv' /\ CtlInv'
      BY <2>1, <2>6, <3>1, <3>2, <3>3 DEF ActiveInv, CtlInv
    <3>8. QED
      BY <2>2, <3>5, <3>6, <3>7
  <2>7. QED
    BY <2>1, <2>3, <2>4, <2>5, <2>6 DEF ListInv, Tests, ScriptInv
<1>12. CASE StartSwitches
  <2>1. /\ at = "switches" /\ kind \in Kinds /\ ctl' # <<>> /\ cluster = Len(ClustersOf(kind)) /\ ctl = <<>>
    BY <1>12 DEF StartSwitches, ScriptInv, Later, MultiSwitches, CtlInv, Grown, Kinds, Serves
  <2>2. /\ UNCHANGED <<kind, cluster, active, order, started, link, file, onos, host, hist>>
        /\ pos' = 1 /\ test' = 1
        /\ \/ kind = "multi" /\ at' = "tennison" /\ list' = <<<<"alpha", 100>>>>
           \/ kind = "partition" /\ at' = "cut" /\ list' = <<>>
           \/ kind = "scaling" /\ at' = "sort" /\ list' = <<>>
    BY <1>12, <2>1 DEF StartSwitches, Go, Kinds
  <2>3. <<"alpha", 100>> \in Tennisons /\ <<<<"alpha", 100>>>> \in Seq(Nodes \cup Tennisons)
    BY DEF Tennisons
  <2>4. ScriptInv'
    BY <2>1, <2>2 DEF ScriptInv, Steps, Later, Serves
  <2>5. ListInv'
    <3>1. test' \in 0 .. Tests
      BY <2>2 DEF Tests
    <3>2. list' = <<<<"alpha", 100>>>> \/ list' = <<>>
      BY <2>2
    <3>3. list' \in Seq(Nodes \cup Tennisons)
      <4>1. <<>> \in Seq(Nodes \cup Tennisons)
        OBVIOUS
      <4>2. QED
        BY <3>2, <4>1, <2>3, Zenon
    <3>4. at' = "tennison" => \E m \in Tennisons : list' = <<m>>
      BY <2>2, <2>3
    <3>5. QED
      BY <2>2, <3>1, <3>3, <3>4 DEF ListInv
  <2>6. ActiveInv' /\ CtlInv'
    BY <2>1, <2>2 DEF ActiveInv, CtlInv, Grown, Serves
  <2>7. HostInv'
    BY <2>2 DEF HostInv, onos, host, hist
  <2>8. QED
    BY <2>4, <2>5, <2>6, <2>7
<1>13. CASE StartTennison
  <2>1. /\ at = "tennison" /\ kind = "multi" /\ cluster = Len(ClustersOf(kind))
        /\ list[1] \in Tennisons /\ IsTennison(list[1]) /\ \E m \in Tennisons : list = <<m>>
    BY <1>13 DEF StartTennison, ScriptInv, ListInv, Later, IsTennison, Tennisons
  <2>2. Len(Rules(list)) \in Nat \ {0}
    BY <2>1, RulesAreSeq
  <2>3. ScriptInv' /\ ListInv'
    BY <1>13, <2>1, <2>2 DEF StartTennison, Go, ScriptInv, ListInv, Steps, Later, Serves, Tests
  <2>4. ActiveInv' /\ CtlInv'
    BY <1>13, <2>1 DEF StartTennison, Go, ActiveInv, CtlInv, Grown, net, Serves
  <2>5. HostInv'
    BY <1>13, <2>1 DEF StartTennison, Go, HostInv, net, onos, hist
  <2>6. QED
    BY <2>3, <2>4, <2>5
<1>14. CASE Cut \/ Heal
  <2>a. ScriptInv'
    BY <1>14 DEF Cut, Heal, Go, ScriptInv, Steps, Later, Serves
  <2>b. ListInv'
    <3>1. at' \in {"heal", "cli"} /\ list' = <<>> /\ test' = 1
      BY <1>14 DEF Cut, Heal, Go
    <3>2. QED
      BY <3>1 DEF ListInv, Tests
  <2>1. ScriptInv' /\ ListInv'
    BY <2>a, <2>b
  <2>2. ActiveInv' /\ CtlInv'
    BY <1>14 DEF Cut, Heal, Go, ActiveInv, CtlInv, Serves, ScriptInv
  <2>3. HostInv'
    BY <1>14 DEF Cut, Heal, Go, HostInv, onos, host, hist
  <2>4. QED
    BY <2>1, <2>2, <2>3
<1>15. CASE Sort
  <2>1. /\ at = "sort" /\ kind = "scaling" /\ active \in Seq(Onos("c0")) /\ ctl # <<>>
        /\ order' \in Orders(Onos("c0"))
        /\ UNCHANGED <<kind, cluster, started, ctl, link, file, onos, host, hist>>
    BY <1>15 DEF Sort, ScriptInv, ActiveInv, CtlInv
  <2> DEFINE S == SetOf(active) \cup {<<"c0", 1>>}
             l == Sorted(S, order')
  <2>2. S \in SUBSET Onos("c0") /\ S # {}
    <3>1. \A i \in DOMAIN active : active[i] \in Onos("c0")
      BY <2>1
    <3>2. <<"c0", 1>> \in Onos("c0")
      BY ExperimenterAssumption DEF Onos, Scale
    <3>3. QED
      BY <3>1, <3>2 DEF SetOf
  <2>3. active' = l /\ list' = l \o l /\ at' = "wait" /\ pos' = 1 /\ test' = 1
    BY <1>15 DEF Sort, Go
  <2>4. l \in Seq(S) /\ IsInjective(l) /\ SetOf(l) = S
    <3> HIDE DEF S
    <3>1. QED
      BY <2>1, <2>2, SortedNodes
  <2> HIDE DEF S, l
  <2>5. l \in Seq(Onos("c0")) /\ l \in Seq(Nodes) /\ Len(l) > 0
    <3>1. l # <<>>
      BY <2>2, <2>4 DEF SetOf
    <3>2. QED
      BY <2>2, <2>4, <3>1 DEF Nodes
  <2>6. l \o l \in Seq(Nodes) /\ Len(l \o l) > 0
    BY <2>5
  <2>7. l \o l \in Seq(Nodes \cup Tennisons)
    BY <2>6
  <2>8. ScriptInv'
    BY <2>1, <2>3 DEF ScriptInv, Steps, Later, Serves
  <2>9. ListInv'
    BY <2>1, <2>3, <2>6, <2>7 DEF ListInv, Tests
  <2>10. ActiveInv' /\ CtlInv'
    BY <2>1, <2>3, <2>4, <2>5 DEF ActiveInv, CtlInv, Grown
  <2>11. HostInv'
    BY <2>1, <2>3 DEF HostInv, onos, host, hist
  <2>12. QED
    BY <2>8, <2>9, <2>10, <2>11
<1>16. CASE Grow
  <2>1. /\ at = "grow" /\ kind = "scaling" /\ active \in Seq(Onos("c0")) /\ ctl # <<>>
        /\ order \in Orders(Onos("c0")) /\ active # <<>>
        /\ UNCHANGED <<kind, cluster, order, started, ctl, link, file, onos, host, hist>>
    BY <1>16 DEF Grow, ScriptInv, ActiveInv, CtlInv, Grown
  <2> DEFINE rest == Sorted(Onos("c0") \ started, HostNumber)
             new == SubSeq(rest, 1, IF Len(rest) < 2 THEN Len(rest) ELSE 2)
             S == SetOf(active) \cup SetOf(new)
             l == Sorted(S, order)
  <2>2. rest \in Seq(Onos("c0"))
    <3>1. rest \in Seq(Onos("c0") \ started)
      BY SortedNodes
    <3> HIDE DEF rest
    <3>2. QED
      BY <3>1
  <2>3. \/ new = <<>> /\ active' = active /\ list' = <<>> /\ at' = "shrink" /\ pos' = 1 /\ test' = 1
        \/ new # <<>> /\ active' = l /\ list' = new /\ at' = "join" /\ pos' = 1 /\ test' = 1
    BY <1>16 DEF Grow, Go
  <2> HIDE DEF rest
  <2>4. new \in Seq(Onos("c0"))
    BY <2>2
  <2> HIDE DEF new
  <2>5. CASE new = <<>>
    <3>1. active' = active /\ list' = <<>> /\ at' = "shrink" /\ test' = 1
      BY <2>3, <2>5
    <3>2. ScriptInv'
      BY <2>1, <3>1 DEF ScriptInv, Steps, Later, Serves
    <3>3. ListInv'
      BY <3>1 DEF ListInv, Tests
    <3>4. ActiveInv' /\ CtlInv'
      BY <2>1, <3>1 DEF ActiveInv, CtlInv, Grown
    <3>5. HostInv'
      BY <2>1, <3>1 DEF HostInv, onos, host, hist
    <3>6. QED
      BY <3>2, <3>3, <3>4, <3>5
  <2>6. CASE new # <<>>
    <3>1. active' = l /\ list' = new /\ at' = "join" /\ pos' = 1 /\ test' = 1
      BY <2>3, <2>6
    <3>2. S \in SUBSET Onos("c0") /\ S # {}
      <4>1. \A i \in DOMAIN active : active[i] \in Onos("c0")
        BY <2>1
      <4>2. \A i \in DOMAIN new : new[i] \in Onos("c0")
        BY <2>4
      <4>3. 1 \in DOMAIN active
        BY <2>1
      <4>4. QED
        BY <4>1, <4>2, <4>3 DEF SetOf
    <3> HIDE DEF S
    <3>3. l \in Seq(S) /\ IsInjective(l) /\ SetOf(l) = S
      BY <2>1, <3>2, SortedNodes
    <3> HIDE DEF l
    <3>4. l \in Seq(Onos("c0")) /\ l \in Seq(Nodes) /\ l # <<>>
      BY <3>2, <3>3 DEF SetOf, Nodes
    <3>5. new \in Seq(Nodes) /\ new \in Seq(Nodes \cup Tennisons) /\ Len(new) > 0
      BY <2>4, <2>6 DEF Nodes
    <3>6. ScriptInv'
      BY <2>1, <3>1 DEF ScriptInv, Steps, Later, Serves
    <3>7. ListInv'
      BY <2>1, <3>1, <3>5 DEF ListInv, Tests
    <3>8. ActiveInv' /\ CtlInv'
      BY <2>1, <3>1, <3>3, <3>4 DEF ActiveInv, CtlInv, Grown
    <3>9. HostInv'
      BY <2>1, <3>1 DEF HostInv, onos, host, hist
    <3>10. QED
      BY <3>6, <3>7, <3>8, <3>9
  <2>7. QED
    BY <2>5, <2>6
<1>17. CASE Shrink
  <2>1. /\ at = "shrink" /\ kind = "scaling" /\ active \in Seq(Onos("c0")) /\ ctl # <<>> /\ IsInjective(active)
        /\ UNCHANGED <<kind, cluster, order, started, ctl, link, onos, host, hist>>
    BY <1>17 DEF Shrink, ScriptInv, ActiveInv, CtlInv, Grown
  <2>2. CASE Len(active) > 1
    <3>1. active' = Front(active) /\ UNCHANGED <<at, list, pos, test>>
      BY <1>17, <2>2 DEF Shrink
    <3>2. Front(active) \in Seq(Onos("c0")) /\ IsInjective(Front(active)) /\ Len(Front(active)) > 0
      BY <2>1, <2>2, PrefixFacts DEF Front
    <3>3. Front(active) \in Seq(Nodes) /\ Front(active) # <<>>
      BY <3>2 DEF Nodes
    <3>4. ScriptInv' /\ ListInv'
      BY <2>1, <3>1 DEF ScriptInv, ListInv, Later, Serves
    <3>5. ActiveInv' /\ CtlInv'
      BY <2>1, <3>1, <3>2, <3>3 DEF ActiveInv, CtlInv, Grown
    <3>6. HostInv'
      BY <2>1, <3>1 DEF HostInv, onos, host, hist
    <3>7. QED
      BY <3>4, <3>5, <3>6
  <2>3. CASE ~(Len(active) > 1)
    <3>1. active' = active /\ list' = <<>> /\ at' = "cli" /\ test' = 1
      BY <1>17, <2>3 DEF Shrink, Go
    <3>2. ScriptInv'
      BY <2>1, <3>1 DEF ScriptInv, Steps, Later, Serves
    <3>3. ListInv'
      BY <3>1 DEF ListInv, Tests
    <3>4. ActiveInv' /\ CtlInv'
      BY <2>1, <3>1 DEF ActiveInv, CtlInv, Grown
    <3>5. HostInv'
      BY <2>1, <3>1 DEF HostInv, onos, host, hist
    <3>6. QED
      BY <3>2, <3>3, <3>4, <3>5
  <2>4. QED
    BY <2>2, <2>3
<1>18. CASE Quit
  <2>1. /\ at = "cli" /\ kind \in {"partition", "scaling"}
        /\ active \in Seq(Nodes) /\ active \in Seq(Nodes \cup Tennisons) /\ active # <<>>
    BY <1>18 DEF Quit, ScriptInv, ActiveInv, Kinds
  <2>2. Len(Rules(active)) \in Nat \ {0}
    BY <2>1, RulesAreSeq
  <2>3. ScriptInv'
    BY <1>18, <2>1 DEF Quit, Go, ScriptInv, Steps, Later, Serves
  <2>4. ListInv'
    BY <1>18, <2>1, <2>2 DEF Quit, Go, ListInv, Tests, net
  <2>5. ActiveInv' /\ CtlInv'
    BY <1>18, <2>1 DEF Quit, Go, ActiveInv, CtlInv, Grown, net
  <2>6. HostInv'
    BY <1>18, <2>1 DEF Quit, Go, HostInv, net, onos, host, hist
  <2>7. QED
    BY <2>3, <2>4, <2>5, <2>6
<1>19. CASE StopNode
  <2>1. at = "stop" /\ kind \in {"partition", "scaling"} /\ at' \in {"stop", "stopped"}
    BY <1>19 DEF StopNode, ScriptInv, Kinds, Go, Onward
  <2>2. ScriptInv'
    BY <1>19, <2>1 DEF StopNode, ScriptInv, Steps, Later, Serves
  <2>3. ListInv'
    <3>1. active' = active /\ list = active /\ pos \in 1 .. Len(list) /\ list \in Seq(Nodes \cup Tennisons)
      BY <1>19, <2>1 DEF StopNode, ListInv, net
    <3>2. test' = 1
      BY <1>19 DEF StopNode, Go, Onward
    <3>3. \/ pos < Len(list) /\ at' = "stop" /\ pos' = pos + 1 /\ list' = list
          \/ at' = "stopped" /\ list' = <<>>
      BY <1>19, <2>1 DEF StopNode, Go, Onward
    <3>4. list' \in Seq(Nodes \cup Tennisons) /\ test' \in 0 .. Tests
      <4>1. <<>> \in Seq(Nodes \cup Tennisons)
        OBVIOUS
      <4>2. list' = list \/ list' = <<>>
        BY <3>3
      <4>3. test' \in 0 .. Tests
        BY <3>2 DEF Tests
      <4>4. QED
        BY <3>1, <4>1, <4>2, <4>3, Zenon
    <3>5. at' = "stop" => list' = active' /\ pos' \in 1 .. Len(list')
      BY <3>1, <3>3
    <3>6. QED
      BY <2>1, <3>4, <3>5 DEF ListInv
  <2>4. ActiveInv' /\ CtlInv'
    BY <1>19, <2>1 DEF StopNode, ActiveInv, CtlInv, Grown, net
  <2>5. HostInv'
    BY <1>19, <2>1 DEF StopNode, HostInv, net, hist
  <2>6. QED
    BY <2>2, <2>3, <2>4, <2>5
<1>20. CASE UNCHANGED vars
  <2>1. ScriptInv' /\ ListInv' /\ ActiveInv' /\ CtlInv'
    BY <1>20 DEF vars, script, net, ScriptInv, ListInv, ActiveInv, CtlInv, Grown, Later, Serves
  <2>2. HostInv'
    BY <1>20 DEF vars, script, net, onos, host, hist, HostInv
  <2>3. QED
    BY <2>1, <2>2
<1>21. QED
  BY <1>1, <1>2, <1>3, <1>4, <1>5, <1>6, <1>7, <1>8, <1>9, <1>10, <1>11, <1>12, <1>13, <1>14, <1>15, <1>16,
     <1>17, <1>18, <1>19, <1>20 DEF Next, Script

(* The variables keep their types, whatever the sessions that were killed    *)
(* have left; what is sorted is a sequence of the set.                       *)
LEMMA TypesHold == Spec => []TypeInv
<1>1. QED
  BY TypeStart, TypeStep, PTL DEF Spec

(* TypeOK: every loop of a script is within its list, and the clusters that  *)
(* forwarded without deleting first are no more than the sessions.           *)
THEOREM ExperimenterTypes == Spec => []TypeOK
<1>1. TypeInv => TypeOK
  <2>1. ASSUME TypeInv PROVE TypeOK
    <3>1. SetOf(list) \subseteq Nodes \cup Tennisons /\ SetOf(active) \subseteq Nodes
      BY <2>1 DEF TypeInv, ListInv, ActiveInv, SetOf
    <3>2. QED
      BY <2>1, <3>1 DEF TypeInv, TypeOK, ScriptInv, ListInv, HostInv
  <2>2. QED
    BY <2>1
<1>2. QED
  BY <1>1, TypesHold, PTL
-----------------------------------------------------------------------------
(* genParts turns a deque of n nodes by up to two: of five places that       *)
(* follow each other, two that are less than n apart are different nodes.    *)
LEMMA TurnsApart ==
  ASSUME NEW n \in Nat \ {0}, NEW a \in 0 .. 4, NEW b \in 0 .. 4
  PROVE  /\ a % n \in 0 .. n - 1
         /\ a < n => a % n = a
         /\ a < b /\ b - a < n => a % n # b % n
<1>1. CASE n = 1
  BY <1>1
<1>2. CASE n = 2
  BY <1>2
<1>3. CASE n = 3
  BY <1>3
<1>4. CASE n = 4
  BY <1>4
<1>5. CASE n > 4
  <2>1. a % n = a /\ b % n = b
    BY <1>5
  <2>2. QED
    BY <1>5, <2>1
<1>6. QED
  BY <1>1, <1>2, <1>3, <1>4, <1>5

Least(i, j) == IF i < j THEN i ELSE j

LEMMA PartsFacts ==
  ASSUME NEW T, NEW l \in Seq(T), l # <<>>, IsInjective(l)
  PROVE  /\ \A p \in 1 .. 3 : /\ GenParts(l)[p] \subseteq SetOf(l)
                             /\ Cardinality(GenParts(l)[p]) = Least(Len(l), 3)
         /\ Len(l) <= 5 => UNION SetOf(GenParts(l)) = SetOf(l)
<1> DEFINE n == Len(l)
           m == Least(n, 3)
           place(p, j) == ((p + j - 2) % n) + 1
<1>1. n \in Nat \ {0} /\ DOMAIN l = 1 .. n /\ m \in 1 .. 3 /\ m <= n
  <2>1. n \in Nat \ {0} /\ DOMAIN l = 1 .. n
    OBVIOUS
  <2> HIDE DEF n
  <2>2. QED
    BY <2>1 DEF Least
<1>2. \A p \in 1 .. 3 : GenParts(l)[p] = {l[place(p, j)] : j \in 1 .. m}
  <2>1. {j \in DOMAIN l : j <= 3} = 1 .. m
    BY <1>1 DEF Least
  <2>2. QED
    BY <2>1 DEF GenParts
<1>3. \A p \in 1 .. 3, j \in 1 .. m : place(p, j) \in 1 .. n
  <2>1. ASSUME NEW p \in 1 .. 3, NEW j \in 1 .. m PROVE place(p, j) \in 1 .. n
    <3>1. p + j - 2 \in 0 .. 4
      BY <1>1
    <3>2. (p + j - 2) % n \in 0 .. n - 1
      BY <1>1, <3>1, TurnsApart
    <3> HIDE DEF n
    <3>3. QED
      BY <1>1, <3>2
  <2>2. QED
    BY <2>1
<1>4. ASSUME NEW p \in 1 .. 3, NEW j \in 1 .. m, NEW k \in 1 .. m, place(p, j) = place(p, k)
      PROVE  j = k
  <2> DEFINE a == p + j - 2
             b == p + k - 2
  <2>1. a \in 0 .. 4 /\ b \in 0 .. 4
    BY <1>1
  <2>2. a - b < n /\ b - a < n
    BY <1>1 DEF Least
  <2>3. a % n \in 0 .. n - 1 /\ b % n \in 0 .. n - 1
    BY <1>1, <2>1, TurnsApart
  <2>4. a % n = b % n
    <3> HIDE DEF n, a, b
    <3>1. (a % n) + 1 = (b % n) + 1
      BY <1>4 DEF a, b
    <3>2. QED
      BY <1>1, <2>3, <3>1
  <2>5. a = b
    <3> HIDE DEF n, a, b
    <3>1. ~(a < b) /\ ~(b < a)
      BY <1>1, <2>1, <2>2, <2>4, TurnsApart
    <3>2. QED
      BY <2>1, <3>1
  <2>6. QED
    BY <2>5, <1>1
<1> HIDE DEF place, n, m
<1>5. ASSUME NEW p \in 1 .. 3
      PROVE  GenParts(l)[p] \subseteq SetOf(l) /\ Cardinality(GenParts(l)[p]) = m
  <2> DEFINE s == [j \in 1 .. m |-> l[place(p, j)]]
  <2>1. s \in Seq(T) /\ Len(s) = m
    BY <1>1, <1>3
  <2>2. IsInjective(s)
    <3>1. ASSUME NEW j \in 1 .. m, NEW k \in 1 .. m, l[place(p, j)] = l[place(p, k)]
          PROVE  j = k
      <4>1. place(p, j) = place(p, k)
        BY <1>1, <1>3, <3>1 DEF IsInjective
      <4>2. QED
        BY <1>4, <4>1
    <3>2. QED
      BY <3>1 DEF IsInjective
  <2>3. GenParts(l)[p] = SetOf(s)
    BY <1>2 DEF SetOf
  <2> HIDE DEF s
  <2>4. Cardinality(SetOf(s)) = m
    BY <2>1, <2>2, LenIsCardinality
  <2>5. GenParts(l)[p] \subseteq SetOf(l)
    BY <1>1, <1>2, <1>3 DEF SetOf
  <2>6. QED
    BY <2>3, <2>4, <2>5
<1>6. ASSUME n <= 5, NEW i \in 1 .. n
      PROVE  \E p \in 1 .. 3 : l[i] \in GenParts(l)[p]
  <2>1. CASE i <= 3
    <3>1. i \in 1 .. m
      BY <1>1, <2>1 DEF m, Least
    <3>2. i - 1 \in 0 .. 4 /\ i - 1 < n
      BY <1>1, <1>6
    <3>3. place(1, i) = i
      <4>1. (i - 1) % n = i - 1
        BY <1>1, <3>2, TurnsApart
      <4>2. 1 + i - 2 = i - 1
        BY <1>1
      <4>3. QED
        BY <4>1, <4>2, <1>1 DEF place
    <3>4. QED
      BY <1>2, <3>1, <3>3
  <2>2. CASE i > 3
    <3>1. i - 2 \in 1 .. 3 /\ m = 3 /\ i - 1 \in 0 .. 4 /\ i - 1 < n
      BY <1>1, <1>6, <2>2 DEF m, Least
    <3>2. place(i - 2, 3) = i
      <4>1. (i - 1) % n = i - 1
        BY <1>1, <3>1, TurnsApart
      <4>2. (i - 2) + 3 - 2 = i - 1
        BY <1>1
      <4>3. QED
        BY <4>1, <4>2, <1>1 DEF place
    <3>3. l[place(i - 2, 3)] \in GenParts(l)[i - 2]
      BY <1>2, <3>1
    <3>4. QED
      BY <3>1, <3>2, <3>3
  <2>3. QED
    BY <2>1, <2>2, <1>1
<1>7. SetOf(GenParts(l)) = {GenParts(l)[p] : p \in 1 .. 3}
  BY DEF SetOf, GenParts
<1>8. n <= 5 => UNION SetOf(GenParts(l)) = SetOf(l)
  <2>1. ASSUME n <= 5 PROVE SetOf(l) \subseteq UNION SetOf(GenParts(l))
    <3>1. \A i \in 1 .. n : l[i] \in UNION SetOf(GenParts(l))
      BY <1>6, <1>7, <2>1
    <3>2. QED
      BY <1>1, <3>1 DEF SetOf
  <2>2. UNION SetOf(GenParts(l)) \subseteq SetOf(l)
    BY <1>5, <1>7
  <2>3. QED
    BY <2>1, <2>2
<1>9. QED
  BY <1>5, <1>8 DEF m, n
-----------------------------------------------------------------------------
Hosts(c) == SetOf(HostsOf(kind, ClustersOf(kind)[c]))
Ready(n) == stage[n] = Tests

(* The nodes that have been started.                                         *)
StartedInv ==
  /\ at \in {"none", "unpack"} => started = {}
  /\ kind # "none" => \A c \in 1 .. cluster - 1 : Hosts(c) \subseteq started
  /\ at \in {"start", "join"} => \A i \in 1 .. pos - 1 : list[i] \in started
  /\ at = "join" => SetOf(active) \subseteq started \cup SetOf(list)
  /\ at \notin {"none", "unpack", "start", "join"} => SetOf(active) \subseteq started
  /\ kind = "partition" => started \subseteq SetOf(HostsOf(kind, "c0"))

LEMMA StartedKept ==
  ASSUME StartedInv, UNCHANGED <<kind, cluster, started, active>>,
         at \notin {"none", "unpack", "start", "join"}, at' \notin {"none", "unpack", "start", "join"}
  PROVE  StartedInv'
BY DEF StartedInv, Hosts

(* The nodes the scaling test begins with are those it sorts.                *)
LEMMA SortKeeps ==
  ASSUME TypeInv, Sort
  PROVE  SetOf(active)' = SetOf(active) /\ Len(active') = Len(active) /\ active' \in Seq(Nodes)
<1>1. /\ at = "sort" /\ kind = "scaling"
      /\ active = First("c0", ServerCount) /\ order' \in Orders(Onos("c0"))
      /\ active' = Sorted(SetOf(active) \cup {<<"c0", 1>>}, order')
  BY DEF Sort, Go, TypeInv, ScriptInv, ActiveInv
<1>2. SetOf(active) \in SUBSET Onos("c0")
  BY <1>1, BeginsWithNodes DEF SetOf
<1>3. <<"c0", 1>> \in SetOf(active)
  <2>1. 1 \in 1 .. ServerCount /\ DOMAIN active = 1 .. ServerCount
    BY <1>1, ExperimenterAssumption DEF First
  <2>2. active[1] = <<"c0", 1>>
    BY <1>1, <2>1 DEF First
  <2>3. QED
    BY <2>1, <2>2 DEF SetOf
<1>4. SetOf(active) \cup {<<"c0", 1>>} = SetOf(active)
  BY <1>3
<1>5. SetOf(active') = SetOf(active) /\ Len(active') = Cardinality(SetOf(active)) /\ active' \in Seq(SetOf(active))
  BY <1>1, <1>2, <1>4, SortedNodes
<1>6. Cardinality(SetOf(active)) = Len(active)
  BY <1>1, BeginsWithNodes, LenIsCardinality
<1>7. active' \in Seq(Nodes)
  BY <1>2, <1>5 DEF Nodes
<1>8. QED
  BY <1>5, <1>6, <1>7 DEF SetOf

LEMMA StartedStep ==
  ASSUME TypeInv, StartedInv, [Next]_vars
  PROVE  StartedInv'
<1>0. /\ kind \in Kinds \cup {"none"} /\ (kind = "none" <=> at = "none") /\ active \in Seq(Nodes)
      /\ list \in Seq(Nodes \cup Tennisons) /\ (kind # "none" => cluster \in 1 .. Len(ClustersOf(kind)))
      /\ (at \in {"start", "join", "unpack"} => pos \in 1 .. Len(list))
  BY DEF TypeInv, ScriptInv, ListInv, ActiveInv
<1>1. ASSUME NEW k \in Kinds, Begin(k) PROVE StartedInv'
  <2>1. kind' = k /\ k # "none" /\ cluster' = 1 /\ at' = "unpack" /\ started' = started /\ at = "none"
    BY <1>0, <1>1 DEF Begin, Go, Kinds
  <2>2. QED
    BY <2>1 DEF StartedInv
<1>2. CASE Leave
  BY <1>2 DEF Leave, StartedInv
<1>3. CASE Unpack \/ unpackTENNISON
  <2>1. /\ at = "unpack" /\ UNCHANGED <<kind, cluster, net>>
        /\ (at' = "unpack" \/ (at' = "start" /\ pos' = 1))
    BY <1>3 DEF Unpack, unpackTENNISON, Unpacked, Go, Onward
  <2>2. QED
    BY <2>1 DEF StartedInv, net, Hosts
<1>4. CASE StartNode \/ StartActive
  <2>1. /\ at = "start" /\ started' = started \cup {list[pos]} /\ UNCHANGED <<kind, cluster, active>>
        /\ list = active /\ list' = list
        /\ \/ pos < Len(list) /\ at' = "start" /\ pos' = pos + 1
           \/ pos >= Len(list) /\ at' \in {"delete", "append"} /\ pos' = 1
    BY <1>0, <1>4 DEF StartNode, StartActive, StartDynamic, StartOnos, Go, Onward, TypeInv, ListInv
  <2>2. \A i \in 1 .. pos : list[i] \in started'
    BY <1>0, <2>1 DEF StartedInv
  <2>3. at' \in {"delete", "append"} => SetOf(active) \subseteq started'
    BY <1>0, <2>1, <2>2 DEF SetOf
  <2>4. at' = "start" => \A i \in 1 .. pos' - 1 : list'[i] \in started'
    BY <1>0, <2>1, <2>2
  <2>5. kind = "partition" => started' \subseteq SetOf(HostsOf(kind, "c0"))
    <3>1. ASSUME kind = "partition" PROVE list = HostsOf(kind, "c0")
      BY <1>0, <2>1, <3>1 DEF TypeInv, ActiveInv, ClustersOf
    <3>2. QED
      BY <1>0, <2>1, <3>1 DEF StartedInv, SetOf
  <2>6. kind' # "none" => \A c \in 1 .. cluster' - 1 : Hosts(c)' \subseteq started'
    BY <2>1 DEF StartedInv, Hosts
  <2>7. QED
    BY <2>1, <2>3, <2>4, <2>5, <2>6 DEF StartedInv
<1>5. CASE StartNew
  <2>1. /\ at = "join" /\ kind = "scaling" /\ started' = started \cup {list[pos]}
        /\ UNCHANGED <<kind, cluster, active>> /\ list' = list
        /\ \/ pos < Len(list) /\ at' = "join" /\ pos' = pos + 1
           \/ pos >= Len(list) /\ at' = "wait" /\ pos' = 1
    BY <1>0, <1>5 DEF StartNew, StartDynamic, StartOnos, Go, Onward, TypeInv, ScriptInv
  <2>2. \A i \in 1 .. pos : list[i] \in started'
    BY <1>0, <2>1 DEF StartedInv
  <2>3. at' = "wait" => SetOf(active) \subseteq started'
    <3>1. ASSUME at' = "wait" PROVE SetOf(list) \subseteq started'
      BY <1>0, <2>1, <2>2, <3>1 DEF SetOf
    <3>2. QED
      BY <2>1, <3>1 DEF StartedInv
  <2>4. at' = "join" => \A i \in 1 .. pos' - 1 : list'[i] \in started'
    BY <1>0, <2>1, <2>2
  <2>5. kind' # "none" => \A c \in 1 .. cluster' - 1 : Hosts(c)' \subseteq started'
    BY <2>1 DEF StartedInv, Hosts
  <2>6. QED
    BY <2>1, <2>3, <2>4, <2>5 DEF StartedInv
<1>6. CASE Delete \/ Add
  BY <1>6, StartedKept DEF Delete, Add, Go, Onward, net
<1>7. CASE StartSwitches \/ StartTennison \/ Cut \/ Heal \/ Quit \/ StopNode
  <2>1. UNCHANGED <<kind, cluster, started, active>> /\ at \notin {"none", "unpack", "start", "join"}
    BY <1>7 DEF StartSwitches, StartTennison, Cut, Heal, Quit, StopNode, net
  <2>2. at' \notin {"none", "unpack", "start", "join"}
    BY <1>0, <1>7 DEF StartSwitches, StartTennison, Cut, Heal, Quit, StopNode, Go, Onward, Kinds
  <2>3. QED
    BY <2>1, <2>2, StartedKept
<1>8. CASE Wait
  <2>1. CASE active' = active /\ cluster' = cluster
    <3>1. at' \in {"wait", "grow", "switches", "start"} /\ UNCHANGED <<kind, started>> /\ at = "wait"
      BY <1>8 DEF Wait, Waited, Go, Onward
    <3>2. at' # "start"
      BY <1>0, <1>8, <2>1 DEF Wait, Waited, Go, Onward
    <3>3. QED
      BY <2>1, <3>1, <3>2, StartedKept
  <2>2. CASE ~(active' = active /\ cluster' = cluster)
    <3>1. /\ at = "wait" /\ UNCHANGED <<kind, started>> /\ cluster < Len(ClustersOf(kind))
          /\ cluster' = cluster + 1 /\ at' = "start" /\ pos' = 1
      BY <1>8, <2>2 DEF Wait, Waited, Go
    <3>2. kind = "multi"
      BY <1>0, <3>1 DEF ClustersOf, Kinds, TypeInv, ScriptInv
    <3>3. Hosts(cluster) \subseteq started
      BY <3>1, <3>2 DEF TypeInv, ActiveInv, StartedInv, Hosts
    <3>4. \A c \in 1 .. cluster : Hosts(c) \subseteq started
      BY <1>0, <3>1, <3>2, <3>3 DEF StartedInv
    <3>5. \A c \in 1 .. cluster' - 1 : Hosts(c)' \subseteq started'
      BY <1>0, <3>1, <3>2, <3>4 DEF Hosts
    <3>6. QED
      BY <3>1, <3>2, <3>5 DEF StartedInv
  <2>3. QED
    BY <2>1, <2>2
<1>9. CASE Sort
  <2>1. /\ at = "sort" /\ at' = "wait" /\ UNCHANGED <<kind, cluster, started>> /\ kind = "scaling"
        /\ SetOf(active)' = SetOf(active)
    BY <1>9, SortKeeps DEF Sort, Go, TypeInv, ScriptInv
  <2>2. SetOf(active)' \subseteq started'
    BY <2>1 DEF StartedInv
  <2>3. QED
    BY <2>1, <2>2 DEF StartedInv, Hosts
<1>10. CASE Grow
  <2>1. /\ at = "grow" /\ UNCHANGED <<kind, cluster, started>> /\ kind = "scaling"
        /\ order \in Orders(Onos("c0")) /\ active \in Seq(Onos("c0"))
    BY <1>10 DEF Grow, TypeInv, ScriptInv, ActiveInv, Grown
  <2>2. CASE at' = "shrink"
    BY <1>10, <2>1, <2>2, StartedKept DEF Grow, Go
  <2>3. CASE at' # "shrink"
    <3>1. at' = "join" /\ pos' = 1 /\ active' = Sorted(SetOf(active) \cup SetOf(list'), order)
          /\ list' \in Seq(Onos("c0"))
      <4>1. Sorted(Onos("c0") \ started, HostNumber) \in Seq(Onos("c0") \ started)
        BY SortedNodes
      <4> DEFINE rest == Sorted(Onos("c0") \ started, HostNumber)
                 new == SubSeq(rest, 1, IF Len(rest) < 2 THEN Len(rest) ELSE 2)
      <4>2. at' = "join" /\ pos' = 1 /\ active' = Sorted(SetOf(active) \cup SetOf(new), order) /\ list' = new
        BY <1>10, <2>3 DEF Grow, Go
      <4> HIDE DEF rest
      <4>3. new \in Seq(Onos("c0"))
        BY <4>1 DEF rest
      <4> HIDE DEF new
      <4>4. QED
        BY <4>2, <4>3
    <3>2. SetOf(active) \cup SetOf(list') \in SUBSET Onos("c0")
      BY <2>1, <3>1 DEF SetOf
    <3>3. SetOf(active') = SetOf(active) \cup SetOf(list')
      BY <2>1, <3>1, <3>2, SortedNodes
    <3>4. (SetOf(active) \subseteq started \cup SetOf(list))'
      BY <2>1, <3>3 DEF StartedInv, SetOf
    <3>5. kind' # "none" => \A c \in 1 .. cluster' - 1 : Hosts(c)' \subseteq started'
      BY <2>1 DEF StartedInv, Hosts
    <3>6. \A i \in 1 .. pos' - 1 : list'[i] \in started'
      BY <3>1
    <3> HIDE DEF Hosts
    <3>7. kind' = "scaling" /\ at' = "join"
      BY <2>1, <3>1
    <3>8. QED
      BY <3>4, <3>5, <3>6, <3>7 DEF StartedInv
  <2>4. QED
    BY <2>2, <2>3
<1>11. CASE Shrink
  <2>1. /\ at = "shrink" /\ at' \in {"shrink", "cli"} /\ UNCHANGED <<kind, cluster, started>> /\ kind = "scaling"
        /\ (active' = active \/ (active' = Front(active) /\ Len(active) > 1))
    BY <1>11 DEF Shrink, Go, TypeInv, ScriptInv
  <2>2. SetOf(active') \subseteq SetOf(active)
    <3>1. Len(active) > 1 => Len(active) - 1 \in 0 .. Len(active)
      BY <1>0
    <3>2. Len(active) > 1 => SetOf(Front(active)) \subseteq SetOf(active)
      BY <1>0, <3>1, PrefixFacts DEF Front
    <3>3. QED
      BY <2>1, <3>2
  <2>3. SetOf(active)' \subseteq started'
    BY <2>1, <2>2 DEF StartedInv, SetOf
  <2>4. QED
    BY <2>1, <2>3 DEF StartedInv, Hosts
<1>12. CASE \E n \in Nodes : Boot(n) \/ Die(n)
  <2>1. UNCHANGED <<script, net>>
    BY <1>12 DEF Boot, Die
  <2>2. QED
    BY <2>1 DEF StartedInv, Hosts, script, net
<1>13. CASE UNCHANGED vars
  BY <1>13 DEF vars, script, net, StartedInv, Hosts
<1>14. QED
  BY <1>1, <1>2, <1>3, <1>4, <1>5, <1>6, <1>7, <1>8, <1>9, <1>10, <1>11, <1>12, <1>13
  DEF Next, Script, UnpackFails, DiedAlert, HealthAlert, sanityAlert, Killed, Exit, QuitMulti, StopTennison
-----------------------------------------------------------------------------
(* Which nodes have passed every test: all that switches were given, and all *)
(* that were started but those the script is about to wait for.              *)
AllReady == \A n \in started : Ready(n)
ReadyInv ==
  /\ \A c \in DOMAIN ctl : \A n \in ctl[c] : n \in started /\ Ready(n)
  /\ at = "join" => \A c \in DOMAIN ctl : ctl[c] \cap SetOf(list) = {}
  /\ Later /\ at # "join" => AllReady
  /\ at \in {"start", "join", "delete", "append", "wait"} =>
       \A n \in started : n \notin SetOf(list) => Ready(n)
  /\ at = "wait" => \A i \in 1 .. pos - 1 : Ready(list[i])

LEMMA ReadyWhenAll ==
  ASSUME ReadyInv, AllReady, UNCHANGED <<ctl, started, stage>>,
         at' \notin {"join", "wait"} \/ (at' = "wait" /\ pos' = 1)
  PROVE  ReadyInv'
<1>1. AllReady'
  BY DEF AllReady, Ready
<1>2. at' = "wait" => 1 .. pos' - 1 = {}
  OBVIOUS
<1>3. \A c \in DOMAIN ctl' : \A n \in ctl'[c] : n \in started' /\ Ready(n)'
  BY DEF ReadyInv, Ready
<1>4. QED
  BY <1>1, <1>2, <1>3 DEF ReadyInv, AllReady

(* A node that is started anew was given to no switch.                       *)
LEMMA ReadyWhenStarted ==
  ASSUME ReadyInv, TypeInv, NEW n \in Nodes, started' = started \cup {n}, stage' = [stage EXCEPT ![n] = 0],
         ctl' = ctl, list' = list, n \in SetOf(list), at \in {"start", "join"},
         \A c \in DOMAIN ctl : n \notin ctl[c],
         at' \in {at, "delete", "append", "wait"}, at' = "wait" => pos' = 1
  PROVE  ReadyInv'
<1>1. \A m \in Nodes \ {n} : stage'[m] = stage[m]
  BY DEF TypeInv, HostInv
<1>2. \A m \in started' : m \notin SetOf(list) => m \in Nodes \ {n} /\ m \in started /\ Ready(m)
  BY DEF ReadyInv, TypeInv, HostInv
<1>3. \A m \in started' : m \notin SetOf(list') => Ready(m)'
  BY <1>1, <1>2 DEF Ready
<1>4. \A c \in DOMAIN ctl : \A m \in ctl[c] : m \in started /\ m \in Nodes \ {n} /\ Ready(m)
  BY DEF ReadyInv, TypeInv, HostInv
<1>5. \A c \in DOMAIN ctl' : \A m \in ctl'[c] : m \in started' /\ Ready(m)'
  BY <1>1, <1>4 DEF Ready
<1>6. at' = "wait" => 1 .. pos' - 1 = {}
  OBVIOUS
<1>7. at' = "join" => \A c \in DOMAIN ctl' : ctl'[c] \cap SetOf(list') = {}
  BY DEF ReadyInv
<1>8. Later' => at' = "join"
  BY DEF Later
<1>9. QED
  BY <1>3, <1>5, <1>6, <1>7, <1>8 DEF ReadyInv

LEMMA ReadyStep ==
  ASSUME TypeInv, StartedInv, ReadyInv, [Next]_vars
  PROVE  ReadyInv'
<1>0. /\ kind \in Kinds \cup {"none"} /\ (kind = "none" <=> at = "none") /\ active \in Seq(Nodes)
      /\ list \in Seq(Nodes \cup Tennisons) /\ (kind # "none" => cluster \in 1 .. Len(ClustersOf(kind)))
      /\ (at \in {"start", "join", "unpack", "wait"} => pos \in 1 .. Len(list))
      /\ started \subseteq Nodes /\ stage \in [Nodes -> 0 .. Tests]
  BY DEF TypeInv, ScriptInv, ListInv, ActiveInv, HostInv
<1>1. ASSUME NEW k \in Kinds, Begin(k) PROVE ReadyInv'
  <2>1. started = {} /\ UNCHANGED <<ctl, started, stage>> /\ at' = "unpack"
    BY <1>0, <1>1 DEF Begin, Go, onos, StartedInv
  <2>2. QED
    BY <2>1, ReadyWhenAll DEF AllReady
<1>2. CASE Leave
  BY <1>2 DEF Leave, ReadyInv, Later
<1>3. CASE Unpack \/ unpackTENNISON
  <2>1. at = "unpack" /\ UNCHANGED <<ctl, started, stage>> /\ at' \in {"unpack", "start"}
    BY <1>3 DEF Unpack, unpackTENNISON, Unpacked, Go, Onward, net, onos
  <2>2. QED
    BY <2>1, ReadyWhenAll DEF AllReady, StartedInv
<1>4. CASE StartNode \/ StartActive
  <2> DEFINE n == list[pos]
  <2>1. /\ at = "start" /\ started' = started \cup {n} /\ stage' = [stage EXCEPT ![n] = 0]
        /\ ctl' = ctl /\ list' = list /\ at' \in {at, "delete", "append"}
    BY <1>4 DEF StartNode, StartActive, StartDynamic, StartOnos, Go, Onward
  <2>2. ctl = <<>>
    BY <1>0, <2>1 DEF TypeInv, CtlInv, Grown, Serves, Kinds
  <2>3. n \in Nodes /\ n \in SetOf(list)
    BY <1>0, <2>1 DEF TypeInv, ListInv, SetOf
  <2>4. \A c \in DOMAIN ctl : n \notin ctl[c]
    BY <2>2
  <2> HIDE DEF n
  <2>5. QED
    BY <2>1, <2>3, <2>4, ReadyWhenStarted
<1>5. CASE StartNew
  <2> DEFINE n == list[pos]
  <2>1. /\ at = "join" /\ started' = started \cup {n} /\ stage' = [stage EXCEPT ![n] = 0]
        /\ ctl' = ctl /\ list' = list /\ at' \in {at, "wait"} /\ (at' = "wait" => pos' = 1)
    BY <1>5 DEF StartNew, StartDynamic, StartOnos, Go, Onward
  <2>2. n \in Nodes /\ n \in SetOf(list)
    BY <1>0, <2>1 DEF TypeInv, ListInv, SetOf
  <2>3. \A c \in DOMAIN ctl : n \notin ctl[c]
    BY <2>1, <2>2 DEF ReadyInv
  <2>4. QED
    BY <2>1, <2>2, <2>3, ReadyWhenStarted
<1>6. CASE Delete \/ Add
  <2>1. at \in {"delete", "append", "undo"} /\ UNCHANGED <<ctl, started, stage>>
    BY <1>6 DEF Delete, Add, net, onos
  <2>2. CASE AllReady
    <3>1. at' \notin {"join", "wait"} \/ (at' = "wait" /\ pos' = 1)
      BY <1>6 DEF Delete, Add, Go, Onward
    <3>2. QED
      BY <2>1, <2>2, <3>1, ReadyWhenAll
  <2>3. CASE ~AllReady
    <3>1. at \in {"delete", "append"} /\ ~IsTennison(list[1])
      <4>1. at = "undo" => AllReady
        BY DEF ReadyInv, Later
      <4>2. ASSUME at \in {"delete", "append"}, IsTennison(list[1])
            PROVE  AllReady
        <5>1. \E m \in Tennisons : list = <<m>>
          BY <4>2, NotTennison DEF TypeInv, ListInv, ActiveInv, ScriptInv
        <5>2. SetOf(list) \cap Nodes = {}
          <6>1. PICK m \in Tennisons : list = <<m>>
            BY <5>1
          <6>2. IsTennison(m)
            BY DEF Tennisons, IsTennison
          <6>3. SetOf(list) = {m}
            BY <6>1 DEF SetOf
          <6>4. QED
            BY <6>2, <6>3, NotTennison
        <5>3. QED
          BY <1>0, <4>2, <5>2 DEF ReadyInv, AllReady
      <4>3. QED
        BY <2>1, <2>3, <4>1, <4>2
    <3>2. list' = list /\ at' \in {"delete", "append", "wait"} /\ (at' = "wait" => pos' = 1)
      BY <1>6, <3>1 DEF Delete, Add, Go, Onward
    <3>3. at' = "wait" => 1 .. pos' - 1 = {}
      BY <3>2
    <3>4. ~Later'
      BY <3>2 DEF Later
    <3>5. \A n \in started' : n \notin SetOf(list') => Ready(n)'
      BY <2>1, <3>1, <3>2 DEF ReadyInv, Ready
    <3>6. \A c \in DOMAIN ctl' : \A n \in ctl'[c] : n \in started' /\ Ready(n)'
      BY <2>1 DEF ReadyInv, Ready
    <3>7. QED
      BY <3>2, <3>3, <3>4, <3>5, <3>6 DEF ReadyInv
  <2>4. QED
    BY <2>2, <2>3
<1>7. CASE StartTennison \/ Cut \/ Heal \/ Quit \/ StopNode \/ Sort \/ Shrink
  <2>1. /\ UNCHANGED <<ctl, started, stage>>
        /\ at \in {"tennison", "cut", "heal", "cli", "stop", "sort", "shrink"}
    BY <1>7 DEF StartTennison, Cut, Heal, Quit, StopNode, Sort, Shrink, net, onos
  <2>2. at' \notin {"join", "wait"} \/ (at' = "wait" /\ pos' = 1)
    BY <1>7 DEF StartTennison, Cut, Heal, Quit, StopNode, Sort, Shrink, Go, Onward
  <2>3. AllReady
    BY <2>1 DEF ReadyInv, Later
  <2>4. QED
    BY <2>1, <2>2, <2>3, ReadyWhenAll
<1>8. CASE Wait
  <2>1. at = "wait" /\ UNCHANGED <<ctl, started, stage, proc>> /\ stage[list[pos]] >= test /\ test \in 1 .. Tests
    BY <1>8 DEF Wait, onos, Passes, TypeInv, ListInv
  <2>2. \A c \in DOMAIN ctl' : \A n \in ctl'[c] : n \in started' /\ Ready(n)'
    BY <2>1 DEF ReadyInv, Ready
  <2>3. CASE test < Tests
    <3>1. UNCHANGED <<at, list, pos>>
      BY <1>8, <2>3 DEF Wait
    <3>2. QED
      BY <2>1, <2>2, <3>1 DEF ReadyInv, Ready, Later
  <2>4. CASE test = Tests
    <3>1. \A i \in 1 .. pos : Ready(list[i])
      <4>1. list[pos] \in Nodes
        BY <1>0, <2>1 DEF TypeInv, ListInv
      <4>2. stage[list[pos]] = Tests
        BY <1>0, <2>1, <2>4, <4>1 DEF Tests
      <4>3. QED
        BY <1>0, <2>1, <4>2 DEF ReadyInv, Ready
    <3>2. CASE pos < Len(list)
      <4>1. at' = "wait" /\ pos' = pos + 1 /\ list' = list
        BY <1>8, <2>1, <2>4, <3>2 DEF Wait, Onward
      <4>a. pos' - 1 = pos
        BY <1>0, <2>1, <4>1
      <4>2. (\A i \in 1 .. pos - 1 : Ready(list[i]))'
        BY <2>1, <3>1, <4>1, <4>a DEF Ready
      <4>3. \A n \in started' : n \notin SetOf(list') => Ready(n)'
        BY <2>1, <4>1 DEF ReadyInv, Ready
      <4>4. QED
        BY <2>2, <4>1, <4>2, <4>3 DEF ReadyInv, Later
    <3>3. CASE pos >= Len(list)
      <4>1. AllReady
        BY <1>0, <2>1, <3>1, <3>3 DEF ReadyInv, AllReady, SetOf
      <4>2. at' \in {"grow", "start", "switches"}
        BY <1>8, <2>4, <3>3, <1>0, <2>1 DEF Wait, Waited, Go
      <4>3. QED
        BY <2>1, <4>1, <4>2, ReadyWhenAll
    <3>4. QED
      BY <1>0, <2>1, <3>2, <3>3
  <2>5. QED
    BY <2>1, <2>3, <2>4 DEF Tests
<1>9. CASE StartSwitches
  <2>1. /\ at = "switches" /\ UNCHANGED <<started, stage>> /\ kind \in Kinds
        /\ at' \in {"tennison", "cut", "sort"}
        /\ ctl' = IF kind = "multi" THEN MultiSwitches ELSE <<NodesNow("c0")>>
    BY <1>0, <1>9 DEF StartSwitches, Go, onos, Kinds
  <2>2. AllReady /\ cluster = Len(ClustersOf(kind)) /\ SetOf(active) \subseteq started
    BY <2>1 DEF ReadyInv, Later, TypeInv, ScriptInv, StartedInv
  <2>3. \A c \in DOMAIN ctl' : ctl'[c] \subseteq started
    <3>1. CASE kind = "multi"
      <4>1. ClustersOf(kind) = <<"alpha", "beta">> /\ cluster = 2 /\ ClustersOf("multi") = <<"alpha", "beta">>
        BY <2>2, <3>1 DEF ClustersOf
      <4>2. Hosts(1) \subseteq started
        BY <3>1, <4>1 DEF StartedInv
      <4>3. Hosts(2) \subseteq started
        BY <2>2, <3>1, <4>1 DEF TypeInv, ActiveInv, Hosts
      <4>4. \A i \in {1, 2} : MultiSwitches[i] = Hosts(i)
        BY <3>1, <4>1 DEF MultiSwitches, NodesNow, Hosts
      <4>5. QED
        BY <2>1, <3>1, <4>2, <4>3, <4>4 DEF MultiSwitches
    <3>2. CASE kind = "partition"
      <4>1. NodesNow("c0") = SetOf(active)
        BY <2>2, <3>2 DEF NodesNow, TypeInv, ActiveInv, ClustersOf
      <4>2. QED
        BY <2>1, <2>2, <3>2, <4>1
    <3>3. CASE kind = "scaling"
      BY <2>1, <2>2, <3>3 DEF NodesNow
    <3>4. QED
      BY <2>1, <3>1, <3>2, <3>3 DEF Kinds
  <2>4. \A c \in DOMAIN ctl' : \A n \in ctl'[c] : n \in started' /\ Ready(n)'
    BY <2>1, <2>2, <2>3 DEF AllReady, Ready
  <2>5. AllReady'
    BY <2>1, <2>2 DEF AllReady, Ready
  <2>6. QED
    BY <2>1, <2>4, <2>5 DEF ReadyInv
<1>10. CASE Grow
  <2>1. at = "grow" /\ UNCHANGED <<ctl, started, stage>> /\ AllReady
    BY <1>10 DEF Grow, onos, ReadyInv, Later
  <2>2. CASE at' = "shrink"
    BY <2>1, <2>2, ReadyWhenAll
  <2>3. CASE at' # "shrink"
    <3> DEFINE rest == Sorted(Onos("c0") \ started, HostNumber)
               new == SubSeq(rest, 1, IF Len(rest) < 2 THEN Len(rest) ELSE 2)
    <3>1. at' = "join" /\ list' = new
      BY <1>10, <2>3 DEF Grow, Go
    <3>2. rest \in Seq(Onos("c0") \ started)
      BY SortedNodes
    <3> HIDE DEF rest
    <3>3. new \in Seq(Onos("c0") \ started)
      BY <3>2
    <3> HIDE DEF new
    <3>4. SetOf(list') \cap started = {}
      BY <3>1, <3>3 DEF SetOf
    <3>5. \A c \in DOMAIN ctl' : \A n \in ctl'[c] : n \in started' /\ Ready(n)'
      BY <2>1 DEF ReadyInv, Ready
    <3>6. \A c \in DOMAIN ctl' : ctl'[c] \cap SetOf(list') = {}
      BY <2>1, <3>4, <3>5
    <3>7. AllReady'
      BY <2>1 DEF AllReady, Ready
    <3>8. QED
      BY <3>1, <3>5, <3>6, <3>7 DEF ReadyInv, AllReady, SetOf
  <2>4. QED
    BY <2>2, <2>3
<1>11. CASE \E n \in Nodes : Boot(n) \/ Die(n)
  <2>1. PICK n \in Nodes : Boot(n) \/ Die(n)
    BY <1>11
  <2>2. UNCHANGED <<script, net>> /\ (stage' = stage \/ (stage[n] # Tests /\ stage' = [stage EXCEPT ![n] = @ + 1]))
    BY <1>0, <2>1 DEF Boot, Die
  <2>3. \A m : Ready(m) /\ m \in Nodes => Ready(m)'
    BY <1>0, <2>2 DEF Ready
  <2>4. \A c \in DOMAIN ctl' : \A m \in ctl'[c] : m \in started' /\ Ready(m)'
    BY <1>0, <2>2, <2>3 DEF ReadyInv, net
  <2>5. Later' /\ at' # "join" => AllReady'
    BY <1>0, <2>2, <2>3 DEF ReadyInv, script, net, Later, AllReady
  <2>6. at' \in {"start", "join", "delete", "append", "wait"} =>
          (\A m \in started : m \notin SetOf(list) => Ready(m))'
    BY <1>0, <2>2, <2>3 DEF ReadyInv, script, net
  <2>7. at' = "wait" => (\A i \in 1 .. pos - 1 : Ready(list[i]))'
    <3>1. ASSUME at = "wait" PROVE \A i \in 1 .. pos - 1 : list[i] \in Nodes
      BY <1>0, <3>1 DEF TypeInv, ListInv
    <3>2. QED
      BY <2>2, <2>3, <3>1 DEF ReadyInv, script
  <2>8. at' = "join" => \A c \in DOMAIN ctl' : ctl'[c] \cap SetOf(list') = {}
    BY <2>2 DEF ReadyInv, script, net
  <2>9. QED
    BY <2>4, <2>5, <2>6, <2>7, <2>8 DEF ReadyInv
<1>12. CASE UNCHANGED vars
  BY <1>12 DEF vars, script, net, onos, ReadyInv, AllReady, Ready, Later
<1>13. QED
  BY <1>1, <1>2, <1>3, <1>4, <1>5, <1>6, <1>7, <1>8, <1>9, <1>10, <1>11, <1>12
  DEF Next, Script, UnpackFails, DiedAlert, HealthAlert, sanityAlert, Killed, Exit, QuitMulti, StopTennison
-----------------------------------------------------------------------------
(* cluster.json was made from the active nodes, in some order.               *)
FileInv ==
  kind = "scaling" /\ at \notin {"unpack", "start", "join"} =>
    \E s \in Seq(Nodes) : /\ IsInjective(s) /\ SetOf(s) = SetOf(active) /\ Len(s) = Len(active)
                         /\ file = GenPartitions(s)

LEMMA FileKept ==
  ASSUME FileInv, at \notin {"unpack", "start", "join"}, UNCHANGED <<kind, file>>,
         SetOf(active)' = SetOf(active), Len(active') = Len(active)
  PROVE  FileInv'
BY DEF FileInv

LEMMA FileWritten ==
  ASSUME active' \in Seq(Nodes), IsInjective(active'), file' = GenPartitions(active')
  PROVE  FileInv'
BY DEF FileInv, SetOf

LEMMA FileStep ==
  ASSUME TypeInv, TypeInv', FileInv, [Next]_vars
  PROVE  FileInv'
<1>0. active \in Seq(Nodes) /\ active' \in Seq(Nodes) /\ IsInjective(active) /\ IsInjective(active')
  BY DEF TypeInv, ActiveInv, IsInjective
<1>1. CASE (\E k \in Kinds : Begin(k)) \/ Leave \/ Unpack \/ unpackTENNISON \/ StartNode
  BY <1>1 DEF Begin, Leave, Unpack, unpackTENNISON, Unpacked, StartNode, Go, Onward, FileInv
<1>2. CASE StartActive \/ StartNew
  <2>1. active' = active /\ file' = GenPartitions(active)
    BY <1>2 DEF StartActive, StartNew, StartDynamic
  <2>2. QED
    BY <1>0, <2>1, FileWritten
<1>3. CASE Delete \/ Add \/ StartSwitches \/ StartTennison \/ Cut \/ Heal \/ Quit \/ StopNode
  <2>1. UNCHANGED <<kind, file, active>> /\ at \notin {"unpack", "start", "join"}
    BY <1>3 DEF Delete, Add, StartSwitches, StartTennison, Cut, Heal, Quit, StopNode, net
  <2>2. QED
    BY <2>1, FileKept DEF SetOf
<1>4. CASE Wait
  <2>1. kind = "scaling" => active' = active
    <3>1. ASSUME kind = "scaling" PROVE ~(cluster < Len(ClustersOf(kind)))
      BY <3>1 DEF TypeInv, ScriptInv, ClustersOf
    <3>2. QED
      BY <1>4, <3>1 DEF Wait, Waited
  <2>2. UNCHANGED <<kind, file>> /\ at = "wait"
    BY <1>4 DEF Wait
  <2>3. CASE active' = active
    BY <2>2, <2>3, FileKept DEF SetOf
  <2>4. QED
    BY <2>1, <2>2, <2>3 DEF FileInv
<1>5. CASE Sort
  BY <1>5, SortKeeps, FileKept DEF Sort
<1>6. CASE Grow
  <2>1. at' = "join" \/ active' = active
    BY <1>6 DEF Grow, Go
  <2>2. UNCHANGED <<kind, file>> /\ at = "grow"
    BY <1>6 DEF Grow
  <2>3. CASE active' = active
    BY <2>2, <2>3, FileKept DEF SetOf
  <2>4. QED
    BY <2>1, <2>3 DEF FileInv
<1>7. CASE Shrink
  <2>1. \/ active' = Front(active) /\ file' = GenPartitions(Front(active))
        \/ UNCHANGED <<active, file>>
    BY <1>7 DEF Shrink
  <2>2. kind' = kind /\ at = "shrink"
    BY <1>7 DEF Shrink
  <2>3. CASE UNCHANGED <<active, file>>
    BY <2>2, <2>3, FileKept DEF SetOf
  <2>4. CASE active' = Front(active) /\ file' = GenPartitions(Front(active))
    BY <1>0, <2>4, FileWritten
  <2>5. QED
    BY <2>1, <2>3, <2>4
<1>8. CASE (\E n \in Nodes : Boot(n) \/ Die(n)) \/ UNCHANGED vars
  BY <1>8 DEF Boot, Die, vars, script, net, FileInv, SetOf
<1>9. QED
  BY <1>1, <1>2, <1>3, <1>4, <1>5, <1>6, <1>7, <1>8
  DEF Next, Script, UnpackFails, DiedAlert, HealthAlert, sanityAlert, Killed, Exit, QuitMulti, StopTennison

(* Whom switches and nodes are told of is there and ready (ToldIsReady): a   *)
(* switch is given only nodes that have passed every test of waitStarted;    *)
(* cluster.json lists the active nodes, in partitions that are as large as   *)
(* they can be and, with up to five nodes, leave none out.                   *)
THEOREM NodesAreReady == Spec => []ToldIsReady
<1> DEFINE Inv == TypeInv /\ StartedInv /\ ReadyInv /\ FileInv
<1>1. Init => Inv
  <2>1. ASSUME Init PROVE StartedInv /\ ReadyInv /\ FileInv
    BY <2>1 DEF Init, StartedInv, ReadyInv, FileInv, Later
  <2>2. QED
    BY <2>1, TypeStart
<1>2. Inv /\ [Next]_vars => Inv'
  BY TypeStep, StartedStep, ReadyStep, FileStep
<1>3. Inv => ToldIsReady
  <2>1. ASSUME Inv PROVE SwitchesFindReadyNodes
    BY <2>1 DEF SwitchesFindReadyNodes, ReadyInv, AllReady, Ready, Later
  <2>2. ASSUME Inv PROVE FileListsActive
    <3>1. ASSUME kind = "scaling", at \notin {"unpack", "start", "join"}
          PROVE  /\ file.nodes = SetOf(active)
                 /\ \A p \in 1 .. 3 : /\ file.parts[p] \subseteq file.nodes
                                     /\ Cardinality(file.parts[p]) = IF Len(active) < 3 THEN Len(active) ELSE 3
                 /\ Len(active) <= 5 => UNION SetOf(file.parts) = file.nodes
      <4>1. PICK s \in Seq(Nodes) : IsInjective(s) /\ SetOf(s) = SetOf(active) /\ Len(s) = Len(active)
                                   /\ file = GenPartitions(s)
        BY <2>2, <3>1 DEF FileInv
      <4>2. file.nodes = SetOf(s) /\ file.parts = GenParts(s)
        BY <4>1 DEF GenPartitions
      <4>3. Len(s) # 0 /\ s # <<>>
        BY <2>2, <3>1, <4>1 DEF TypeInv, ActiveInv
      <4>4. QED
        BY <4>1, <4>2, <4>3, PartsFacts DEF Least
    <3>2. QED
      BY <3>1 DEF FileListsActive
  <2>3. QED
    BY <2>1, <2>2 DEF ToldIsReady
<1>4. QED
  BY <1>1, <1>2, <1>3, PTL DEF Spec
-----------------------------------------------------------------------------
(* The rules of iptables that a session ever adds: of a network, of a node   *)
(* and one of the forwarded ports, of a TENNISON node.                       *)
NodeRule(n, a) == To(n, Forward[a], InPort(Forward[a], n[1], n[2]))
NodeRules(c) == {NodeRule(n, a) : n \in Onos(c), a \in DOMAIN Forward}
NetworkRules == {NetworkRule(c) : c \in {"alpha", "beta"}}
ServiceRules == {To(m, TennisonPort, TennisonPort + Offset(m[1])) : m \in Tennisons}
KnownRules == NetworkRules \cup NodeRules("alpha") \cup NodeRules("beta") \cup NodeRules("c0") \cup ServiceRules

NetworkOf(c) == IF c = "beta" THEN "beta" ELSE "alpha"

LEMMA NodeRuleFacts ==
  ASSUME NEW c \in {"alpha", "beta", "c0"}, NEW n \in Onos(c), NEW a \in DOMAIN Forward
  PROVE  /\ n[1] = c /\ n[2] \in 1 .. ServerCount + Scale /\ Forward[a] \in Nat \ {0}
         /\ NodeRule(n, a).from = InPort(Forward[a], NetworkOf(c), n[2])
         /\ NodeRule(n, a).from \in Nat \ {0}
         /\ NodeRule(n, a).ip = <<IpBase(NetworkOf(c)), n[2]>> /\ NodeRule(n, a).port = Forward[a]
         /\ NodeRule(n, a) = [from |-> NodeRule(n, a).from, ip |-> NodeRule(n, a).ip, port |-> NodeRule(n, a).port]
<1>1. n[1] = c /\ n[2] \in 1 .. ServerCount + Scale
  BY ExperimenterAssumption DEF Onos, Scale
<1>2. Forward[a] \in Nat \ {0}
  BY ExperimenterAssumption
<1>3. Offset(c) = Offset(NetworkOf(c)) /\ IpBase(c) = IpBase(NetworkOf(c)) /\ Offset(c) \in Nat
  BY DEF Offset, NetworkOf, IpBase
<1>4. InPort(Forward[a], c, n[2]) = InPort(Forward[a], NetworkOf(c), n[2])
  BY <1>3 DEF InPort
<1>5. InPort(Forward[a], c, n[2]) \in Nat \ {0}
  BY <1>1, <1>2, <1>3, ExperimenterAssumption DEF InPort, Scale
<1>6. QED
  BY <1>1, <1>2, <1>3, <1>4, <1>5 DEF NodeRule, To

LEMMA PortsApart ==
  \A a, b \in DOMAIN Forward : \A c, d \in {"alpha", "beta"} : \A i, j \in 1 .. ServerCount + Scale :
    InPort(Forward[a], c, i) = InPort(Forward[b], d, j) => a = b /\ c = d
BY PortsAssumption

(* No two of them have the same port, but those of one node's one port.      *)
LEMMA NodeRulesApart ==
  ASSUME NEW c \in {"alpha", "beta", "c0"}, NEW n \in Onos(c), NEW a \in DOMAIN Forward,
         NEW d \in {"alpha", "beta", "c0"}, NEW m \in Onos(d), NEW b \in DOMAIN Forward,
         NodeRule(n, a).from = NodeRule(m, b).from
  PROVE  a = b /\ n[2] = m[2] /\ NetworkOf(c) = NetworkOf(d) /\ NodeRule(n, a) = NodeRule(m, b)
<1> DEFINE i == n[2]  j == m[2]
<1>1. /\ i \in 1 .. ServerCount + Scale /\ j \in 1 .. ServerCount + Scale
      /\ NodeRule(n, a).from = InPort(Forward[a], NetworkOf(c), i)
      /\ NodeRule(m, b).from = InPort(Forward[b], NetworkOf(d), j)
      /\ Forward[a] \in Nat
  BY NodeRuleFacts
<1>2. NetworkOf(c) \in {"alpha", "beta"} /\ NetworkOf(d) \in {"alpha", "beta"}
  BY DEF NetworkOf
<1> HIDE DEF i, j
<1>3. a = b /\ NetworkOf(c) = NetworkOf(d)
  <2>1. InPort(Forward[a], NetworkOf(c), i) = InPort(Forward[b], NetworkOf(d), j)
    BY <1>1
  <2>2. QED
    BY <1>1, <1>2, <2>1, PortsApart
<1>4. i = j
  <2>1. Offset(NetworkOf(c)) \in Nat
    BY DEF Offset
  <2>2. Forward[a] + Offset(NetworkOf(c)) + i - 1 = Forward[a] + Offset(NetworkOf(c)) + j - 1
    BY <1>1, <1>3 DEF InPort
  <2>3. QED
    BY <1>1, <2>1, <2>2, ExperimenterAssumption DEF Scale
<1>5. NodeRule(n, a) = NodeRule(m, b)
  BY <1>3, <1>4, NodeRuleFacts DEF i, j
<1>6. QED
  BY <1>3, <1>4, <1>5 DEF i, j

LEMMA ServicesApart ==
  ASSUME NEW r \in ServiceRules
  PROVE  /\ r.from # 0
         /\ \A q \in ServiceRules : r.from = q.from => r = q
         /\ \A c \in {"alpha", "beta", "c0"} : \A q \in NodeRules(c) : r.from # q.from
<1>1. PICK d \in {"alpha", "beta"} : r = To(<<d, 100>>, TennisonPort, TennisonPort + Offset(d))
  BY DEF ServiceRules, Tennisons
<1>2. r.from = TennisonPort + Offset(d) /\ Offset(d) \in Nat
  BY <1>1 DEF To, Offset
<1>3. ASSUME NEW q \in ServiceRules, r.from = q.from PROVE r = q
  <2>1. PICK e \in {"alpha", "beta"} : q = To(<<e, 100>>, TennisonPort, TennisonPort + Offset(e))
    BY DEF ServiceRules, Tennisons
  <2>2. TennisonPort + Offset(e) = TennisonPort + Offset(d)
    BY <1>2, <1>3, <2>1 DEF To
  <2>3. e = d
    BY <2>2 DEF TennisonPort, Offset
  <2>4. QED
    BY <1>1, <2>1, <2>3
<1>4. ASSUME NEW c \in {"alpha", "beta", "c0"}, NEW q \in NodeRules(c) PROVE r.from # q.from
  <2>1. PICK n \in Onos(c), a \in DOMAIN Forward : q = NodeRule(n, a)
    BY DEF NodeRules
  <2>2. q.from = InPort(Forward[a], NetworkOf(c), n[2]) /\ n[2] \in 1 .. ServerCount + Scale
    BY <2>1, NodeRuleFacts
  <2>3. InPort(TennisonPort, d, 1) = r.from
    BY <1>2 DEF InPort, TennisonPort
  <2>4. NetworkOf(c) \in {"alpha", "beta"}
    BY DEF NetworkOf
  <2>5. QED
    BY <2>2, <2>3, <2>4, PortsAssumption
<1>5. r.from # 0
  BY <1>2 DEF TennisonPort
<1>6. QED
  BY <1>3, <1>4, <1>5

LEMMA NetworksApart ==
  ASSUME NEW r \in NetworkRules
  PROVE  r.from = 0 /\ \A c \in {"alpha", "beta", "c0"} : r \notin NodeRules(c)
<1>1. r.from = 0
  BY DEF NetworkRules, NetworkRule, To
<1>2. ASSUME NEW c \in {"alpha", "beta", "c0"} PROVE r \notin NodeRules(c)
  BY <1>1, NodeRuleFacts DEF NodeRules
<1>3. QED
  BY <1>1, <1>2

LEMMA KnownApart ==
  ASSUME NEW r \in KnownRules, NEW q \in KnownRules, r.from = q.from, r.from # 0
  PROVE  r = q
<1>1. r \notin NetworkRules /\ q \notin NetworkRules
  BY NetworksApart
<1>2. CASE r \in ServiceRules \/ q \in ServiceRules
  BY <1>1, <1>2, ServicesApart DEF KnownRules
<1>3. CASE r \notin ServiceRules /\ q \notin ServiceRules
  <2>1. PICK c \in {"alpha", "beta", "c0"}, d \in {"alpha", "beta", "c0"} : r \in NodeRules(c) /\ q \in NodeRules(d)
    BY <1>1, <1>3 DEF KnownRules
  <2>2. PICK n \in Onos(c), a \in DOMAIN Forward : r = NodeRule(n, a)
    BY <2>1 DEF NodeRules
  <2>3. PICK m \in Onos(d), b \in DOMAIN Forward : q = NodeRule(m, b)
    BY <2>1 DEF NodeRules
  <2>4. QED
    BY <2>2, <2>3, NodeRulesApart
<1>4. QED
  BY <1>2, <1>3

(* Counting through the ports and, for each, the nodes.                      *)
LEMMA CountsOnce ==
  ASSUME NEW n \in Nat \ {0}, NEW f \in Nat \ {0}, NEW k \in 1 .. f * n
  PROVE  /\ ((k - 1) % n) + 1 \in 1 .. n /\ ((k - 1) \div n) + 1 \in 1 .. f
         /\ k - 1 = n * ((k - 1) \div n) + ((k - 1) % n)
<1> DEFINE q == (k - 1) \div n  r == (k - 1) % n
<1>1. k \in Nat \ {0} /\ k - 1 \in Nat /\ f * n \in Nat
  OBVIOUS
<1>2. q \in Int /\ r \in 0 .. n - 1 /\ k - 1 = n * q + r
  BY <1>1
<1> HIDE DEF q, r
<1>3. q >= 0
  <2>1. ASSUME q < 0 PROVE FALSE
    <3>1. n * q <= n * (-1)
      BY <1>2, <2>1
    <3>2. QED
      BY <1>1, <1>2, <3>1
  <2>2. QED
    BY <1>2, <2>1
<1>4. q < f
  <2>1. ASSUME q >= f PROVE FALSE
    <3>1. n * q >= n * f
      BY <1>2, <2>1
    <3>2. n * f = f * n
      OBVIOUS
    <3>3. QED
      BY <1>1, <1>2, <3>1, <3>2
  <2>2. QED
    BY <1>2, <2>1
<1>5. QED
  BY <1>2, <1>3, <1>4 DEF q, r

Size(c) == IF c = "c0" THEN ServerCount + Scale ELSE 1

(* The rules of the first nodes of a cluster: each rule once, for each node  *)
(* and port its own.                                                         *)
LEMMA FirstRules ==
  ASSUME NEW c \in {"alpha", "beta", "c0"}, NEW n \in Nat \ {0}, n <= Size(c)
  PROVE  LET l == First(c, n) IN
         /\ OnosRules(l) \in Seq(NodeRules(c)) /\ IsInjective(OnosRules(l))
         /\ Rules(l) = <<NetworkRule(c)>> \o OnosRules(l)
<1> DEFINE l == First(c, n)
           node(k) == ((k - 1) % n) + 1
           port(k) == ((k - 1) \div n) + 1
           last == Len(Forward) * n
<1>1. l \in Seq(Onos(c)) /\ Len(l) = n /\ \A i \in 1 .. n : l[i] = <<c, i>>
  BY FirstFacts DEF Size
<1>2. Len(Forward) \in Nat \ {0} /\ DOMAIN Forward = 1 .. Len(Forward)
  BY ExperimenterAssumption
<1>3. last \in Nat
  BY <1>2
<1>4. ASSUME NEW k \in 1 .. last
      PROVE  /\ node(k) \in 1 .. n /\ port(k) \in DOMAIN Forward
             /\ k - 1 = n * (port(k) - 1) + (node(k) - 1)
  <2>1. node(k) \in 1 .. n /\ port(k) \in DOMAIN Forward /\ k - 1 = n * ((k - 1) \div n) + ((k - 1) % n)
    BY <1>2, CountsOnce
  <2>2. (k - 1) \div n = port(k) - 1 /\ (k - 1) % n = node(k) - 1
    <3>1. (k - 1) \div n \in Int /\ (k - 1) % n \in Int
      BY <1>3
    <3>2. QED
      BY <3>1
  <2> HIDE DEF node, port
  <2>3. QED
    BY <2>1, <2>2
<1>5. OnosRules(l) = [k \in 1 .. last |-> To(l[node(k)], Forward[port(k)], InPort(Forward[port(k)], l[node(k)][1], node(k)))]
  BY <1>1 DEF OnosRules
<1> HIDE DEF l, node, port, last
<1>6. ASSUME NEW k \in 1 .. last
      PROVE  <<c, node(k)>> \in Onos(c) /\ OnosRules(l)[k] = NodeRule(<<c, node(k)>>, port(k))
  <2>1. l[node(k)] = <<c, node(k)>> /\ <<c, node(k)>> \in Onos(c)
    BY <1>1, <1>4
  <2>2. QED
    BY <1>5, <2>1 DEF NodeRule
<1>7. OnosRules(l) \in Seq(NodeRules(c)) /\ DOMAIN OnosRules(l) = 1 .. last
  <2>1. \A k \in 1 .. last : OnosRules(l)[k] \in NodeRules(c)
    <3>1. \A x \in Onos(c), a \in DOMAIN Forward : NodeRule(x, a) \in NodeRules(c)
      BY DEF NodeRules
    <3>2. QED
      BY <1>4, <1>6, <3>1
  <2>2. OnosRules(l) \in [1 .. last -> NodeRules(c)]
    BY <1>5, <2>1
  <2>3. QED
    BY <1>3, <2>2
<1>8. IsInjective(OnosRules(l))
  <2>1. ASSUME NEW k \in 1 .. last, NEW h \in 1 .. last, OnosRules(l)[k] = OnosRules(l)[h]
        PROVE  k = h
    <3>1. NodeRule(<<c, node(k)>>, port(k)).from = NodeRule(<<c, node(h)>>, port(h)).from
      BY <1>6, <2>1
    <3>2. port(k) = port(h) /\ <<c, node(k)>>[2] = <<c, node(h)>>[2]
      BY <1>4, <1>6, <3>1, NodeRulesApart
    <3>3. k - 1 = h - 1
      BY <1>4, <3>2
    <3>4. QED
      BY <1>3, <3>3
  <2>2. QED
    BY <1>7, <2>1 DEF IsInjective
<1>9. Rules(l) = <<NetworkRule(c)>> \o OnosRules(l)
  <2>1. l[1] = <<c, 1>> /\ ~IsTennison(l[1])
    BY <1>1 DEF IsTennison
  <2>2. QED
    BY <2>1 DEF Rules
<1>10. QED
  BY <1>7, <1>8, <1>9 DEF l

LEMMA NetworkRuleKnown ==
  ASSUME NEW c \in {"alpha", "beta", "c0"}
  PROVE  NetworkRule(c) \in NetworkRules
BY DEF NetworkRules, NetworkRule, To, IpBase

(* What is added: rules that are known, each once.                           *)
LEMMA FirstRulesKnown ==
  ASSUME NEW c \in {"alpha", "beta", "c0"}, NEW n \in Nat \ {0}, n <= Size(c)
  PROVE  LET l == First(c, n) IN
         /\ Rules(l) \in Seq(KnownRules) /\ IsInjective(Rules(l))
         /\ SetOf(OnosRules(l)) \subseteq SetOf(Rules(l)) /\ SetOf(OnosRules(l)) \subseteq NodeRules(c)
         /\ SetOf(Rules(l)) \subseteq NetworkRules \cup NodeRules(c)
<1> DEFINE l == First(c, n)
           o == OnosRules(l)
           r == Rules(l)
<1>1. o \in Seq(NodeRules(c)) /\ IsInjective(o) /\ r = <<NetworkRule(c)>> \o o
  BY FirstRules
<1>2. NetworkRule(c) \in NetworkRules /\ NetworkRule(c) \notin NodeRules(c)
  BY NetworkRuleKnown, NetworksApart
<1> HIDE DEF l, o, r
<1>3. /\ Len(r) = Len(o) + 1 /\ DOMAIN r = 1 .. Len(o) + 1 /\ Len(o) \in Nat /\ DOMAIN o = 1 .. Len(o)
      /\ r[1] = NetworkRule(c) /\ \A k \in 2 .. Len(o) + 1 : r[k] = o[k - 1]
      /\ \A k \in 1 .. Len(o) : r[k + 1] = o[k]
  BY <1>1
<1>4. \A k \in 2 .. Len(o) + 1 : r[k] \in NodeRules(c) /\ k - 1 \in 1 .. Len(o)
  BY <1>1, <1>3
<1>5. r \in Seq(NetworkRules \cup NodeRules(c))
  <2>1. \A k \in 1 .. Len(o) + 1 : r[k] \in NetworkRules \cup NodeRules(c)
    BY <1>2, <1>3, <1>4
  <2>2. r \in Seq({NetworkRule(c)} \cup NodeRules(c))
    BY <1>1
  <2>3. QED
    BY <1>2, <2>2
<1>6. r \in Seq(KnownRules)
  BY <1>5 DEF KnownRules
<1>7. IsInjective(r)
  <2>1. ASSUME NEW i \in 1 .. Len(o) + 1, NEW j \in 1 .. Len(o) + 1, r[i] = r[j]
        PROVE  i = j
    <3>1. CASE i = 1 \/ j = 1
      BY <1>2, <1>3, <1>4, <2>1, <3>1
    <3>2. CASE i # 1 /\ j # 1
      <4>1. i - 1 \in DOMAIN o /\ j - 1 \in DOMAIN o /\ o[i - 1] = o[j - 1]
        BY <1>3, <2>1, <3>2
      <4>2. i - 1 = j - 1
        BY <1>1, <4>1 DEF IsInjective
      <4>3. QED
        BY <1>3, <4>2
    <3>3. QED
      BY <3>1, <3>2
  <2>2. QED
    BY <1>3, <2>1 DEF IsInjective
<1>8. SetOf(o) \subseteq SetOf(r)
  BY <1>3 DEF SetOf
<1>9. SetOf(o) \subseteq NodeRules(c)
  BY <1>1 DEF SetOf
<1>10. SetOf(r) \subseteq NetworkRules \cup NodeRules(c)
  BY <1>5 DEF SetOf
<1>11. QED
  BY <1>6, <1>7, <1>8, <1>9, <1>10 DEF l, o, r

LEMMA TennisonRulesKnown ==
  ASSUME NEW m \in Tennisons
  PROVE  Rules(<<m>>) \in Seq(ServiceRules) /\ Rules(<<m>>) \in Seq(KnownRules) /\ IsInjective(Rules(<<m>>))
<1>1. Rules(<<m>>) = TennisonRules(m)
  BY DEF Rules, Tennisons, IsTennison
<1>2. TennisonRules(m) \in Seq(ServiceRules)
  BY DEF TennisonRules, ServiceRules
<1>3. IsInjective(TennisonRules(m))
  BY DEF TennisonRules, IsInjective
<1>4. QED
  BY <1>1, <1>2, <1>3 DEF KnownRules

(* iptables -A and -D.                                                       *)
Count(B, r) == IF r \in DOMAIN B THEN B[r] ELSE 0

LEMMA CountFacts ==
  ASSUME NEW B, IsABag(B)
  PROVE  \A r : Count(B, r) \in Nat /\ (r \in DOMAIN B <=> Count(B, r) > 0)
BY DEF IsABag, Count

LEMMA BagAdded ==
  ASSUME NEW B, IsABag(B), NEW r
  PROVE  /\ IsABag(B (+) One(r)) /\ DOMAIN (B (+) One(r)) = DOMAIN B \cup {r}
         /\ Count(B (+) One(r), r) = Count(B, r) + 1
         /\ \A q : q # r => Count(B (+) One(r), q) = Count(B, q)
<1> DEFINE D == B (+) One(r)
<1>1. \A q \in DOMAIN B : B[q] \in Nat \ {0}
  BY DEF IsABag
<1>2. IsABag(D) /\ DOMAIN D = DOMAIN B \cup {r}
  BY <1>1 DEF IsABag, One, SetToBag, (+)
<1>3. D[r] = IF r \in DOMAIN B THEN B[r] + 1 ELSE 1
  BY <1>1 DEF One, SetToBag, (+)
<1>4. \A q \in DOMAIN B : q # r => D[q] = B[q]
  BY <1>1 DEF One, SetToBag, (+)
<1> HIDE DEF D
<1>5. Count(D, r) = Count(B, r) + 1
  BY <1>1, <1>2, <1>3 DEF Count
<1>6. \A q : q # r => Count(D, q) = Count(B, q)
  BY <1>2, <1>4 DEF Count
<1>7. QED
  BY <1>2, <1>5, <1>6 DEF D

LEMMA BagDeleted ==
  ASSUME NEW B, IsABag(B), NEW r
  PROVE  /\ IsABag(B (-) One(r)) /\ DOMAIN (B (-) One(r)) \subseteq DOMAIN B
         /\ Count(B (-) One(r), r) = IF Count(B, r) = 0 THEN 0 ELSE Count(B, r) - 1
         /\ \A q : q # r => Count(B (-) One(r), q) = Count(B, q)
<1> DEFINE D == [e \in DOMAIN B |-> IF e \in {r} THEN B[e] - 1 ELSE B[e]]
           E == B (-) One(r)
<1>1. \A q \in DOMAIN B : B[q] \in Nat \ {0}
  BY DEF IsABag
<1>2. E = [e \in {d \in DOMAIN D : D[d] > 0} |-> D[e]]
  BY DEF One, SetToBag, (-)
<1>3. DOMAIN D = DOMAIN B /\ \A q \in DOMAIN B : D[q] = IF q = r THEN B[q] - 1 ELSE B[q]
  OBVIOUS
<1> HIDE DEF D, E
<1>4. \A q \in DOMAIN D : D[q] \in Nat
  BY <1>1, <1>3
<1>5. DOMAIN E = {d \in DOMAIN D : D[d] > 0} /\ \A q \in DOMAIN E : E[q] = D[q]
  BY <1>2
<1>6. IsABag(E) /\ DOMAIN E \subseteq DOMAIN B
  BY <1>2, <1>3, <1>4, <1>5 DEF IsABag
<1>7. Count(E, r) = IF Count(B, r) = 0 THEN 0 ELSE Count(B, r) - 1
  BY <1>1, <1>3, <1>4, <1>5 DEF Count
<1>8. \A q : q # r => Count(E, q) = Count(B, q)
  BY <1>1, <1>3, <1>4, <1>5 DEF Count
<1>9. QED
  BY <1>6, <1>7, <1>8 DEF E
-----------------------------------------------------------------------------
(* The hosts of a cluster of a script that is not the scaling test.          *)
LEMMA HostsAreFirst ==
  ASSUME NEW k \in {"multi", "partition"}, NEW c \in 1 .. Len(ClustersOf(k))
  PROVE  \E n \in Nat \ {0} : /\ n <= Size(ClustersOf(k)[c])
                              /\ HostsOf(k, ClustersOf(k)[c]) = First(ClustersOf(k)[c], n)
<1>1. CASE k = "multi"
  BY <1>1, HostsFacts DEF Size
<1>2. CASE k = "partition"
  BY <1>2, HostsFacts, ExperimenterAssumption DEF Size, ClustersOf
<1>3. QED
  BY <1>1, <1>2

LEMMA ClusterNames ==
  ASSUME NEW k \in {"multi", "partition"}, NEW c \in 1 .. Len(ClustersOf(k))
  PROVE  ClustersOf(k)[c] \in {"alpha", "beta", "c0"}
BY DEF ClustersOf

(* The rules that Delete and Add go through are known ones, each once.       *)
LEMMA ListRules ==
  ASSUME TypeInv, at \in {"delete", "append"}
  PROVE  Rules(list) \in Seq(KnownRules) /\ IsInjective(Rules(list))
<1>1. CASE \E m \in Tennisons : list = <<m>>
  BY <1>1, TennisonRulesKnown
<1>2. CASE list = active
  <2>1. \E c \in {"alpha", "beta", "c0"}, n \in Nat \ {0} : n <= Size(c) /\ active = First(c, n)
    <3>1. CASE kind \in {"multi", "partition"}
      BY <3>1, HostsAreFirst, ClusterNames DEF TypeInv, ActiveInv, ScriptInv
    <3>2. CASE kind = "scaling"
      <4>1. active = First("c0", ServerCount)
        BY <3>2 DEF TypeInv, ActiveInv, CtlInv, Grown
      <4>2. QED
        BY <4>1, ExperimenterAssumption DEF Size, Scale
    <3>3. QED
      BY <3>1, <3>2 DEF TypeInv, ScriptInv, Kinds
  <2>2. QED
    BY <1>2, <2>1, FirstRulesKnown
<1>3. QED
  BY <1>1, <1>2 DEF TypeInv, ListInv

Copies(r) == Count(fwd, r)

(* How many of each rule there are: one more for every scaling session; none *)
(* of that, of what was just deleted and is yet to be added.                 *)
BagInv ==
  /\ IsABag(fwd) /\ DOMAIN fwd \subseteq KnownRules
  /\ \A r \in KnownRules : Copies(r) <= 1 + extra
  /\ at = "delete" => \A k \in 1 .. pos - 1 : Copies(Rules(list)[k]) <= extra
  /\ at = "append" => \A k \in pos .. Len(Rules(list)) : Copies(Rules(list)[k]) <= extra

LEMMA BagKept ==
  ASSUME BagInv, UNCHANGED <<fwd, extra>>, at' \notin {"delete", "append"} \/ (at' = "delete" /\ pos' = 1)
  PROVE  BagInv'
<1>1. at' = "delete" => 1 .. pos' - 1 = {}
  OBVIOUS
<1>2. QED
  BY <1>1 DEF BagInv, Copies

LEMMA BagStep ==
  ASSUME TypeInv, TypeInv', BagInv, [Next]_vars
  PROVE  BagInv'
<1>0. /\ extra \in Nat /\ \A r : Copies(r) \in Nat
      /\ (at \in {"delete", "append", "undo"} => pos \in 1 .. Len(Rules(list)))
  <2>1. extra \in Nat
    BY DEF TypeInv, HostInv
  <2>2. \A r : Copies(r) \in Nat
    BY CountFacts DEF BagInv, Copies
  <2>3. QED
    BY <2>1, <2>2 DEF TypeInv, ListInv
<1>1. CASE (\E k \in Kinds : Begin(k)) \/ Unpack \/ unpackTENNISON \/ StartNode \/ StartNew \/ Wait
           \/ StartSwitches \/ StartTennison \/ Cut \/ Heal \/ Sort \/ Grow \/ Quit \/ StopNode
  <2>1. UNCHANGED <<fwd, extra>>
    BY <1>1 DEF Begin, Unpack, unpackTENNISON, Unpacked, StartNode, StartNew, Wait,
                StartSwitches, StartTennison, Cut, Heal, Sort, Grow, Quit, StopNode, host, hist
  <2>2. at' \notin {"delete", "append"} \/ (at' = "delete" /\ pos' = 1)
    <3>1. CASE (\E k \in Kinds : Begin(k)) \/ Unpack \/ unpackTENNISON \/ StartNode \/ StartNew
      BY <3>1 DEF Begin, Unpack, unpackTENNISON, Unpacked, StartNode, StartNew, Go, Onward
    <3>2. CASE Wait \/ StartTennison \/ Cut \/ Heal \/ Sort \/ Grow \/ Quit \/ StopNode
      BY <3>2 DEF Wait, Waited, StartTennison, Cut, Heal, Sort, Grow, Quit, StopNode, Go, Onward
    <3>3. CASE StartSwitches
      BY <3>3 DEF StartSwitches, Go, TypeInv, ScriptInv, Kinds
    <3>4. QED
      BY <1>1, <3>1, <3>2, <3>3
  <2>3. QED
    BY <2>1, <2>2, BagKept
<1>2. CASE Leave /\ fwd' = fwd
  BY <1>2, BagKept DEF Leave, hist
<1>3. CASE Shrink
  <2>1. UNCHANGED <<fwd, extra>> /\ at' \in {"shrink", "cli"}
    BY <1>3 DEF Shrink, Go, host, hist
  <2>2. QED
    BY <2>1, BagKept
<1>4. CASE StartActive
  <2>1. fwd' = fwd /\ (extra' = extra \/ extra' = extra + 1) /\ at' \in {"start", "append"} /\ at = "start"
    BY <1>4 DEF StartActive, Go, Onward, host
  <2>2. at' = "append" => extra' = extra + 1
    BY <1>4 DEF StartActive, Go, Onward
  <2>3. \A r : Copies(r)' = Copies(r)
    BY <2>1 DEF Copies
  <2>4. \A r \in KnownRules : Copies(r)' <= 1 + extra'
    BY <1>0, <2>1, <2>3 DEF BagInv
  <2>5. at' = "append" => (\A k \in pos .. Len(Rules(list)) : Copies(Rules(list)[k]) <= extra)'
    <3>1. (\A k \in 1 .. Len(Rules(list)) : Rules(list)[k] \in KnownRules)'
      <4>1. list' = list /\ list = First("c0", ServerCount)
        BY <1>4 DEF StartActive, Go, Onward, TypeInv, ListInv, ActiveInv, CtlInv, Grown
      <4>2. Rules(First("c0", ServerCount)) \in Seq(KnownRules)
        BY FirstRulesKnown, ExperimenterAssumption DEF Size, Scale
      <4>3. QED
        BY <4>1, <4>2
    <3>2. at' = "append" => pos' = 1
      BY <1>4 DEF StartActive, Go, Onward
    <3>3. \A r \in KnownRules : Copies(r)' <= 1 + extra
      BY <2>3 DEF BagInv
    <3>4. QED
      BY <1>0, <2>2, <3>1, <3>2, <3>3
  <2>6. QED
    BY <2>1, <2>4, <2>5 DEF BagInv
<1>5. CASE Delete
  <2> DEFINE r == Rules(list)[pos]
  <2>1. at \in {"delete", "undo"} /\ fwd' = fwd (-) One(r) /\ extra' = extra /\ list' = list
    BY <1>5 DEF Delete, Go, Onward, hist
  <2>2. /\ \/ pos < Len(Rules(list)) /\ at' = at /\ pos' = pos + 1
           \/ pos >= Len(Rules(list)) /\ pos' = 1 /\ at' = IF at = "delete" THEN "append" ELSE "stop"
    BY <1>5 DEF Delete, Go, Onward, TypeInv, ListInv
  <2> HIDE DEF r
  <2>3. /\ IsABag(fwd') /\ DOMAIN fwd' \subseteq DOMAIN fwd
        /\ Count(fwd', r) = IF Count(fwd, r) = 0 THEN 0 ELSE Count(fwd, r) - 1
        /\ \A q : q # r => Count(fwd', q) = Count(fwd, q)
    BY <2>1, BagDeleted DEF BagInv
  <2>a. \A q : Count(fwd, q) \in Nat /\ Count(fwd', q) \in Nat
    BY <2>3, CountFacts DEF BagInv
  <2>b. \A q : Count(fwd', q) <= Count(fwd, q)
    <3>1. ASSUME NEW q PROVE Count(fwd', q) <= Count(fwd, q)
      <4>1. CASE q = r
        BY <2>3, <2>a, <4>1
      <4>2. CASE q # r
        BY <2>3, <2>a, <4>2
      <4>3. QED
        BY <4>1, <4>2
    <3>2. QED
      BY <3>1
  <2>4. \A q \in KnownRules : Copies(q)' <= 1 + extra'
    <3>1. ASSUME NEW q \in KnownRules PROVE Count(fwd', q) <= 1 + extra
      <4>1. Count(fwd, q) <= 1 + extra
        BY DEF BagInv, Copies
      <4>2. QED
        BY <1>0, <2>a, <2>b, <4>1
    <3>2. QED
      BY <2>1, <3>1 DEF Copies
  <2>5. ASSUME at = "delete"
        PROVE  \A k \in 1 .. pos : Count(fwd', Rules(list)[k]) <= extra
    <3>1. Rules(list) \in Seq(KnownRules)
      BY <2>5, ListRules
    <3>2. r \in KnownRules /\ Count(fwd, r) <= 1 + extra
      BY <1>0, <2>1, <3>1 DEF BagInv, r, Copies
    <3>3. Count(fwd', r) <= extra
      BY <1>0, <2>3, <2>a, <3>2
    <3>4. ASSUME NEW k \in 1 .. pos, k # pos PROVE Count(fwd', Rules(list)[k]) <= extra
      <4>1. k \in 1 .. pos - 1
        BY <1>0, <2>1, <3>4
      <4>2. Count(fwd, Rules(list)[k]) <= extra
        BY <2>5, <4>1 DEF BagInv, Copies
      <4>3. QED
        BY <1>0, <2>a, <2>b, <4>2
    <3>5. QED
      BY <3>3, <3>4 DEF r
  <2>6. QED
    <3>1. DOMAIN fwd' \subseteq KnownRules
      BY <2>3 DEF BagInv
    <3>2. at' = "delete" => (\A k \in 1 .. pos - 1 : Copies(Rules(list)[k]) <= extra)'
      <4>1. at' = "delete" => at = "delete" /\ pos' - 1 = pos
        BY <1>0, <2>1, <2>2
      <4>2. QED
        BY <2>1, <2>5, <4>1 DEF Copies
    <3>3. at' = "append" => (\A k \in pos .. Len(Rules(list)) : Copies(Rules(list)[k]) <= extra)'
      <4>1. at' = "append" => at = "delete" /\ pos' = 1 /\ pos = Len(Rules(list))
        BY <1>0, <2>1, <2>2
      <4>2. QED
        BY <2>1, <2>5, <4>1 DEF Copies
    <3>4. QED
      BY <2>3, <2>4, <3>1, <3>2, <3>3 DEF BagInv
<1>6. CASE Add
  <2> DEFINE r == Rules(list)[pos]
  <2>1. at = "append" /\ fwd' = fwd (+) One(r) /\ extra' = extra /\ pos \in 1 .. Len(Rules(list))
    BY <1>0, <1>6 DEF Add, hist
  <2>2. \/ pos < Len(Rules(list)) /\ at' = "append" /\ pos' = pos + 1 /\ list' = list
        \/ at' \notin {"append", "delete"}
    BY <1>6 DEF Add, Go, Onward
  <2>3. Rules(list) \in Seq(KnownRules) /\ IsInjective(Rules(list))
    BY <2>1, ListRules
  <2>4. r \in KnownRules /\ Copies(r) <= extra
    BY <2>1, <2>3 DEF BagInv
  <2>5. \A k \in pos + 1 .. Len(Rules(list)) : Rules(list)[k] # r /\ Copies(Rules(list)[k]) <= extra
    BY <2>1, <2>3 DEF BagInv, IsInjective
  <2> HIDE DEF r
  <2>6. /\ IsABag(fwd') /\ DOMAIN fwd' = DOMAIN fwd \cup {r}
        /\ Count(fwd', r) = Count(fwd, r) + 1
        /\ \A q : q # r => Count(fwd', q) = Count(fwd, q)
    <3>1. IsABag(fwd)
      BY DEF BagInv
    <3> DEFINE B == fwd (+) One(r)
    <3>2. /\ IsABag(B) /\ DOMAIN B = DOMAIN fwd \cup {r}
          /\ Count(B, r) = Count(fwd, r) + 1
          /\ \A q : q # r => Count(B, q) = Count(fwd, q)
      BY <3>1, BagAdded
    <3>3. fwd' = B
      BY <2>1
    <3> HIDE DEF B
    <3>4. QED
      BY <3>2, <3>3
  <2>7. DOMAIN fwd' \subseteq KnownRules /\ \A q \in KnownRules : Copies(q)' <= 1 + extra'
    <3>1. Count(fwd', r) <= 1 + extra
      BY <1>0, <2>4, <2>6 DEF Copies
    <3>2. \A q \in KnownRules : q # r => Count(fwd', q) <= 1 + extra
      BY <2>6 DEF BagInv, Copies
    <3>3. DOMAIN fwd' \subseteq KnownRules
      BY <2>4, <2>6 DEF BagInv
    <3>4. QED
      BY <2>1, <3>1, <3>2, <3>3 DEF Copies
  <2>8. at' = "append" => (\A k \in pos .. Len(Rules(list)) : Copies(Rules(list)[k]) <= extra)'
    <3>1. at' = "append" => pos' = pos + 1 /\ list' = list
      BY <2>2
    <3>2. \A k \in pos + 1 .. Len(Rules(list)) : Count(fwd', Rules(list)[k]) <= extra
      BY <2>5, <2>6 DEF Copies
    <3>3. QED
      BY <2>1, <3>1, <3>2 DEF Copies
  <2>9. QED
    BY <2>2, <2>6, <2>7, <2>8 DEF BagInv
<1>7. CASE (\E n \in Nodes : Boot(n) \/ Die(n)) \/ UNCHANGED vars
  <2>1. UNCHANGED <<script, fwd, extra>>
    BY <1>7 DEF Boot, Die, vars, host, hist
  <2>2. QED
    BY <2>1 DEF BagInv, Copies, script
<1>8. QED
  BY <1>1, <1>2, <1>3, <1>4, <1>5, <1>6, <1>7
  DEF Next, Script, UnpackFails, DiedAlert, HealthAlert, sanityAlert, Killed, Exit, QuitMulti, StopTennison, host
-----------------------------------------------------------------------------
(* The rules of which nodes are there: those of the list that were just      *)
(* added, and those of each cluster that is done with.                       *)
Forwarding == at \in {"wait", "switches", "tennison", "cut", "heal", "cli"} \/ Serves
RulesOf(k, c) == SetOf(OnosRules(HostsOf(k, ClustersOf(k)[c])))
KeptInv ==
  /\ at = "append" => \A k \in 1 .. pos - 1 : Rules(list)[k] \in DOMAIN fwd
  /\ kind \in {"multi", "partition"} /\ at # "unpack" =>
       \A c \in 1 .. cluster : c < cluster \/ Forwarding => RulesOf(kind, c) \subseteq DOMAIN fwd

LEMMA HostRules ==
  ASSUME NEW k \in {"multi", "partition"}, NEW c \in 1 .. Len(ClustersOf(k))
  PROVE  LET l == HostsOf(k, ClustersOf(k)[c]) IN
         /\ Rules(l) \in Seq(KnownRules) /\ RulesOf(k, c) \subseteq SetOf(Rules(l))
         /\ RulesOf(k, c) \subseteq NodeRules(ClustersOf(k)[c])
         /\ SetOf(Rules(l)) \subseteq NetworkRules \cup NodeRules(ClustersOf(k)[c])
BY HostsAreFirst, ClusterNames, FirstRulesKnown DEF RulesOf

(* Of the two clusters of multicluster.py, neither deletes rules of the      *)
(* other, and TENNISON nodes delete those of neither.                        *)
LEMMA DeletesOwn ==
  ASSUME TypeInv, at = "delete", NEW c \in 1 .. cluster, c < cluster \/ Serves
  PROVE  Rules(list)[pos] \notin RulesOf(kind, c)
<1>1. /\ kind \in {"multi", "partition"} /\ cluster \in 1 .. Len(ClustersOf(kind)) /\ c \in 1 .. Len(ClustersOf(kind))
      /\ pos \in 1 .. Len(Rules(list)) /\ Len(ClustersOf(kind)) \in Nat
  BY DEF TypeInv, ScriptInv, ListInv, Kinds, ClustersOf
<1>2. RulesOf(kind, c) \subseteq NodeRules(ClustersOf(kind)[c]) /\ ClustersOf(kind)[c] \in {"alpha", "beta", "c0"}
  BY <1>1, HostRules, ClusterNames
<1>3. CASE \E m \in Tennisons : list = <<m>>
  <2>1. Rules(list) \in Seq(ServiceRules)
    BY <1>3, TennisonRulesKnown
  <2>2. Rules(list)[pos] \in ServiceRules
    BY <1>1, <2>1
  <2>3. QED
    BY <1>2, <2>2, ServicesApart
<1>4. CASE list = active
  <2>1. active = HostsOf(kind, ClustersOf(kind)[cluster]) /\ active \in Seq(Nodes) /\ active # <<>>
    BY <1>1 DEF TypeInv, ActiveInv
  <2>2. ~Serves
    BY <1>4, <2>1, NotTennison DEF Serves
  <2>3. c = 1 /\ cluster = 2 /\ kind = "multi"
    BY <1>1, <2>2 DEF ClustersOf
  <2>4. ClustersOf(kind)[c] = "alpha" /\ ClustersOf(kind)[cluster] = "beta"
    BY <2>3 DEF ClustersOf
  <2>5. SetOf(Rules(list)) \subseteq NetworkRules \cup NodeRules("beta") /\ Rules(list) \in Seq(KnownRules)
    BY <1>1, <1>4, <2>1, <2>4, HostRules
  <2>6. Rules(list)[pos] \in NetworkRules \cup NodeRules("beta")
    BY <1>1, <2>5 DEF SetOf
  <2>7. \A r \in NodeRules("beta"), q \in NodeRules("alpha") : r # q
    <3>1. ASSUME NEW n \in Onos("beta"), NEW a \in DOMAIN Forward, NEW m \in Onos("alpha"), NEW b \in DOMAIN Forward,
                 NodeRule(n, a) = NodeRule(m, b)
          PROVE  FALSE
      <4>1. NetworkOf("beta") = NetworkOf("alpha")
        BY <3>1, NodeRulesApart
      <4>2. QED
        BY <4>1 DEF NetworkOf
    <3>2. QED
      BY <3>1 DEF NodeRules
  <2>8. QED
    BY <1>2, <2>4, <2>6, <2>7, NetworksApart
<1>5. QED
  BY <1>3, <1>4 DEF TypeInv, ListInv

LEMMA RulesKept ==
  ASSUME KeptInv, UNCHANGED <<kind, cluster>>, DOMAIN fwd \subseteq DOMAIN fwd', at # "unpack",
         Forwarding' => Forwarding, at' # "append" \/ pos' = 1
  PROVE  KeptInv'
<1>1. at' = "append" => 1 .. pos' - 1 = {}
  OBVIOUS
<1>2. at' = "append" => (\A k \in 1 .. pos - 1 : Rules(list)[k] \in DOMAIN fwd)'
  BY <1>1
<1>3. kind' \in {"multi", "partition"} =>
        \A c \in 1 .. cluster' : c < cluster' \/ Forwarding' => RulesOf(kind', c) \subseteq DOMAIN fwd'
  <2>1. ASSUME NEW c \in 1 .. cluster, kind \in {"multi", "partition"}, c < cluster \/ Forwarding'
        PROVE  RulesOf(kind, c) \subseteq DOMAIN fwd'
    BY <2>1 DEF KeptInv
  <2>2. QED
    BY <2>1
<1>4. QED
  BY <1>2, <1>3 DEF KeptInv

LEMMA KeptStep ==
  ASSUME TypeInv, TypeInv', BagInv, KeptInv, [Next]_vars
  PROVE  KeptInv'
<1>0. /\ kind \in Kinds \cup {"none"} /\ (kind = "none" <=> at = "none")
      /\ (kind # "none" => cluster \in 1 .. Len(ClustersOf(kind)) /\ Len(ClustersOf(kind)) \in Nat)
      /\ (at \in {"delete", "append", "undo"} => pos \in 1 .. Len(Rules(list)))
  BY DEF TypeInv, ScriptInv, ListInv, Kinds, ClustersOf
<1>1. CASE (\E k \in Kinds : Begin(k)) \/ Leave
  BY <1>1 DEF Begin, Go, Leave, KeptInv
<1>2. CASE Unpack \/ unpackTENNISON
  <2>1. at = "unpack" /\ UNCHANGED <<kind, cluster>> /\ at' \in {"unpack", "start"}
    BY <1>2 DEF Unpack, unpackTENNISON, Unpacked, Go, Onward
  <2>2. cluster = 1
    BY <2>1 DEF TypeInv, ScriptInv
  <2>3. ~Forwarding'
    BY <2>1 DEF Forwarding, Serves
  <2>4. \A c \in 1 .. cluster' : ~(c < cluster')
    BY <2>1, <2>2
  <2>5. QED
    BY <2>1, <2>3, <2>4 DEF KeptInv
<1>3. CASE StartNode
  <2>1. /\ at = "start" /\ UNCHANGED <<kind, cluster, fwd>> /\ list' = active /\ active[1] \in Nodes
        /\ at' \in {"start", "delete"}
    BY <1>3 DEF StartNode, Go, Onward, host, TypeInv, ListInv, ActiveInv, ScriptInv
  <2>2. ~Forwarding'
    BY <2>1, NotTennison DEF Forwarding, Serves
  <2>3. QED
    BY <2>1, <2>2, RulesKept
<1>4. CASE StartActive \/ StartNew \/ Sort \/ Grow \/ Shrink
  <2>1. kind' = "scaling"
    BY <1>4 DEF StartActive, StartNew, Sort, Grow, Shrink, TypeInv, ScriptInv
  <2>2. at' = "append" => pos' = 1
    BY <1>4 DEF StartActive, StartNew, Sort, Grow, Shrink, Go, Onward
  <2>3. at' = "append" => 1 .. pos' - 1 = {}
    BY <2>2
  <2>4. QED
    BY <2>1, <2>3 DEF KeptInv
<1>5. CASE Delete
  <2> DEFINE r == Rules(list)[pos]
  <2>1. /\ at \in {"delete", "undo"} /\ fwd' = fwd (-) One(r) /\ list' = list /\ UNCHANGED <<kind, cluster>>
        /\ at' \in {"delete", "append", "undo", "stop"} /\ (at' = "append" => pos' = 1)
        /\ (at = "undo" => at' \in {"undo", "stop"})
    BY <1>5 DEF Delete, Go, Onward
  <2>2. \A q \in DOMAIN fwd : q # r => q \in DOMAIN fwd'
    <3> HIDE DEF r
    <3>1. IsABag(fwd)
      BY DEF BagInv
    <3>2. IsABag(fwd') /\ \A q : q # r => Count(fwd', q) = Count(fwd, q)
      BY <2>1, <3>1, BagDeleted
    <3>3. QED
      BY <3>1, <3>2, CountFacts
  <2>3. at' = "append" => 1 .. pos' - 1 = {}
    BY <2>1
  <2>4. ASSUME NEW c \in 1 .. cluster, kind \in {"multi", "partition"}, c < cluster \/ Forwarding'
        PROVE  RulesOf(kind, c) \subseteq DOMAIN fwd'
    <3>1. CASE at = "delete"
      <4>1. Forwarding' => Serves
        BY <2>1, <3>1 DEF Forwarding, Serves
      <4>2. RulesOf(kind, c) \subseteq DOMAIN fwd
        BY <2>4, <3>1, <4>1 DEF KeptInv, Forwarding
      <4>3. r \notin RulesOf(kind, c)
        BY <2>4, <3>1, <4>1, DeletesOwn
      <4>4. QED
        BY <2>2, <4>2, <4>3
    <3>2. CASE at = "undo"
      <4>1. ~Forwarding'
        BY <2>1, <3>2 DEF Forwarding, Serves
      <4>2. cluster = 1
        BY <1>0, <2>4, <3>2 DEF TypeInv, ScriptInv, ClustersOf
      <4>3. QED
        BY <2>4, <4>1, <4>2
    <3>3. QED
      BY <2>1, <3>1, <3>2
  <2>5. QED
    BY <2>1, <2>3, <2>4 DEF KeptInv
<1>6. CASE Add
  <2> DEFINE r == Rules(list)[pos]
  <2>1. at = "append" /\ fwd' = fwd (+) One(r) /\ UNCHANGED <<kind, cluster>>
    BY <1>0, <1>6 DEF Add, Go
  <2>2. DOMAIN fwd' = DOMAIN fwd \cup {r}
    <3> HIDE DEF r
    <3>1. QED
      BY <2>1, BagAdded DEF BagInv
  <2>3. \A k \in 1 .. pos : Rules(list)[k] \in DOMAIN fwd'
    <3>1. ASSUME NEW k \in 1 .. pos, k # pos PROVE Rules(list)[k] \in DOMAIN fwd
      <4>1. k \in 1 .. pos - 1
        BY <1>0, <2>1, <3>1
      <4>2. QED
        BY <2>1, <4>1 DEF KeptInv
    <3>2. QED
      BY <2>2, <3>1
  <2>4. CASE pos < Len(Rules(list))
    <3>1. at' = "append" /\ pos' = pos + 1 /\ list' = list
      BY <1>6, <2>4 DEF Add, Onward
    <3>2. (\A k \in 1 .. pos - 1 : Rules(list)[k] \in DOMAIN fwd)'
      <4>1. pos' - 1 = pos
        BY <1>0, <2>1, <3>1
      <4>2. QED
        BY <2>3, <3>1, <4>1
    <3>3. Forwarding' => Forwarding
      BY <2>1, <3>1 DEF Forwarding, Serves
    <3>4. ASSUME NEW c \in 1 .. cluster, kind \in {"multi", "partition"}, c < cluster \/ Forwarding'
          PROVE  RulesOf(kind, c) \subseteq DOMAIN fwd'
      BY <2>1, <2>2, <3>3, <3>4 DEF KeptInv
    <3>5. QED
      BY <2>1, <3>2, <3>4 DEF KeptInv
  <2>5. CASE pos >= Len(Rules(list))
    <3>0. ~(pos < Len(Rules(list)))
      BY <1>0, <2>1, <2>5
    <3>1. at' \in {"wait", "tennison", "cli"}
      BY <1>6, <3>0 DEF Add, Go
    <3>2. ASSUME NEW c \in 1 .. cluster, kind \in {"multi", "partition"}
          PROVE  RulesOf(kind, c) \subseteq DOMAIN fwd'
      <4>1. CASE c < cluster \/ Serves
        BY <2>1, <2>2, <3>2, <4>1 DEF KeptInv, Forwarding
      <4>2. CASE ~(c < cluster) /\ ~Serves
        <5>1. c = cluster /\ cluster \in 1 .. Len(ClustersOf(kind))
          BY <1>0, <2>1, <3>2, <4>2
        <5>2. list = HostsOf(kind, ClustersOf(kind)[c])
          <6>1. list = active
            BY <2>1, <4>2 DEF Serves, TypeInv, ListInv, Tennisons, IsTennison
          <6>2. QED
            BY <3>2, <5>1, <6>1 DEF TypeInv, ActiveInv
        <5>3. Rules(list) \in Seq(KnownRules) /\ RulesOf(kind, c) \subseteq SetOf(Rules(list))
          BY <3>2, <5>1, <5>2, HostRules
        <5>4. SetOf(Rules(list)) \subseteq DOMAIN fwd'
          BY <1>0, <2>1, <2>3, <2>5, <5>3 DEF SetOf
        <5>5. QED
          BY <5>3, <5>4
      <4>3. QED
        BY <4>1, <4>2
    <3>3. QED
      BY <2>1, <3>1, <3>2 DEF KeptInv
  <2>6. QED
    BY <1>0, <2>1, <2>4, <2>5
<1>7. CASE Wait
  <2>1. at = "wait" /\ kind' = kind /\ fwd' = fwd /\ at' \in {"wait", "grow", "start", "switches"}
        /\ (cluster' = cluster \/ (at' = "start" /\ cluster' = cluster + 1 /\ kind = "multi"))
    <3>1. cluster < Len(ClustersOf(kind)) => kind = "multi"
      BY <1>0, <1>7 DEF Wait, ClustersOf, Kinds
    <3>2. QED
      BY <1>7, <3>1 DEF Wait, Waited, Go, Onward, host
  <2>2. Forwarding
    BY <2>1 DEF Forwarding
  <2>3. CASE cluster' = cluster
    BY <2>1, <2>2, <2>3, RulesKept
  <2>4. CASE at' = "start" /\ cluster' = cluster + 1 /\ kind = "multi"
    <3>1. ~Forwarding'
      BY <2>4 DEF Forwarding, Serves
    <3>2. \A c \in 1 .. cluster' : c < cluster' => c \in 1 .. cluster
      BY <1>0, <2>4
    <3>3. \A c \in 1 .. cluster' : c < cluster' => RulesOf(kind, c) \subseteq DOMAIN fwd
      BY <2>1, <2>2, <2>4, <3>2 DEF KeptInv
    <3>4. QED
      BY <2>1, <2>4, <3>1, <3>3 DEF KeptInv
  <2>5. QED
    BY <2>1, <2>3, <2>4
<1>8. CASE StartSwitches \/ StartTennison \/ Cut \/ Heal \/ Quit \/ StopNode
  <2>1. /\ UNCHANGED <<kind, cluster, fwd>> /\ at \in {"switches", "tennison", "cut", "heal", "cli", "stop"}
        /\ (at = "stop" => at' \in {"stop", "stopped"})
    BY <1>8 DEF StartSwitches, StartTennison, Cut, Heal, Quit, StopNode, Go, Onward, host
  <2>2. at' # "append"
    <3>1. CASE StartSwitches
      BY <1>0, <3>1 DEF StartSwitches, Go, Kinds
    <3>2. CASE StartTennison \/ Cut \/ Heal \/ Quit \/ StopNode
      BY <3>2 DEF StartTennison, Cut, Heal, Quit, StopNode, Go, Onward
    <3>3. QED
      BY <1>8, <3>1, <3>2
  <2>3. Forwarding' => Forwarding
    BY <2>1 DEF Forwarding, Serves
  <2>4. QED
    BY <2>1, <2>2, <2>3, RulesKept
<1>9. CASE (\E n \in Nodes : Boot(n) \/ Die(n)) \/ UNCHANGED vars
  <2>1. UNCHANGED <<script, fwd>>
    BY <1>9 DEF Boot, Die, vars, host
  <2>2. QED
    BY <2>1 DEF KeptInv, Forwarding, Serves, script
<1>10. QED
  BY <1>1, <1>2, <1>3, <1>4, <1>5, <1>6, <1>7, <1>8, <1>9
  DEF Next, Script, UnpackFails, DiedAlert, HealthAlert, sanityAlert, Killed, Exit, QuitMulti, StopTennison
-----------------------------------------------------------------------------
(* What a session that is taken down has undone so far.                      *)
TakesDown == at \in {"undo", "stop", "stopped"}
CleanInv ==
  /\ at = "undo" /\ extra = 0 => \A k \in 1 .. pos - 1 : Rules(list)[k] \notin DOMAIN fwd
  /\ at \in {"stop", "stopped"} /\ extra = 0 => \A r \in SetOf(Rules(active)) : r \notin DOMAIN fwd
  /\ at = "stopped" \/ (at = "stop" /\ pos > 1) => stale = {} /\ Up = {}
  /\ at = "stop" => \A i \in 1 .. pos - 1 : list[i] \notin dir
  /\ at = "stopped" => SetOf(active) \cap dir = {}

(* A rule that is there once is gone when it is deleted.                     *)
LEMMA DeletedIsGone ==
  ASSUME BagInv, extra = 0, NEW r, fwd' = fwd (-) One(r)
  PROVE  r \notin DOMAIN fwd' /\ DOMAIN fwd' \subseteq DOMAIN fwd
<1>1. /\ IsABag(fwd (-) One(r)) /\ DOMAIN (fwd (-) One(r)) \subseteq DOMAIN fwd
      /\ Count(fwd (-) One(r), r) = IF Count(fwd, r) = 0 THEN 0 ELSE Count(fwd, r) - 1
  BY BagDeleted DEF BagInv
<1>2. Count(fwd, r) \in Nat /\ (r \in DOMAIN fwd <=> Count(fwd, r) > 0)
  BY CountFacts DEF BagInv
<1>3. r \in KnownRules => Count(fwd, r) <= 1
  BY DEF BagInv, Copies
<1>4. Count(fwd, r) <= 1
  <2>1. r \notin KnownRules => Count(fwd, r) = 0
    BY <1>2 DEF BagInv
  <2>2. QED
    BY <1>3, <2>1
<1>5. Count(fwd (-) One(r), r) = 0
  BY <1>1, <1>2, <1>4
<1>6. r \notin DOMAIN (fwd (-) One(r))
  BY <1>1, <1>5, CountFacts
<1>7. QED
  BY <1>1, <1>6

LEMMA CleanStep ==
  ASSUME TypeInv, TypeInv', BagInv, CleanInv, [Next]_vars
  PROVE  CleanInv'
<1>0. ~TakesDown' => CleanInv'
  BY DEF TakesDown, CleanInv
<1>1. CASE (\E k \in Kinds : Begin(k)) \/ Leave \/ Unpack \/ unpackTENNISON \/ StartNode \/ StartActive \/ StartNew
  <2>1. ~TakesDown'
    BY <1>1 DEF Begin, Leave, Unpack, unpackTENNISON, Unpacked, StartNode, StartActive, StartNew, Go, Onward, TakesDown
  <2>2. QED
    BY <1>0, <2>1
<1>2. CASE Add \/ StartSwitches \/ StartTennison \/ Cut \/ Heal \/ Sort \/ Grow \/ Shrink
  <2>1. ~TakesDown'
    <3>1. CASE StartSwitches
      <4>1. kind \in Kinds
        BY <3>1 DEF StartSwitches, TypeInv, ScriptInv
      <4>2. QED
        BY <3>1, <4>1 DEF StartSwitches, Go, Kinds, TakesDown
    <3>2. CASE Add \/ StartTennison \/ Cut \/ Heal \/ Sort \/ Grow \/ Shrink
      BY <3>2 DEF Add, StartTennison, Cut, Heal, Sort, Grow, Shrink, Go, Onward, TakesDown
    <3>3. QED
      BY <1>2, <3>1, <3>2
  <2>2. QED
    BY <1>0, <2>1
<1>3. CASE Wait
  <2>1. ~TakesDown'
    BY <1>3 DEF Wait, Waited, Go, Onward, TakesDown
  <2>2. QED
    BY <1>0, <2>1
<1>4. CASE Quit
  <2>1. at' = "undo" /\ 1 .. pos' - 1 = {}
    BY <1>4 DEF Quit, Go
  <2>2. QED
    BY <2>1 DEF CleanInv
<1>5. CASE Delete /\ at = "delete"
  <2>1. ~TakesDown'
    BY <1>5 DEF Delete, Go, Onward, TakesDown
  <2>2. QED
    BY <1>0, <2>1
<1>6. CASE Delete /\ at = "undo"
  <2> DEFINE r == Rules(list)[pos]
  <2>1. /\ fwd' = fwd (-) One(r) /\ UNCHANGED <<list, active, extra>>
        /\ list = active /\ pos \in 1 .. Len(Rules(list))
    BY <1>6 DEF Delete, Go, Onward, net, hist, TypeInv, ListInv
  <2>2. ASSUME extra = 0 PROVE \A k \in 1 .. pos : Rules(list)[k] \notin DOMAIN fwd'
    <3>1. r \notin DOMAIN fwd' /\ DOMAIN fwd' \subseteq DOMAIN fwd
      BY <2>1, <2>2, DeletedIsGone
    <3>2. ASSUME NEW k \in 1 .. pos, k # pos PROVE Rules(list)[k] \notin DOMAIN fwd
      <4>1. k \in 1 .. pos - 1
        BY <2>1, <3>2
      <4>2. QED
        BY <1>6, <2>2, <4>1 DEF CleanInv
    <3>3. QED
      BY <3>1, <3>2
  <2>3. CASE pos < Len(Rules(list))
    <3>1. at' = "undo" /\ pos' = pos + 1
      BY <1>6, <2>3 DEF Delete, Onward
    <3>2. pos' - 1 = pos
      BY <2>1, <3>1
    <3>3. QED
      BY <2>1, <2>2, <3>1, <3>2 DEF CleanInv
  <2>4. CASE ~(pos < Len(Rules(list)))
    <3>1. at' = "stop" /\ pos' = 1
      BY <1>6, <2>4 DEF Delete, Go
    <3>2. 1 .. pos' - 1 = {} /\ ~(pos' > 1)
      BY <3>1
    <3>3. extra = 0 => \A q \in SetOf(Rules(active)) : q \notin DOMAIN fwd'
      <4>1. list \in Seq(Nodes) /\ list # <<>>
        BY <1>6, <2>1 DEF TypeInv, ListInv, ActiveInv, ScriptInv
      <4>2. Len(Rules(list)) \in Nat
        BY <4>1, RulesAreSeq
      <4>3. pos = Len(Rules(list))
        BY <2>1, <2>4, <4>2
      <4>4. DOMAIN Rules(list) = 1 .. Len(Rules(list))
        BY <4>1, RulesAreSeq
      <4>5. DOMAIN Rules(list) = 1 .. pos
        BY <4>3, <4>4
      <4>6. QED
        BY <2>1, <2>2, <4>5 DEF SetOf
    <3>4. QED
      BY <2>1, <3>1, <3>2, <3>3 DEF CleanInv
  <2>5. QED
    BY <2>3, <2>4
<1>7. CASE StopNode
  <2>1. /\ at = "stop" /\ list = active /\ pos \in 1 .. Len(list) /\ list \in Seq(Nodes)
        /\ UNCHANGED <<active, fwd, extra>> /\ stale' = {} /\ dir' = dir \ {list[pos]}
    BY <1>7 DEF StopNode, net, hist, TypeInv, ListInv, ActiveInv
  <2>2. Up' = {}
    <3>1. \A n \in Nodes : proc'[n] # "up"
      BY <1>7 DEF StopNode
    <3>2. QED
      BY <3>1 DEF Up
  <2>3. extra' = 0 => \A r \in SetOf(Rules(active')) : r \notin DOMAIN fwd'
    BY <2>1 DEF CleanInv
  <2>4. \A i \in 1 .. pos : list[i] \notin dir'
    <3>1. ASSUME NEW i \in 1 .. pos, i # pos PROVE list[i] \notin dir
      <4>1. i \in 1 .. pos - 1
        BY <2>1, <3>1
      <4>2. QED
        BY <2>1, <4>1 DEF CleanInv
    <3>2. QED
      BY <2>1, <3>1
  <2>5. CASE pos < Len(list)
    <3>1. at' = "stop" /\ pos' = pos + 1 /\ list' = list
      BY <1>7, <2>5 DEF StopNode, Onward
    <3>2. pos' - 1 = pos
      BY <2>1, <3>1
    <3>3. QED
      BY <2>1, <2>2, <2>3, <2>4, <3>1, <3>2 DEF CleanInv
  <2>6. CASE ~(pos < Len(list))
    <3>1. at' = "stopped"
      BY <1>7, <2>6 DEF StopNode, Go
    <3>2. DOMAIN active = 1 .. pos
      BY <2>1, <2>6
    <3>3. SetOf(active) \cap dir' = {}
      BY <2>1, <2>4, <3>2 DEF SetOf
    <3>4. QED
      BY <2>1, <2>2, <2>3, <3>1, <3>3 DEF CleanInv
  <2>7. QED
    BY <2>5, <2>6
<1>8. CASE (\E n \in Nodes : Boot(n) \/ Die(n)) \/ UNCHANGED vars
  <2>1. UNCHANGED <<at, pos, list, active, fwd, dir, stale, extra>>
    BY <1>8 DEF Boot, Die, vars, script, net, host, hist
  <2>2. Up' \subseteq Up
    <3>1. \A n \in Nodes : proc'[n] = "up" => proc[n] = "up"
      BY <1>8 DEF Boot, Die, vars, onos, TypeInv, HostInv
    <3>2. QED
      BY <3>1 DEF Up
  <2>3. (stale = {} /\ Up = {}) => (stale' = {} /\ Up' = {})
    BY <2>1, <2>2
  <2>4. QED
    BY <2>1, <2>3 DEF CleanInv
<1>9. QED
  BY <1>1, <1>2, <1>3, <1>4, <1>5, <1>6, <1>7, <1>8
  DEF Next, Script, Delete, UnpackFails, DiedAlert, HealthAlert, sanityAlert, Killed, Exit, QuitMulti, StopTennison
-----------------------------------------------------------------------------
(* The host is in order (HostIsInOrder), whatever killed sessions have left: *)
(* no port is forwarded to two addresses, each rule is there once, or once   *)
(* more for every scaling session, and while an experiment runs each of its  *)
(* nodes is reached; a partition test that ends leaves nothing behind.       *)
THEOREM HostStaysInOrder == Spec => []HostIsInOrder
<1> DEFINE Inv == TypeInv /\ StartedInv /\ BagInv /\ KeptInv /\ CleanInv
<1>1. Init => Inv
  <2>1. ASSUME Init PROVE StartedInv /\ KeptInv /\ CleanInv
    BY <2>1 DEF Init, StartedInv, KeptInv, CleanInv
  <2>2. ASSUME Init PROVE BagInv
    <3>1. IsABag(fwd) /\ DOMAIN fwd = {} /\ at = "none" /\ extra = 0
      BY <2>2 DEF Init, EmptyBag, SetToBag, IsABag
    <3>2. \A r : Copies(r) = 0
      BY <3>1 DEF Copies, Count
    <3>3. QED
      BY <3>1, <3>2 DEF BagInv
  <2>3. QED
    BY <2>1, <2>2, TypeStart
<1>2. Inv /\ [Next]_vars => Inv'
  BY TypeStep, StartedStep, BagStep, KeptStep, CleanStep
<1>3. Inv => HostIsInOrder
  <2>1. ASSUME Inv PROVE PortsLeadToNodes
    <3>1. \A r, q \in BagToSet(fwd) : r.from = q.from /\ r.from # 0 => r = q
      BY <2>1, KnownApart DEF BagInv, BagToSet
    <3>2. ASSUME NEW r \in BagToSet(fwd) PROVE fwd[r] <= 1 + extra
      <4>1. r \in DOMAIN fwd /\ r \in KnownRules
        BY <2>1, <3>2 DEF BagInv, BagToSet
      <4>2. Copies(r) <= 1 + extra /\ Copies(r) = fwd[r]
        BY <2>1, <4>1 DEF BagInv, Copies, Count
      <4>3. QED
        BY <4>2
    <3>3. ASSUME Running, NEW c \in 1 .. Len(ClustersOf(kind)),
                 NEW r \in SetOf(OnosRules(HostsOf(kind, ClustersOf(kind)[c])))
          PROVE  BagIn(r, fwd)
      <4>1. /\ kind \in {"multi", "partition"} /\ at # "unpack" /\ Forwarding
            /\ cluster = Len(ClustersOf(kind))
        BY <2>1, <3>3 DEF Running, Forwarding, Later, TypeInv, ScriptInv, Kinds
      <4>2. RulesOf(kind, c) \subseteq DOMAIN fwd
        BY <2>1, <3>3, <4>1 DEF KeptInv
      <4>3. QED
        BY <3>3, <4>2 DEF RulesOf, BagIn, BagToSet
    <3>4. QED
      BY <3>1, <3>2, <3>3 DEF PortsLeadToNodes
  <2>2. ASSUME Inv PROVE PartitionCleansUp
    <3>1. ASSUME kind = "partition", at = "stopped" PROVE dir \cap started = {}
      <4>1. cluster = 1 /\ ClustersOf(kind)[1] = "c0"
        BY <2>2, <3>1 DEF TypeInv, ScriptInv, ClustersOf
      <4>2. active = HostsOf(kind, "c0")
        BY <2>2, <3>1, <4>1 DEF TypeInv, ActiveInv
      <4>3. started \subseteq SetOf(active) /\ SetOf(active) \cap dir = {}
        BY <2>2, <3>1, <4>2 DEF StartedInv, CleanInv
      <4>4. QED
        BY <4>3
    <3>2. QED
      BY <2>2, <3>1 DEF PartitionCleansUp, CleanInv, BagIn, BagToSet
  <2>3. QED
    BY <2>1, <2>2 DEF HostIsInOrder
<1>4. QED
  BY <1>1, <1>2, <1>3, PTL DEF Spec
=============================================================================
