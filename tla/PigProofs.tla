----------------------------- MODULE PigProofs ------------------------------
(***************************************************************************)
(* Proofs about the pig relay, for any alerts, rules, sizes of socket and  *)
(* queue, and number of requests, starts and processes. The way of alerts  *)
(* (AlertRelay): its types, and that socket, queue, buffer, requests and   *)
(* message queue are together the pipe of AlertChannel, of which it is     *)
(* proved first that what is received or on its way has the order of the   *)
(* reports, that nothing is there twice, and that without a failure        *)
(* nothing is missing. The way of rules (PigRelay): its types, what a      *)
(* running Snort has read, and which Snorts can be left running.           *)
(***************************************************************************)
EXTENDS AlertRelay, PigRelay, SequenceTheorems, FiniteSetTheorems, TLAPS

(* What goes from the head of one sequence to the end of the one before it   *)
(* stays where it is in both.                                                *)
LEMMA MoveKeeps ==
  ASSUME NEW S, NEW s \in Seq(S), NEW t \in Seq(S), t # <<>>
  PROVE  Append(s, Head(t)) \o Tail(t) = s \o t
<1> DEFINE h == Head(t)  r == Tail(t)  u == Append(s, h)
<1>1. /\ h \in S /\ r \in Seq(S) /\ Len(r) = Len(t) - 1 /\ Len(t) \in Nat /\ Len(s) \in Nat
      /\ \A i \in 1 .. Len(r) : r[i] = t[i + 1]
  BY HeadTailProperties, LenProperties
<1>2. h = t[1]
  BY SMT
<1>3. /\ u \in Seq(S) /\ Len(u) = Len(s) + 1
      /\ \A i \in 1 .. Len(s) : u[i] = s[i]
      /\ u[Len(s) + 1] = h
  BY <1>1, AppendProperties
<1> HIDE DEF h, r, u
<1>4. /\ u \o r \in Seq(S) /\ Len(u \o r) = Len(u) + Len(r)
      /\ \A i \in 1 .. Len(u) + Len(r) : (u \o r)[i] = IF i <= Len(u) THEN u[i] ELSE r[i - Len(u)]
  BY <1>1, <1>3, ConcatProperties
<1>5. /\ s \o t \in Seq(S) /\ Len(s \o t) = Len(s) + Len(t)
      /\ \A i \in 1 .. Len(s) + Len(t) : (s \o t)[i] = IF i <= Len(s) THEN s[i] ELSE t[i - Len(s)]
  BY ConcatProperties
<1>6. Len(u \o r) = Len(s \o t)
  BY <1>1, <1>3, <1>4, <1>5
<1>7. ASSUME NEW i \in 1 .. Len(u \o r) PROVE (u \o r)[i] = (s \o t)[i]
  <2>1. CASE i <= Len(s)
    BY <2>1, <1>1, <1>3, <1>4, <1>5, <1>6
  <2>2. CASE i = Len(s) + 1
    BY <2>2, <1>1, <1>2, <1>3, <1>4, <1>5, <1>6
  <2>3. CASE i > Len(s) + 1
    <3>1. i - Len(u) \in 1 .. Len(r) /\ (i - Len(u)) + 1 = i - Len(s)
      BY <2>3, <1>1, <1>3, <1>4
    <3>2. r[i - Len(u)] = t[i - Len(s)]
      BY <3>1, <1>1
    <3>3. (u \o r)[i] = r[i - Len(u)]
      BY <2>3, <1>1, <1>3, <1>4
    <3>4. QED
      BY <2>3, <3>2, <3>3, <1>1, <1>5, <1>6
  <2>4. QED
    BY <2>1, <2>2, <2>3, <1>1, <1>3, <1>4
<1>8. u \o r = s \o t
  BY <1>4, <1>5, <1>6, <1>7, SeqEqual
<1>9. QED
  BY <1>8 DEF u, r, h

LEMMA AppendMoves ==
  ASSUME NEW S, NEW s \in Seq(S), NEW t \in Seq(S), NEW e \in S
  PROVE  s \o Append(t, e) = Append(s \o t, e)
<1>1. <<e>> \in Seq(S)
  BY <<e>> = [i \in 1 .. 1 |-> e], <<e>> \in [1 .. 1 -> S], SeqDef
<1>2. Append(t, e) = t \o <<e>> /\ s \o t \in Seq(S)
  BY AppendIsConcat, ConcatProperties
<1>3. s \o (t \o <<e>>) = (s \o t) \o <<e>>
  BY <1>1, ConcatAssociative
<1>4. QED
  BY <1>2, <1>3, AppendIsConcat
-----------------------------------------------------------------------------
(* What is cut out of a sequence leaves one whose places are places of the   *)
(* first in the same order.                                                  *)
CutOut(p, i, j) == SubSeq(p, 1, i) \o SubSeq(p, j + 1, Len(p))

LEMMA CutKeepsOrder ==
  ASSUME NEW S, NEW p \in Seq(S), NEW i \in 0 .. Len(p), NEW j \in i .. Len(p)
  PROVE  /\ CutOut(p, i, j) \in Seq(S)
         /\ Len(CutOut(p, i, j)) = Len(p) - (j - i)
         /\ \A k \in 1 .. Len(CutOut(p, i, j)) :
              CutOut(p, i, j)[k] = IF k <= i THEN p[k] ELSE p[k + (j - i)]
<1> DEFINE a == SubSeq(p, 1, i)  b == SubSeq(p, j + 1, Len(p))
<1>1. Len(p) \in Nat /\ \A k \in 1 .. Len(p) : p[k] \in S
  BY LenProperties, ElementOfSeq
<1>2. /\ a \in Seq(S) /\ Len(a) = i
      /\ \A k \in 1 .. i : a[k] = p[k]
  <2>1. \A k \in 1 .. i : p[k] \in S
    BY <1>1
  <2>2. /\ a \in Seq(S) /\ Len(a) = IF 1 <= i THEN i - 1 + 1 ELSE 0
        /\ \A k \in 1 .. i - 1 + 1 : a[k] = p[1 + k - 1]
    BY <2>1, SubSeqProperties
  <2>3. QED
    BY <2>2, <1>1
<1>3. /\ b \in Seq(S) /\ Len(b) = Len(p) - j
      /\ \A k \in 1 .. Len(p) - j : b[k] = p[j + k]
  <2>1. \A k \in j + 1 .. Len(p) : p[k] \in S
    BY <1>1
  <2>2. /\ b \in Seq(S)
        /\ Len(b) = IF j + 1 <= Len(p) THEN Len(p) - (j + 1) + 1 ELSE 0
        /\ \A k \in 1 .. Len(p) - (j + 1) + 1 : b[k] = p[(j + 1) + k - 1]
    BY <2>1, <1>1, SubSeqProperties
  <2>3. QED
    BY <2>2, <1>1
<1> HIDE DEF a, b
<1>4. /\ a \o b \in Seq(S) /\ Len(a \o b) = Len(a) + Len(b)
      /\ \A k \in 1 .. Len(a) + Len(b) : (a \o b)[k] = IF k <= Len(a) THEN a[k] ELSE b[k - Len(a)]
  BY <1>2, <1>3, ConcatProperties
<1>5. Len(a \o b) = Len(p) - (j - i)
  BY <1>1, <1>2, <1>3, <1>4
<1>6. ASSUME NEW k \in 1 .. Len(a \o b)
      PROVE  (a \o b)[k] = IF k <= i THEN p[k] ELSE p[k + (j - i)]
  <2>1. CASE k <= i
    BY <2>1, <1>1, <1>2, <1>3, <1>4
  <2>2. CASE k > i
    <3>1. k - i \in 1 .. Len(p) - j /\ j + (k - i) = k + (j - i)
      BY <2>2, <1>1, <1>5
    <3>2. (a \o b)[k] = b[k - i]
      BY <2>2, <1>1, <1>2, <1>3, <1>4
    <3>3. b[k - i] = p[j + (k - i)]
      BY <3>1, <1>3
    <3>4. (a \o b)[k] = p[k + (j - i)]
      BY <3>1, <3>2, <3>3, Zenon
    <3>5. ~(k <= i)
      BY <2>2, <1>5, <1>1
    <3>6. QED
      BY <3>4, <3>5, Zenon
  <2>3. QED
    BY <2>1, <2>2, <1>1
<1>7. QED
  BY <1>4, <1>5, <1>6 DEF CutOut, a, b
-----------------------------------------------------------------------------
(* What the two properties say of a log l and a line s, and what the steps   *)
(* of the channel do to them: grow both, grow the log, thin the line.        *)
Ordered(l, s) == \A i, j \in 1 .. Len(s) : i < j =>
                   \E m, n \in 1 .. Len(l) : m < n /\ l[m] = s[i] /\ l[n] = s[j]
Within(l, s)  == \A i \in 1 .. Len(s) : \E m \in 1 .. Len(l) : l[m] = s[i]

LEMMA GrowLog ==
  ASSUME NEW S, NEW l \in Seq(S), NEW s \in Seq(S), NEW a \in S, Ordered(l, s), Within(l, s)
  PROVE  Ordered(Append(l, a), s) /\ Within(Append(l, a), s)
<1> DEFINE k == Append(l, a)
<1>1. /\ Len(l) \in Nat /\ Len(k) = Len(l) + 1
      /\ \A m \in 1 .. Len(l) : m \in 1 .. Len(k) /\ k[m] = l[m]
  BY AppendProperties, LenProperties
<1> HIDE DEF k
<1>2. Ordered(k, s)
  <2> SUFFICES ASSUME NEW i \in 1 .. Len(s), NEW j \in 1 .. Len(s), i < j
               PROVE  \E m, n \in 1 .. Len(k) : m < n /\ k[m] = s[i] /\ k[n] = s[j]
    BY DEF Ordered
  <2>1. PICK m \in 1 .. Len(l), n \in 1 .. Len(l) : m < n /\ l[m] = s[i] /\ l[n] = s[j]
    BY DEF Ordered
  <2>2. QED
    BY <2>1, <1>1
<1>3. Within(k, s)
  BY <1>1 DEF Within
<1>4. QED
  BY <1>2, <1>3 DEF k

LEMMA GrowBoth ==
  ASSUME NEW S, NEW l \in Seq(S), NEW s \in Seq(S), NEW a \in S, Ordered(l, s), Within(l, s)
  PROVE  Ordered(Append(l, a), Append(s, a)) /\ Within(Append(l, a), Append(s, a))
<1> DEFINE k == Append(l, a)  t == Append(s, a)
<1>1. /\ Len(l) \in Nat /\ Len(k) = Len(l) + 1 /\ k[Len(l) + 1] = a
      /\ \A m \in 1 .. Len(l) : k[m] = l[m]
  BY AppendProperties, LenProperties
<1>2. /\ Len(s) \in Nat /\ Len(t) = Len(s) + 1 /\ t[Len(s) + 1] = a
      /\ \A m \in 1 .. Len(s) : t[m] = s[m]
  BY AppendProperties, LenProperties
<1> HIDE DEF k, t
<1>3. Ordered(k, t)
  <2> SUFFICES ASSUME NEW i \in 1 .. Len(t), NEW j \in 1 .. Len(t), i < j
               PROVE  \E m, n \in 1 .. Len(k) : m < n /\ k[m] = t[i] /\ k[n] = t[j]
    BY DEF Ordered
  <2>1. i \in 1 .. Len(s) /\ t[i] = s[i]
    BY <1>2
  <2>2. CASE j \in 1 .. Len(s)
    <3>1. PICK m \in 1 .. Len(l), n \in 1 .. Len(l) : m < n /\ l[m] = s[i] /\ l[n] = s[j]
      BY <2>1, <2>2 DEF Ordered
    <3>2. k[m] = l[m] /\ k[n] = l[n] /\ t[j] = s[j] /\ m \in 1 .. Len(k) /\ n \in 1 .. Len(k)
      BY <2>2, <1>1, <1>2
    <3>3. QED
      BY <2>1, <3>1, <3>2
  <2>3. CASE j = Len(s) + 1
    <3>1. PICK m \in 1 .. Len(l) : l[m] = s[i]
      BY <2>1 DEF Within
    <3>2. m \in 1 .. Len(k) /\ Len(l) + 1 \in 1 .. Len(k) /\ m < Len(l) + 1
      BY <1>1
    <3>3. k[m] = t[i] /\ k[Len(l) + 1] = t[j]
      BY <2>1, <2>3, <3>1, <1>1, <1>2
    <3>4. QED
      BY <3>2, <3>3
  <2>4. QED
    BY <2>2, <2>3, <1>2
<1>4. Within(k, t)
  <2> SUFFICES ASSUME NEW i \in 1 .. Len(t) PROVE \E m \in 1 .. Len(k) : k[m] = t[i]
    BY DEF Within
  <2>1. CASE i \in 1 .. Len(s)
    <3>1. PICK m \in 1 .. Len(l) : l[m] = s[i]
      BY <2>1 DEF Within
    <3>2. QED
      BY <2>1, <3>1, <1>1, <1>2
  <2>2. CASE i = Len(s) + 1
    BY <2>2, <1>1, <1>2
  <2>3. QED
    BY <2>1, <2>2, <1>2
<1>5. QED
  BY <1>3, <1>4 DEF k, t

LEMMA ThinLine ==
  ASSUME NEW l, NEW s, NEW t, NEW c \in Nat, NEW d \in Nat,
         Len(s) \in Nat, Len(t) = Len(s) - d, c <= Len(t),
         \A k \in 1 .. Len(t) : t[k] = IF k <= c THEN s[k] ELSE s[k + d],
         Ordered(l, s), Within(l, s)
  PROVE  Ordered(l, t) /\ Within(l, t)
<1> DEFINE at(k) == IF k <= c THEN k ELSE k + d
<1>1. ASSUME NEW k \in 1 .. Len(t) PROVE at(k) \in 1 .. Len(s) /\ t[k] = s[at(k)]
  <2>1. CASE k <= c
    BY <2>1
  <2>2. CASE k > c
    BY <2>2
  <2>3. QED
    BY <2>1, <2>2
<1>2. ASSUME NEW i \in 1 .. Len(t), NEW j \in 1 .. Len(t), i < j PROVE at(i) < at(j)
  BY <1>2
<1> HIDE DEF at
<1>3. Within(l, t)
  BY <1>1 DEF Within
<1>4. ASSUME NEW i \in 1 .. Len(t), NEW j \in 1 .. Len(t), i < j
      PROVE  \E m, n \in 1 .. Len(l) : m < n /\ l[m] = t[i] /\ l[n] = t[j]
  <2>1. at(i) \in 1 .. Len(s) /\ at(j) \in 1 .. Len(s) /\ at(i) < at(j)
    BY <1>1, <1>2, <1>4
  <2>2. PICK m \in 1 .. Len(l), n \in 1 .. Len(l) : m < n /\ l[m] = s[at(i)] /\ l[n] = s[at(j)]
    BY <2>1 DEF Ordered
  <2>3. QED
    BY <2>2, <1>1
<1>5. QED
  BY <1>3, <1>4 DEF Ordered
-----------------------------------------------------------------------------
ChanTypeOK == /\ log \in Seq(Alerts) /\ Way \in Seq(Alerts) /\ got \in Seq(Alerts)
              /\ (faults # {}) \in BOOLEAN

(* The order of two is not enough to add a third: all of the line has to be  *)
(* in the log. That no alert is in the log twice makes the order say that    *)
(* none is received twice.                                                   *)
Once == \A m, n \in 1 .. Len(log) : m # n => log[m] # log[n]

LineInv == /\ ChanTypeOK
           /\ Ordered(log, Channel!Line) /\ Within(log, Channel!Line)
           /\ Once
           /\ Channel!NoFaultNoLoss

LEMMA LineInit == Channel!Init => LineInv
<1> SUFFICES ASSUME Channel!Init PROVE LineInv
  OBVIOUS
<1> USE DEF Channel!Init
<1>1. ChanTypeOK
  BY EmptySeq DEF ChanTypeOK
<1>2. Channel!Line = <<>> /\ log = <<>> /\ Len(<<>>) = 0
  BY EmptySeq, ConcatEmptySeq DEF Channel!Line
<1>3. Ordered(log, Channel!Line) /\ Within(log, Channel!Line)
  BY <1>2 DEF Ordered, Within
<1>4. Once /\ Channel!NoFaultNoLoss
  BY <1>2 DEF Once, Channel!NoFaultNoLoss
<1>5. QED
  BY <1>1, <1>3, <1>4 DEF LineInv

LEMMA ReportStep == ASSUME LineInv, NEW a \in Alerts, Channel!Report(a) PROVE LineInv'
<1>1. /\ log \in Seq(Alerts) /\ Channel!Line \in Seq(Alerts)
      /\ Way \in Seq(Alerts) /\ got \in Seq(Alerts)
      /\ log' = Append(log, a) /\ log' \in Seq(Alerts)
  BY ConcatProperties, AppendProperties DEF LineInv, ChanTypeOK, Channel!Line, Channel!Report
<1>2. Once'
  <2>1. \A m \in 1 .. Len(log) : log[m] # a
    BY <1>1, LenProperties DEF Channel!Report, Channel!Reported
  <2>2. /\ Len(log) \in Nat /\ Len(log') = Len(log) + 1 /\ log'[Len(log) + 1] = a
        /\ \A m \in 1 .. Len(log) : log'[m] = log[m]
    BY <1>1, AppendProperties, LenProperties
  <2>3. ASSUME NEW m \in 1 .. Len(log'), NEW n \in 1 .. Len(log'), m # n PROVE log'[m] # log'[n]
    BY <2>1, <2>2, <2>3 DEF LineInv, Once
  <2>4. QED
    BY <2>3 DEF Once
<1>3. CASE Way' = Append(Way, a) /\ UNCHANGED <<got, (faults # {})>>
  <2>1. Channel!Line' = Append(Channel!Line, a)
    BY <1>1, <1>3, AppendMoves DEF Channel!Line
  <2>2. (Ordered(log, Channel!Line) /\ Within(log, Channel!Line))'
    BY <1>1, <2>1, GrowBoth DEF LineInv
  <2>3. ChanTypeOK'
    BY <1>1, <1>3, AppendProperties DEF LineInv, ChanTypeOK
  <2>4. Channel!NoFaultNoLoss'
    BY <1>1, <1>3, <2>1 DEF LineInv, Channel!NoFaultNoLoss
  <2>5. QED
    BY <1>2, <2>2, <2>3, <2>4 DEF LineInv
<1>4. CASE (faults # {})' = TRUE /\ UNCHANGED <<Way, got>>
  <2>1. Channel!Line' = Channel!Line
    BY <1>4 DEF Channel!Line
  <2>2. (Ordered(log, Channel!Line) /\ Within(log, Channel!Line))'
    BY <1>1, <2>1, GrowLog DEF LineInv
  <2>3. ChanTypeOK' /\ Channel!NoFaultNoLoss'
    BY <1>1, <1>4 DEF LineInv, ChanTypeOK, Channel!NoFaultNoLoss
  <2>4. QED
    BY <1>2, <2>2, <2>3 DEF LineInv
<1>5. QED
  BY <1>3, <1>4 DEF Channel!Report

LEMMA DeliverStep == ASSUME LineInv, Channel!Deliver PROVE LineInv'
<1>1. Channel!Line' = Channel!Line
  BY MoveKeeps DEF LineInv, ChanTypeOK, Channel!Deliver, Channel!Line
<1>2. ChanTypeOK'
  BY HeadTailProperties, AppendProperties DEF LineInv, ChanTypeOK, Channel!Deliver
<1>3. QED
  BY <1>1, <1>2 DEF LineInv, Channel!Deliver, Once, Channel!NoFaultNoLoss

LEMMA FailStep == ASSUME LineInv, Channel!Fail PROVE LineInv'
<1>0. PICK i \in 0 .. Len(Way) : \E j \in i .. Len(Way) : Way' = CutOut(Way, i, j)
  BY DEF Channel!Fail, CutOut
<1>1. PICK j \in i .. Len(Way) : Way' = CutOut(Way, i, j)
  BY <1>0
<1>2. /\ Way' \in Seq(Alerts) /\ Len(Way') = Len(Way) - (j - i)
      /\ \A k \in 1 .. Len(Way') : Way'[k] = IF k <= i THEN Way[k] ELSE Way[k + (j - i)]
  BY <1>1, CutKeepsOrder DEF LineInv, ChanTypeOK
<1>3. /\ Len(got) \in Nat /\ Len(Way) \in Nat
      /\ Len(Channel!Line) = Len(got) + Len(Way)
      /\ \A k \in 1 .. Len(got) + Len(Way) : Channel!Line[k] = IF k <= Len(got) THEN got[k] ELSE Way[k - Len(got)]
  BY ConcatProperties, LenProperties DEF LineInv, ChanTypeOK, Channel!Line
<1>4. /\ Channel!Line' = got \o Way' /\ Len(Channel!Line') = Len(got) + Len(Way')
      /\ \A k \in 1 .. Len(got) + Len(Way') : Channel!Line'[k] = IF k <= Len(got) THEN got[k] ELSE Way'[k - Len(got)]
  BY <1>2, ConcatProperties DEF LineInv, ChanTypeOK, Channel!Line, Channel!Fail
<1> DEFINE c == Len(got) + i  d == j - i
<1>5. /\ c \in Nat /\ d \in Nat /\ c <= Len(Channel!Line')
      /\ Len(Channel!Line') = Len(Channel!Line) - d /\ Len(Channel!Line) \in Nat
  BY <1>2, <1>3, <1>4
<1>6. ASSUME NEW k \in 1 .. Len(Channel!Line')
      PROVE  Channel!Line'[k] = IF k <= c THEN Channel!Line[k] ELSE Channel!Line[k + d]
  <2>1. CASE k <= Len(got)
    BY <2>1, <1>2, <1>3, <1>4, <1>5
  <2>2. CASE k > Len(got)
    <3>0. Len(Way') \in Nat /\ k \in 1 .. Len(got) + Len(Way')
      BY <1>2, <1>4, LenProperties
    <3>1. k - Len(got) \in 1 .. Len(Way') /\ Channel!Line'[k] = Way'[k - Len(got)]
      <4>1. Channel!Line'[k] = IF k <= Len(got) THEN got[k] ELSE Way'[k - Len(got)]
        BY <3>0, <1>4
      <4>2. k - Len(got) \in 1 .. Len(Way') /\ ~(k <= Len(got))
        BY <2>2, <3>0, <1>3
      <4>3. QED
        BY <4>1, <4>2, Zenon
    <3>2. CASE k <= c
      <4>1. k - Len(got) <= i /\ k \in 1 .. Len(got) + Len(Way)
        BY <2>2, <3>0, <3>2, <1>2, <1>3
      <4>2. Way'[k - Len(got)] = Way[k - Len(got)]
        BY <3>1, <4>1, <1>2, Zenon
      <4>3. Channel!Line[k] = Way[k - Len(got)]
        BY <2>2, <4>1, <1>3
      <4>4. QED
        BY <3>1, <3>2, <4>2, <4>3, Zenon
    <3>3. CASE k > c
      <4>1. Way'[k - Len(got)] = Way[(k - Len(got)) + (j - i)]
        BY <3>1, <3>3, <1>2, <1>3
      <4>2. /\ (k - Len(got)) + (j - i) = (k + d) - Len(got)
            /\ k + d \in 1 .. Len(got) + Len(Way) /\ k + d > Len(got)
        BY <2>2, <1>2, <1>3, <1>4
      <4>3. Channel!Line[k + d] = Way[(k + d) - Len(got)]
        BY <4>2, <1>3
      <4>4. QED
        BY <3>1, <3>3, <4>1, <4>2, <4>3, <1>5
    <3>4. QED
      BY <3>2, <3>3, <1>3, <1>5
  <2>3. QED
    BY <2>1, <2>2, <1>3, <1>4, <1>2
<1> HIDE DEF c, d
<1>7. Ordered(log, Channel!Line') /\ Within(log, Channel!Line')
  BY <1>5, <1>6, ThinLine DEF LineInv
<1>8. QED
  BY <1>2, <1>7 DEF LineInv, ChanTypeOK, Once, Channel!NoFaultNoLoss, Channel!Fail

LEMMA LineStep == LineInv /\ [Channel!Next]_(Channel!chanVars) => LineInv'
<1> SUFFICES ASSUME LineInv, [Channel!Next]_(Channel!chanVars) PROVE LineInv'
  OBVIOUS
<1>1. CASE UNCHANGED Channel!chanVars
  BY <1>1 DEF Channel!chanVars, LineInv, ChanTypeOK, Once, Channel!NoFaultNoLoss, Channel!Line
<1>2. QED
  BY <1>1, ReportStep, DeliverStep, FailStep DEF Channel!Next

LEMMA OrderFollows == LineInv => Channel!InOrder
<1> SUFFICES ASSUME LineInv, NEW i \in DOMAIN Channel!Line, NEW j \in DOMAIN Channel!Line, i < j
             PROVE  \E m, n \in DOMAIN log : m < n /\ log[m] = Channel!Line[i] /\ log[n] = Channel!Line[j]
  BY DEF Channel!InOrder
<1>1. DOMAIN Channel!Line = 1 .. Len(Channel!Line) /\ DOMAIN log = 1 .. Len(log)
  BY ConcatProperties, LenProperties DEF LineInv, ChanTypeOK, Channel!Line
<1>2. PICK m \in 1 .. Len(log), n \in 1 .. Len(log) : m < n /\ log[m] = Channel!Line[i] /\ log[n] = Channel!Line[j]
  BY <1>1 DEF LineInv, Ordered
<1>3. QED
  BY <1>1, <1>2

(* What is received or on its way is in the order of the reports.            *)
THEOREM OrderIsKept == Channel!Spec => []Channel!InOrder
BY LineInit, LineStep, OrderFollows, PTL DEF Channel!Spec

(* Nothing is received twice, nor received while it is still on its way.     *)
OnceOnly == \A i, j \in 1 .. Len(Channel!Line) : i # j => Channel!Line[i] # Channel!Line[j]

THEOREM NothingComesTwice == Channel!Spec => []OnceOnly
<1>1. LineInv => OnceOnly
  <2> SUFFICES ASSUME LineInv, NEW i \in 1 .. Len(Channel!Line), NEW j \in 1 .. Len(Channel!Line), i < j
               PROVE  Channel!Line[i] # Channel!Line[j]
    <3>1. ASSUME LineInv PROVE Len(Channel!Line) \in Nat
      BY <3>1, ConcatProperties, LenProperties DEF LineInv, ChanTypeOK, Channel!Line
    <3>2. QED
      BY <3>1 DEF OnceOnly
  <2>1. PICK m, n \in 1 .. Len(log) : m < n /\ log[m] = Channel!Line[i] /\ log[n] = Channel!Line[j]
    BY DEF LineInv, Ordered
  <2>2. QED
    BY <2>1 DEF LineInv, Once
<1>2. QED
  BY <1>1, LineInit, LineStep, PTL DEF Channel!Spec

(* Without a failure the line is the log: nothing is missing.                *)
THEOREM NothingGetsLost == Channel!Spec => []Channel!NoFaultNoLoss
<1>1. LineInv => Channel!NoFaultNoLoss
  BY DEF LineInv
<1>2. QED
  BY <1>1, LineInit, LineStep, PTL DEF Channel!Spec
-----------------------------------------------------------------------------
LEMMA TypeInit == Init => TypeOK
<1> SUFFICES ASSUME Init PROVE TypeOK
  OBVIOUS
<1>1. <<>> \in Seq(Alerts) /\ Len(<<>>) = 0
  BY EmptySeq
<1>2. starts \in [{"relay", "coord"} -> 0 .. MaxStarts]
  BY AlertRelayAssumption DEF AlertRelayAssumption, Init
<1>3. /\ sock \in Seq(Alerts) /\ Len(sock) <= SockSize /\ pushed \in Seq(Alerts) /\ Len(pushed) <= Hwm
      /\ hand \in Seq(Alerts) /\ asked \in Seq(Alerts) /\ Len(hand) + Len(asked) <= 1
  BY <1>1, AlertRelayAssumption DEF AlertRelayAssumption, Init, Nothing
<1>4. queue \in Seq(Alerts) /\ wire \in Seq(Alerts) /\ got \in Seq(Alerts) /\ log \in Seq(Alerts)
  BY <1>1 DEF Init
<1>5. /\ relay \in {"down", "boot", "up", "stopped"} /\ coord \in BOOLEAN
      /\ last \subseteq {"recv", "take"}
      /\ faults \subseteq {"nobody", "refused", "broken", "relay", "raised", "coordinator"}
  BY DEF Init
<1>6. QED
  BY <1>2, <1>3, <1>4, <1>5, Zenon DEF TypeOK

LEMMA TypeStep == TypeOK /\ [Next]_vars => TypeOK'
<1> SUFFICES ASSUME TypeOK, [Next]_vars PROVE TypeOK'
  OBVIOUS
<1> USE AlertRelayAssumption DEF AlertRelayAssumption
<1>1. <<>> \in Seq(Alerts) /\ Len(<<>>) = 0
  BY EmptySeq
<1>2. CASE UNCHANGED vars
  BY <1>2 DEF TypeOK, vars, onRelay, onCoord
<1>3. ASSUME NEW a \in Alerts, Report(a) PROVE TypeOK'
  <2>1. /\ Append(log, a) \in Seq(Alerts) /\ Append(sock, a) \in Seq(Alerts)
        /\ Len(Append(sock, a)) = Len(sock) + 1 /\ Len(sock) \in Nat
    BY AppendProperties, LenProperties DEF TypeOK
  <2>2. log' \in Seq(Alerts) /\ sock' \in Seq(Alerts) /\ Len(sock') <= SockSize
    <3>1. CASE sock' = Append(sock, a) /\ Len(sock) < SockSize
      BY <1>3, <2>1, <3>1 DEF Report
    <3>2. CASE sock' = sock
      BY <1>3, <2>1, <3>2 DEF TypeOK, Report
    <3>3. QED
      BY <1>3, <3>1, <3>2 DEF Report
  <2>3. faults' \subseteq {"nobody", "refused", "broken", "relay", "raised", "coordinator"}
    BY <1>3 DEF TypeOK, Report
  <2>4. /\ relay' = relay /\ queue' = queue /\ hand' = hand /\ asked' = asked /\ last' = last
        /\ coord' = coord /\ wire' = wire /\ pushed' = pushed /\ got' = got /\ starts' = starts
    BY <1>3 DEF Report, onCoord
  <2>5. QED
    BY <2>2, <2>3, <2>4, Zenon DEF TypeOK
<1>4. CASE Boot
  <2>1. starts' \in [{"relay", "coord"} -> 0 .. MaxStarts]
    <3>1. /\ starts \in [{"relay", "coord"} -> 0 .. MaxStarts] /\ starts.relay < MaxStarts
          /\ starts' = [starts EXCEPT !.relay = @ + 1]
      BY <1>4 DEF TypeOK, Boot
    <3>2. QED
      BY <3>1
  <2>2. QED
    BY <1>4, <2>1 DEF TypeOK, Boot, onCoord
<1>5. CASE Listen
  BY <1>1, <1>5 DEF TypeOK, Listen, onCoord
<1>6. CASE Recv
  <2>1. Head(sock) \in Alerts /\ Tail(sock) \in Seq(Alerts) /\ Len(Tail(sock)) = Len(sock) - 1 /\ Len(sock) \in Nat
    BY <1>6, HeadTailProperties, LenProperties DEF TypeOK, Recv
  <2>2. Append(queue, Head(sock)) \in Seq(Alerts)
    BY <2>1, AppendProperties DEF TypeOK
  <2>3. QED
    BY <1>6, <2>1, <2>2 DEF TypeOK, Recv, Round, onCoord
<1>7. CASE Take
  <2>1. Head(queue) \in Alerts /\ Tail(queue) \in Seq(Alerts)
    BY <1>7, HeadTailProperties DEF TypeOK, Take
  <2>2. <<Head(queue)>> \in Seq(Alerts) /\ Len(<<Head(queue)>>) = 1
    BY <2>1, <1>1, AppendProperties, <<Head(queue)>> = Append(<<>>, Head(queue))
  <2>3. QED
    BY <1>1, <1>7, <2>1, <2>2 DEF TypeOK, Take, Waiting, Nothing, Round, onCoord
<1>8. CASE Post
  <2>1. wire \o hand \in Seq(Alerts) /\ Len(hand) \in Nat \ {0} /\ Len(asked) \in Nat
    BY <1>8, ConcatProperties, EmptySeq, LenProperties DEF TypeOK, Post
  <2>2. QED
    BY <1>1, <1>8, <2>1 DEF TypeOK, Post
<1>9. CASE Refused
  BY <1>1, <1>9, LenProperties DEF TypeOK, Refused, onCoord
<1>10. CASE Answer
  BY <1>1, <1>10, LenProperties DEF TypeOK, Answer, Nothing, onCoord
<1>11. CASE Broken
  BY <1>1, <1>11, LenProperties DEF TypeOK, Broken, Nothing, onCoord
<1>12. CASE Interrupt
  BY <1>12 DEF TypeOK, Interrupt, onCoord
<1>13. CASE RelayEnds
  BY <1>1, <1>13 DEF TypeOK, RelayEnds, Nothing, onCoord
<1>14. CASE Handle
  <2>1. Head(wire) \in Alerts /\ Tail(wire) \in Seq(Alerts)
    BY <1>14, HeadTailProperties DEF TypeOK, Handle
  <2>2. Append(pushed, Head(wire)) \in Seq(Alerts) /\ Len(Append(pushed, Head(wire))) = Len(pushed) + 1 /\ Len(pushed) \in Nat
    BY <2>1, AppendProperties, LenProperties DEF TypeOK
  <2>3. QED
    BY <1>14, <2>1, <2>2 DEF TypeOK, Handle, onRelay
<1>15. CASE HandleRaises
  BY <1>15, HeadTailProperties DEF TypeOK, HandleRaises, onRelay
<1>16. CASE Receive
  <2>1. Head(pushed) \in Alerts /\ Tail(pushed) \in Seq(Alerts) /\ Len(Tail(pushed)) = Len(pushed) - 1 /\ Len(pushed) \in Nat
    BY <1>16, HeadTailProperties, LenProperties DEF TypeOK, Receive
  <2>2. Append(got, Head(pushed)) \in Seq(Alerts)
    BY <2>1, AppendProperties DEF TypeOK
  <2>3. QED
    BY <1>16, <2>1, <2>2 DEF TypeOK, Receive, onRelay
<1>17. CASE CoordStarts
  <2>1. starts' \in [{"relay", "coord"} -> 0 .. MaxStarts]
    <3>1. /\ starts \in [{"relay", "coord"} -> 0 .. MaxStarts] /\ starts.coord < MaxStarts
          /\ starts' = [starts EXCEPT !.coord = @ + 1]
      BY <1>17 DEF TypeOK, CoordStarts
    <3>2. QED
      BY <3>1
  <2>2. QED
    BY <1>17, <2>1 DEF TypeOK, CoordStarts, onRelay
<1>18. CASE CoordEnds
  <2>1. coord' = FALSE /\ wire' = <<>> /\ pushed' = <<>>
    BY <1>18 DEF CoordEnds
  <2>2. faults' \subseteq {"nobody", "refused", "broken", "relay", "raised", "coordinator"}
    BY <1>18 DEF TypeOK, CoordEnds
  <2>3. /\ relay' = relay /\ sock' = sock /\ queue' = queue /\ hand' = hand /\ asked' = asked
        /\ last' = last /\ got' = got /\ log' = log /\ starts' = starts
    BY <1>18 DEF CoordEnds, onRelay
  <2>4. QED
    <3>1. Len(<<>>) <= Hwm
      BY <1>1
    <3>2. QED
      BY <1>1, <2>1, <2>2, <2>3, <3>1, Zenon DEF TypeOK
<1>19. QED
  BY <1>2, <1>3, <1>4, <1>5, <1>6, <1>7, <1>8, <1>9, <1>10, <1>11, <1>12, <1>13, <1>14, <1>15,
     <1>16, <1>17, <1>18 DEF Next

(* Every part of the way has the type it should, within its size.            *)
THEOREM TypeCorrect == Spec => []TypeOK
BY TypeInit, TypeStep, PTL DEF Spec
-----------------------------------------------------------------------------
(* A failure that takes the middle part of a sequence is a cut of it.        *)
LEMMA CutAway ==
  ASSUME NEW a \in Seq(Alerts), NEW b \in Seq(Alerts), NEW c \in Seq(Alerts)
  PROVE  LET s == (a \o b) \o c IN
         \E i \in 0 .. Len(s) : \E j \in i .. Len(s) :
           a \o c = SubSeq(s, 1, i) \o SubSeq(s, j + 1, Len(s))
<1> DEFINE s == (a \o b) \o c  i == Len(a)  j == Len(a) + Len(b)  n == j + Len(c)
<1>1. /\ i \in Nat /\ j \in Nat /\ n \in Nat /\ Len(b) \in Nat /\ Len(c) \in Nat
      /\ \A k \in 1 .. i : a[k] \in Alerts
  BY LenProperties, ElementOfSeq
<1>2. /\ a \o b \in Seq(Alerts) /\ Len(a \o b) = j
      /\ \A k \in 1 .. j : (a \o b)[k] = IF k <= i THEN a[k] ELSE b[k - i]
  BY ConcatProperties
<1>3. /\ s \in Seq(Alerts) /\ Len(s) = n
      /\ \A k \in 1 .. n : s[k] = IF k <= j THEN (a \o b)[k] ELSE c[k - j]
  BY <1>2, ConcatProperties
<1>4. \A k \in 1 .. n : s[k] \in Alerts
  BY <1>3, ElementOfSeq
<1>5. SubSeq(s, 1, i) = a
  <2>1. /\ SubSeq(s, 1, i) \in Seq(Alerts) /\ Len(SubSeq(s, 1, i)) = i
        /\ \A k \in 1 .. i : SubSeq(s, 1, i)[k] = s[k]
    <3>1. \A k \in 1 .. i : s[k] \in Alerts
      BY <1>1, <1>4
    <3>2. /\ SubSeq(s, 1, i) \in Seq(Alerts)
          /\ Len(SubSeq(s, 1, i)) = IF 1 <= i THEN i - 1 + 1 ELSE 0
          /\ \A k \in 1 .. i - 1 + 1 : SubSeq(s, 1, i)[k] = s[1 + k - 1]
      BY <3>1, <1>1, SubSeqProperties
    <3>3. QED
      BY <3>2, <1>1
  <2>2. \A k \in 1 .. i : s[k] = a[k]
    BY <1>1, <1>2, <1>3
  <2>3. QED
    BY <2>1, <2>2, SeqEqual
<1>6. SubSeq(s, j + 1, n) = c
  <2>1. /\ SubSeq(s, j + 1, n) \in Seq(Alerts) /\ Len(SubSeq(s, j + 1, n)) = Len(c)
        /\ \A k \in 1 .. Len(c) : SubSeq(s, j + 1, n)[k] = s[j + k]
    <3>1. \A k \in j + 1 .. n : s[k] \in Alerts
      BY <1>1, <1>4
    <3>2. /\ SubSeq(s, j + 1, n) \in Seq(Alerts)
          /\ Len(SubSeq(s, j + 1, n)) = IF j + 1 <= n THEN n - (j + 1) + 1 ELSE 0
          /\ \A k \in 1 .. n - (j + 1) + 1 : SubSeq(s, j + 1, n)[k] = s[(j + 1) + k - 1]
      BY <3>1, <1>1, SubSeqProperties
    <3>3. QED
      BY <3>2, <1>1
  <2>2. \A k \in 1 .. Len(c) : s[j + k] = c[k]
    <3> SUFFICES ASSUME NEW k \in 1 .. Len(c) PROVE s[j + k] = c[k]
      OBVIOUS
    <3>1. j + k \in 1 .. n /\ ~(j + k <= j) /\ (j + k) - j = k
      BY <1>1
    <3>2. QED
      BY <3>1, <1>3
  <2>3. QED
    BY <2>1, <2>2, SeqEqual
<1>7. i \in 0 .. Len(s) /\ j \in i .. Len(s)
  BY <1>1, <1>3
<1>8. a \o c = SubSeq(s, 1, i) \o SubSeq(s, j + 1, Len(s))
  BY <1>3, <1>5, <1>6
<1> HIDE DEF s, i, j, n
<1>9. \E x \in 0 .. Len(s) : \E y \in x .. Len(s) :
        a \o c = SubSeq(s, 1, x) \o SubSeq(s, y + 1, Len(s))
  BY <1>7, <1>8
<1>10. QED
  BY <1>9 DEF s

LEMMA HeadOfWay ==
  ASSUME NEW S, NEW t \in Seq(S), NEW u \in Seq(S), t # <<>>
  PROVE  t \o u # <<>> /\ Head(t \o u) = Head(t) /\ Tail(t \o u) = Tail(t) \o u
<1>1. /\ Head(t) \in S /\ Tail(t) \in Seq(S) /\ Len(Tail(t)) = Len(t) - 1 /\ Len(t) \in Nat
      /\ \A k \in 1 .. Len(Tail(t)) : Tail(t)[k] = t[k + 1]
      /\ Len(u) \in Nat /\ Len(t) > 0 /\ Head(t) = t[1]
  BY HeadTailProperties, LenProperties, EmptySeq
<1>2. /\ t \o u \in Seq(S) /\ Len(t \o u) = Len(t) + Len(u)
      /\ \A k \in 1 .. Len(t) + Len(u) : (t \o u)[k] = IF k <= Len(t) THEN t[k] ELSE u[k - Len(t)]
  BY ConcatProperties
<1>3. t \o u # <<>>
  BY <1>1, <1>2, EmptySeq
<1>4. /\ Head(t \o u) = (t \o u)[1] /\ Tail(t \o u) \in Seq(S) /\ Len(Tail(t \o u)) = Len(t \o u) - 1
      /\ \A k \in 1 .. Len(Tail(t \o u)) : Tail(t \o u)[k] = (t \o u)[k + 1]
  BY <1>2, <1>3, HeadTailProperties
<1>5. Head(t \o u) = Head(t)
  BY <1>1, <1>2, <1>4
<1>6. /\ Tail(t) \o u \in Seq(S) /\ Len(Tail(t) \o u) = Len(Tail(t)) + Len(u)
      /\ \A k \in 1 .. Len(Tail(t)) + Len(u) :
           (Tail(t) \o u)[k] = IF k <= Len(Tail(t)) THEN Tail(t)[k] ELSE u[k - Len(Tail(t))]
  BY <1>1, ConcatProperties
<1>7. ASSUME NEW k \in 1 .. Len(Tail(t \o u)) PROVE Tail(t \o u)[k] = (Tail(t) \o u)[k]
  <2>1. k + 1 \in 1 .. Len(t) + Len(u) /\ k \in 1 .. Len(Tail(t)) + Len(u)
    BY <1>1, <1>2, <1>4
  <2>2. CASE k <= Len(Tail(t))
    BY <2>1, <2>2, <1>1, <1>2, <1>4, <1>6
  <2>3. CASE k > Len(Tail(t))
    <3>1. (k + 1) - Len(t) = k - Len(Tail(t)) /\ ~(k + 1 <= Len(t)) /\ ~(k <= Len(Tail(t)))
      BY <2>1, <2>3, <1>1
    <3>2. (t \o u)[k + 1] = u[(k + 1) - Len(t)] /\ (Tail(t) \o u)[k] = u[k - Len(Tail(t))]
      BY <2>1, <3>1, <1>2, <1>6
    <3>3. QED
      BY <3>1, <3>2, <1>4
  <2>4. QED
    BY <2>1, <2>2, <2>3, <1>1
<1>8. Len(Tail(t \o u)) = Len(Tail(t) \o u)
  BY <1>1, <1>2, <1>4, <1>6
<1>9. Tail(t \o u) = Tail(t) \o u
  BY <1>4, <1>6, <1>7, <1>8, SeqEqual
<1>10. QED
  BY <1>3, <1>5, <1>9
-----------------------------------------------------------------------------
(* A socket that nobody has bound is empty: binding it anew loses nothing.   *)
Unbound == relay \in {"down", "boot"} => sock = <<>>
WayInv == TypeOK /\ Unbound

LEMMA UnboundStep == TypeOK /\ Unbound /\ [Next]_vars => Unbound'
<1> SUFFICES ASSUME Unbound, [Next]_vars PROVE Unbound'
  OBVIOUS
<1>1. CASE UNCHANGED vars
  BY <1>1 DEF Unbound, vars, onRelay
<1>2. CASE UNCHANGED <<relay, sock>>
  BY <1>2 DEF Unbound
<1>3. ASSUME NEW a \in Alerts, Report(a) PROVE Unbound'
  BY <1>3 DEF Unbound, Report
<1>4. CASE Boot \/ Listen \/ Interrupt \/ RelayEnds
  BY <1>4 DEF Unbound, Boot, Listen, Interrupt, RelayEnds
<1>5. CASE Recv
  <2>1. UNCHANGED relay /\ sock # <<>>
    BY <1>5 DEF Recv
  <2>2. QED
    BY <2>1 DEF Unbound
<1>6. CASE Take \/ Post \/ Refused \/ Answer \/ Broken
  BY <1>2, <1>6 DEF Take, Post, Refused, Answer, Broken
<1>7. CASE Handle \/ HandleRaises \/ Receive \/ CoordStarts \/ CoordEnds
  BY <1>2, <1>7 DEF Handle, HandleRaises, Receive, CoordStarts, CoordEnds, onRelay
<1>8. QED
  BY <1>1, <1>3, <1>4, <1>5, <1>6, <1>7 DEF Next

(* The way read from either end, and around each of its parts.               *)
WayParts ==
  /\ Way \in Seq(Alerts)
  /\ pushed \o wire \in Seq(Alerts) /\ (pushed \o wire) \o hand \in Seq(Alerts)
  /\ queue \o sock \in Seq(Alerts) /\ hand \o (queue \o sock) \in Seq(Alerts)
  /\ wire \o (hand \o (queue \o sock)) \in Seq(Alerts)
  /\ Way = ((pushed \o wire) \o hand) \o (queue \o sock)
  /\ Way = (pushed \o wire) \o (hand \o (queue \o sock))
  /\ Way = pushed \o (wire \o (hand \o (queue \o sock)))

(* Under a name of its own, so that it can be cited of parts as they are.    *)
Associates(s, t, u) == (s \o t) \o u = s \o (t \o u)

LEMMA AllAssociate == \A s, t, u \in Seq(Alerts) : Associates(s, t, u)
BY ConcatAssociative DEF Associates

LEMMA WayForms == TypeOK => WayParts
<1> SUFFICES ASSUME TypeOK PROVE WayParts
  OBVIOUS
<1>1. /\ pushed \in Seq(Alerts) /\ wire \in Seq(Alerts) /\ hand \in Seq(Alerts)
      /\ queue \in Seq(Alerts) /\ sock \in Seq(Alerts)
  BY DEF TypeOK
<1>2. pushed \o wire \in Seq(Alerts) /\ queue \o sock \in Seq(Alerts)
  BY <1>1, ConcatProperties
<1>3. (pushed \o wire) \o hand \in Seq(Alerts) /\ hand \o (queue \o sock) \in Seq(Alerts)
  BY <1>1, <1>2, ConcatProperties
<1>4. wire \o (hand \o (queue \o sock)) \in Seq(Alerts) /\ ((pushed \o wire) \o hand) \o (queue \o sock) \in Seq(Alerts)
  BY <1>1, <1>2, <1>3, ConcatProperties
<1>5. Way = ((pushed \o wire) \o hand) \o (queue \o sock)
  <2> DEFINE x == (pushed \o wire) \o hand
  <2>1. x \in Seq(Alerts) /\ Way = (x \o queue) \o sock
    BY <1>3 DEF Way
  <2> HIDE DEF x
  <2>2. (x \o queue) \o sock = x \o (queue \o sock)
    <3>1. Associates(x, queue, sock)
      BY <1>1, <2>1, AllAssociate
    <3>2. QED
      BY <3>1 DEF Associates
  <2>3. QED
    BY <2>1, <2>2 DEF x
<1>6. ((pushed \o wire) \o hand) \o (queue \o sock) = (pushed \o wire) \o (hand \o (queue \o sock))
  <2> DEFINE x == pushed \o wire  y == queue \o sock
  <2>1. x \in Seq(Alerts) /\ y \in Seq(Alerts)
    BY <1>2
  <2> HIDE DEF x, y
  <2>2. (x \o hand) \o y = x \o (hand \o y)
    <3>1. Associates(x, hand, y)
      BY <1>1, <2>1, AllAssociate
    <3>2. QED
      BY <3>1 DEF Associates
  <2>3. QED
    BY <2>2 DEF x, y
<1>7. (pushed \o wire) \o (hand \o (queue \o sock)) = pushed \o (wire \o (hand \o (queue \o sock)))
  <2> DEFINE y == hand \o (queue \o sock)
  <2>1. y \in Seq(Alerts)
    BY <1>3
  <2> HIDE DEF y
  <2>2. (pushed \o wire) \o y = pushed \o (wire \o y)
    <3>1. Associates(pushed, wire, y)
      BY <1>1, <2>1, AllAssociate
    <3>2. QED
      BY <3>1 DEF Associates
  <2>3. QED
    BY <2>2 DEF y
<1>8. QED
  BY <1>2, <1>3, <1>4, <1>5, <1>6, <1>7, Zenon DEF WayParts

LEMMA WayFormsNext == TypeOK' => WayParts'
BY WayForms, PTL

(* What passes between two parts of the way, and leaves it as it is.         *)
LEMMA PassesOn == TypeOK /\ (Recv \/ Take \/ Post \/ Handle) => UNCHANGED Way
<1> SUFFICES ASSUME TypeOK, Recv \/ Take \/ Post \/ Handle PROVE Way' = Way
  OBVIOUS
<1>1. /\ pushed \in Seq(Alerts) /\ wire \in Seq(Alerts) /\ hand \in Seq(Alerts)
      /\ queue \in Seq(Alerts) /\ sock \in Seq(Alerts)
  BY DEF TypeOK
<1>2. pushed \o wire \in Seq(Alerts) /\ (pushed \o wire) \o hand \in Seq(Alerts)
  BY WayForms DEF WayParts
<1>3. CASE Recv
  <2> DEFINE z == (pushed \o wire) \o hand
  <2>1. /\ sock # <<>> /\ queue' = Append(queue, Head(sock)) /\ sock' = Tail(sock)
        /\ pushed' = pushed /\ wire' = wire /\ hand' = hand
    BY <1>3 DEF Recv, onCoord
  <2>2. Way = (z \o queue) \o sock /\ Way' = (z \o queue') \o sock'
    BY <2>1 DEF Way
  <2>3. z \in Seq(Alerts)
    BY <1>2
  <2> HIDE DEF z
  <2>4. Head(sock) \in Alerts
    BY <1>1, <2>1, HeadTailProperties
  <2>5. z \o queue' = Append(z \o queue, Head(sock))
    BY <1>1, <2>1, <2>3, <2>4, AppendMoves
  <2>6. z \o queue \in Seq(Alerts)
    BY <1>1, <2>3, ConcatProperties
  <2>7. Append(z \o queue, Head(sock)) \o Tail(sock) = (z \o queue) \o sock
    BY <1>1, <2>1, <2>6, MoveKeeps
  <2>8. QED
    BY <2>1, <2>2, <2>5, <2>7
<1>4. CASE Take
  <2> DEFINE x == pushed \o wire
  <2>1. /\ queue # <<>> /\ hand = <<>> /\ hand' = <<Head(queue)>> /\ queue' = Tail(queue)
        /\ pushed' = pushed /\ wire' = wire /\ sock' = sock
    BY <1>4 DEF Take, Waiting, onCoord
  <2>2. Way = ((x \o hand) \o queue) \o sock /\ Way' = ((x \o hand') \o queue') \o sock
    BY <2>1 DEF Way
  <2>3. x \in Seq(Alerts)
    BY <1>2
  <2> HIDE DEF x
  <2>4. Head(queue) \in Alerts
    BY <1>1, <2>1, HeadTailProperties
  <2>5. x \o hand' = Append(x, Head(queue)) /\ x \o hand = x
    BY <2>1, <2>3, <2>4, AppendIsConcat, ConcatEmptySeq
  <2>6. Append(x, Head(queue)) \o Tail(queue) = x \o queue
    BY <1>1, <2>1, <2>3, MoveKeeps
  <2>7. QED
    BY <2>1, <2>2, <2>5, <2>6
<1>5. CASE Post
  <2>1. /\ wire' = wire \o hand /\ hand' = <<>>
        /\ pushed' = pushed /\ queue' = queue /\ sock' = sock
    BY <1>5 DEF Post
  <2>2. pushed \o (wire \o hand) = (pushed \o wire) \o hand
    <3>1. Associates(pushed, wire, hand)
      BY <1>1, AllAssociate
    <3>2. QED
      BY <3>1 DEF Associates
  <2>3. ((pushed \o wire) \o hand) \o <<>> = (pushed \o wire) \o hand
    BY <1>2, ConcatEmptySeq
  <2>4. (pushed' \o wire') \o hand' = (pushed \o wire) \o hand
    BY <2>1, <2>2, <2>3
  <2>5. QED
    BY <2>1, <2>4 DEF Way
<1>6. CASE Handle
  <2>1. /\ wire # <<>> /\ pushed' = Append(pushed, Head(wire)) /\ wire' = Tail(wire)
        /\ hand' = hand /\ queue' = queue /\ sock' = sock
    BY <1>6 DEF Handle, onRelay
  <2>2. pushed' \o wire' = pushed \o wire
    BY <1>1, <2>1, MoveKeeps
  <2>3. QED
    BY <2>1, <2>2 DEF Way
<1>7. QED
  BY <1>3, <1>4, <1>5, <1>6

(* A failure takes out a part of the way.                                    *)
LEMMA CutIsFail ==
  ASSUME NEW a \in Seq(Alerts), NEW b \in Seq(Alerts), NEW c \in Seq(Alerts),
         Way = (a \o b) \o c, Way' = a \o c, faults' # {}, UNCHANGED <<log, got>>
  PROVE  Channel!Fail
<1> DEFINE s == (a \o b) \o c
<1>1. \E i \in 0 .. Len(Way) : \E j \in i .. Len(Way) :
        a \o c = SubSeq(Way, 1, i) \o SubSeq(Way, j + 1, Len(Way))
  <2>1. \E i \in 0 .. Len(s) : \E j \in i .. Len(s) :
          a \o c = SubSeq(s, 1, i) \o SubSeq(s, j + 1, Len(s))
    BY CutAway, Zenon
  <2>2. s = Way
    BY Zenon
  <2> HIDE DEF s
  <2>3. QED
    BY <2>1, <2>2
<1>2. \E i \in 0 .. Len(Way) : \E j \in i .. Len(Way) :
        Way' = SubSeq(Way, 1, i) \o SubSeq(Way, j + 1, Len(Way))
  BY <1>1, Zenon
<1>3. (faults # {})' = TRUE
  OBVIOUS
<1>4. QED
  BY <1>2, <1>3, Zenon DEF Channel!Fail

LEMMA FailSteps ==
  ASSUME TypeOK, TypeOK', Refused \/ Broken \/ Interrupt \/ RelayEnds \/ HandleRaises \/ CoordEnds
  PROVE  Channel!Fail
<1> DEFINE x == pushed \o wire  y == queue \o sock  r == hand \o (queue \o sock)
<1>1. /\ pushed \in Seq(Alerts) /\ wire \in Seq(Alerts) /\ hand \in Seq(Alerts)
      /\ queue \in Seq(Alerts) /\ sock \in Seq(Alerts) /\ <<>> \in Seq(Alerts)
  BY EmptySeq DEF TypeOK
<1>2. /\ x \in Seq(Alerts) /\ y \in Seq(Alerts) /\ r \in Seq(Alerts) /\ Way \in Seq(Alerts)
      /\ Way = (x \o hand) \o y /\ Way = x \o r /\ Way = pushed \o (wire \o r)
      /\ wire \o r \in Seq(Alerts)
  BY WayForms DEF WayParts
<1>3. /\ Way' = (x' \o hand') \o y' /\ Way' = x' \o r' /\ Way' = pushed' \o (wire' \o r')
  BY WayFormsNext DEF WayParts
<1>4. /\ x' = pushed' \o wire' /\ y' = queue' \o sock' /\ r' = hand' \o (queue' \o sock')
      /\ x = pushed \o wire /\ r = hand \o y
  OBVIOUS
<1> HIDE DEF x, y, r
<1>5. CASE Refused
  <2>1. /\ pushed' = pushed /\ wire' = wire /\ hand' = <<>> /\ queue' = queue /\ sock' = sock
        /\ faults' # {} /\ UNCHANGED <<log, got>>
    BY <1>5 DEF Refused, onCoord
  <2>2. x' = x /\ y' = y
    BY <2>1 DEF x, y
  <2>3. x \o <<>> = x
    BY <1>2, ConcatEmptySeq
  <2>4. Way' = x \o y
    BY <1>3, <2>1, <2>2, <2>3
  <2>5. QED
    BY <1>1, <1>2, <2>1, <2>4, CutIsFail
<1>6. CASE Broken \/ Interrupt
  <2>1. /\ UNCHANGED <<pushed, wire, hand, queue, sock>> /\ faults' # {} /\ UNCHANGED <<log, got>>
    BY <1>6 DEF Broken, Interrupt, onCoord
  <2>2. Way' = Way
    BY <2>1 DEF Way
  <2>3. Way \o <<>> = Way
    BY <1>2, ConcatEmptySeq
  <2>4. Way = (Way \o <<>>) \o <<>> /\ Way' = Way \o <<>>
    BY <2>2, <2>3
  <2>5. QED
    BY <1>1, <1>2, <2>1, <2>4, CutIsFail
<1>7. CASE RelayEnds
  <2>1. /\ pushed' = pushed /\ wire' = wire /\ hand' = <<>> /\ queue' = <<>> /\ sock' = <<>>
        /\ faults' # {} /\ UNCHANGED <<log, got>>
    BY <1>7 DEF RelayEnds, onCoord
  <2>2. <<>> \o <<>> = <<>>
    BY <1>1, ConcatEmptySeq
  <2>3. x' = x /\ r' = <<>>
    BY <1>4, <2>1, <2>2
  <2>4. Way' = x \o <<>>
    BY <1>3, <2>3
  <2>5. Way = (x \o r) \o <<>>
    BY <1>2, ConcatEmptySeq
  <2>6. QED
    BY <1>1, <1>2, <2>1, <2>4, <2>5, CutIsFail
<1>8. CASE HandleRaises
  <2> DEFINE one == <<Head(wire)>>  t == Tail(wire) \o r
  <2>1. /\ wire # <<>> /\ wire' = Tail(wire) /\ pushed' = pushed /\ hand' = hand
        /\ queue' = queue /\ sock' = sock /\ faults' # {} /\ UNCHANGED <<log, got>>
    BY <1>8 DEF HandleRaises, onRelay
  <2>2. Head(wire) \in Alerts /\ Tail(wire) \in Seq(Alerts)
    BY <1>1, <2>1, HeadTailProperties
  <2>3. one \in Seq(Alerts)
    BY <2>2, one = [i \in 1 .. 1 |-> Head(wire)], one \in [1 .. 1 -> Alerts], SeqDef
  <2>4. t \in Seq(Alerts)
    BY <1>2, <2>2, ConcatProperties
  <2>5. /\ wire \o r # <<>> /\ Head(wire \o r) = Head(wire) /\ Tail(wire \o r) = t
    BY <1>1, <1>2, <2>1, HeadOfWay
  <2>6. Append(pushed, Head(wire \o r)) \o Tail(wire \o r) = pushed \o (wire \o r)
    BY <1>1, <1>2, <2>5, MoveKeeps
  <2>7. Append(pushed, Head(wire)) = pushed \o one
    BY <1>1, <2>2, AppendIsConcat
  <2>8. Way = (pushed \o one) \o t
    BY <1>2, <2>5, <2>6, <2>7
  <2>9. r' = r
    BY <1>4, <2>1 DEF r, y
  <2>10. Way' = pushed \o t
    BY <1>3, <2>1, <2>9
  <2> HIDE DEF one, t
  <2>11. QED
    BY <1>1, <2>1, <2>3, <2>4, <2>8, <2>10, CutIsFail
<1>9. CASE CoordEnds
  <2>1. /\ pushed' = <<>> /\ wire' = <<>> /\ hand' = hand /\ queue' = queue /\ sock' = sock
        /\ faults' # {} /\ UNCHANGED <<log, got>>
    BY <1>9 DEF CoordEnds, onRelay
  <2>2. <<>> \o <<>> = <<>> /\ <<>> \o x = x
    BY <1>1, <1>2, ConcatEmptySeq
  <2>3. x' = <<>> /\ r' = r
    BY <1>4, <2>1, <2>2 DEF r, y
  <2>4. Way' = <<>> \o r
    BY <1>3, <2>3
  <2>5. Way = (<<>> \o x) \o r
    BY <1>2, <2>2
  <2>6. QED
    BY <1>1, <1>2, <2>1, <2>4, <2>5, CutIsFail
<1>10. QED
  BY <1>5, <1>6, <1>7, <1>8, <1>9

LEMMA ReportIsReport == ASSUME TypeOK, NEW a \in Alerts, Report(a) PROVE Channel!Report(a)
<1>1. a \notin Channel!Reported /\ log' = Append(log, a)
  BY DEF Report, Elements, Channel!Reported
<1>2. UNCHANGED <<pushed, wire, hand, queue, got>>
  BY DEF Report, onCoord
<1>3. CASE sock' = Append(sock, a) /\ UNCHANGED faults
  <2> DEFINE z == ((pushed \o wire) \o hand) \o queue
  <2>1. z \in Seq(Alerts) /\ sock \in Seq(Alerts)
    <3>1. (pushed \o wire) \o hand \in Seq(Alerts) /\ queue \in Seq(Alerts) /\ sock \in Seq(Alerts)
      BY WayForms DEF WayParts, TypeOK
    <3>2. QED
      BY <3>1, ConcatProperties
  <2>2. Way = z \o sock /\ Way' = z \o sock'
    BY <1>2 DEF Way
  <2> HIDE DEF z
  <2>3. z \o Append(sock, a) = Append(z \o sock, a)
    BY <2>1, AppendMoves
  <2>4. Way' = Append(Way, a)
    BY <1>3, <2>2, <2>3
  <2>5. UNCHANGED <<got, faults # {}>>
    BY <1>2, <1>3
  <2>6. QED
    BY <1>1, <2>4, <2>5 DEF Channel!Report
<1>4. CASE faults' = faults \cup {"nobody"} /\ UNCHANGED sock
  <2>1. UNCHANGED <<Way, got>>
    BY <1>2, <1>4 DEF Way
  <2>2. (faults # {})' = TRUE
    BY <1>4
  <2>3. QED
    BY <1>1, <2>1, <2>2 DEF Channel!Report
<1>5. QED
  BY <1>3, <1>4 DEF Report

LEMMA ReceiveIsDeliver == ASSUME TypeOK, TypeOK', Receive PROVE Channel!Deliver
<1> DEFINE u == wire \o (hand \o (queue \o sock))
<1>1. /\ pushed # <<>> /\ got' = Append(got, Head(pushed)) /\ pushed' = Tail(pushed)
      /\ UNCHANGED <<wire, hand, queue, sock, log, faults>>
  BY DEF Receive, onRelay
<1>2. u \in Seq(Alerts) /\ pushed \in Seq(Alerts) /\ Way = pushed \o u /\ Way' = pushed' \o u'
  BY WayForms, WayFormsNext DEF WayParts, TypeOK
<1>3. u' = u
  BY <1>1
<1> HIDE DEF u
<1>4. pushed \o u # <<>> /\ Head(pushed \o u) = Head(pushed) /\ Tail(pushed \o u) = Tail(pushed) \o u
  BY <1>1, <1>2, HeadOfWay
<1>5. Way # <<>> /\ Head(Way) = Head(pushed) /\ Way' = Tail(Way)
  BY <1>1, <1>2, <1>3, <1>4
<1>6. UNCHANGED <<log, faults # {}>>
  BY <1>1
<1>7. QED
  BY <1>1, <1>5, <1>6 DEF Channel!Deliver

LEMMA StepIsChannelStep ==
  ASSUME WayInv, TypeOK', [Next]_vars PROVE [Channel!Next]_(Channel!chanVars)
<1>1. CASE UNCHANGED <<log, Way, got, faults>>
  BY <1>1 DEF Channel!chanVars
<1>2. CASE UNCHANGED vars
  <2>1. UNCHANGED <<log, Way, got, faults>>
    BY <1>2 DEF vars, onRelay, onCoord, Way
  <2>2. QED
    BY <1>1, <2>1
<1>3. ASSUME NEW a \in Alerts, Report(a) PROVE Channel!Next
  BY <1>3, ReportIsReport DEF WayInv, Channel!Next
<1>4. CASE Listen
  <2>1. sock = <<>>
    BY <1>4 DEF WayInv, Unbound, Listen
  <2>2. UNCHANGED <<log, Way, got, faults>>
    BY <1>4, <2>1 DEF Listen, onCoord, Way
  <2>3. QED
    BY <1>1, <2>2
<1>5. CASE Boot \/ Answer \/ CoordStarts
  <2>1. UNCHANGED <<log, Way, got, faults>>
    BY <1>5 DEF Boot, Answer, CoordStarts, onRelay, onCoord, Way
  <2>2. QED
    BY <1>1, <2>1
<1>6. CASE Recv \/ Take \/ Post \/ Handle
  <2>1. UNCHANGED <<log, got, faults>>
    BY <1>6 DEF Recv, Take, Post, Handle, onCoord
  <2>2. UNCHANGED Way
    BY <1>6, PassesOn DEF WayInv
  <2>3. QED
    BY <1>1, <2>1, <2>2
<1>7. CASE Receive
  BY <1>7, ReceiveIsDeliver DEF WayInv, Channel!Next
<1>8. CASE Refused \/ Broken \/ Interrupt \/ RelayEnds \/ HandleRaises \/ CoordEnds
  BY <1>8, FailSteps DEF WayInv, Channel!Next
<1>9. QED
  BY <1>2, <1>3, <1>4, <1>5, <1>6, <1>7, <1>8 DEF Next

LEMMA InitIsChannelInit == Init => Channel!Init
<1> SUFFICES ASSUME Init PROVE Channel!Init
  OBVIOUS
<1>1. <<>> \o <<>> = <<>>
  BY EmptySeq, ConcatEmptySeq
<1>2. Way = <<>>
  BY <1>1 DEF Init, Way
<1>3. QED
  BY <1>2 DEF Init, Channel!Init

(* The relay and the collector implement the channel, whatever fails.        *)
THEOREM RelayIsChannel == Spec => IsChannel
<1>1. Init => WayInv
  BY TypeInit DEF WayInv, Unbound, Init
<1>2. WayInv /\ [Next]_vars => WayInv'
  BY TypeStep, UnboundStep DEF WayInv
<1>3. WayInv /\ WayInv' /\ [Next]_vars => [Channel!Next]_(Channel!chanVars)
  BY StepIsChannelStep DEF WayInv
<1>4. QED
  BY <1>1, <1>2, <1>3, InitIsChannelInit, PTL DEF Spec, IsChannel, Channel!Spec

(* So what is proved of a channel holds of the relay: the main loop receives *)
(* nothing out of order and nothing twice, and without a fault whatever was  *)
(* reported is received or on its way.                                       *)
THEOREM RelayKeepsOrder == Spec => [](Channel!InOrder /\ OnceOnly /\ Channel!NoFaultNoLoss)
BY RelayIsChannel, OrderIsKept, NothingComesTwice, NothingGetsLost, PTL DEF IsChannel
-----------------------------------------------------------------------------
(* PigRelay. *)
(* Each end of the relay is preceded by a start of its own; a relay that has *)
(* ended has no update thread in the midst of something.                     *)
TypeInv ==
  /\ PigTypeOK
  /\ abandoned <= boots /\ (Up => abandoned < boots)
  /\ ~Up => pc = "get"

LEMMA PigTypeInit == PigInit => TypeInv
<1> SUFFICES ASSUME PigInit PROVE TypeInv
  OBVIOUS
<1>1. 0 \in 0 .. MaxRequests /\ 0 \in 0 .. MaxBoots
  BY RelayAssumption
<1>2. pending \in Seq(Commands)
  BY DEF PigInit
<1>3. cmd \in Commands
  BY DEF PigInit, Commands
<1>4. proc \in [Pids -> {"none", "boots", "runs", "dead"}] /\ rules \in [Pids -> SUBSET Rules]
  BY DEF PigInit
<1>5. ~Up /\ pc = "get" /\ abandoned = 0 /\ boots = 0 /\ requests = 0
  BY DEF PigInit, Up
<1>6. PigTypeOK
  BY <1>1, <1>2, <1>3, <1>4, <1>5 DEF PigInit, PigTypeOK
<1>7. QED
  BY <1>5, <1>6 DEF TypeInv

LEMMA EffectIsRules ==
  ASSUME NEW c \in Commands, NEW f \in SUBSET Rules
  PROVE  Effect(c, f) \in SUBSET Rules
<1>1. CASE c.type = "add"
  BY <1>1 DEF Commands, Effect
<1>2. CASE c.type = "delete"
  BY <1>2 DEF Commands, Effect
<1>3. CASE c.type = "clear"
  BY <1>3, RelayAssumption DEF Commands, Effect
<1>4. QED
  BY <1>1, <1>2, <1>3 DEF Commands

(* A step on the processes keeps their types.                                *)
LEMMA SpawnStep ==
  ASSUME PigTypeOK, Spawn
  PROVE  /\ own' \in Pids /\ own' # None
         /\ proc' \in [Pids -> {"none", "boots", "runs", "dead"}]
         /\ rules' \in [Pids -> SUBSET Rules]
         /\ proc'[own'] = "boots"
<1>1. PICK p \in Pids :
        /\ own' = p
        /\ proc' = [q \in Pids |-> IF q = p THEN "boots"
                                    ELSE IF q = own /\ proc[q] = "dead" THEN "none"
                                    ELSE proc[q]]
        /\ rules' = [rules EXCEPT ![p] = {}]
  BY DEF Spawn
<1>2. proc' \in [Pids -> {"none", "boots", "runs", "dead"}]
  BY <1>1 DEF PigTypeOK
<1>3. rules' \in [Pids -> SUBSET Rules]
  BY <1>1 DEF PigTypeOK
<1>4. QED
  BY <1>1, <1>2, <1>3, RelayAssumption

LEMMA PigTypeStep ==
  ASSUME TypeInv, [PigNext]_pigVars
  PROVE  TypeInv'
<1> USE DEF TypeInv, PigTypeOK, Up, snorts, bounds, thread
<1>0. boots \in Nat /\ abandoned \in Nat /\ MaxBoots \in Nat /\ MaxRequests \in Nat
  <2>1. MaxBoots \in Nat /\ MaxRequests \in Nat
    BY RelayAssumption
  <2>2. boots \in 0 .. MaxBoots /\ abandoned \in 0 .. MaxBoots
    OBVIOUS
  <2>3. \A m \in Nat : \A i \in 0 .. m : i \in Nat
    OBVIOUS
  <2>4. QED
    BY <2>1, <2>2, <2>3
<1>1. ASSUME PigBoot PROVE TypeInv'
  <2>1. own' \in Pids /\ own' # None
        /\ proc' \in [Pids -> {"none", "boots", "runs", "dead"}]
        /\ rules' \in [Pids -> SUBSET Rules]
    BY <1>1, SpawnStep DEF PigBoot
  <2>2. boots' = boots + 1 /\ boots < MaxBoots /\ abandoned' = abandoned
        /\ abandoned <= boots
    BY <1>1 DEF PigBoot
  <2>3. boots' \in 0 .. MaxBoots /\ abandoned' < boots' /\ abandoned' <= boots'
    BY <1>0, <2>2
  <2>4. Up'
    BY <1>1 DEF PigBoot
  <2>5. PigTypeOK'
    BY <1>1, <2>1, <2>3 DEF PigBoot
  <2>6. QED
    BY <2>3, <2>4, <2>5
<1>2. ASSUME Announce PROVE TypeInv'
  BY <1>2 DEF Announce
<1>3. ASSUME PigInterrupt PROVE TypeInv'
  BY <1>3 DEF PigInterrupt, StopSnort
<1>4. ASSUME NEW b, End(b), Up PROVE TypeInv'
  <2>1. abandoned' \in 0 .. MaxBoots /\ abandoned' <= boots'
    BY <1>0, <1>4 DEF End
  <2>2. pending' \in Seq(Commands)
    BY <1>4 DEF End
  <2>3. QED
    BY <1>4, <2>1, <2>2 DEF End
<1>5. ASSUME NEW c \in Commands, Put(c) PROVE TypeInv'
  <2>1. pending' \in Seq(Commands)
    BY <1>5 DEF Put
  <2>2. wanted' \subseteq Rules
    BY <1>5, EffectIsRules DEF Put
  <2>3. requests' \in 0 .. MaxRequests
    BY <1>0, <1>5 DEF Put
  <2>4. QED
    BY <1>5, <2>1, <2>2, <2>3 DEF Put
<1>6. ASSUME Get PROVE TypeInv'
  <2>1. pending' \in Seq(Commands) /\ cmd' \in Commands
    BY <1>6 DEF Get, TakeRule
  <2>2. QED
    BY <1>6, <2>1 DEF Get, TakeRule
<1>7. ASSUME Process PROVE TypeInv'
  <2>1. Effect(cmd, file) \subseteq Rules
    BY EffectIsRules
  <2>2. file' \subseteq Rules /\ lines' \subseteq Rules
    BY <1>7, <2>1 DEF Process
  <2>3. pc' \in {"hup", "dump"} /\ reloading' \in BOOLEAN
    BY <1>7 DEF Process, Callback
  <2>4. QED
    BY <1>7, <2>2, <2>3 DEF Process
<1>8. ASSUME Dump PROVE TypeInv'
  BY <1>8 DEF Dump, Callback
<1>9. ASSUME ProcessRaises PROVE TypeInv'
  BY <1>9 DEF ProcessRaises
<1>10. ASSUME Hangup PROVE TypeInv'
  BY <1>10 DEF Hangup
<1>11. ASSUME HangupRaises PROVE TypeInv'
  BY <1>11 DEF HangupRaises, RaiseCaught
<1>12. ASSUME ReloadStops PROVE TypeInv'
  BY <1>12 DEF ReloadStops, StopSnort
<1>13. ASSUME ReloadStarts PROVE TypeInv'
  <2>1. own' \in Pids /\ own' # None
        /\ proc' \in [Pids -> {"none", "boots", "runs", "dead"}]
        /\ rules' \in [Pids -> SUBSET Rules]
    BY <1>13, SpawnStep DEF ReloadStarts
  <2>2. QED
    BY <1>13, <2>1 DEF ReloadStarts
<1>14. ASSUME SpawnFails PROVE TypeInv'
  BY <1>14 DEF SpawnFails
<1>15. ASSUME NEW p \in Pids, Read(p) \/ Die(p) PROVE TypeInv'
  BY <1>15 DEF Read, Die, Alive
<1>16. ASSUME UNCHANGED pigVars PROVE TypeInv'
  BY <1>16 DEF pigVars
<1>17. QED
  BY <1>1, <1>2, <1>3, <1>4, <1>5, <1>6, <1>7, <1>8, <1>9, <1>10, <1>11, <1>12,
     <1>13, <1>14, <1>15, <1>16 DEF PigNext, Update, Exit, Kill

(* The types hold in every behaviour of the relay (snort.py:17-189,          *)
(* pigrelay.py:234-309): in particular no exception ends the update thread.  *)
THEOREM PigTypes == PigSpec => []PigTypeOK
<1>1. TypeInv => PigTypeOK
  BY DEF TypeInv
<1>2. QED
  BY <1>1, PigTypeInit, PigTypeStep, PTL DEF PigSpec
-----------------------------------------------------------------------------
(* SnortHasFile also has to hold once the thread has taken a rule and not    *)
(* touched the file; and what is replaced does not run.                      *)
HasRead == (Up /\ pc \in {"get", "process"} /\ "half" \notin failed /\ proc[own] = "runs")
             => rules[own] = file
Stopped == (Up /\ pc = "start") => own \notin Alive
ReadInv == TypeInv /\ HasRead /\ Stopped

LEMMA ReadStep ==
  ASSUME ReadInv, [PigNext]_pigVars
  PROVE  HasRead' /\ Stopped'
<1> USE DEF ReadInv, TypeInv, PigTypeOK, Up, snorts, bounds, thread, HasRead, Stopped, Alive
<1>1. ASSUME PigBoot PROVE HasRead' /\ Stopped'
  BY <1>1, SpawnStep DEF PigBoot
<1>2. ASSUME Announce PROVE HasRead' /\ Stopped'
  BY <1>2 DEF Announce
<1>3. ASSUME PigInterrupt PROVE HasRead' /\ Stopped'
  BY <1>3 DEF PigInterrupt, StopSnort
<1>4. ASSUME NEW b, End(b) PROVE HasRead' /\ Stopped'
  BY <1>4 DEF End
<1>5. ASSUME NEW c \in Commands, Put(c) PROVE HasRead' /\ Stopped'
  BY <1>5 DEF Put
<1>6. ASSUME Get PROVE HasRead' /\ Stopped'
  BY <1>6 DEF Get, TakeRule
<1>7. ASSUME Process \/ Dump PROVE HasRead' /\ Stopped'
  BY <1>7 DEF Process, Dump, Callback
<1>8. ASSUME ProcessRaises PROVE HasRead' /\ Stopped'
  BY <1>8 DEF ProcessRaises
<1>9. ASSUME Hangup \/ HangupRaises PROVE HasRead' /\ Stopped'
  BY <1>9 DEF Hangup, HangupRaises, RaiseCaught
<1>10. ASSUME ReloadStops PROVE HasRead' /\ Stopped'
  BY <1>10 DEF ReloadStops, StopSnort
<1>11. ASSUME ReloadStarts PROVE HasRead' /\ Stopped'
  BY <1>11, SpawnStep DEF ReloadStarts
<1>12. ASSUME SpawnFails PROVE HasRead' /\ Stopped'
  BY <1>12 DEF SpawnFails
<1>13. ASSUME NEW p \in Pids, Read(p) \/ Die(p) PROVE HasRead' /\ Stopped'
  BY <1>13 DEF Read, Die
<1>14. ASSUME UNCHANGED pigVars PROVE HasRead' /\ Stopped'
  BY <1>14 DEF pigVars
<1>15. QED
  BY <1>1, <1>2, <1>3, <1>4, <1>5, <1>6, <1>7, <1>8, <1>9, <1>10, <1>11, <1>12,
     <1>13, <1>14 DEF PigNext, Update, Exit, Kill

(* Between two rules a running Snort has the rules of the file               *)
(* (snort.py:42-45, 163-169), whenever it came to read them.                 *)
THEOREM RunningSnortHasFile == PigSpec => []SnortHasFile
<1>1. PigInit => ReadInv
  BY PigTypeInit DEF PigInit, ReadInv, HasRead, Stopped, Up
<1>2. ReadInv /\ [PigNext]_pigVars => ReadInv'
  BY PigTypeStep, ReadStep DEF ReadInv
<1>3. ReadInv => SnortHasFile
  BY DEF ReadInv, HasRead, SnortHasFile
<1>4. QED
  BY <1>1, <1>2, <1>3, PTL DEF PigSpec
-----------------------------------------------------------------------------
(* What the relay does not own it never starts: only its end adds to the     *)
(* Snorts that run and are not its own. A relay that was stopped while it    *)
(* did not reload has stopped its Snort, and starts no other.                *)
Others == Alive \ {own}
Quiet == (main = "stopped" /\ ~reloading)
           => own \notin Alive /\ pc \notin {"hup", "stop", "start"}
LeftInv == ReadInv /\ Quiet /\ OthersAreAbandoned

LEMMA QuietStep ==
  ASSUME PigTypeOK, Quiet, [PigNext]_pigVars
  PROVE  Quiet'
<1> USE DEF PigTypeOK, Up, snorts, bounds, thread, Quiet, Alive
<1>1. ASSUME PigBoot \/ Announce PROVE Quiet'
  BY <1>1 DEF PigBoot, Announce
<1>2. ASSUME PigInterrupt PROVE Quiet'
  BY <1>2 DEF PigInterrupt, StopSnort
<1>3. ASSUME NEW b, End(b) PROVE Quiet'
  BY <1>3 DEF End
<1>4. ASSUME NEW c \in Commands, Put(c) PROVE Quiet'
  BY <1>4 DEF Put
<1>5. ASSUME Get PROVE Quiet'
  BY <1>5 DEF Get, TakeRule
<1>6. ASSUME Process \/ Dump PROVE Quiet'
  BY <1>6 DEF Process, Dump, Callback
<1>7. ASSUME ProcessRaises PROVE Quiet'
  BY <1>7 DEF ProcessRaises
<1>8. ASSUME Hangup \/ HangupRaises PROVE Quiet'
  BY <1>8 DEF Hangup, HangupRaises, RaiseCaught
<1>9. ASSUME ReloadStops PROVE Quiet'
  BY <1>9 DEF ReloadStops
<1>10. ASSUME ReloadStarts \/ SpawnFails PROVE Quiet'
  BY <1>10 DEF ReloadStarts, SpawnFails
<1>11. ASSUME NEW p \in Pids, Read(p) \/ Die(p) PROVE Quiet'
  BY <1>11 DEF Read, Die
<1>12. ASSUME UNCHANGED pigVars PROVE Quiet'
  BY <1>12 DEF pigVars
<1>13. QED
  BY <1>1, <1>2, <1>3, <1>4, <1>5, <1>6, <1>7, <1>8, <1>9, <1>10, <1>11, <1>12
     DEF PigNext, Update, Exit, Kill

(* The new Snort is the relay's own, and the one before it did not run.      *)
LEMMA SpawnOwns ==
  ASSUME PigTypeOK, Spawn, own \notin Alive
  PROVE  Others' \subseteq Others
BY DEF PigTypeOK, Spawn, Others, Alive

LEMMA StepOwns ==
  ASSUME ReadInv, PigNext, ~Exit, ~Kill
  PROVE  Others' \subseteq Others /\ abandoned' = abandoned
<1> USE DEF ReadInv, TypeInv, PigTypeOK, Up, snorts, bounds, thread
<1> DEFINE Goal == Others' \subseteq Others /\ abandoned' = abandoned
<1>1. ASSUME PigBoot PROVE Goal
  <2>1. own \notin Alive
    BY <1>1, RelayAssumption DEF PigBoot, Alive
  <2>2. QED
    BY <1>1, <2>1, SpawnOwns DEF PigBoot
<1>2. ASSUME Announce PROVE Goal
  BY <1>2 DEF Announce, Others, Alive
<1>3. ASSUME PigInterrupt \/ ReloadStops PROVE Goal
  BY <1>3 DEF PigInterrupt, ReloadStops, StopSnort, Others, Alive
<1>4. ASSUME NEW c \in Commands, Put(c) PROVE Goal
  BY <1>4 DEF Put, Others, Alive
<1>5. ASSUME Get \/ Process \/ Dump \/ ProcessRaises PROVE Goal
  BY <1>5 DEF Get, TakeRule, Process, Dump, ProcessRaises, Others, Alive
<1>6. ASSUME Hangup \/ HangupRaises PROVE Goal
  BY <1>6 DEF Hangup, HangupRaises, Others, Alive
<1>7. ASSUME ReloadStarts PROVE Goal
  BY <1>7, SpawnOwns DEF ReloadStarts, Stopped
<1>8. ASSUME SpawnFails PROVE Goal
  BY <1>8 DEF SpawnFails, Others, Alive
<1>9. ASSUME NEW p \in Pids, Read(p) \/ Die(p) PROVE Goal
  BY <1>9 DEF Read, Die, Others, Alive
<1>10. QED
  BY <1>1, <1>2, <1>3, <1>4, <1>5, <1>6, <1>7, <1>8, <1>9 DEF PigNext, Update

LEMMA LeftStep ==
  ASSUME LeftInv, [PigNext]_pigVars
  PROVE  OthersAreAbandoned'
<1> USE DEF LeftInv
<1>1. IsFiniteSet(Alive) /\ IsFiniteSet(Others)
  BY RelayAssumption, FS_Subset DEF Alive, Others
<1>2. Cardinality(Others) \in Nat /\ abandoned \in Nat
  <2>1. Cardinality(Others) \in Nat
    BY <1>1, FS_CardinalityType
  <2>2. abandoned \in 0 .. MaxBoots /\ MaxBoots \in Nat
    BY RelayAssumption DEF ReadInv, TypeInv, PigTypeOK
  <2>3. QED
    BY <2>1, <2>2
<1>3. Cardinality(Others) <= abandoned
  BY DEF OthersAreAbandoned, Others
<1>4. ASSUME Others' \subseteq Others, abandoned' = abandoned
      PROVE  OthersAreAbandoned'
  <2>1. Cardinality(Others') <= Cardinality(Others) /\ Cardinality(Others') \in Nat
    BY <1>1, <1>4, FS_Subset, FS_CardinalityType
  <2>2. Cardinality(Others') <= abandoned'
    BY <1>2, <1>3, <1>4, <2>1
  <2>3. QED
    BY <2>2 DEF OthersAreAbandoned, Others
<1>5. ASSUME NEW b, End(b) PROVE Others' = Alive
  BY <1>5, RelayAssumption DEF End, Others, Alive, ReadInv, TypeInv, PigTypeOK
<1>6. ASSUME End(TRUE) PROVE OthersAreAbandoned'
  <2>1. Others' = Alive /\ abandoned' = abandoned + 1
    BY <1>5, <1>6 DEF End
  <2>2. Alive \subseteq Others \cup {own}
    BY DEF Others
  <2>3. IsFiniteSet(Others \cup {own})
        /\ Cardinality(Others \cup {own}) <= Cardinality(Others) + 1
    <3>1. own \notin Others
      BY DEF Others
    <3>2. IsFiniteSet(Others \cup {own})
          /\ Cardinality(Others \cup {own}) = Cardinality(Others) + 1
      BY <1>1, <3>1, FS_AddElement
    <3>3. QED
      BY <1>2, <3>2
  <2>4. Cardinality(Alive) <= Cardinality(Others \cup {own})
        /\ Cardinality(Alive) \in Nat /\ Cardinality(Others \cup {own}) \in Nat
    BY <1>1, <2>2, <2>3, FS_Subset, FS_CardinalityType
  <2>5. Cardinality(Alive) <= abandoned + 1
    BY <1>2, <1>3, <2>3, <2>4
  <2>6. QED
    BY <2>1, <2>5 DEF OthersAreAbandoned, Others
<1>7. ASSUME Exit PROVE OthersAreAbandoned'
  <2>1. CASE reloading = TRUE
    BY <1>6, <1>7, <2>1 DEF Exit
  <2>2. CASE reloading = FALSE
    <3>1. own \notin Alive
      BY <1>7, <2>2 DEF Exit, Quiet
    <3>2. Others' = Others
      BY <1>5, <1>7, <2>2, <3>1 DEF Exit, Others
    <3>3. abandoned' = abandoned
      BY <1>7, <2>2 DEF Exit, End
    <3>4. QED
      BY <1>4, <3>2, <3>3
  <2>3. reloading \in BOOLEAN
    BY DEF ReadInv, TypeInv, PigTypeOK
  <2>4. QED
    BY <2>1, <2>2, <2>3
<1>8. ASSUME Kill PROVE OthersAreAbandoned'
  BY <1>6, <1>8 DEF Kill
<1>9. ASSUME UNCHANGED pigVars PROVE OthersAreAbandoned'
  <2>1. Others' = Others /\ abandoned' = abandoned
    BY <1>9 DEF pigVars, snorts, Others, Alive
  <2>2. QED
    BY <1>4, <2>1
<1>10. QED
  BY <1>4, <1>7, <1>8, <1>9, StepOwns

(* Whatever the reload and the main thread's stop do to each other           *)
(* (snort.py:47-112, pigrelay.py:270-309), a relay that was not killed, or   *)
(* stopped in the midst of a reload, leaves no Snort running, and at most    *)
(* one each time it was.                                                     *)
THEOREM SnortsLeftAreCounted == PigSpec => []OthersAreAbandoned
<1>1. PigInit => LeftInv
  <2>1. ASSUME PigInit PROVE Quiet /\ Alive = {} /\ Others = {} /\ abandoned = 0
    BY <2>1 DEF PigInit, Quiet, Alive, Others
  <2>2. ASSUME PigInit PROVE OthersAreAbandoned
    BY <2>1, <2>2, FS_EmptySet DEF OthersAreAbandoned, Others
  <2>3. PigInit => ReadInv
    BY PigTypeInit DEF PigInit, ReadInv, HasRead, Stopped, Up
  <2>4. QED
    BY <2>1, <2>2, <2>3 DEF LeftInv
<1>2. LeftInv /\ [PigNext]_pigVars => LeftInv'
  BY PigTypeStep, ReadStep, QuietStep, LeftStep DEF LeftInv, ReadInv, TypeInv
<1>3. LeftInv => OthersAreAbandoned
  BY DEF LeftInv
<1>4. QED
  BY <1>1, <1>2, <1>3, PTL DEF PigSpec
=============================================================================
