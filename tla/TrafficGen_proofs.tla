------------------------- MODULE TrafficGen_proofs --------------------------
(***************************************************************************)
(* Proofs about the traffic generator, for every network, presence file,   *)
(* load and choice of random numbers.  The inductive invariant IInv says   *)
(* what the samples and the counters are, and carries TypeOK,              *)
(* NoSelfTraffic and CountRight.  On top of it Here says where the flows   *)
(* of burst traffic begin, and carries BothPresent.                        *)
(***************************************************************************)
EXTENDS TrafficGen, SequenceTheorems, FiniteSetTheorems, TLAPS

\* C holds the positions A of the first a elements of a list and those, B, of
\* the next b.
Joined(a, b, A, B, C) ==
    /\ a \in Nat /\ b \in Nat
    /\ A \in SUBSET (1..a) /\ B \in SUBSET (1..b)
    /\ \A i : i \in C <=> i \in A \/ \E j \in B : i = a + j

LEMMA CountSplit ==
    ASSUME NEW a, NEW b, NEW A, NEW B, NEW C, Joined(a, b, A, B, C)
    PROVE  /\ Cardinality(A) \in Nat /\ Cardinality(B) \in Nat
           /\ Cardinality(C) = Cardinality(A) + Cardinality(B)
  <1> USE DEF Joined
  <1> DEFINE D == {a + j : j \in B}
  <1>1. IsFiniteSet(A) /\ IsFiniteSet(B)
    <2>1. IsFiniteSet(1..a) /\ IsFiniteSet(1..b)
      BY FS_Interval
    <2> QED
      BY <2>1, FS_Subset
  <1>2. IsFiniteSet(D) /\ Cardinality(D) = Cardinality(B)
    <2> DEFINE f == [j \in B |-> a + j]
    <2>1. f \in Bijection(B, D)
      <3>1. f \in [B -> D]
        OBVIOUS
      <3>2. \A i, j \in B : f[i] = f[j] => i = j
        OBVIOUS
      <3>3. \A d \in D : \E j \in B : f[j] = d
        OBVIOUS
      <3> QED
        BY <3>1, <3>2, <3>3 DEF Bijection, Injection, Surjection, IsInjective
    <2>2. ExistsBijection(B, D)
      BY <2>1 DEF ExistsBijection
    <2> QED
      BY <1>1, <2>2, FS_Bijection
  <1>3. A \cap D = {}
    OBVIOUS
  <1>4. C = A \cup D
    OBVIOUS
  <1> HIDE DEF D
  <1>5. Cardinality(A \cup D) = Cardinality(A) + Cardinality(D) - Cardinality(A \cap D)
    BY <1>1, <1>2, FS_Union
  <1>6. Cardinality(A) \in Nat /\ Cardinality(B) \in Nat
    BY <1>1, FS_CardinalityType
  <1>7. Cardinality(A \cap D) = 0
    BY <1>3, FS_EmptySet
  <1> QED
    BY <1>2, <1>4, <1>5, <1>6, <1>7

LEMMA Division ==
    ASSUME NEW a \in Nat, NEW b \in Nat \ {0}
    PROVE  /\ a \div b \in Nat /\ (a \div b) * b <= a /\ a % b \in Nat
           /\ a = (a \div b) * b + (a % b)
  OBVIOUS

-----------------------------------------------------------------------------
(* Times and packets.                                                      *)

LEMMA PresenceTimes ==
    ASSUME presence \in PresenceFiles, NEW n \in Nodes
    PROVE  inPresence(n) \in Int /\ outPresence(n) \in Int
  <1>1. Second \in Nat \ {0} /\ Duration \in Nat /\ presence[n] \in Line
    BY TrafficAssumption
  <1>2. (Second + 9) \div 10 \in Int /\ -Second \in Int
    BY <1>1
  <1>3. CASE presence[n] = <<>>
    BY <1>2, <1>3 DEF inPresence, outPresence, Presence
  <1>4. CASE presence[n] # <<>>
    <2>1. presence[n] \in Times \X Times
      BY <1>1, <1>4 DEF Line
    <2>2. presence[n][1] \in Int /\ presence[n][2] \in Int
      BY <1>1, <2>1 DEF Times
    <2> QED
      BY <1>2, <1>4, <2>2 DEF inPresence, outPresence, Presence
  <1> QED
    BY <1>3, <1>4

\* The time of a packet: drawn from the whole seconds two nodes have in common.
LEMMA ChoiceTimes ==
    ASSUME presence \in PresenceFiles, NEW p \in ActivePairs,
           CommonIn(p) < CommonOut(p),
           NEW r \in 0..((CommonOut(p) - CommonIn(p)) \div Second - 1),
           NEW t, t = r * Second + Truncated(CommonIn(p))
    PROVE  /\ p \in Nodes \X Nodes /\ p[1] \in Nodes /\ p[2] \in Nodes /\ p[1] # p[2]
           /\ t \in Nat /\ CommonIn(p) \in Nat /\ t >= Truncated(CommonIn(p))
           /\ outPresence(p[1]) >= t /\ outPresence(p[2]) >= t
  <1>1. p \in Nodes \X Nodes /\ p[1] # p[2] /\ p[1] \in Nodes /\ p[2] \in Nodes
    BY DEF ActivePairs
  <1>2. Second \in Nat \ {0} /\ Duration \in Nat
    BY TrafficAssumption
  <1>3. /\ inPresence(p[1]) \in Int /\ inPresence(p[2]) \in Int
        /\ outPresence(p[1]) \in Int /\ outPresence(p[2]) \in Int
    BY <1>1, PresenceTimes
  <1>4. SndPrdStart \in Nat /\ SndPrdStop \in Int
    BY <1>2 DEF SndPrdStart, SndPrdStop
  <1>5. CommonIn(p) \in Nat
    BY <1>3, <1>4 DEF CommonIn, Later
  <1>6. /\ CommonOut(p) \in Int
        /\ outPresence(p[1]) >= CommonOut(p) /\ outPresence(p[2]) >= CommonOut(p)
    BY <1>3, <1>4 DEF CommonOut, Earlier
  <1> DEFINE span == CommonOut(p) - CommonIn(p)
  <1>7. span \in Nat
    BY <1>5, <1>6
  <1>8. /\ span \div Second \in Nat /\ (span \div Second) * Second <= span
        /\ Truncated(CommonIn(p)) \in Nat /\ Truncated(CommonIn(p)) <= CommonIn(p)
    <2>1. PICK d \in Nat : d = span
      BY <1>7
    <2>2. d \div Second \in Nat /\ (d \div Second) * Second <= d
      BY <1>2, Division
    <2>3. PICK c \in Nat : c = CommonIn(p)
      BY <1>5
    <2>4. c \div Second \in Nat /\ (c \div Second) * Second <= c
      BY <1>2, Division
    <2>5. (c \div Second) * Second \in Nat
      BY <1>2, <2>4
    <2> QED
      BY <2>1, <2>2, <2>3, <2>4, <2>5 DEF Truncated
  <1>9. r \in Nat /\ r <= span \div Second
    BY <1>8
  <1>10. r * Second \in Nat /\ r * Second <= span
    <2>1. PICK k \in Nat : k = span \div Second
      BY <1>8
    <2>2. r * Second \in Nat /\ k * Second \in Nat /\ r * Second <= k * Second
      BY <1>2, <1>9, <2>1
    <2>3. k * Second <= span
      BY <1>8, <2>1
    <2> QED
      BY <1>7, <2>2, <2>3
  <1>11. t \in Nat /\ t <= CommonOut(p) /\ t >= Truncated(CommonIn(p))
    BY <1>5, <1>6, <1>8, <1>10
  <1> QED
    BY <1>1, <1>3, <1>5, <1>6, <1>11

\* The receiver drawn is present, and not the sender.
LEMMA ReceiverIsOther ==
    ASSUME NEW ns \in SUBSET Nodes, NEW s \in ns, NEW q \in Receivers(ns, s)
    PROVE  q \in ns /\ q # s
  BY DEF Receivers, Last

\* Packets between different nodes.
Distinct(new) ==
    /\ new \in Seq(Sample)
    /\ \A i \in 1..Len(new) : new[i].source # new[i].dest

\* A packet, and a flow, between the nodes of a pair.
LEMMA OneDistinct ==
    ASSUME NEW p \in Nodes \X Nodes, p[1] # p[2], NEW t \in Nat
    PROVE  /\ Distinct(One(p, t)) /\ Len(One(p, t)) = 1 /\ One(p, t)[1] = ToSample(p, t)
           /\ Distinct(Flow(p, t)) /\ Len(Flow(p, t)) = 6 /\ Flow(p, t)[1] = ToSample(p, t)
           /\ ToSample(p, t) \in Sample
  <1>1. ASSUME NEW a \in Nodes, NEW b \in Nodes, NEW u \in Nat
        PROVE  /\ ToSample(<<a, b>>, u) \in Sample
               /\ ToSample(<<a, b>>, u).source = a
               /\ ToSample(<<a, b>>, u).dest = b
    BY DEF ToSample, Sample
  <1>2. p = <<p[1], p[2]>> /\ p[1] \in Nodes /\ p[2] \in Nodes
    OBVIOUS
  <1>3. ToSample(p, t) \in Sample /\ ToSample(p, t).source # ToSample(p, t).dest
    BY <1>1, <1>2
  <1>4. Distinct(One(p, t)) /\ Len(One(p, t)) = 1 /\ One(p, t)[1] = ToSample(p, t)
    <2>1. PICK e \in Sample : e = ToSample(p, t)
      BY <1>3
    <2>2. One(p, t) = <<e>> /\ e.source # e.dest
      BY <1>3, <2>1 DEF One
    <2> QED
      BY <2>1, <2>2 DEF Distinct
  <1>5. Distinct(Flow(p, t)) /\ Len(Flow(p, t)) = 6 /\ Flow(p, t)[1] = ToSample(p, t)
    <2> DEFINE at(i) == t + ((i - 1) \div 2) * FlowGap
    <2> DEFINE e(i) == ToSample(IF i % 2 = 1 THEN p ELSE <<p[2], p[1]>>, at(i))
    <2>1. \A i \in 1..6 : at(i) \in Nat
      BY TrafficAssumption
    <2>2. at(1) = t
      BY TrafficAssumption
    <2> HIDE DEF at
    <2>3. \A i \in 1..6 : e(i) \in Sample /\ e(i).source # e(i).dest
      BY <1>1, <1>2, <2>1
    <2>4. e(1) = ToSample(p, t)
      BY <2>2
    <2> HIDE DEF e
    <2>5. Flow(p, t) = [i \in 1..6 |-> e(i)]
      BY DEF Flow, flowsize, e, at
    <2>6. Flow(p, t) \in Seq(Sample) /\ Len(Flow(p, t)) = 6
      BY <2>3, <2>5
    <2> QED
      BY <2>3, <2>4, <2>5, <2>6 DEF Distinct
  <1> QED
    BY <1>3, <1>4, <1>5

-----------------------------------------------------------------------------
(* What is inserted.                                                       *)

\* The samples of the period that counts.
Period == {i \in DOMAIN samples : InPeriod(samples[i].time)}

\* The inductive invariant: TypeOK, NoSelfTraffic and CountRight, and what is
\* counted before generation is over.
IInv ==
    /\ TypeOK
    /\ NoSelfTraffic
    /\ CountRight
    /\ type = "SAMPLE" => totalStatPkts = Cardinality(Period)
    /\ type = "PREDEFINED" /\ pc = "run" => samples = <<>> /\ totalStatPkts = 0

LEMMA LoadFacts ==
    ASSUME type \in TrafficTypes
    PROVE  Load \in Nat /\ flows \in Nat /\ flows <= Load
  <1>1. Load \in Nat
    BY TrafficAssumption DEF Load
  <1>2. PICK k \in Nat : k = Load
    BY <1>1
  <1>3. k \div 6 \in Nat /\ k \div 6 <= k
    OBVIOUS
  <1>4. flows = k \div 6
    BY <1>2 DEF flows, flowsize
  <1> QED
    BY <1>2, <1>3, <1>4

\* The samples after an insertion, and the nodes' shares.
LEMMA InsertFacts ==
    ASSUME IInv, NEW new \in Seq(Sample), Insert(new)
    PROVE  /\ samples' \in Seq(Sample) /\ Len(samples) \in Nat /\ Len(new) \in Nat
           /\ Len(samples') = Len(samples) + Len(new)
           /\ \A i \in 1..(Len(samples) + Len(new)) :
                 samples'[i] = IF i <= Len(samples) THEN samples[i]
                               ELSE new[i - Len(samples)]
           /\ PacketsFor' \in [Nodes -> Nat]
           /\ \A n \in Nodes : PacketsFor'[n] = Count(samples', n)
  <1>1. /\ samples \in Seq(Sample) /\ PacketsFor \in [Nodes -> Nat]
        /\ Len(samples) \in Nat /\ Len(new) \in Nat /\ samples' = samples \o new
        /\ \A n \in Nodes : PacketsFor[n] = Count(samples, n)
    BY DEF IInv, TypeOK, CountRight, Insert
  <1>2. /\ samples' \in Seq(Sample)
        /\ Len(samples') = Len(samples) + Len(new)
        /\ \A i \in 1..(Len(samples) + Len(new)) :
              samples'[i] = IF i <= Len(samples) THEN samples[i]
                            ELSE new[i - Len(samples)]
    BY <1>1, ConcatProperties
  <1>3. ASSUME NEW n \in Nodes
        PROVE  /\ Count(samples, n) \in Nat /\ Count(new, n) \in Nat
               /\ Count(samples', n) = Count(samples, n) + Count(new, n)
    <2> DEFINE A == {i \in DOMAIN samples : samples[i].dest = n}
               B == {i \in DOMAIN new : new[i].dest = n}
               C == {i \in DOMAIN samples' : samples'[i].dest = n}
    <2>1. A \in SUBSET (1..Len(samples)) /\ B \in SUBSET (1..Len(new))
      BY <1>1
    <2>2. \A i : i \in C <=> i \in A \/ \E j \in B : i = Len(samples) + j
      <3>1. DOMAIN samples = 1..Len(samples) /\ DOMAIN new = 1..Len(new)
            /\ DOMAIN samples' = 1..(Len(samples) + Len(new))
        BY <1>1, <1>2
      <3>2. ASSUME NEW i \in C PROVE i \in A \/ \E j \in B : i = Len(samples) + j
        <4>1. CASE i <= Len(samples)
          BY <1>1, <1>2, <3>1, <3>2, <4>1
        <4>2. CASE ~(i <= Len(samples))
          <5>1. i - Len(samples) \in B /\ i = Len(samples) + (i - Len(samples))
            BY <1>1, <1>2, <3>1, <3>2, <4>2
          <5> QED
            BY <5>1
        <4> QED
          BY <4>1, <4>2
      <3>3. ASSUME NEW i \in A PROVE i \in C
        BY <1>1, <1>2, <3>1, <3>3
      <3>4. ASSUME NEW j \in B PROVE Len(samples) + j \in C
        BY <1>1, <1>2, <3>1, <3>4
      <3> QED
        BY <3>2, <3>3, <3>4
    <2> HIDE DEF A, B, C
    <2>3. /\ Cardinality(A) \in Nat /\ Cardinality(B) \in Nat
          /\ Cardinality(C) = Cardinality(A) + Cardinality(B)
      <3>1. PICK a \in Nat, b \in Nat : a = Len(samples) /\ b = Len(new)
        BY <1>1
      <3>2. A \in SUBSET (1..a) /\ B \in SUBSET (1..b)
        BY <2>1, <3>1
      <3>3. \A i : i \in C <=> i \in A \/ \E j \in B : i = a + j
        BY <2>2, <3>1
      <3>4. Joined(a, b, A, B, C)
        BY <3>2, <3>3 DEF Joined
      <3> QED
        BY <3>4, CountSplit
    <2> QED
      BY <2>3 DEF A, B, C, Count
  <1>4. \A n \in Nodes : PacketsFor[n] + Count(new, n) \in Nat
    BY <1>1, <1>3
  <1>5. PacketsFor' = [n \in Nodes |-> PacketsFor[n] + Count(new, n)]
    BY DEF Insert
  <1> QED
    BY <1>1, <1>2, <1>3, <1>4, <1>5

\* Packets between different nodes can be added.
LEMMA InsertDistinct ==
    ASSUME IInv, NEW new, Distinct(new), Insert(new), UNCHANGED type
    PROVE  NoSelfTraffic'
  <1>1. new \in Seq(Sample)
    BY DEF Distinct
  <1>2. /\ samples \in Seq(Sample) /\ samples' \in Seq(Sample)
        /\ Len(samples) \in Nat /\ Len(new) \in Nat
        /\ Len(samples') = Len(samples) + Len(new)
        /\ \A i \in 1..(Len(samples) + Len(new)) :
              samples'[i] = IF i <= Len(samples) THEN samples[i]
                            ELSE new[i - Len(samples)]
    BY <1>1, InsertFacts DEF IInv, TypeOK
  <1>3. ASSUME type # "PREDEFINED", NEW i \in 1..(Len(samples) + Len(new))
        PROVE  samples'[i].source # samples'[i].dest
    <2>1. CASE i <= Len(samples)
      <3>1. i \in DOMAIN samples /\ samples'[i] = samples[i]
        BY <1>2, <2>1
      <3> QED
        BY <1>3, <3>1 DEF IInv, NoSelfTraffic
    <2>2. CASE ~(i <= Len(samples))
      <3>1. i - Len(samples) \in 1..Len(new) /\ samples'[i] = new[i - Len(samples)]
        BY <1>2, <2>2
      <3> QED
        BY <3>1 DEF Distinct
    <2> QED
      BY <2>1, <2>2
  <1>4. DOMAIN samples' = 1..(Len(samples) + Len(new))
    BY <1>2
  <1> QED
    BY <1>3, <1>4 DEF NoSelfTraffic

\* One packet more counts if its time is of the period.
LEMMA PeriodGrows ==
    ASSUME IInv, NEW new \in Seq(Sample), Insert(new), Len(new) = 1
    PROVE  /\ Cardinality(Period) \in Nat
           /\ Cardinality(Period') = IF InPeriod(new[1].time) THEN Cardinality(Period) + 1
                                     ELSE Cardinality(Period)
  <1>1. /\ samples \in Seq(Sample) /\ samples' \in Seq(Sample)
        /\ Len(samples) \in Nat /\ Len(samples') = Len(samples) + 1
        /\ \A i \in 1..(Len(samples) + 1) :
              samples'[i] = IF i <= Len(samples) THEN samples[i]
                            ELSE new[i - Len(samples)]
    BY InsertFacts DEF IInv, TypeOK
  <1>2. DOMAIN samples = 1..Len(samples) /\ DOMAIN samples' = 1..(Len(samples) + 1)
    BY <1>1
  <1> DEFINE B == IF InPeriod(new[1].time) THEN {1} ELSE {}
  <1>3. Period \in SUBSET (1..Len(samples)) /\ B \in SUBSET (1..1)
    BY <1>2 DEF Period
  <1>4. \A i : i \in Period' <=> i \in Period \/ \E j \in B : i = Len(samples) + j
    <2>1. ASSUME NEW i \in 1..Len(samples) PROVE i \in Period' <=> i \in Period
      BY <1>1, <1>2, <2>1 DEF Period, InPeriod, SndPrdStart, SndPrdStop
    <2>2. Len(samples) + 1 \in Period' <=> InPeriod(new[1].time)
      BY <1>1, <1>2 DEF Period, InPeriod, SndPrdStart, SndPrdStop
    <2>3. Period' \subseteq 1..(Len(samples) + 1) /\ Period \subseteq 1..Len(samples)
      BY <1>2 DEF Period
    <2>4. \A i \in 1..(Len(samples) + 1) : i \in 1..Len(samples) \/ i = Len(samples) + 1
      BY <1>1
    <2>5. Len(samples) + 1 \notin 1..Len(samples)
      BY <1>1
    <2> QED
      BY <2>1, <2>2, <2>3, <2>4, <2>5
  <1>5. Cardinality(B) = IF InPeriod(new[1].time) THEN 1 ELSE 0
    BY FS_Singleton, FS_EmptySet
  <1> HIDE DEF B
  <1>6. Cardinality(Period) \in Nat
        /\ Cardinality(Period') = Cardinality(Period) + Cardinality(B)
    <2>1. PICK a \in Nat, b \in Nat : a = Len(samples) /\ b = 1
      BY <1>1
    <2>2. PICK A, C : A = Period /\ C = Period'
      OBVIOUS
    <2>3. A \in SUBSET (1..a) /\ B \in SUBSET (1..b)
      BY <1>3, <2>1, <2>2
    <2>4. \A i : i \in C <=> i \in A \/ \E j \in B : i = a + j
      BY <1>4, <2>1, <2>2
    <2>5. Cardinality(A) \in Nat /\ Cardinality(C) = Cardinality(A) + Cardinality(B)
      <3>1. Joined(a, b, A, B, C)
        BY <2>3, <2>4 DEF Joined
      <3> QED
        BY <3>1, CountSplit
    <2> QED
      BY <2>2, <2>5
  <1> QED
    BY <1>5, <1>6

-----------------------------------------------------------------------------
(* The invariant.                                                          *)

LEMMA InvInit == Init => IInv
  <1> SUFFICES ASSUME Init PROVE IInv
    OBVIOUS
  <1>1. Load \in Nat
    BY LoadFacts DEF Init
  <1>2. samples = <<>> /\ DOMAIN samples = {} /\ Len(samples) = 0
    BY DEF Init
  <1>3. \A n \in Nodes : Count(samples, n) = 0
    BY <1>2, FS_EmptySet DEF Count
  <1>4. Cardinality(Period) = 0
    BY <1>2, FS_EmptySet DEF Period
  <1> QED
    BY <1>1, <1>2, <1>3, <1>4 DEF Init, IInv, TypeOK, NoSelfTraffic, CountRight

\* The choice of a pair, as what it does to the list.
Chosen(p, t) ==
    /\ CommonIn(p) < CommonOut(p)
    /\ \E r \in 0..((CommonOut(p) - CommonIn(p)) \div Second - 1) :
          t = r * Second + Truncated(CommonIn(p))
    /\ Insert(Made(p, t))
    /\ UNCHANGED <<pc, skipped, totalStatPkts>>

LEMMA ChoiceCases ==
    ASSUME Choice
    PROVE  Trap \/ Skip \/ \E p \in ActivePairs : \E t : Chosen(p, t)
  <1>1. CASE ActivePairs = {} /\ Trap
    BY <1>1
  <1>2. ASSUME NEW p \in ActivePairs,
               LET in == CommonIn(p)
                   seconds == (CommonOut(p) - in) \div Second
               IN  \/ in >= CommonOut(p) /\ Skip
                   \/ in < CommonOut(p) /\ seconds = 0 /\ Trap
                   \/ /\ in < CommonOut(p)
                      /\ \E r \in 0..(seconds - 1) :
                            Insert(Made(p, r * Second + Truncated(in)))
                      /\ UNCHANGED <<pc, skipped, totalStatPkts>>
        PROVE  Trap \/ Skip \/ \E t : Chosen(p, t)
    BY <1>2 DEF Chosen
  <1> QED
    BY <1>1, <1>2 DEF Choice

\* A round of uniform or burst traffic.
LEMMA ChoiceKept ==
    ASSUME IInv, type \in {"UNIFORM", "BURST"}, NEW limit \in Nat, limit <= Load,
           Round(limit), Choice
    PROVE  IInv'
  <1>1. /\ UNCHANGED <<presence, type>> /\ pc = "run" /\ Load' = Load /\ Load \in Nat
        /\ round \in Nat /\ round' = round + 1 /\ round' \in 0..Load
        /\ skipped \in 0..round /\ samples \in Seq(Sample) /\ Len(samples) \in Nat
        /\ presence \in PresenceFiles /\ type \in TrafficTypes
        /\ totalStatPkts \in Nat /\ PacketsFor \in [Nodes -> Nat]
        /\ type = "UNIFORM" => Len(samples) + skipped = round
    BY LoadFacts DEF IInv, TypeOK, Round, Load
  <1>2. CASE Trap
    BY <1>1, <1>2 DEF Trap, IInv, TypeOK, NoSelfTraffic, CountRight
  <1>3. CASE Skip
    <2>1. skipped' \in 0..round'
      BY <1>1, <1>3 DEF Skip
    <2>2. type = "UNIFORM" => Len(samples) + skipped' = round'
      BY <1>1, <1>3 DEF Skip
    <2> QED
      BY <1>1, <1>3, <2>1, <2>2 DEF Skip, IInv, TypeOK, NoSelfTraffic, CountRight
  <1>4. ASSUME NEW p \in ActivePairs, NEW t, Chosen(p, t) PROVE IInv'
    <2>1. PICK r \in 0..((CommonOut(p) - CommonIn(p)) \div Second - 1) :
             t = r * Second + Truncated(CommonIn(p))
      BY <1>4 DEF Chosen
    <2>2. p \in Nodes \X Nodes /\ p[1] # p[2] /\ t \in Nat
      BY <1>1, <1>4, <2>1, ChoiceTimes DEF Chosen
    <2>3. PICK new : new = Made(p, t)
      OBVIOUS
    <2>4. Distinct(new) /\ (type = "UNIFORM" => Len(new) = 1)
      BY <2>2, <2>3, OneDistinct DEF Made
    <2>5. Insert(new) /\ UNCHANGED <<pc, skipped, totalStatPkts>> /\ new \in Seq(Sample)
      BY <1>4, <2>3, <2>4 DEF Chosen, Distinct
    <2>6. NoSelfTraffic'
      BY <1>1, <2>4, <2>5, InsertDistinct
    <2>7. /\ samples' \in Seq(Sample) /\ PacketsFor' \in [Nodes -> Nat]
          /\ Len(samples') = Len(samples) + Len(new)
          /\ \A n \in Nodes : PacketsFor'[n] = Count(samples', n)
      BY <2>5, InsertFacts
    <2>8. skipped' \in 0..round' /\ (type = "UNIFORM" => Len(samples') + skipped' = round')
      <3>1. PICK a \in Nat, b \in Nat : a = Len(samples) /\ b = Len(new)
        BY <1>1, <2>5
      <3>2. Len(samples') = a + b /\ skipped' = skipped
        BY <2>5, <2>7, <3>1
      <3>3. type = "UNIFORM" => b = 1 /\ a + skipped = round
        BY <1>1, <2>4, <3>1
      <3>4. skipped' \in 0..round'
        BY <1>1, <3>2
      <3> QED
        BY <1>1, <3>2, <3>3, <3>4
    <2>9. TypeOK'
      BY <1>1, <2>5, <2>7, <2>8 DEF TypeOK
    <2>10. CountRight'
      BY <1>1, <2>5, <2>7 DEF CountRight
    <2> QED
      BY <1>1, <2>6, <2>9, <2>10 DEF IInv
  <1> QED
    BY <1>2, <1>3, <1>4, ChoiceCases

\* A round of sampled traffic.
LEMMA SampleKept ==
    ASSUME IInv, SampleTraffic
    PROVE  IInv'
  <1>1. /\ UNCHANGED <<presence, type, pc, skipped>> /\ pc = "run" /\ Load' = Load
        /\ Load \in Nat /\ type = "SAMPLE"
        /\ round \in Nat /\ round' = round + 1 /\ round' \in 0..Load
        /\ skipped \in 0..round /\ samples \in Seq(Sample) /\ Len(samples) \in Nat
        /\ presence \in PresenceFiles /\ type \in TrafficTypes
        /\ totalStatPkts \in Nat /\ PacketsFor \in [Nodes -> Nat]
        /\ totalStatPkts = Cardinality(Period)
    BY LoadFacts DEF IInv, TypeOK, SampleTraffic, Round, Load
  <1>2. skipped' \in 0..round'
    BY <1>1
  <1>3. CASE UNCHANGED <<samples, totalStatPkts, PacketsFor>>
    BY <1>1, <1>2, <1>3 DEF IInv, TypeOK, NoSelfTraffic, CountRight, Period, InPeriod
  <1>4. ASSUME NEW t \in Nat, NEW s \in Present(t), NEW q \in Receivers(Present(t), s),
               Insert(One(<<s, q>>, t)), totalStatPkts' = Counted(t)
        PROVE  IInv'
    <2>1. Present(t) \in SUBSET Nodes
      BY DEF Present
    <2>2. s \in Nodes /\ q \in Nodes /\ s # q
      BY <2>1, ReceiverIsOther
    <2>3. PICK p : p = <<s, q>>
      OBVIOUS
    <2>4. p \in Nodes \X Nodes /\ p[1] # p[2]
      BY <2>2, <2>3
    <2>5. PICK new : new = One(p, t)
      OBVIOUS
    <2>6. /\ Distinct(new) /\ Len(new) = 1 /\ new[1].time = t /\ new \in Seq(Sample)
          /\ Insert(new)
      <3>1. Distinct(new) /\ Len(new) = 1 /\ new[1] = ToSample(p, t)
        BY <2>4, <2>5, OneDistinct
      <3>2. ToSample(p, t).time = t
        BY DEF ToSample
      <3>3. Insert(new)
        BY <1>4, <2>3, <2>5
      <3> QED
        BY <3>1, <3>2, <3>3 DEF Distinct
    <2>7. NoSelfTraffic'
      BY <1>1, <2>6, InsertDistinct
    <2>8. /\ samples' \in Seq(Sample) /\ PacketsFor' \in [Nodes -> Nat]
          /\ \A n \in Nodes : PacketsFor'[n] = Count(samples', n)
      BY <2>6, InsertFacts
    <2>9. totalStatPkts' = Cardinality(Period') /\ totalStatPkts' \in Nat
      BY <1>1, <1>4, <2>6, PeriodGrows DEF Counted
    <2>10. TypeOK'
      BY <1>1, <1>2, <2>8, <2>9 DEF TypeOK
    <2>11. CountRight'
      BY <1>1, <2>8 DEF CountRight
    <2> QED
      BY <1>1, <2>7, <2>9, <2>10, <2>11 DEF IInv
  <1>5. PICK r \in 0..(Duration \div Second) :
           LET t == r * Second
           IN  IF Cardinality(Present(t)) > 1
               THEN /\ \E s \in Present(t) : \E q \in Receivers(Present(t), s) :
                          Insert(One(<<s, q>>, t))
                    /\ totalStatPkts' = Counted(t)
               ELSE UNCHANGED <<samples, totalStatPkts, PacketsFor>>
    BY DEF SampleTraffic
  <1>6. PICK t \in Nat : t = r * Second
    BY TrafficAssumption
  <1>7. \/ UNCHANGED <<samples, totalStatPkts, PacketsFor>>
        \/ /\ \E s \in Present(t) : \E q \in Receivers(Present(t), s) :
                 Insert(One(<<s, q>>, t))
           /\ totalStatPkts' = Counted(t)
    BY <1>5, <1>6
  <1> QED
    BY <1>3, <1>4, <1>7

LEMMA PredefinedKept ==
    ASSUME IInv, PredefinedTraffic
    PROVE  IInv'
  <1>1. PICK file \in TrafficFiles :
           Insert(file) /\ totalStatPkts' = totalStatPkts + Len(file)
    BY DEF PredefinedTraffic
  <1>2. file \in Seq(Sample)
    BY TrafficAssumption
  <1>3. /\ samples' \in Seq(Sample) /\ PacketsFor' \in [Nodes -> Nat]
        /\ Len(samples') = Len(samples) + Len(file) /\ Len(file) \in Nat
        /\ \A n \in Nodes : PacketsFor'[n] = Count(samples', n)
    BY <1>1, <1>2, InsertFacts
  <1>4. /\ UNCHANGED <<presence, type, round, skipped>> /\ Load' = Load
        /\ type = "PREDEFINED" /\ samples = <<>> /\ totalStatPkts = 0 /\ pc' = "done"
    BY DEF IInv, PredefinedTraffic, Load
  <1>5. totalStatPkts' = Len(samples') /\ totalStatPkts' \in Nat
    BY <1>1, <1>3, <1>4
  <1>6. TypeOK'
    BY <1>3, <1>4, <1>5 DEF IInv, TypeOK
  <1>7. CountRight'
    BY <1>3, <1>4, <1>5 DEF CountRight
  <1> QED
    BY <1>4, <1>6, <1>7 DEF IInv, NoSelfTraffic

LEMMA ReturnKept ==
    ASSUME IInv, Return
    PROVE  IInv'
  <1>1. /\ UNCHANGED <<presence, type, round, skipped, samples, PacketsFor>> /\ Load' = Load
        /\ pc = "run" /\ pc' = "done" /\ type # "PREDEFINED" /\ totalStatPkts' = AfterLoop
        /\ round = IF type = "BURST" THEN flows ELSE Load
        /\ Load \in Nat /\ round \in 0..Load /\ skipped \in 0..round
        /\ type \in {"UNIFORM", "BURST", "SAMPLE", "PREDEFINED"}
        /\ totalStatPkts \in Nat /\ Len(samples) \in Nat
    BY LoadFacts, TrafficAssumption DEF IInv, TypeOK, Return, Load
  <1>2. totalStatPkts' \in Nat
    BY <1>1 DEF AfterLoop
  <1>3. type = "UNIFORM" => totalStatPkts' = Len(samples)
    BY <1>1 DEF AfterLoop, IInv, TypeOK
  <1>4. type = "SAMPLE" => totalStatPkts' = Cardinality(Period) /\ Period' = Period
    BY <1>1 DEF AfterLoop, IInv, Period, InPeriod, SndPrdStart, SndPrdStop
  <1>5. TypeOK'
    BY <1>1, <1>2 DEF IInv, TypeOK
  <1>6. CountRight'
    BY <1>1, <1>3, <1>4 DEF IInv, CountRight, Period
  <1> QED
    BY <1>1, <1>4, <1>5, <1>6 DEF IInv, NoSelfTraffic

LEMMA InvNext == IInv /\ [Next]_vars => IInv'
  <1> SUFFICES ASSUME IInv, [Next]_vars PROVE IInv'
    OBVIOUS
  <1>0. Load \in Nat /\ flows \in Nat /\ flows <= Load
    BY LoadFacts DEF IInv, TypeOK
  <1>1. CASE UniformTraffic
    BY <1>0, <1>1, ChoiceKept DEF UniformTraffic
  <1>2. CASE BurstTraffic
    BY <1>0, <1>2, ChoiceKept DEF BurstTraffic
  <1>3. CASE UNCHANGED vars
    BY <1>3 DEF vars, IInv, TypeOK, NoSelfTraffic, CountRight, Load, Period, InPeriod
  <1> QED
    BY <1>1, <1>2, <1>3, SampleKept, PredefinedKept, ReturnKept DEF Next

THEOREM Invariance == Spec => []IInv
  BY InvInit, InvNext, PTL DEF Spec

\* The variables keep to their types; in particular no time is negative, and a
\* round of uniform traffic makes a packet or is skipped.
THEOREM TypeCorrect == Spec => []TypeOK
  <1>1. IInv => TypeOK
    BY DEF IInv
  <1> QED
    BY <1>1, Invariance, PTL

\* No node ever sends a packet to itself.
THEOREM NoSelf == Spec => []NoSelfTraffic
  <1>1. IInv => NoSelfTraffic
    BY DEF IInv
  <1> QED
    BY <1>1, Invariance, PTL

\* The counts by which the results are divided are right.
THEOREM CountsAgree == Spec => []CountRight
  <1>1. IInv => CountRight
    BY DEF IInv
  <1> QED
    BY <1>1, Invariance, PTL

-----------------------------------------------------------------------------
(* Both nodes are there.                                                   *)

\* Contacts start at whole seconds, as in the trace files, and the period of
\* traffic not before the first second.  Without this the whole seconds drawn
\* from may begin a fraction of a second before the contact.
WholeSeconds ==
    /\ Duration \div 5 >= Second
    /\ \A file \in PresenceFiles : \A n \in Nodes :
          file[n] # <<>> => file[n][1] % Second = 0

\* A flow has six packets, so that every sixth packet is the first of one.
Here ==
    /\ BothPresent
    /\ type = "BURST" => Len(samples) % 6 = 0

LEMMA NotBefore ==
    ASSUME NEW a \in Nat, NEW b \in Nat \ {0}, a % b = 0, NEW t \in Nat, t >= a
    PROVE  (t \div b) * b >= a
  <1>1. PICK q \in Nat : q = a \div b
    BY Division
  <1>2. a = q * b
    BY <1>1, Division
  <1>3. PICK k \in Nat : k = t \div b
    BY Division
  <1>4. t < (k + 1) * b
    <2>1. t = k * b + (t % b) /\ t % b \in Nat /\ t % b < b
      BY <1>3, Division
    <2> QED
      BY <2>1
  <1>5. q <= k
    <2>1. SUFFICES ASSUME q >= k + 1 PROVE FALSE
      OBVIOUS
    <2>2. q * b >= (k + 1) * b
      BY <2>1
    <2> QED
      BY <1>2, <1>4, <2>2
  <1>6. k * b >= q * b
    BY <1>5
  <1> QED
    BY <1>2, <1>3, <1>6

\* The whole seconds drawn from are not before the contacts of the pair.
LEMMA PairPresent ==
    ASSUME WholeSeconds, presence \in PresenceFiles, NEW p \in ActivePairs,
           CommonIn(p) < CommonOut(p),
           NEW r \in 0..((CommonOut(p) - CommonIn(p)) \div Second - 1),
           NEW t, t = r * Second + Truncated(CommonIn(p))
    PROVE  p[1] \in Present(t) /\ p[2] \in Present(t)
  <1>1. /\ p \in Nodes \X Nodes /\ p[1] \in Nodes /\ p[2] \in Nodes
        /\ t \in Nat /\ CommonIn(p) \in Nat /\ t >= Truncated(CommonIn(p))
        /\ outPresence(p[1]) >= t /\ outPresence(p[2]) >= t
    BY ChoiceTimes
  <1>2. Second \in Nat \ {0} /\ Duration \in Nat /\ SndPrdStart \in Nat
        /\ SndPrdStart >= Second
    BY TrafficAssumption DEF WholeSeconds, SndPrdStart
  <1>3. PICK c \in Nat : c = CommonIn(p)
    BY <1>1
  <1>4. c >= SndPrdStart /\ c >= inPresence(p[1]) /\ c >= inPresence(p[2])
    BY <1>1, <1>2, <1>3, PresenceTimes DEF CommonIn, Later
  <1>5. Truncated(c) = (c \div Second) * Second /\ Truncated(c) \in Int
    BY <1>2, Division DEF Truncated
  <1>6. ASSUME NEW n \in Nodes, c >= inPresence(n)
        PROVE  Truncated(c) >= inPresence(n)
    <2>1. PICK s \in Nat \ {0} : s = Second
      BY <1>2
    <2>2. c \div s \in Nat /\ (c \div s) * s >= s
      <3>1. s % s = 0
        BY Division
      <3> QED
        BY <1>2, <1>4, <2>1, <3>1, NotBefore, Division
    <2>3. CASE presence[n] = <<>>
      BY <1>5, <2>1, <2>2, <2>3 DEF inPresence, Presence
    <2>4. CASE presence[n] # <<>> /\ presence[n][1] = 0
      <3>1. (s + 9) \div 10 <= s
        OBVIOUS
      <3> QED
        BY <1>5, <2>1, <2>2, <2>4, <3>1 DEF inPresence, Presence
    <2>5. CASE presence[n] # <<>> /\ presence[n][1] # 0
      <3>1. presence[n] \in Times \X Times
        BY <2>5, TrafficAssumption DEF Line
      <3>2. PICK a \in Nat : a = presence[n][1]
        BY <1>2, <3>1 DEF Times
      <3>3. a = inPresence(n)
        BY <2>5, <3>2 DEF inPresence, Presence
      <3>4. a % s = 0
        BY <2>1, <2>5, <3>2 DEF WholeSeconds
      <3> QED
        BY <1>5, <1>6, <2>1, <3>3, <3>4, NotBefore
    <2> QED
      BY <2>3, <2>4, <2>5
  <1>7. t >= inPresence(p[1]) /\ t >= inPresence(p[2])
    BY <1>1, <1>3, <1>4, <1>5, <1>6, PresenceTimes
  <1> QED
    BY <1>1, <1>7 DEF Present

\* Adding packets of which the first of each flow is well timed.
LEMMA HereKept ==
    ASSUME IInv, Here, NEW new \in Seq(Sample), Insert(new), UNCHANGED <<presence, type>>,
           \/ type \in {"UNIFORM", "SAMPLE"} /\ Len(new) = 1
           \/ type = "BURST" /\ Len(new) = 6,
           new[1].source \in Present(new[1].time), new[1].dest \in Present(new[1].time)
    PROVE  Here'
  <1>1. /\ samples \in Seq(Sample) /\ samples' \in Seq(Sample)
        /\ Len(samples) \in Nat /\ Len(new) \in Nat
        /\ Len(samples') = Len(samples) + Len(new)
        /\ \A i \in 1..(Len(samples) + Len(new)) :
              samples'[i] = IF i <= Len(samples) THEN samples[i]
                            ELSE new[i - Len(samples)]
    BY InsertFacts DEF IInv, TypeOK
  <1>2. PICK a \in Nat : a = Len(samples)
    BY <1>1
  <1>3. \A u : Present(u)' = Present(u)
    BY DEF Present, inPresence, outPresence, Presence
  <1>4. type = "BURST" => a % 6 = 0 /\ (a + 6) % 6 = 0
    BY <1>2 DEF Here
  <1>5. ASSUME NEW i \in 1..(a + Len(new)),
               type \in {"UNIFORM", "SAMPLE"} \/ (type = "BURST" /\ i % 6 = 1)
        PROVE  {samples'[i].source, samples'[i].dest} \subseteq Present(samples'[i].time)
    <2>1. CASE i <= a
      <3>1. samples'[i] = samples[i] /\ i \in DOMAIN samples
        BY <1>1, <1>2, <1>5, <2>1
      <3>2. {samples[i].source, samples[i].dest} \subseteq Present(samples[i].time)
        BY <1>5, <3>1 DEF Here, BothPresent, flowsize
      <3> QED
        BY <3>1, <3>2
    <2>2. CASE ~(i <= a)
      <3>1. i = a + 1
        <4>1. CASE Len(new) = 1
          BY <1>5, <2>2, <4>1
        <4>2. CASE type = "BURST" /\ Len(new) = 6
          <5>1. i \in Nat /\ i >= a + 1 /\ i <= a + 6
            BY <1>5, <2>2, <4>2
          <5> QED
            BY <1>4, <1>5, <4>2, <5>1
        <4> QED
          BY <4>1, <4>2
      <3>2. samples'[i] = new[1]
        BY <1>1, <1>2, <1>5, <2>2, <3>1
      <3> QED
        BY <3>2
    <2> QED
      BY <2>1, <2>2
  <1>6. DOMAIN samples' = 1..(a + Len(new))
    BY <1>1, <1>2
  <1>7. BothPresent'
    BY <1>3, <1>5, <1>6 DEF BothPresent, flowsize
  <1>8. type' = "BURST" => Len(samples') % 6 = 0
    BY <1>1, <1>2, <1>4
  <1> QED
    BY <1>7, <1>8 DEF Here

LEMMA HereNext ==
    ASSUME WholeSeconds, IInv, Here, [Next]_vars
    PROVE  Here'
  <1>0. /\ presence \in PresenceFiles
        /\ (UNCHANGED <<presence, type, samples>> => Here')
    BY DEF IInv, TypeOK, Here, BothPresent, Present, inPresence, outPresence, Presence
  <1>1. ASSUME type \in {"UNIFORM", "BURST"}, UNCHANGED <<presence, type>>, Choice
        PROVE  Here'
    <2>1. CASE Trap \/ Skip
      BY <1>0, <1>1, <2>1 DEF Trap, Skip
    <2>2. ASSUME NEW p \in ActivePairs, NEW t, Chosen(p, t) PROVE Here'
      <3>1. PICK r \in 0..((CommonOut(p) - CommonIn(p)) \div Second - 1) :
               t = r * Second + Truncated(CommonIn(p))
        BY <2>2 DEF Chosen
      <3>2. /\ p \in Nodes \X Nodes /\ p[1] # p[2] /\ t \in Nat
            /\ p[1] \in Present(t) /\ p[2] \in Present(t)
        BY <1>0, <2>2, <3>1, ChoiceTimes, PairPresent DEF Chosen
      <3>3. PICK new : new = Made(p, t)
        OBVIOUS
      <3>4. /\ new \in Seq(Sample) /\ new[1] = ToSample(p, t)
            /\ \/ type \in {"UNIFORM", "SAMPLE"} /\ Len(new) = 1
               \/ type = "BURST" /\ Len(new) = 6
        BY <1>1, <3>2, <3>3, OneDistinct DEF Made, Distinct
      <3>5. /\ ToSample(p, t).source = p[1] /\ ToSample(p, t).dest = p[2]
            /\ ToSample(p, t).time = t
        BY DEF ToSample
      <3>6. Insert(new)
        BY <2>2, <3>3 DEF Chosen
      <3>7. new[1].source \in Present(new[1].time) /\ new[1].dest \in Present(new[1].time)
        BY <3>2, <3>4, <3>5
      <3> QED
        BY <1>1, <3>4, <3>6, <3>7, HereKept
    <2> QED
      BY <1>1, <2>1, <2>2, ChoiceCases
  <1>2. CASE SampleTraffic
    <2>1. type = "SAMPLE" /\ UNCHANGED <<presence, type>>
      BY <1>2 DEF SampleTraffic, Round
    <2>2. ASSUME NEW t \in Nat, NEW s \in Present(t), NEW q \in Receivers(Present(t), s),
                 Insert(One(<<s, q>>, t))
          PROVE  Here'
      <3>1. Present(t) \in SUBSET Nodes
        BY DEF Present
      <3>2. s \in Nodes /\ q \in Nodes /\ s # q /\ q \in Present(t)
        BY <3>1, ReceiverIsOther
      <3>3. PICK p : p = <<s, q>>
        OBVIOUS
      <3>4. p \in Nodes \X Nodes /\ p[1] # p[2] /\ p[1] = s /\ p[2] = q
        BY <3>2, <3>3
      <3>5. PICK new : new = One(p, t)
        OBVIOUS
      <3>6. new \in Seq(Sample) /\ Len(new) = 1 /\ new[1] = ToSample(p, t)
        BY <3>4, <3>5, OneDistinct DEF Distinct
      <3>7. /\ ToSample(p, t).source = s /\ ToSample(p, t).dest = q
            /\ ToSample(p, t).time = t
        BY <3>4 DEF ToSample
      <3>8. Insert(new)
        BY <2>2, <3>3, <3>5
      <3>9. new[1].source \in Present(new[1].time) /\ new[1].dest \in Present(new[1].time)
        BY <3>2, <3>6, <3>7
      <3> QED
        BY <2>1, <3>6, <3>8, <3>9, HereKept
    <2>3. PICK r \in 0..(Duration \div Second) :
             LET t == r * Second
             IN  IF Cardinality(Present(t)) > 1
                 THEN /\ \E s \in Present(t) : \E q \in Receivers(Present(t), s) :
                            Insert(One(<<s, q>>, t))
                      /\ totalStatPkts' = Counted(t)
                 ELSE UNCHANGED <<samples, totalStatPkts, PacketsFor>>
      BY <1>2 DEF SampleTraffic
    <2>4. PICK t \in Nat : t = r * Second
      BY TrafficAssumption
    <2>5. \/ UNCHANGED samples
          \/ \E s \in Present(t) : \E q \in Receivers(Present(t), s) :
                Insert(One(<<s, q>>, t))
      BY <2>3, <2>4
    <2> QED
      BY <1>0, <2>1, <2>2, <2>5
  <1>3. CASE PredefinedTraffic
    BY <1>3 DEF PredefinedTraffic, Here, BothPresent
  <1>4. CASE Return \/ UNCHANGED vars
    BY <1>0, <1>4 DEF Return, vars
  <1> QED
    BY <1>1, <1>2, <1>3, <1>4 DEF Next, UniformTraffic, BurstTraffic, Round

\* Both nodes of every packet (for bursts, of the first packet of every flow)
\* are in the network at the time it is generated for.
THEOREM AlwaysPresent == WholeSeconds => (Spec => []BothPresent)
  <1> SUFFICES ASSUME WholeSeconds PROVE Spec => []BothPresent
    OBVIOUS
  <1>1. Init => Here
    <2>1. ASSUME Init PROVE Here
      <3>1. DOMAIN samples = {} /\ Len(samples) = 0
        BY <2>1 DEF Init
      <3> QED
        BY <3>1 DEF Here, BothPresent
    <2> QED
      BY <2>1
  <1>2. IInv /\ Here /\ [Next]_vars => Here'
    BY HereNext
  <1>3. Here => BothPresent
    BY DEF Here
  <1> QED
    BY <1>1, <1>2, <1>3, Invariance, PTL DEF Spec
=============================================================================
