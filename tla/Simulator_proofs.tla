-------------------------- MODULE Simulator_proofs --------------------------
(***************************************************************************)
(* Proofs about Simulator, for any nodes, trace, traffic and way of        *)
(* loading: the values of the variables, that the exchange which a contact *)
(* or packet starts is over before the next event of the list is handled,  *)
(* that the order of what is handled is the one of complete loading, and   *)
(* that links follow the contacts of the trace.                            *)
(***************************************************************************)
EXTENDS Simulator, SequenceTheorems, FiniteSetTheorems, WellFoundedInduction,
        NaturalsInduction, TLAPS

-----------------------------------------------------------------------------
(* Numbers.                                                                *)

\* A nonempty set of numbers has a least element.
LEMMA LeastNumber ==
    ASSUME NEW T \in SUBSET Nat, T # {}
    PROVE  \E x \in T : \A y \in T : x <= y
  <1> DEFINE R == OpToRel(<, Nat)
  <1>1. IsWellFoundedOn(R, Nat)
    BY NatLessThanWellFounded
  <1>2. \A x, y \in Nat : x < y <=> <<x, y>> \in R
    BY DEF OpToRel
  <1> HIDE DEF R
  <1>3. PICK x \in T : \A y \in T : ~(<<y, x>> \in R)
    BY <1>1, WFMin
  <1>4. \A y \in T : ~(y < x)
    BY <1>2, <1>3
  <1> QED
    BY <1>4

\* A set of numbers that has 0 and with each number the next one has them all.
LEMMA NumbersFromZero ==
    ASSUME NEW P \in SUBSET Nat, 0 \in P, \A k \in P : k + 1 \in P
    PROVE  P = Nat
  <1>1. SUFFICES ASSUME Nat \ P # {} PROVE FALSE
    OBVIOUS
  <1>2. PICK k \in Nat \ P : \A y \in Nat \ P : k <= y
    BY <1>1, LeastNumber
  <1>3. k # 0 /\ k - 1 \in Nat
    BY <1>2
  <1>4. k - 1 \in P
    BY <1>2, <1>3
  <1>5. (k - 1) + 1 \in P
    BY <1>4
  <1> QED
    BY <1>2, <1>3, <1>5

\* The same for the numbers from 0 to n.
LEMMA NumbersUpto ==
    ASSUME NEW n \in Nat, NEW P \in SUBSET (0..n), 0 \in P,
           \A k \in 1..n : k - 1 \in P => k \in P
    PROVE  P = 0..n
  <1>1. SUFFICES ASSUME (0..n) \ P # {} PROVE FALSE
    OBVIOUS
  <1>2. PICK k \in (0..n) \ P : \A y \in (0..n) \ P : k <= y
    <2>1. (0..n) \ P \in SUBSET Nat
      OBVIOUS
    <2> QED
      BY <1>1, <2>1, LeastNumber
  <1>3. k \in 1..n /\ k - 1 \in 0..n
    BY <1>2
  <1>4. k - 1 \in P
    BY <1>2, <1>3
  <1> QED
    BY <1>2, <1>3, <1>4

\* A finite nonempty set of numbers has a largest element.
LEMMA LargestNumber ==
    ASSUME NEW S \in SUBSET Nat, IsFiniteSet(S), S # {}
    PROVE  Max(S) \in S /\ \A y \in S : Max(S) >= y
  <1> DEFINE P == {k \in Nat : \A T \in SUBSET S : Cardinality(T) = k + 1 =>
                      \E x \in T : \A y \in T : x >= y}
  <1>1. \A T \in SUBSET S : IsFiniteSet(T) /\ Cardinality(T) \in Nat
    BY FS_Subset, FS_CardinalityType
  <1>2. 0 \in P
    <2>1. ASSUME NEW T \in SUBSET S, Cardinality(T) = 0 + 1
          PROVE  \E x \in T : \A y \in T : x >= y
      <3>0. T # {}
        BY <2>1, FS_EmptySet
      <3>1. PICK x \in T : TRUE
        BY <3>0
      <3>2. Cardinality(T \ {x}) = 0
        BY <1>1, <2>1, FS_RemoveElement
      <3>3. T \ {x} = {}
        BY <1>1, <3>2, FS_EmptySet
      <3>4. \A y \in T : y = x
        BY <3>3
      <3>5. x \in Nat
        OBVIOUS
      <3> QED
        BY <3>4, <3>5
    <2> QED
      BY <2>1
  <1>3. ASSUME NEW k \in P PROVE k + 1 \in P
    <2>1. ASSUME NEW T \in SUBSET S, Cardinality(T) = (k + 1) + 1
          PROVE  \E x \in T : \A y \in T : x >= y
      <3>0. T # {}
        BY <1>3, <2>1, FS_EmptySet
      <3>1. PICK z \in T : TRUE
        BY <3>0
      <3>2. Cardinality(T \ {z}) = k + 1 /\ T \ {z} \in SUBSET S
        BY <1>1, <1>3, <2>1, FS_RemoveElement
      <3>3. PICK x \in T \ {z} : \A y \in T \ {z} : x >= y
        BY <1>3, <3>2
      <3>4. x \in Nat /\ z \in Nat /\ T \subseteq Nat
        OBVIOUS
      <3>5. CASE x >= z
        BY <3>3, <3>5
      <3>6. CASE z >= x
        BY <3>3, <3>4, <3>6
      <3> QED
        BY <3>4, <3>5, <3>6
    <2> QED
      BY <1>3, <2>1
  <1>4. P = Nat
    <2>1. P \in SUBSET Nat
      OBVIOUS
    <2> HIDE DEF P
    <2> QED
      BY <1>2, <1>3, <2>1, NumbersFromZero
  <1>5. Cardinality(S) \in Nat /\ Cardinality(S) # 0
    BY FS_CardinalityType, FS_EmptySet
  <1>6. Cardinality(S) - 1 \in Nat /\ Cardinality(S) = (Cardinality(S) - 1) + 1
    BY <1>5
  <1>7. \E x \in S : \A y \in S : x >= y
    BY <1>4, <1>6
  <1> QED
    BY <1>7 DEF Max

\* Subsets of 1..n and their largest elements; 1..i is 1..(i-1) and i.
LEMMA UptoFacts ==
    ASSUME NEW n \in Nat
    PROVE  /\ \A s \in SUBSET (1..n) : s # {} => Max(s) \in s /\ \A y \in s : Max(s) >= y
           /\ \A s \in SUBSET (1..n) : IsFiniteSet(s) /\ Cardinality(s) \in Nat
           /\ \A i \in 1..n : Max(1..i) = i /\ (1..i) \ {Max(1..i)} = 1..(i - 1)
  <1>1. IsFiniteSet(1..n)
    BY FS_Interval
  <1>2. \A s \in SUBSET (1..n) : IsFiniteSet(s) /\ Cardinality(s) \in Nat
    BY <1>1, FS_Subset, FS_CardinalityType
  <1>3. \A s \in SUBSET (1..n) : s # {} => Max(s) \in s /\ \A y \in s : Max(s) >= y
    <2> TAKE s \in SUBSET (1..n)
    <2>1. s \in SUBSET Nat
      OBVIOUS
    <2> QED
      BY <1>2, <2>1, LargestNumber
  <1>4. ASSUME NEW i \in 1..n PROVE Max(1..i) = i /\ (1..i) \ {Max(1..i)} = 1..(i - 1)
    <2>1. 1..i \in SUBSET (1..n) /\ i \in 1..i
      OBVIOUS
    <2>2. Max(1..i) \in 1..i /\ Max(1..i) >= i
      BY <1>3, <2>1
    <2>3. Max(1..i) = i
      BY <2>2
    <2> QED
      BY <2>3
  <1> QED
    BY <1>2, <1>3, <1>4

-----------------------------------------------------------------------------
(* FoldLeft takes the subsets of the positions of a sequence apart, the    *)
(* largest position first.                                                 *)

\* The function g folds the subsets of 1..n with f, starting from e.
FoldsTo(f, e, n, g) ==
    g = [s \in SUBSET (1..n) |->
            IF s = {} THEN e ELSE f[<<Max(s), g[s \ {Max(s)}]>>]]

\* There is such a function.
LEMMA FoldExists ==
    ASSUME NEW f, NEW e, NEW n \in Nat
    PROVE  \E g : FoldsTo(f, e, n, g)
  <1> DEFINE Upto(k, g) ==
        g = [s \in SUBSET (1..n) |-> IF s = {} \/ Cardinality(s) > k THEN e
                                     ELSE f[<<Max(s), g[s \ {Max(s)}]>>]]
  <1> DEFINE P == {k \in Nat : \E g : Upto(k, g)}
  <1>1. \A s \in SUBSET (1..n) : IsFiniteSet(s) /\ Cardinality(s) \in Nat
    BY UptoFacts
  <1>2. \A s \in SUBSET (1..n) :
           s # {} => /\ Max(s) \in s /\ s \ {Max(s)} \in SUBSET (1..n)
                     /\ Cardinality(s \ {Max(s)}) = Cardinality(s) - 1
                     /\ Cardinality(s) # 0
    <2> SUFFICES ASSUME NEW s \in SUBSET (1..n), s # {}
                 PROVE  /\ Max(s) \in s /\ s \ {Max(s)} \in SUBSET (1..n)
                        /\ Cardinality(s \ {Max(s)}) = Cardinality(s) - 1
                        /\ Cardinality(s) # 0
      OBVIOUS
    <2>1. Max(s) \in s
      BY UptoFacts
    <2> QED
      BY <1>1, <2>1, FS_RemoveElement, FS_EmptySet
  <1>3. 0 \in P
    <2> DEFINE z == [s \in SUBSET (1..n) |-> e]
    <2>1. \A s \in SUBSET (1..n) : s = {} \/ Cardinality(s) > 0
      <3> SUFFICES ASSUME NEW s \in SUBSET (1..n), s # {} PROVE Cardinality(s) > 0
        OBVIOUS
      <3>1. PICK c \in Nat : c = Cardinality(s)
        BY <1>1
      <3>2. c # 0
        BY <1>2, <3>1
      <3> QED
        BY <3>1, <3>2
    <2>2. Upto(0, z)
      BY <2>1
    <2> QED
      BY <2>2
  <1>4. ASSUME NEW k \in P PROVE k + 1 \in P
    <2>1. PICK g : Upto(k, g)
      BY <1>4
    <2> DEFINE h == [s \in SUBSET (1..n) |-> IF s = {} \/ Cardinality(s) > k + 1 THEN e
                                             ELSE f[<<Max(s), g[s \ {Max(s)}]>>]]
    <2>2. ASSUME NEW s \in SUBSET (1..n), Cardinality(s) <= k PROVE h[s] = g[s]
      <3>1. g[s] = IF s = {} \/ Cardinality(s) > k THEN e ELSE f[<<Max(s), g[s \ {Max(s)}]>>]
        BY <2>1, Zenon
      <3>2. h[s] = IF s = {} \/ Cardinality(s) > k + 1 THEN e
                   ELSE f[<<Max(s), g[s \ {Max(s)}]>>]
        OBVIOUS
      <3>3. ~(Cardinality(s) > k) /\ ~(Cardinality(s) > k + 1)
        BY <1>1, <1>4, <2>2
      <3> HIDE DEF h
      <3> QED
        BY <3>1, <3>2, <3>3
    <2>3. ASSUME NEW s \in SUBSET (1..n), s # {}, ~(Cardinality(s) > k + 1)
          PROVE  h[s] = f[<<Max(s), h[s \ {Max(s)}]>>]
      <3>1. s \ {Max(s)} \in SUBSET (1..n) /\ Cardinality(s \ {Max(s)}) <= k
        BY <1>1, <1>2, <1>4, <2>3
      <3>2. h[s \ {Max(s)}] = g[s \ {Max(s)}]
        BY <2>2, <3>1
      <3> QED
        BY <2>3, <3>2
    <2>4. Upto(k + 1, h)
      BY <2>3
    <2> HIDE DEF h, Upto
    <2> QED
      BY <1>4, <2>4
  <1>5. P = Nat
    <2>1. P \in SUBSET Nat
      OBVIOUS
    <2> HIDE DEF P
    <2> QED
      BY <1>3, <1>4, <2>1, NumbersFromZero
  <1>6. PICK g : Upto(Cardinality(1..n), g)
    <2>1. Cardinality(1..n) \in Nat
      BY UptoFacts
    <2> QED
      BY <1>5, <2>1
  <1>7. \A s \in SUBSET (1..n) : ~(Cardinality(s) > Cardinality(1..n))
    <2> TAKE s \in SUBSET (1..n)
    <2>1. IsFiniteSet(1..n) /\ Cardinality(1..n) \in Nat /\ Cardinality(s) \in Nat
      BY UptoFacts
    <2>2. Cardinality(s) <= Cardinality(1..n)
      BY <2>1, FS_Subset
    <2> QED
      BY <2>1, <2>2
  <1>8. FoldsTo(f, e, n, g)
    BY <1>6, <1>7 DEF FoldsTo
  <1> QED
    BY <1>8

\* If f takes values of U to values of U, the values of its fold are in U.
LEMMA FoldType ==
    ASSUME NEW U, NEW e \in U, NEW n \in Nat, NEW f \in [(1..n) \X U -> U]
    PROVE  \E g \in [SUBSET (1..n) -> U] : FoldsTo(f, e, n, g)
  <1>1. PICK g : FoldsTo(f, e, n, g)
    BY FoldExists
  <1>2. \A s \in SUBSET (1..n) :
           g[s] = IF s = {} THEN e ELSE f[<<Max(s), g[s \ {Max(s)}]>>]
    BY <1>1, Zenon DEF FoldsTo
  <1>3. \A s \in SUBSET (1..n) :
           s # {} => /\ Max(s) \in s /\ s \ {Max(s)} \in SUBSET (1..n)
                     /\ Cardinality(s \ {Max(s)}) = Cardinality(s) - 1
    <2> SUFFICES ASSUME NEW s \in SUBSET (1..n), s # {}
                 PROVE  /\ Max(s) \in s /\ s \ {Max(s)} \in SUBSET (1..n)
                        /\ Cardinality(s \ {Max(s)}) = Cardinality(s) - 1
      OBVIOUS
    <2>1. Max(s) \in s
      BY UptoFacts
    <2> QED
      BY UptoFacts, <2>1, FS_RemoveElement
  <1> DEFINE Q == {k \in Nat : \A s \in SUBSET (1..n) : Cardinality(s) = k => g[s] \in U}
  <1>4. 0 \in Q
    <2>1. ASSUME NEW s \in SUBSET (1..n), Cardinality(s) = 0 PROVE g[s] \in U
      <3>1. s = {}
        BY <2>1, UptoFacts, FS_EmptySet
      <3> QED
        BY <1>2, <3>1
    <2> QED
      BY <2>1
  <1>5. ASSUME NEW k \in Q PROVE k + 1 \in Q
    <2>1. ASSUME NEW s \in SUBSET (1..n), Cardinality(s) = k + 1, s # {} PROVE g[s] \in U
      <3>1. /\ Max(s) \in 1..n /\ s \ {Max(s)} \in SUBSET (1..n)
            /\ Cardinality(s \ {Max(s)}) = k
        <4>1. k \in Nat /\ (k + 1) - 1 = k
          BY <1>5
        <4> HIDE DEF Q
        <4> QED
          BY <1>3, <2>1, <4>1
      <3>2. g[s \ {Max(s)}] \in U
        BY <1>5, <3>1
      <3>3. g[s] = f[<<Max(s), g[s \ {Max(s)}]>>]
        BY <1>2, <2>1
      <3> QED
        BY <3>1, <3>2, <3>3
    <2>2. g[{}] \in U
      BY <1>2
    <2>3. \A s \in SUBSET (1..n) : Cardinality(s) = k + 1 => g[s] \in U
      BY <2>1, <2>2
    <2> QED
      BY <1>5, <2>3
  <1>6. Q = Nat
    <2>1. Q \in SUBSET Nat
      OBVIOUS
    <2> HIDE DEF Q
    <2> QED
      BY <1>4, <1>5, <2>1, NumbersFromZero
  <1>7. \A s \in SUBSET (1..n) : g[s] \in U
    BY <1>6, UptoFacts
  <1>8. g = [s \in SUBSET (1..n) |-> g[s]]
    BY <1>1, Zenon DEF FoldsTo
  <1> QED
    BY <1>1, <1>7, <1>8

-----------------------------------------------------------------------------
(* Events and the list of them.                                            *)

\* A contact that begins or ends, or a packet of the application.
Quiet ==
    {e \in [id : {"ContactUp", "ContactDown"}, time : Nat, a : Nodes, b : Nodes] : e.a # e.b}
      \cup [id : {"Transmission"}, time : Nat, a : {APPLICATION}, b : Nodes]

Points == [id : {"CheckPoint"}, time : Nat, a : {0}, b : {0}]

\* A transmission over a link of map m.
Sent(m) ==
    {e \in [id : {"Transmission"}, time : Nat, a : Nodes, b : Nodes] : e.b \in m[e.a]}

Event ==
    Quiet \cup Points \cup [id : {"Transmission"}, time : Nat, a : Nodes, b : Nodes]

InOrderOfTime(list) ==
    \A i, j \in 1..Len(list) : i <= j => list[i].time <= list[j].time

\* What tells the kinds of events apart.
LEMMA EventFacts ==
    /\ \A e \in Event : e.time \in Nat
    /\ \A e \in Event : e.id \in {"ContactUp", "ContactDown", "Transmission", "CheckPoint"}
    /\ \A e \in Event : e.id = "CheckPoint" <=> e \in Points
    /\ Quiet \subseteq Event /\ Points \subseteq Event
    /\ \A m : Sent(m) \subseteq Event
    /\ \A e \in Quiet \cup Points : ~(e.id = "Transmission" /\ e.a # APPLICATION)
    /\ \A e \in Quiet \cup Points :
          /\ e.id = "ContactUp" => e.a \in Nodes /\ e.b \in Nodes /\ e.a # e.b
          /\ e.id = "Transmission" => e.a = APPLICATION /\ e.b \in Nodes
    /\ \A m : \A e \in Sent(m) : /\ e.id = "Transmission" /\ e.a # APPLICATION
                                 /\ e.a \in Nodes /\ e.b \in Nodes /\ e.b \in m[e.a]
    /\ \A e \in Quiet : e.id # "CheckPoint"
  <1>1. APPLICATION \notin Nodes
    BY SimulatorAssumption DEF APPLICATION
  <1>2. \A e \in Quiet : /\ e.time \in Nat /\ e.id \in {"ContactUp", "ContactDown", "Transmission"}
                         /\ e.b \in Nodes
                         /\ e.id # "Transmission" => e.a \in Nodes /\ e.a # e.b
                         /\ e.id = "Transmission" => e.a = APPLICATION
    BY DEF Quiet
  <1>3. \A e \in Points : e.time \in Nat /\ e.id = "CheckPoint"
    BY DEF Points
  <1>4. \A m : \A e \in Sent(m) : /\ e.id = "Transmission" /\ e.a \in Nodes /\ e.b \in Nodes
                                  /\ e.b \in m[e.a] /\ e.time \in Nat
                                  /\ e \in Event
    BY DEF Sent, Event
  <1>5. \A e \in Event : \/ e \in Quiet
                         \/ e \in Points
                         \/ e.id = "Transmission" /\ e.time \in Nat
    BY DEF Event
  <1>6. Quiet \subseteq Event /\ Points \subseteq Event
    BY DEF Event
  <1> QED
    BY <1>1, <1>2, <1>3, <1>4, <1>5, <1>6

\* The walk of InsertEvent stops somewhere.
LEMMA PlaceExists ==
    ASSUME NEW list \in Seq(Event), NEW t \in Nat
    PROVE  \E k \in 1..(Len(list) + 1) : IsPlace(k, list, t)
  <1> DEFINE T == {k \in 1..(Len(list) + 1) : k <= Len(list) => list[k].time >= t}
  <1>1. Len(list) \in Nat /\ \A i \in 1..Len(list) : list[i].time \in Nat
    BY EventFacts
  <1>2. Len(list) + 1 \in T /\ T \in SUBSET Nat
    BY <1>1
  <1>3. PICK k \in T : \A y \in T : k <= y
    <2> HIDE DEF T
    <2> QED
      BY <1>2, LeastNumber
  <1>4. ASSUME NEW i \in 1..(k - 1) PROVE list[i].time < t
    <2>1. i \in 1..Len(list) /\ i < k
      BY <1>1, <1>3, <1>4
    <2>2. i \notin T
      BY <1>2, <1>3, <2>1
    <2> QED
      BY <1>1, <2>1, <2>2
  <1> QED
    BY <1>3, <1>4 DEF IsPlace

\* Inserting an event at its place: one event more, in order again.
LEMMA Inserted ==
    ASSUME NEW list \in Seq(Event), NEW e \in Event
    PROVE  \E k \in 1..(Len(list) + 1) :
              /\ IsPlace(k, list, e.time)
              /\ Insertion(list, e) \in Seq(Event)
              /\ Len(Insertion(list, e)) = Len(list) + 1
              /\ \A i \in 1..(Len(list) + 1) :
                    Insertion(list, e)[i] =
                       IF i < k THEN list[i] ELSE IF i = k THEN e ELSE list[i - 1]
              /\ InOrderOfTime(list) => InOrderOfTime(Insertion(list, e))
  <1> DEFINE n == Len(list)
  <1>0. e.time \in Nat
    BY EventFacts
  <1> DEFINE k == CHOOSE k \in 1..(Len(list) + 1) : IsPlace(k, list, e.time)
  <1>k. k \in 1..(n + 1) /\ IsPlace(k, list, e.time) /\ Insertion(list, e) = Linked(list, k, e)
    BY <1>0, PlaceExists DEF Insertion
  <1> HIDE DEF k
  <1> DEFINE before == SubSeq(list, 1, k - 1)
  <1> DEFINE after == SubSeq(list, k, n)
  <1>1. n \in Nat /\ k \in Int /\ <<e>> \in Seq(Event) /\ Len(<<e>>) = 1
    BY <1>k
  <1>2. \A i \in 1..n : list[i] \in Event
    OBVIOUS
  <1>3. /\ before \in Seq(Event) /\ Len(before) = k - 1
        /\ \A i \in 1..(k - 1) : before[i] = list[i]
    BY <1>1, <1>2, <1>k, SubSeqProperties
  <1>4. /\ after \in Seq(Event) /\ Len(after) = n - k + 1
        /\ \A i \in 1..(n - k + 1) : after[i] = list[k + i - 1]
    BY <1>1, <1>2, <1>k, SubSeqProperties
  <1> DEFINE half == before \o <<e>>
  <1> HIDE DEF before, after
  <1>5. /\ half \in Seq(Event) /\ Len(half) = k
        /\ \A i \in 1..k : half[i] = IF i < k THEN list[i] ELSE e
    BY <1>1, <1>3, <1>k, ConcatProperties
  <1> HIDE DEF half
  <1> DEFINE f == half \o after
  <1>6. /\ f \in Seq(Event) /\ Len(f) = n + 1
        /\ \A i \in 1..(n + 1) : f[i] = IF i <= k THEN half[i] ELSE after[i - k]
    <2>1. /\ f \in Seq(Event) /\ Len(f) = Len(half) + Len(after)
          /\ \A i \in 1..(Len(half) + Len(after)) :
                f[i] = IF i <= Len(half) THEN half[i] ELSE after[i - Len(half)]
      BY <1>4, <1>5, ConcatProperties
    <2>2. Len(half) = k /\ Len(half) + Len(after) = n + 1
      BY <1>1, <1>4, <1>5
    <2> QED
      BY <2>1, <2>2
  <1>7. f = Linked(list, k, e)
    BY DEF f, half, before, after, Linked
  <1> HIDE DEF f
  <1>8. ASSUME NEW i \in 1..(n + 1)
        PROVE  f[i] = IF i < k THEN list[i] ELSE IF i = k THEN e ELSE list[i - 1]
    <2>1. CASE i <= k
      BY <1>1, <1>5, <1>6, <2>1
    <2>2. CASE i > k
      <3>1. i - k \in 1..(n - k + 1) /\ k + (i - k) - 1 = i - 1
        BY <1>1, <2>2
      <3>2. after[i - k] = list[i - 1]
        BY <1>4, <3>1
      <3> QED
        BY <1>1, <1>6, <2>2, <3>2
    <2> QED
      BY <1>1, <2>1, <2>2
  <1>9. ASSUME InOrderOfTime(list) PROVE InOrderOfTime(f)
    <2>1. \A i \in 1..n : list[i].time \in Nat
      BY EventFacts
    <2>2. \A i \in 1..n : i < k => list[i].time < e.time
      BY <1>1, <1>k DEF IsPlace
    <2>3. \A i \in 1..n : i >= k => list[i].time >= e.time
      <3> SUFFICES ASSUME NEW i \in 1..n, i >= k PROVE list[i].time >= e.time
        OBVIOUS
      <3>1. k \in 1..n /\ list[k].time >= e.time
        BY <1>1, <1>k DEF IsPlace
      <3>2. list[k].time <= list[i].time
        BY <1>9, <3>1 DEF InOrderOfTime
      <3> QED
        BY <1>0, <2>1, <3>1, <3>2
    <2>4. ASSUME NEW i \in 1..(n + 1), NEW j \in 1..(n + 1), i <= j
          PROVE  f[i].time <= f[j].time
      <3>1. \A x, y \in 1..n : x <= y => list[x].time <= list[y].time
        BY <1>9 DEF InOrderOfTime
      <3>2. CASE j < k
        <4>1. i \in 1..n /\ j \in 1..n /\ f[i] = list[i] /\ f[j] = list[j]
          BY <1>1, <1>8, <1>k, <2>4, <3>2
        <4> QED
          BY <2>4, <3>1, <4>1
      <3>3. CASE j = k
        <4>1. CASE i = k
          BY <1>0, <1>8, <3>3, <4>1
        <4>2. CASE i # k
          <5>1. i \in 1..n /\ i < k /\ f[i] = list[i] /\ f[j] = e
            BY <1>1, <1>8, <1>k, <2>4, <3>3, <4>2
          <5> QED
            BY <1>0, <2>1, <2>2, <5>1
        <4> QED
          BY <4>1, <4>2
      <3>4. CASE j > k
        <4>1. j - 1 \in 1..n /\ j - 1 >= k /\ f[j] = list[j - 1]
          BY <1>1, <1>8, <1>k, <3>4
        <4>2. CASE i < k
          <5>1. i \in 1..n /\ i <= j - 1 /\ f[i] = list[i]
            BY <1>1, <1>8, <1>k, <2>4, <4>1, <4>2
          <5> QED
            BY <3>1, <4>1, <5>1
        <4>3. CASE i = k
          <5>1. f[i] = e
            BY <1>8, <4>3
          <5> QED
            BY <1>0, <2>1, <2>3, <4>1, <5>1
        <4>4. CASE i > k
          <5>1. i - 1 \in 1..n /\ i - 1 <= j - 1 /\ f[i] = list[i - 1]
            BY <1>1, <1>8, <1>k, <2>4, <4>4
          <5> QED
            BY <3>1, <4>1, <5>1
        <4> QED
          BY <1>1, <4>2, <4>3, <4>4
      <3> QED
        BY <1>1, <3>2, <3>3, <3>4
    <2> QED
      BY <1>6, <2>4 DEF InOrderOfTime
  <1> QED
    BY <1>k, <1>6, <1>7, <1>8, <1>9

\* An event that is not later than any in the list becomes its head.
LEMMA InsertedFirst ==
    ASSUME NEW list \in Seq(Event), NEW e \in Event,
           \A i \in 1..Len(list) : e.time <= list[i].time
    PROVE  /\ Insertion(list, e) \in Seq(Event)
           /\ Len(Insertion(list, e)) = Len(list) + 1
           /\ Insertion(list, e)[1] = e
           /\ \A i \in 2..(Len(list) + 1) : Insertion(list, e)[i] = list[i - 1]
           /\ InOrderOfTime(list) => InOrderOfTime(Insertion(list, e))
  <1>1. PICK k \in 1..(Len(list) + 1) :
              /\ IsPlace(k, list, e.time)
              /\ Insertion(list, e) \in Seq(Event)
              /\ Len(Insertion(list, e)) = Len(list) + 1
              /\ \A i \in 1..(Len(list) + 1) :
                    Insertion(list, e)[i] =
                       IF i < k THEN list[i] ELSE IF i = k THEN e ELSE list[i - 1]
              /\ InOrderOfTime(list) => InOrderOfTime(Insertion(list, e))
    BY Inserted
  <1>2. e.time \in Nat /\ Len(list) \in Nat /\ \A i \in 1..Len(list) : list[i].time \in Nat
    BY EventFacts
  <1>3. k = 1
    <2> SUFFICES ASSUME k # 1 PROVE FALSE
      OBVIOUS
    <2>1. 1 \in 1..(k - 1) /\ 1 \in 1..Len(list)
      BY <1>2
    <2>2. list[1].time < e.time /\ e.time <= list[1].time
      BY <1>1, <2>1 DEF IsPlace
    <2> QED
      BY <1>2, <2>1, <2>2
  <1>4. ASSUME NEW i \in 2..(Len(list) + 1) PROVE Insertion(list, e)[i] = list[i - 1]
    BY <1>1, <1>2, <1>3
  <1>5. 1 \in 1..(Len(list) + 1)
    BY <1>2
  <1> QED
    BY <1>1, <1>3, <1>4, <1>5

\* The list without its head.
LEMMA TailFacts ==
    ASSUME NEW list \in Seq(Event), list # <<>>
    PROVE  /\ Tail(list) \in Seq(Event)
           /\ Len(list) \in Nat \ {0}
           /\ Len(Tail(list)) = Len(list) - 1
           /\ \A i \in 1..(Len(list) - 1) : Tail(list)[i] = list[i + 1]
           /\ Head(list) = list[1]
           /\ Head(list) \in Event
  OBVIOUS

-----------------------------------------------------------------------------
(* Inserting many events.                                                  *)

\* InsertAll inserts the events one by one: h[i] is the list after i of them.
LEMMA InsertAllSteps ==
    ASSUME NEW list \in Seq(Event), NEW events \in Seq(Event)
    PROVE  \E h \in [0..Len(events) -> Seq(Event)] :
              /\ h[0] = list
              /\ \A i \in 1..Len(events) : h[i] = Insertion(h[i - 1], events[i])
              /\ InsertAll(list, events) = h[Len(events)]
  <1> DEFINE n == Len(events)
  <1>1. n \in Nat /\ DOMAIN events = 1..n /\ \A i \in 1..n : events[i] \in Event
    OBVIOUS
  <1> DEFINE Step(it) ==
        it = [s \in SUBSET (1..n) |-> IF s = {} THEN list
                                      ELSE Insertion(it[s \ {Max(s)}], events[Max(s)])]
  <1>2. InsertAll(list, events) = (CHOOSE it : Step(it))[1..n]
    BY <1>1 DEF InsertAll, FoldLeft, MapThenFoldSet
  <1> DEFINE f == [q \in (1..n) \X Seq(Event) |-> Insertion(q[2], events[q[1]])]
  <1>3. f \in [(1..n) \X Seq(Event) -> Seq(Event)]
    <2>1. \A i \in 1..n : \A x \in Seq(Event) : Insertion(x, events[i]) \in Seq(Event)
      BY <1>1, Inserted
    <2> QED
      BY <2>1
  <1>4. \A i \in 1..n : \A x \in Seq(Event) : f[<<i, x>>] = Insertion(x, events[i])
    OBVIOUS
  <1> HIDE DEF f
  <1>5. PICK g \in [SUBSET (1..n) -> Seq(Event)] : FoldsTo(f, list, n, g)
    BY <1>1, <1>3, FoldType
  <1>6. Step(g)
    <2>1. ASSUME NEW s \in SUBSET (1..n), s # {}
          PROVE  f[<<Max(s), g[s \ {Max(s)}]>>] = Insertion(g[s \ {Max(s)}], events[Max(s)])
      <3>1. Max(s) \in s
        BY <1>1, <2>1, UptoFacts
      <3>2. Max(s) \in 1..n /\ s \ {Max(s)} \in SUBSET (1..n)
        BY <3>1
      <3> QED
        BY <1>4, <1>5, <3>2
    <2>2. g = [s \in SUBSET (1..n) |-> IF s = {} THEN list
                                       ELSE f[<<Max(s), g[s \ {Max(s)}]>>]]
      BY <1>5 DEF FoldsTo
    <2>3. \A s \in SUBSET (1..n) :
             (IF s = {} THEN list ELSE f[<<Max(s), g[s \ {Max(s)}]>>])
               = IF s = {} THEN list ELSE Insertion(g[s \ {Max(s)}], events[Max(s)])
      BY <2>1
    <2> HIDE DEF n
    <2> QED
      BY <2>2, <2>3
  <1> DEFINE it == CHOOSE it : Step(it)
  <1>7. Step(it)
    BY <1>6
  <1> HIDE DEF it
  <1>8. \A s \in SUBSET (1..n) :
           it[s] = IF s = {} THEN list ELSE Insertion(it[s \ {Max(s)}], events[Max(s)])
    BY <1>7, Zenon
  <1> DEFINE P == {i \in 0..n : it[1..i] \in Seq(Event)}
  <1>9. it[1..0] = list
    <2>1. 1..0 = {} /\ {} \in SUBSET (1..n)
      OBVIOUS
    <2> QED
      BY <1>8, <2>1, Zenon
  <1>10. \A i \in 1..n : it[1..i] = Insertion(it[1..(i - 1)], events[i])
    <2> TAKE i \in 1..n
    <2>1. 1..i \in SUBSET (1..n) /\ i \in 1..i
      BY <1>1
    <2>2. Max(1..i) = i /\ (1..i) \ {Max(1..i)} = 1..(i - 1)
      BY <1>1, UptoFacts
    <2>3. 1..i # {}
      BY <2>1
    <2> QED
      BY <1>8, <2>1, <2>2, <2>3
  <1>11. P = 0..n
    <2>1. 0 \in P
      BY <1>1, <1>9
    <2>2. ASSUME NEW i \in 1..n, i - 1 \in P PROVE i \in P
      <3>1. events[i] \in Event /\ it[1..(i - 1)] \in Seq(Event) /\ i \in 0..n
        BY <1>1, <2>2
      <3>2. PICK y \in Seq(Event) : y = it[1..(i - 1)]
        BY <3>1
      <3>3. Insertion(y, events[i]) \in Seq(Event)
        BY <3>1, Inserted
      <3> QED
        BY <1>10, <3>1, <3>2, <3>3
    <2>3. P \in SUBSET (0..n)
      OBVIOUS
    <2> HIDE DEF P
    <2> QED
      BY <1>1, <2>1, <2>2, <2>3, NumbersUpto
  <1> DEFINE h == [i \in 0..n |-> it[1..i]]
  <1>12. h \in [0..n -> Seq(Event)]
    BY <1>11
  <1>13. h[0] = list /\ h[n] = it[1..n]
    BY <1>1, <1>9
  <1>14. \A i \in 1..n : h[i] = Insertion(h[i - 1], events[i])
    <2> TAKE i \in 1..n
    <2>1. i \in 0..n /\ i - 1 \in 0..n
      BY <1>1
    <2> QED
      BY <1>10, <2>1
  <1>15. InsertAll(list, events) = it[1..n]
    BY <1>2 DEF it
  <1> QED
    BY <1>12, <1>13, <1>14, <1>15

\* What holds of the list before, and after each insertion if it held before
\* that one, holds when all events are inserted; V[i] is the set of the
\* lists of which it holds after i insertions.
LEMMA InsertAllWorks ==
    ASSUME NEW list \in Seq(Event), NEW events \in Seq(Event), NEW V, list \in V[0],
           \A i \in 1..Len(events) : \A x \in V[i - 1] \cap Seq(Event) :
              Insertion(x, events[i]) \in V[i]
    PROVE  InsertAll(list, events) \in V[Len(events)] \cap Seq(Event)
  <1> DEFINE n == Len(events)
  <1>1. n \in Nat
    OBVIOUS
  <1>2. PICK h \in [0..n -> Seq(Event)] :
           /\ h[0] = list
           /\ \A i \in 1..n : h[i] = Insertion(h[i - 1], events[i])
           /\ InsertAll(list, events) = h[n]
    BY InsertAllSteps
  <1> DEFINE P == {i \in 0..n : h[i] \in V[i]}
  <1>3. P = 0..n
    <2>1. 0 \in P
      BY <1>1, <1>2
    <2>2. ASSUME NEW i \in 1..n, i - 1 \in P PROVE i \in P
      <3>1. h[i - 1] \in V[i - 1] \cap Seq(Event) /\ i \in 0..n
        BY <1>1, <1>2, <2>2
      <3> QED
        BY <1>2, <3>1
    <2>3. P \in SUBSET (0..n)
      OBVIOUS
    <2> HIDE DEF P
    <2> QED
      BY <1>1, <2>1, <2>2, <2>3, NumbersUpto
  <1>4. n \in P
    BY <1>1, <1>3
  <1> QED
    BY <1>1, <1>2, <1>4

\* Ordered lists of m events of contacts and the application.
Lists(m) == {x \in Seq(Quiet) : InOrderOfTime(x) /\ Len(x) = m}

\* Inserting a contact or packet of the application keeps a list of those in
\* order.
LEMMA QuietInserted ==
    ASSUME NEW m \in Nat, NEW x \in Lists(m), NEW e \in Quiet
    PROVE  Insertion(x, e) \in Lists(m + 1)
  <1>1. x \in Seq(Event) /\ e \in Event /\ Len(x) = m /\ \A i \in 1..m : x[i] \in Quiet
    <2>1. x \in Seq(Quiet) /\ Len(x) = m
      BY DEF Lists
    <2> QED
      BY <2>1, EventFacts
  <1> DEFINE y == Insertion(x, e)
  <1>2. PICK k \in 1..(m + 1) :
           /\ y \in Seq(Event) /\ Len(y) = m + 1
           /\ \A i \in 1..(m + 1) : y[i] = IF i < k THEN x[i] ELSE IF i = k THEN e ELSE x[i - 1]
           /\ InOrderOfTime(x) => InOrderOfTime(y)
    BY <1>1, Inserted
  <1> HIDE DEF y
  <1>3. \A i \in 1..(m + 1) : y[i] \in Quiet
    <2> TAKE i \in 1..(m + 1)
    <2>1. CASE i < k
      BY <1>1, <1>2, <2>1
    <2>2. CASE i = k
      BY <1>2, <2>2
    <2>3. CASE i > k
      <3>1. i - 1 \in 1..m
        BY <2>3
      <3> QED
        BY <1>1, <1>2, <2>3, <3>1
    <2> QED
      BY <2>1, <2>2, <2>3
  <1>4. y \in Seq(Quiet)
    BY <1>2, <1>3
  <1> QED
    BY <1>2, <1>4 DEF Lists, y

\* And inserting several, one after the other.
LEMMA QuietInsertedAll ==
    ASSUME NEW m \in Nat, NEW x \in Lists(m), NEW events \in Seq(Quiet)
    PROVE  InsertAll(x, events) \in Lists(m + Len(events))
  <1> DEFINE n == Len(events)
  <1> DEFINE V == [i \in 0..n |-> Lists(m + i)]
  <1>1. /\ n \in Nat /\ \A i \in 1..n : events[i] \in Quiet
        /\ x \in Seq(Event) /\ events \in Seq(Event)
    BY EventFacts DEF Lists
  <1>2. x \in V[0]
    BY <1>1
  <1>3. ASSUME NEW i \in 1..n, NEW y \in V[i - 1] PROVE Insertion(y, events[i]) \in V[i]
    <2>1. i - 1 \in 0..n /\ i \in 0..n /\ m + (i - 1) \in Nat /\ (m + (i - 1)) + 1 = m + i
      BY <1>1
    <2>2. y \in Lists(m + (i - 1))
      BY <1>3, <2>1
    <2>3. Insertion(y, events[i]) \in Lists((m + (i - 1)) + 1)
      BY <1>1, <2>1, <2>2, QuietInserted
    <2> QED
      BY <2>1, <2>3
  <1>4. InsertAll(x, events) \in V[n]
    <2> HIDE DEF V
    <2> QED
      BY <1>1, <1>2, <1>3, InsertAllWorks
  <1>5. n \in 0..n
    BY <1>1
  <1> QED
    BY <1>4, <1>5

\* The four events of a line.
LEMMA LineFacts ==
    ASSUME NEW c \in Contacts
    PROVE  LineEvents(c) \in Seq(Quiet) /\ Len(LineEvents(c)) = 4
  <1>1. /\ c.a \in Nodes /\ c.b \in Nodes /\ c.begin \in Nat /\ c.end \in Nat /\ c.a # c.b
    BY SimulatorAssumption
  <1>2. /\ Down(c.end, c.a, c.b) \in Quiet /\ Up(c.begin, c.a, c.b) \in Quiet
        /\ Down(c.end, c.b, c.a) \in Quiet /\ Up(c.begin, c.b, c.a) \in Quiet
    BY <1>1 DEF Down, Up, Quiet
  <1> QED
    BY <1>2 DEF LineEvents

\* A trace has contacts in the order in which they begin.
LEMMA TraceFacts ==
    ASSUME NEW t \in Traces
    PROVE  /\ t \in Seq(Contacts) /\ Len(t) \in Nat
           /\ \A i \in 1..Len(t) : t[i] \in Contacts /\ t[i].begin \in Nat
  <1>1. PICK n \in Lengths : t \in [1..n -> Contacts]
    BY DEF Traces
  <1>2. n \in Nat
    BY SimulatorAssumption
  <1>3. t \in Seq(Contacts)
    BY <1>1, <1>2
  <1>4. \A c \in Contacts : c.begin \in Nat
    BY SimulatorAssumption
  <1> QED
    BY <1>3, <1>4

\* h[i] is the list x after the events of i of the lines first..last of t
\* have been inserted.
LinesInserted(x, t, first, last, h) ==
    /\ h \in [0..(last + 1 - first) -> Seq(Event)]
    /\ h[0] = x
    /\ \A i \in 1..(last + 1 - first) :
          h[i] = InsertAll(h[i - 1], LineEvents(t[first + i - 1]))
    /\ Loaded(x, t, first, last) = h[last + 1 - first]

\* Loaded inserts the events of the lines first..last one line after the
\* other.
LEMMA LoadedSteps ==
    ASSUME NEW x \in Seq(Event), NEW t \in Traces,
           NEW first \in Nat \ {0}, NEW last \in 0..Len(t), first <= last + 1
    PROVE  \E h : LinesInserted(x, t, first, last, h)
  <1> DEFINE cs == SubSeq(t, first, last)
  <1>1. /\ t \in Seq(Contacts) /\ Len(t) \in Nat /\ last \in Nat
        /\ \A i \in 1..Len(t) : t[i] \in Contacts
    BY TraceFacts
  <1> DEFINE n == last + 1 - first
  <1>2. n \in Nat
    BY <1>1
  <1>3. /\ cs \in Seq(Contacts) /\ Len(cs) = n /\ DOMAIN cs = 1..n
        /\ \A i \in 1..n : cs[i] \in Contacts /\ cs[i] = t[first + i - 1]
    <2>1. \A i \in first..last : t[i] \in Contacts
      BY <1>1
    <2>2. /\ cs \in Seq(Contacts) /\ Len(cs) = IF first <= last THEN last - first + 1 ELSE 0
          /\ \A i \in 1..(last - first + 1) : cs[i] = t[first + i - 1]
      BY <1>1, <2>1, SubSeqProperties
    <2>3. Len(cs) = n /\ n = last - first + 1
      BY <1>1, <2>2
    <2> HIDE DEF cs, n
    <2>4. DOMAIN cs = 1..n /\ \A i \in 1..n : cs[i] \in Contacts
      BY <2>2, <2>3
    <2>5. \A i \in 1..n : cs[i] = t[first + i - 1]
      BY <2>2, <2>3
    <2> QED
      BY <2>2, <2>3, <2>4, <2>5
  <1> HIDE DEF cs, n
  <1> DEFINE Step(it) ==
        it = [s \in SUBSET (1..n) |->
                IF s = {} THEN x ELSE InsertAll(it[s \ {Max(s)}], LineEvents(cs[Max(s)]))]
  <1>4. Loaded(x, t, first, last) = (CHOOSE it : Step(it))[1..n]
    BY <1>3 DEF Loaded, FoldLeft, MapThenFoldSet, cs
  <1> DEFINE U == Seq(Event)
  <1>6. \A i \in 1..n : \A y \in U : InsertAll(y, LineEvents(cs[i])) \in U
    <2> TAKE i \in 1..n
    <2> TAKE y \in U
    <2>1. LineEvents(cs[i]) \in Seq(Event)
      BY <1>3, LineFacts, EventFacts
    <2> QED
      BY <2>1, InsertAllSteps
  <1>7. x \in U
    OBVIOUS
  <1> HIDE DEF U
  <1> DEFINE f == [q \in (1..n) \X U |-> InsertAll(q[2], LineEvents(cs[q[1]]))]
  <1>8. f \in [(1..n) \X U -> U]
    BY <1>6
  <1>9. \A i \in 1..n : \A y \in U : f[<<i, y>>] = InsertAll(y, LineEvents(cs[i]))
    OBVIOUS
  <1> HIDE DEF f
  <1>10. PICK g \in [SUBSET (1..n) -> U] : FoldsTo(f, x, n, g)
    BY <1>2, <1>7, <1>8, FoldType
  <1>11. Step(g)
    <2>1. ASSUME NEW s \in SUBSET (1..n), s # {}
          PROVE  f[<<Max(s), g[s \ {Max(s)}]>>]
                   = InsertAll(g[s \ {Max(s)}], LineEvents(cs[Max(s)]))
      <3>1. Max(s) \in s
        BY <1>2, <2>1, UptoFacts
      <3>2. Max(s) \in 1..n /\ s \ {Max(s)} \in SUBSET (1..n)
        BY <3>1
      <3> QED
        BY <1>9, <1>10, <3>2
    <2>2. g = [s \in SUBSET (1..n) |-> IF s = {} THEN x
                                       ELSE f[<<Max(s), g[s \ {Max(s)}]>>]]
      BY <1>10 DEF FoldsTo
    <2>3. \A s \in SUBSET (1..n) :
             (IF s = {} THEN x ELSE f[<<Max(s), g[s \ {Max(s)}]>>])
               = IF s = {} THEN x ELSE InsertAll(g[s \ {Max(s)}], LineEvents(cs[Max(s)]))
      BY <2>1
    <2> QED
      BY <2>2, <2>3
  <1> DEFINE it == CHOOSE it : Step(it)
  <1>12. Step(it)
    BY <1>11
  <1> HIDE DEF it
  <1>13. \A s \in SUBSET (1..n) :
           it[s] = IF s = {} THEN x ELSE InsertAll(it[s \ {Max(s)}], LineEvents(cs[Max(s)]))
    BY <1>12, Zenon
  <1>14. it[1..0] = x
    <2>1. 1..0 = {} /\ {} \in SUBSET (1..n)
      OBVIOUS
    <2> QED
      BY <1>13, <2>1, Zenon
  <1>15. \A i \in 1..n : it[1..i] = InsertAll(it[1..(i - 1)], LineEvents(cs[i]))
    <2> TAKE i \in 1..n
    <2>1. 1..i \in SUBSET (1..n) /\ i \in 1..i
      BY <1>2
    <2>2. Max(1..i) = i /\ (1..i) \ {Max(1..i)} = 1..(i - 1)
      BY <1>2, UptoFacts
    <2>3. 1..i # {}
      BY <2>1
    <2> QED
      BY <1>13, <2>1, <2>2, <2>3
  <1> DEFINE P == {i \in 0..n : it[1..i] \in U}
  <1>16. P = 0..n
    <2>1. 0 \in P
      BY <1>2, <1>7, <1>14
    <2>2. ASSUME NEW i \in 1..n, i - 1 \in P PROVE i \in P
      <3>1. it[1..(i - 1)] \in U /\ i \in 0..n
        BY <1>2, <2>2
      <3> QED
        BY <1>6, <1>15, <3>1
    <2>3. P \in SUBSET (0..n)
      OBVIOUS
    <2> HIDE DEF P
    <2> QED
      BY <1>2, <2>1, <2>2, <2>3, NumbersUpto
  <1> DEFINE h == [i \in 0..n |-> it[1..i]]
  <1>17. h \in [0..n -> U]
    BY <1>16
  <1>18. h[0] = x /\ h[n] = it[1..n]
    BY <1>2, <1>14
  <1>19. \A i \in 1..n : h[i] = InsertAll(h[i - 1], LineEvents(t[first + i - 1]))
    <2> TAKE i \in 1..n
    <2>1. i \in 0..n /\ i - 1 \in 0..n
      BY <1>2
    <2>2. h[i] = it[1..i] /\ h[i - 1] = it[1..(i - 1)] /\ cs[i] = t[first + i - 1]
      BY <1>3, <2>1
    <2> QED
      BY <1>15, <2>2
  <1>20. Loaded(x, t, first, last) = it[1..n]
    BY <1>4 DEF it
  <1> HIDE DEF h
  <1> QED
    BY <1>17, <1>18, <1>19, <1>20 DEF n, U, LinesInserted

\* Loading lines adds four events for each.
LEMMA LoadedWorks ==
    ASSUME NEW m \in Nat, NEW x \in Lists(m), NEW t \in Traces,
           NEW first \in Nat \ {0}, NEW last \in 0..Len(t), first <= last + 1
    PROVE  Loaded(x, t, first, last) \in Lists(m + 4 * (last + 1 - first))
  <1> DEFINE n == last + 1 - first
  <1>1. /\ n \in Nat /\ x \in Seq(Event)
        /\ \A i \in 1..n : t[first + i - 1] \in Contacts
    <2>1. last \in Nat /\ last <= Len(t) /\ \A i \in 1..Len(t) : t[i] \in Contacts
      BY TraceFacts
    <2>2. x \in Seq(Event)
      BY EventFacts DEF Lists
    <2>3. \A i \in 1..n : first + i - 1 \in 1..Len(t)
      BY <2>1, TraceFacts
    <2> QED
      BY <2>1, <2>2, <2>3
  <1>2. PICK h \in [0..n -> Seq(Event)] :
           /\ h[0] = x
           /\ \A i \in 1..n : h[i] = InsertAll(h[i - 1], LineEvents(t[first + i - 1]))
           /\ Loaded(x, t, first, last) = h[n]
    <2>1. x \in Seq(Event)
      BY <1>1
    <2>2. \E h : LinesInserted(x, t, first, last, h)
      BY <2>1, LoadedSteps
    <2> QED
      BY <2>2 DEF n, LinesInserted
  <1> HIDE DEF n
  <1> DEFINE P == {i \in 0..n : h[i] \in Lists(m + 4 * i)}
  <1>3. 0 \in P
    <2>1. m + 4 * 0 = m /\ 0 \in 0..n
      BY <1>1
    <2> QED
      BY <1>2, <2>1
  <1>4. ASSUME NEW i \in 1..n, i - 1 \in P PROVE i \in P
    <2>1. /\ i \in 0..n /\ m + 4 * (i - 1) \in Nat /\ (m + 4 * (i - 1)) + 4 = m + 4 * i
          /\ h[i - 1] \in Lists(m + 4 * (i - 1))
      BY <1>1, <1>4
    <2> DEFINE es == LineEvents(t[first + i - 1])
    <2>2. es \in Seq(Quiet) /\ Len(es) = 4
      BY <1>1, LineFacts
    <2> HIDE DEF es
    <2>3. InsertAll(h[i - 1], es) \in Lists((m + 4 * (i - 1)) + Len(es))
      BY <2>1, <2>2, QuietInsertedAll
    <2>4. h[i] \in Lists(m + 4 * i)
      BY <1>2, <2>1, <2>2, <2>3 DEF es
    <2> QED
      BY <2>1, <2>4
  <1>5. P = 0..n
    <2>1. P \in SUBSET (0..n)
      OBVIOUS
    <2> HIDE DEF P
    <2> QED
      BY <1>1, <1>3, <1>4, <2>1, NumbersUpto
  <1>6. n \in P
    <2> HIDE DEF P
    <2> QED
      BY <1>1, <1>5
  <1> QED
    BY <1>2, <1>6 DEF n

-----------------------------------------------------------------------------
(* Sending.                                                                *)

\* The list after a transmission begins with p transmissions over links of
\* map m; c says whether there may be a checkpoint behind them.
Shape(list, m, p, c) ==
    /\ list \in Seq(Event) /\ InOrderOfTime(list)
    /\ p \in 0..Len(list)
    /\ \A i \in 1..p : list[i] \in Sent(m)
    /\ \A i \in (p + 1)..Len(list) : list[i] \in Quiet \cup Points
    /\ \A i \in 1..Len(list) : list[i].id = "CheckPoint" => c = 1
    /\ \A i, j \in 1..Len(list) :
          list[i].id = "CheckPoint" /\ list[j].id = "CheckPoint" => i = j

\* Nothing in the list is earlier than t.
NotBefore(list, t) == \A i \in 1..Len(list) : t <= list[i].time

\* A packet sent at the current instant is the next one to be received.
LEMMA SentFirst ==
    ASSUME NEW list, NEW m, NEW p \in Nat, NEW c, NEW e \in Sent(m),
           Shape(list, m, p, c), NotBefore(list, e.time)
    PROVE  /\ Shape(Insertion(list, e), m, p + 1, c)
           /\ Len(Insertion(list, e)) = Len(list) + 1
           /\ NotBefore(Insertion(list, e), e.time)
           /\ \A i \in 1..Len(list) : Insertion(list, e)[i + 1] = list[i]
  <1>1. /\ list \in Seq(Event) /\ InOrderOfTime(list) /\ e \in Event /\ Len(list) \in Nat
        /\ e.time \in Nat /\ e.id # "CheckPoint" /\ p <= Len(list)
        /\ \A i \in 1..Len(list) : list[i].time \in Nat
    <2>1. list \in Seq(Event) /\ InOrderOfTime(list) /\ p \in 0..Len(list)
      BY DEF Shape
    <2>2. e \in Event /\ e.id = "Transmission"
      BY EventFacts
    <2> QED
      BY <2>1, <2>2, EventFacts
  <1> DEFINE y == Insertion(list, e)
  <1>2. /\ y \in Seq(Event) /\ Len(y) = Len(list) + 1 /\ y[1] = e
        /\ \A i \in 2..(Len(list) + 1) : y[i] = list[i - 1]
        /\ InOrderOfTime(y)
    BY <1>1, InsertedFirst DEF NotBefore
  <1> HIDE DEF y
  <1>3. \A i \in 2..(Len(list) + 1) : i - 1 \in 1..Len(list)
    BY <1>1
  <1>4. \A i \in 1..(Len(list) + 1) : i = 1 \/ i \in 2..(Len(list) + 1)
    BY <1>1
  <1>5. \A i \in 1..(p + 1) : y[i] \in Sent(m)
    <2> TAKE i \in 1..(p + 1)
    <2>1. CASE i = 1
      BY <1>2, <2>1
    <2>2. CASE i # 1
      <3>1. i \in 2..(Len(list) + 1) /\ i - 1 \in 1..p
        BY <1>1, <2>2
      <3> QED
        BY <1>2, <3>1 DEF Shape
    <2> QED
      BY <2>1, <2>2
  <1>6. \A i \in ((p + 1) + 1)..Len(y) : y[i] \in Quiet \cup Points
    <2> TAKE i \in ((p + 1) + 1)..Len(y)
    <2>1. i \in 2..(Len(list) + 1) /\ i - 1 \in (p + 1)..Len(list)
      BY <1>1, <1>2
    <2> QED
      BY <1>2, <2>1 DEF Shape
  <1>7. \A i \in 1..Len(y) : y[i].id = "CheckPoint" =>
           i \in 2..(Len(list) + 1) /\ list[i - 1].id = "CheckPoint"
    BY <1>1, <1>2, <1>4
  <1>8. \A i \in 1..Len(y) : y[i].id = "CheckPoint" => c = 1
    BY <1>3, <1>7 DEF Shape
  <1>9. ASSUME NEW i \in 1..Len(y), NEW j \in 1..Len(y),
               y[i].id = "CheckPoint", y[j].id = "CheckPoint"
        PROVE  i = j
    <2>1. i - 1 = j - 1
      BY <1>3, <1>7, <1>9 DEF Shape
    <2> QED
      BY <2>1
  <1>10. p + 1 \in 0..Len(y)
    BY <1>1, <1>2
  <1>11. NotBefore(y, e.time)
    <2> SUFFICES ASSUME NEW i \in 1..Len(y) PROVE e.time <= y[i].time
      BY DEF NotBefore
    <2>1. CASE i = 1
      BY <1>1, <1>2, <2>1
    <2>2. CASE i \in 2..(Len(list) + 1)
      BY <1>2, <1>3, <2>2 DEF NotBefore
    <2> QED
      BY <1>2, <1>4, <2>1, <2>2
  <1>12. \A i \in 1..Len(list) : y[i + 1] = list[i]
    <2> TAKE i \in 1..Len(list)
    <2>1. i + 1 \in 2..(Len(list) + 1) /\ (i + 1) - 1 = i
      BY <1>1
    <2> QED
      BY <1>2, <2>1
  <1> QED
    BY <1>2, <1>5, <1>6, <1>8, <1>9, <1>10, <1>11, <1>12 DEF Shape, y

\* The neighbours of a node have an order.
LEMMA InOrderType ==
    ASSUME NEW S \in SUBSET Nodes
    PROVE  /\ Cardinality(S) \in Nat
           /\ InOrder(S) \in [1..Cardinality(S) -> S]
  <1> DEFINE Ascends(f) == \A i, j \in DOMAIN f : i < j => f[i] < f[j]
  <1> DEFINE P == {k \in Nat : \A T \in SUBSET S : Cardinality(T) = k =>
                      \E f \in [1..k -> T] : Ascends(f)}
  <1>0. IsFiniteSet(Nodes) /\ Nodes \subseteq Nat
    BY SimulatorAssumption
  <1>1. \A T \in SUBSET S : IsFiniteSet(T) /\ Cardinality(T) \in Nat /\ T \in SUBSET Nat
    BY <1>0, FS_Subset, FS_CardinalityType
  <1>2. 0 \in P
    <2>1. ASSUME NEW T \in SUBSET S, Cardinality(T) = 0
          PROVE  \E f \in [1..0 -> T] : Ascends(f)
      <3>1. [i \in 1..0 |-> 0] \in [1..0 -> T]
        OBVIOUS
      <3>2. Ascends([i \in 1..0 |-> 0])
        OBVIOUS
      <3> QED
        BY <3>1, <3>2
    <2> QED
      BY <2>1
  <1>3. ASSUME NEW k \in P PROVE k + 1 \in P
    <2>1. ASSUME NEW T \in SUBSET S, Cardinality(T) = k + 1
          PROVE  \E f \in [1..(k + 1) -> T] : Ascends(f)
      <3>0. k \in Nat
        BY <1>3
      <3>1. T # {}
        BY <2>1, <3>0, FS_EmptySet
      <3>2. Max(T) \in T /\ \A y \in T : Max(T) >= y
        BY <1>1, <3>1, LargestNumber
      <3>3. Cardinality(T \ {Max(T)}) = k /\ T \ {Max(T)} \in SUBSET S
        BY <1>1, <2>1, <3>0, <3>2, FS_RemoveElement
      <3>4. PICK g \in [1..k -> T \ {Max(T)}] : Ascends(g)
        BY <1>3, <3>3
      <3> DEFINE f == [i \in 1..(k + 1) |-> IF i = k + 1 THEN Max(T) ELSE g[i]]
      <3>5. \A i \in 1..(k + 1) : i # k + 1 => i \in 1..k
        BY <3>0
      <3>6. f \in [1..(k + 1) -> T]
        BY <3>2, <3>4, <3>5
      <3>7. ASSUME NEW i \in 1..(k + 1), NEW j \in 1..(k + 1), i < j PROVE f[i] < f[j]
        <4>1. i \in 1..k /\ f[i] = g[i] /\ g[i] \in T \ {Max(T)}
          BY <3>0, <3>4, <3>7
        <4>2. T \subseteq Nat
          BY <1>1
        <4>3. CASE j = k + 1
          <5>1. f[j] = Max(T)
            BY <4>3
          <5>2. g[i] \in Nat /\ Max(T) \in Nat /\ g[i] # Max(T) /\ Max(T) >= g[i]
            BY <3>2, <4>1, <4>2
          <5> QED
            BY <4>1, <5>1, <5>2
        <4>4. CASE j # k + 1
          <5>1. j \in 1..k /\ f[j] = g[j]
            BY <3>5, <4>4
          <5>2. DOMAIN g = 1..k
            BY <3>4
          <5> QED
            BY <3>4, <3>7, <4>1, <5>1, <5>2
        <4> QED
          BY <4>3, <4>4
      <3>8. DOMAIN f = 1..(k + 1)
        OBVIOUS
      <3> HIDE DEF f
      <3> QED
        BY <3>6, <3>7, <3>8
    <2> QED
      BY <1>3, <2>1
  <1>4. P = Nat
    <2>1. P \in SUBSET Nat
      OBVIOUS
    <2> HIDE DEF P
    <2> QED
      BY <1>2, <1>3, <2>1, NumbersFromZero
  <1>5. \E f \in [1..Cardinality(S) -> S] : Ascends(f)
    BY <1>1, <1>4
  <1> QED
    BY <1>1, <1>5 DEF InOrder

\* The list y has what list has, behind k other events.
Behind(list, k, y) ==
    /\ Len(y) = Len(list) + k
    /\ \A i \in 1..Len(list) : y[k + i] = list[i]

\* What may be in the list after sending, compared with before.
SentFrom(list, m, p, c, t, y) ==
    \E k \in Nat : /\ Shape(y, m, p + k, c)
                   /\ Behind(list, k, y)
                   /\ NotBefore(y, t)

\* A list behind k events has k more; the order of coming behind composes.
LEMMA BehindFacts ==
    /\ \A list : Len(list) \in Nat => Behind(list, 0, list)
    /\ \A list, y, z : \A k \in Nat :
          Len(list) \in Nat /\ Behind(list, k, y) /\ Behind(y, 1, z)
             => Behind(list, k + 1, z)
  <1>1. ASSUME NEW list, Len(list) \in Nat PROVE Behind(list, 0, list)
    <2>1. \A i \in 1..Len(list) : 0 + i = i
      BY <1>1
    <2> QED
      BY <1>1, <2>1 DEF Behind
  <1>2. ASSUME NEW list, NEW y, NEW z, NEW k \in Nat, Len(list) \in Nat,
               Behind(list, k, y), Behind(y, 1, z)
        PROVE  Behind(list, k + 1, z)
    <2>1. Len(y) = Len(list) + k /\ Len(z) = Len(list) + (k + 1)
      BY <1>2 DEF Behind
    <2>2. ASSUME NEW i \in 1..Len(list) PROVE z[(k + 1) + i] = list[i]
      <3>1. k + i \in 1..Len(y) /\ 1 + (k + i) = (k + 1) + i
        BY <1>2, <2>1
      <3>2. z[1 + (k + i)] = y[k + i] /\ y[k + i] = list[i]
        BY <1>2, <3>1 DEF Behind
      <3> QED
        BY <3>1, <3>2
    <2> QED
      BY <2>1, <2>2 DEF Behind
  <1> QED
    BY <1>1, <1>2

\* BroadcastPkt inserts one transmission for every neighbour.
LEMMA BroadcastWorks ==
    ASSUME NEW list, NEW m \in [Nodes -> SUBSET Nodes], NEW p \in Nat, NEW c, NEW t \in Nat,
           NEW n \in Nodes, Shape(list, m, p, c), NotBefore(list, t)
    PROVE  SentFrom(list, m, p, c, t, BroadcastPkt(list, m, n, t))
  <1> DEFINE h == Cardinality(m[n])
  <1> DEFINE events == [i \in 1..h |-> Transmission(t, n, InOrder(m[n])[i])]
  <1>1. h \in Nat /\ InOrder(m[n]) \in [1..h -> m[n]]
    BY InOrderType
  <1> HIDE DEF h
  <1>2. \A i \in 1..h : events[i] \in Sent(m) /\ events[i].time = t
    <2> TAKE i \in 1..h
    <2>1. InOrder(m[n])[i] \in m[n] /\ m[n] \subseteq Nodes
      BY <1>1
    <2>2. events[i] = Transmission(t, n, InOrder(m[n])[i])
      OBVIOUS
    <2> QED
      BY <2>1, <2>2 DEF Transmission, Sent
  <1>3. events \in Seq(Event) /\ Len(events) = h
    <2>1. \A i \in 1..h : events[i] \in Event
      BY <1>2, EventFacts
    <2> QED
      BY <1>1, <2>1
  <1> HIDE DEF events
  <1> DEFINE V == [i \in 0..h |-> {y \in Seq(Event) : SentFrom(list, m, p, c, t, y)}]
  <1>4. list \in Seq(Event) /\ Len(list) \in Nat /\ list \in V[0]
    <2>1. list \in Seq(Event) /\ Len(list) \in Nat
      BY DEF Shape
    <2>2. SentFrom(list, m, p, c, t, list)
      <3>1. p + 0 = p /\ Behind(list, 0, list)
        BY <2>1, BehindFacts
      <3> QED
        BY <3>1 DEF SentFrom
    <2>3. 0 \in 0..h
      BY <1>1
    <2> QED
      BY <2>1, <2>2, <2>3
  <1>5. ASSUME NEW i \in 1..h, NEW y \in V[i - 1] PROVE Insertion(y, events[i]) \in V[i]
    <2>1. i - 1 \in 0..h /\ i \in 0..h
      BY <1>1
    <2>2. y \in Seq(Event) /\ SentFrom(list, m, p, c, t, y)
      BY <2>1
    <2>3. PICK k \in Nat : Shape(y, m, p + k, c) /\ Behind(list, k, y) /\ NotBefore(y, t)
      BY <2>2 DEF SentFrom
    <2> DEFINE z == Insertion(y, events[i])
    <2>4. Shape(z, m, (p + k) + 1, c) /\ Behind(y, 1, z) /\ NotBefore(z, t)
      <3>1. events[i] \in Sent(m) /\ events[i].time = t /\ p + k \in Nat
        BY <1>2
      <3>2. /\ Shape(z, m, (p + k) + 1, c) /\ Len(z) = Len(y) + 1 /\ NotBefore(z, t)
            /\ \A j \in 1..Len(y) : z[j + 1] = y[j]
        BY <2>3, <3>1, SentFirst
      <3> HIDE DEF z
      <3>3. \A j \in 1..Len(y) : z[1 + j] = y[j]
        <4>1. \A j \in 1..Len(y) : 1 + j = j + 1
          BY <2>2
        <4> QED
          BY <3>2, <4>1
      <3> QED
        BY <3>2, <3>3 DEF Behind
    <2> HIDE DEF z
    <2>5. (p + k) + 1 = p + (k + 1) /\ Behind(list, k + 1, z) /\ k + 1 \in Nat
      BY <1>4, <2>3, <2>4, BehindFacts
    <2>6. SentFrom(list, m, p, c, t, z)
      BY <2>4, <2>5 DEF SentFrom
    <2>7. z \in Seq(Event)
      BY <2>4 DEF Shape
    <2> QED
      BY <2>1, <2>6, <2>7 DEF z
  <1>6. InsertAll(list, events) \in V[h]
    <2> HIDE DEF V
    <2> QED
      BY <1>3, <1>4, <1>5, InsertAllWorks
  <1>7. h \in 0..h
    BY <1>1
  <1>8. BroadcastPkt(list, m, n, t) = InsertAll(list, events)
    BY DEF BroadcastPkt, events, h
  <1> QED
    BY <1>6, <1>7, <1>8

-----------------------------------------------------------------------------
(* The inductive invariant.                                                *)

\* The lines whose events have been inserted.
LinesRead(c) == IF pc = "load" THEN 0 ELSE IF c = 1 THEN StopLine(CurrentReadBlock) ELSE Lines

\* p transmissions are to be received before anything else happens; there is
\* a checkpoint only before the last block.  What has been handled, what is
\* in the list and what is still to be read never exceeds what there is.
Progress(p, c) ==
    /\ Shape(SimList, N, p, c)
    /\ pc = "load" => p = 0 /\ c = 0 /\ CurrentReadBlock = 0
    /\ c = 1 => /\ Split \notin {NOTSET, 1} /\ CurrentReadBlock \in 1..(Split - 1)
                /\ StopLine(CurrentReadBlock) < Lines
    /\ Len(handled) + (Len(SimList) - p - c) + 4 * (Lines - LinesRead(c))
         <= 4 * Lines + Len(traffic)

\* The values of the variables but for the list.
Values ==
    /\ trace \in Traces /\ traffic \in Traffics /\ Split \in Splits
    /\ pc \in {"load", "run", "abort"}
    /\ CurrentTime \in Nat
    /\ N \in [Nodes -> SUBSET Nodes]
    /\ CurrentReadBlock \in 0..(IF Split = NOTSET THEN 0 ELSE Split)
    /\ sends \in 0..MaxSends
    /\ handled \in Seq(Event)

\* Both ends know of a link: whoever hears a node can answer it.
Symmetric(m) == \A a, b \in Nodes : b \in m[a] => a \in m[b]

\* RunToCompletion is preserved because what is sent gets in front of all
\* that is pending, which needs the order of the list; what is loaded
\* could get in front of it, but for a checkpoint being handled only when
\* nothing is in transmission.
IInv == Values /\ Symmetric(N) /\ \E p \in Nat : \E c \in {0, 1} : Progress(p, c)

\* A list of contacts and packets of the application, and one with a
\* checkpoint inserted, have the shape of a list between two exchanges.
LEMMA QuietShape ==
    /\ \A k \in Nat : \A x \in Lists(k) : \A m : Shape(x, m, 0, 0) /\ Len(x) = k
    /\ \A x : \A m : Shape(x, m, 0, 0) => x \in Lists(Len(x))
  <1>1. ASSUME NEW k \in Nat, NEW x \in Lists(k), NEW m
        PROVE  Shape(x, m, 0, 0) /\ Len(x) = k
    <2>1. x \in Seq(Quiet) /\ InOrderOfTime(x) /\ Len(x) = k
      BY DEF Lists
    <2>2. \A i \in 1..Len(x) : x[i] \in Quiet /\ x[i].id # "CheckPoint" /\ x[i] \in Event
      <3> TAKE i \in 1..Len(x)
      <3>1. x[i] \in Quiet
        BY <2>1
      <3> QED
        BY <3>1, EventFacts
    <2>3. x \in Seq(Event)
      BY <2>1, <2>2
    <2> QED
      BY <2>1, <2>2, <2>3 DEF Shape
  <1>2. ASSUME NEW x, NEW m, Shape(x, m, 0, 0) PROVE x \in Lists(Len(x))
    <2>1. x \in Seq(Event) /\ InOrderOfTime(x)
      BY <1>2 DEF Shape
    <2>2. \A i \in 1..Len(x) : x[i] \in Quiet
      <3> TAKE i \in 1..Len(x)
      <3>1. x[i] \in Quiet \cup Points /\ x[i].id # "CheckPoint"
        BY <1>2 DEF Shape
      <3> QED
        BY <3>1 DEF Points
    <2> QED
      BY <2>1, <2>2 DEF Lists
  <1> QED
    BY <1>1, <1>2

\* The list without its head: if that was in transmission, there is one
\* transmission less, and otherwise there are none, over whatever links.
LEMMA Popped ==
    ASSUME NEW list, NEW m, NEW p \in Nat, NEW c, Shape(list, m, p, c), list # <<>>
    PROVE  /\ Len(list) \in Nat \ {0} /\ Len(Tail(list)) = Len(list) - 1
           /\ Head(list).time \in Nat /\ Head(list) \in Event
           /\ NotBefore(Tail(list), Head(list).time)
           /\ p > 0 => Head(list) \in Sent(m) /\ Shape(Tail(list), m, p - 1, c)
           /\ p = 0 => /\ Head(list) \in Quiet \cup Points
                       /\ Shape(Tail(list), m, 0, c)
                       /\ Head(list).id = "CheckPoint" => c = 1 /\ Shape(Tail(list), m, 0, 0)
  <1> DEFINE y == Tail(list)
  <1>0. list \in Seq(Event) /\ InOrderOfTime(list) /\ p \in 0..Len(list)
    BY DEF Shape
  <1>1. /\ y \in Seq(Event) /\ Len(list) \in Nat \ {0} /\ Len(y) = Len(list) - 1
        /\ \A i \in 1..(Len(list) - 1) : y[i] = list[i + 1]
        /\ Head(list) = list[1] /\ Head(list) \in Event
    BY <1>0, TailFacts
  <1> HIDE DEF y
  <1>2. \A i \in 1..Len(y) : y[i] = list[i + 1] /\ i + 1 \in 1..Len(list)
    BY <1>1
  <1>3. InOrderOfTime(y)
    <2> SUFFICES ASSUME NEW i \in 1..Len(y), NEW j \in 1..Len(y), i <= j
                 PROVE  y[i].time <= y[j].time
      BY DEF InOrderOfTime
    <2>1. i + 1 <= j + 1
      OBVIOUS
    <2> QED
      BY <1>0, <1>2, <2>1 DEF InOrderOfTime
  <1>4. NotBefore(y, Head(list).time)
    <2> SUFFICES ASSUME NEW i \in 1..Len(y) PROVE Head(list).time <= y[i].time
      BY DEF NotBefore
    <2>1. 1 \in 1..Len(list) /\ 1 <= i + 1
      BY <1>1
    <2> QED
      BY <1>0, <1>1, <1>2, <2>1 DEF InOrderOfTime
  <1>5. \A i \in 1..Len(y) : y[i].id = "CheckPoint" => c = 1
    BY <1>2 DEF Shape
  <1>6. ASSUME NEW i \in 1..Len(y), NEW j \in 1..Len(y),
               y[i].id = "CheckPoint", y[j].id = "CheckPoint"
        PROVE  i = j
    <2>1. i + 1 = j + 1
      BY <1>2, <1>6 DEF Shape
    <2> QED
      BY <2>1
  <1>7. CASE p > 0
    <2>1. 1 \in 1..p
      BY <1>7
    <2>2. Head(list) \in Sent(m)
      BY <1>1, <2>1 DEF Shape
    <2>3. \A i \in 1..(p - 1) : y[i] \in Sent(m)
      <3> TAKE i \in 1..(p - 1)
      <3>1. i \in 1..Len(y) /\ i + 1 \in 1..p
        BY <1>0, <1>1
      <3> QED
        BY <1>2, <3>1 DEF Shape
    <2>4. \A i \in ((p - 1) + 1)..Len(y) : y[i] \in Quiet \cup Points
      <3> TAKE i \in ((p - 1) + 1)..Len(y)
      <3>1. i \in 1..Len(y) /\ i + 1 \in (p + 1)..Len(list)
        BY <1>0, <1>1, <1>7
      <3> QED
        BY <1>2, <3>1 DEF Shape
    <2>5. p - 1 \in 0..Len(y)
      BY <1>0, <1>1, <1>7
    <2>6. Shape(y, m, p - 1, c)
      BY <1>1, <1>3, <1>5, <1>6, <2>3, <2>4, <2>5 DEF Shape
    <2> QED
      BY <1>1, <1>4, <1>7, <2>2, <2>6, EventFacts DEF y
  <1>8. CASE p = 0
    <2>1. 1 \in (p + 1)..Len(list) /\ 1 \in 1..Len(list)
      BY <1>1, <1>8
    <2>2. Head(list) \in Quiet \cup Points
      BY <1>1, <2>1 DEF Shape
    <2>3. \A i \in (0 + 1)..Len(y) : y[i] \in Quiet \cup Points
      <3> TAKE i \in (0 + 1)..Len(y)
      <3>1. i \in 1..Len(y) /\ i + 1 \in (p + 1)..Len(list)
        BY <1>1, <1>8
      <3> QED
        BY <1>2, <3>1 DEF Shape
    <2>4. 0 \in 0..Len(y)
      BY <1>1
    <2>5. Shape(y, m, 0, c)
      BY <1>1, <1>3, <1>5, <1>6, <2>3, <2>4 DEF Shape
    <2>6. ASSUME Head(list).id = "CheckPoint"
          PROVE  c = 1 /\ Shape(y, m, 0, 0)
      <3>1. list[1].id = "CheckPoint"
        BY <1>1, <2>6
      <3>2. c = 1
        BY <2>1, <3>1 DEF Shape
      <3>3. ASSUME NEW i \in 1..Len(y), y[i].id = "CheckPoint" PROVE FALSE
        <4>1. i + 1 = 1
          BY <1>2, <2>1, <3>1, <3>3 DEF Shape
        <4> QED
          BY <4>1
      <3>4. Shape(y, m, 0, 0)
        BY <1>1, <1>3, <1>6, <2>3, <2>4, <3>3 DEF Shape
      <3> QED
        BY <3>2, <3>4
    <2> QED
      BY <1>1, <1>4, <1>8, <2>2, <2>5, <2>6, EventFacts DEF y
  <1> QED
    BY <1>7, <1>8

\* Without transmissions the links do not matter.
LEMMA AnyLinks ==
    ASSUME NEW list, NEW m, NEW m2, NEW c, Shape(list, m, 0, c)
    PROVE  Shape(list, m2, 0, c)
  BY DEF Shape

\* What comes behind k events of a list that is behind j is behind both.
LEMMA BehindBoth ==
    ASSUME NEW list, NEW y, NEW z, NEW j \in Nat, NEW k \in Nat, Len(list) \in Nat,
           Behind(list, j, y), Behind(y, k, z)
    PROVE  Behind(list, j + k, z)
  <1>1. Len(y) = Len(list) + j /\ Len(z) = Len(list) + (j + k)
    BY DEF Behind
  <1>2. ASSUME NEW i \in 1..Len(list) PROVE z[(j + k) + i] = list[i]
    <2>1. j + i \in 1..Len(y) /\ k + (j + i) = (j + k) + i
      BY <1>1
    <2>2. z[k + (j + i)] = y[j + i] /\ y[j + i] = list[i]
      BY <2>1 DEF Behind
    <2> QED
      BY <2>1, <2>2
  <1> QED
    BY <1>1, <1>2 DEF Behind

\* One more packet is sent.
LEMMA AnswerWorks ==
    ASSUME NEW m \in [Nodes -> SUBSET Nodes], NEW q \in Nat, NEW c, NEW n \in Nodes, NEW peer,
           Top.time \in Nat, peer # APPLICATION => peer \in m[n], NEW kind \in Kinds(peer),
           NEW list, Len(list) \in Nat, NEW y, SentFrom(list, m, q, c, Top.time, y)
    PROVE  SentFrom(list, m, q, c, Top.time, Answer(y, n, peer, m, kind))
  <1>1. PICK k \in Nat : Shape(y, m, q + k, c) /\ Behind(list, k, y) /\ NotBefore(y, Top.time)
    BY DEF SentFrom
  <1>2. PICK p \in Nat : p = q + k
    OBVIOUS
  <1>3. PICK z : z = Answer(y, n, peer, m, kind)
    OBVIOUS
  <1>4. Shape(y, m, p, c) /\ Len(y) \in Nat
    BY <1>1, <1>2 DEF Shape
  <1>5. SentFrom(y, m, p, c, Top.time, z)
    <2>1. CASE kind = "unicast"
      <3> DEFINE e == Transmission(Top.time, n, peer)
      <3>1. peer # APPLICATION
        BY <2>1 DEF Kinds
      <3>2. e \in Sent(m) /\ e.time = Top.time
        BY <3>1 DEF Transmission, Sent
      <3>3. z = Insertion(y, e)
        BY <1>3, <2>1 DEF Answer, SendPkt
      <3> HIDE DEF e
      <3>4. /\ Shape(z, m, p + 1, c) /\ Len(z) = Len(y) + 1 /\ NotBefore(z, Top.time)
            /\ \A j \in 1..Len(y) : z[j + 1] = y[j]
        BY <1>1, <1>4, <3>2, <3>3, SentFirst
      <3>5. \A j \in 1..Len(y) : 1 + j = j + 1
        BY <1>4
      <3>6. Behind(y, 1, z)
        BY <3>4, <3>5 DEF Behind
      <3> QED
        BY <3>4, <3>6 DEF SentFrom
    <2>2. CASE kind # "unicast"
      <3>1. z = BroadcastPkt(y, m, n, Top.time)
        BY <1>3, <2>2 DEF Answer
      <3> QED
        BY <1>1, <1>4, <3>1, BroadcastWorks
    <2> QED
      BY <2>1, <2>2
  <1>6. PICK j \in Nat : Shape(z, m, p + j, c) /\ Behind(y, j, z) /\ NotBefore(z, Top.time)
    BY <1>5 DEF SentFrom
  <1>7. p + j = q + (k + j) /\ k + j \in Nat
    BY <1>2
  <1>8. Behind(list, k + j, z)
    BY <1>1, <1>6, BehindBoth
  <1> QED
    BY <1>3, <1>6, <1>7, <1>8 DEF SentFrom

\* Whatever a handler does, the list is that without its head, with what has
\* been sent in front.
LEMMA ReactWorks ==
    ASSUME NEW m \in [Nodes -> SUBSET Nodes], NEW q \in Nat, NEW c, NEW n \in Nodes, NEW peer,
           NEW used \in 0..MaxSends, Shape(Tail(SimList), m, q, c), Top.time \in Nat,
           NotBefore(Tail(SimList), Top.time),
           peer # APPLICATION => peer \in m[n],
           React(n, peer, m, used)
    PROVE  SentFrom(Tail(SimList), m, q, c, Top.time, SimList') /\ sends' \in 0..MaxSends
  <1> DEFINE list == Tail(SimList)
  <1>1. MaxSends \in Nat /\ Len(list) \in Nat
    BY SimulatorAssumption DEF Shape
  <1>2. PICK k \in 0..(MaxSends - used) : \E kinds \in [1..k -> Kinds(peer)] :
           SimList' = Answers(list, n, peer, m, kinds) /\ sends' = used + k
    BY DEF React
  <1>3. k \in Nat /\ sends' \in 0..MaxSends
    BY <1>1, <1>2
  <1>4. PICK kinds \in [1..k -> Kinds(peer)] : SimList' = Answers(list, n, peer, m, kinds)
    BY <1>2
  <1> DEFINE U == {y \in Seq(Event) : SentFrom(list, m, q, c, Top.time, y)}
  <1>5. list \in U
    <2>1. q + 0 = q /\ Behind(list, 0, list) /\ list \in Seq(Event)
      BY <1>1, BehindFacts DEF Shape
    <2> QED
      BY <2>1 DEF SentFrom
  <1>6. \A i \in 1..k : \A y \in U : Answer(y, n, peer, m, kinds[i]) \in U
    <2> TAKE i \in 1..k
    <2> TAKE y \in U
    <2>1. kinds[i] \in Kinds(peer) /\ SentFrom(list, m, q, c, Top.time, y)
      BY <1>4
    <2>2. PICK z : z = Answer(y, n, peer, m, kinds[i])
      OBVIOUS
    <2>3. SentFrom(list, m, q, c, Top.time, z)
      BY <1>1, <2>1, <2>2, AnswerWorks
    <2>4. z \in Seq(Event)
      BY <2>3 DEF SentFrom, Shape
    <2> QED
      BY <2>2, <2>3, <2>4
  <1>7. SimList' \in U
    <2> DEFINE Step(it) ==
          it = [s \in SUBSET (1..k) |->
                  IF s = {} THEN list
                  ELSE Answer(it[s \ {Max(s)}], n, peer, m, kinds[Max(s)])]
    <2>1. SimList' = (CHOOSE it : Step(it))[1..k]
      <3>1. DOMAIN kinds = 1..k /\ Len(kinds) = k
        BY <1>3, <1>4
      <3> QED
        BY <1>4, <3>1 DEF Answers, FoldLeft, MapThenFoldSet
    <2> HIDE DEF U, list
    <2> DEFINE f == [x \in (1..k) \X U |-> Answer(x[2], n, peer, m, kinds[x[1]])]
    <2>2. f \in [(1..k) \X U -> U]
      BY <1>6
    <2>3. \A i \in 1..k : \A y \in U : f[<<i, y>>] = Answer(y, n, peer, m, kinds[i])
      OBVIOUS
    <2> HIDE DEF f
    <2>4. PICK g \in [SUBSET (1..k) -> U] : FoldsTo(f, list, k, g)
      BY <1>3, <1>5, <2>2, FoldType
    <2>5. Step(g)
      <3>1. ASSUME NEW s \in SUBSET (1..k), s # {}
            PROVE  f[<<Max(s), g[s \ {Max(s)}]>>]
                     = Answer(g[s \ {Max(s)}], n, peer, m, kinds[Max(s)])
        <4>1. Max(s) \in s
          BY <1>3, <3>1, UptoFacts
        <4>2. Max(s) \in 1..k /\ s \ {Max(s)} \in SUBSET (1..k)
          BY <4>1
        <4> QED
          BY <2>3, <2>4, <4>2
      <3>2. g = [s \in SUBSET (1..k) |-> IF s = {} THEN list
                                         ELSE f[<<Max(s), g[s \ {Max(s)}]>>]]
        BY <2>4 DEF FoldsTo
      <3>3. \A s \in SUBSET (1..k) :
               (IF s = {} THEN list ELSE f[<<Max(s), g[s \ {Max(s)}]>>])
                 = IF s = {} THEN list ELSE Answer(g[s \ {Max(s)}], n, peer, m, kinds[Max(s)])
        BY <3>1
      <3> QED
        BY <3>2, <3>3
    <2> DEFINE it == CHOOSE it : Step(it)
    <2>6. Step(it)
      BY <2>5
    <2> HIDE DEF it
    <2>7. \A s \in SUBSET (1..k) :
             it[s] = IF s = {} THEN list
                     ELSE Answer(it[s \ {Max(s)}], n, peer, m, kinds[Max(s)])
      BY <2>6, Zenon
    <2> DEFINE P == {i \in 0..k : it[1..i] \in U}
    <2>8. P = 0..k
      <3>1. 0 \in P
        <4>1. 1..0 = {} /\ {} \in SUBSET (1..k) /\ 0 \in 0..k
          BY <1>3
        <4>2. it[1..0] = list
          BY <2>7, <4>1, Zenon
        <4> QED
          BY <1>5, <4>1, <4>2
      <3>2. ASSUME NEW i \in 1..k, i - 1 \in P PROVE i \in P
        <4>1. 1..i \in SUBSET (1..k) /\ 1..i # {} /\ i \in 0..k
          BY <1>3
        <4>2. Max(1..i) = i /\ (1..i) \ {Max(1..i)} = 1..(i - 1)
          BY <1>3, UptoFacts
        <4>3. it[1..i] = Answer(it[1..(i - 1)], n, peer, m, kinds[i])
          BY <2>7, <4>1, <4>2
        <4>4. it[1..(i - 1)] \in U
          BY <3>2
        <4> QED
          BY <1>6, <4>1, <4>3, <4>4
      <3>3. P \in SUBSET (0..k)
        OBVIOUS
      <3> HIDE DEF P
      <3> QED
        BY <1>3, <3>1, <3>2, <3>3, NumbersUpto
    <2>9. it[1..k] \in U
      <3>1. k \in 0..k
        BY <1>3
      <3> QED
        BY <2>8, <3>1
    <2> QED
      BY <2>1, <2>9 DEF it
  <1> QED
    BY <1>3, <1>7

-----------------------------------------------------------------------------
(* Loading.                                                                *)

\* The blocks of a trace lie one behind the other.
LEMMA BlockFacts ==
    ASSUME Lines \in Nat, Split \in Nat \ {0}, NEW b \in 0..(Split - 1)
    PROVE  /\ ReadBlockSize \in Nat /\ b * ReadBlockSize \in Nat
           /\ b * ReadBlockSize <= (b + 1) * ReadBlockSize
           /\ (b + 1) * ReadBlockSize <= Lines
           /\ StartLine(b + 1) = b * ReadBlockSize + 1
           /\ StopLine(b + 1) = IF b + 1 = Split THEN Lines ELSE (b + 1) * ReadBlockSize
           /\ StopLine(b) = b * ReadBlockSize
           /\ b + 1 < Split /\ StartLine(b + 1) < Lines => (b + 1) * ReadBlockSize < Lines
  <1> DEFINE r == ReadBlockSize
  <1>1. r \in Nat /\ Split * r <= Lines
    <2> DEFINE d == Lines % Split
    <2>1. d \in 0..(Split - 1) /\ Lines = Split * (Lines \div Split) + d
      OBVIOUS
    <2>2. Lines \div Split \in Nat
      OBVIOUS
    <2> DEFINE w == Lines \div Split
    <2>3. Lines - d = Split * w /\ w \in Nat /\ Split * w \in Nat
      BY <2>1, <2>2
    <2>4. r = (Lines - d) \div Split
      BY DEF ReadBlockSize
    <2> HIDE DEF d, w, r
    <2>5. (Split * w) \div Split = w
      BY <2>3
    <2>6. r = w
      BY <2>3, <2>4, <2>5
    <2> QED
      BY <2>1, <2>3, <2>6
  <1> HIDE DEF r
  <1>2. b \in Nat /\ Split \in Nat /\ b + 1 <= Split
    OBVIOUS
  <1>3. b * r \in Nat /\ (b + 1) * r = b * r + r
    BY <1>1, <1>2
  <1>4. (b + 1) * r <= Split * r
    BY <1>1, <1>2
  <1>5. Split * r \in Nat
    BY <1>1
  <1>6. (b + 1) * r <= Lines
    BY <1>1, <1>3, <1>4, <1>5
  <1>7. StartLine(b + 1) = b * r + 1
    BY <1>2 DEF StartLine, r
  <1>8. StopLine(b + 1) = (IF b + 1 = Split THEN Lines ELSE (b + 1) * r) /\ StopLine(b) = b * r
    BY <1>2 DEF StopLine, r
  <1>9. ASSUME b + 1 < Split, StartLine(b + 1) < Lines PROVE (b + 1) * r < Lines
    <2>1. CASE r = 0
      BY <1>1, <1>3, <1>7, <1>9, <2>1
    <2>2. CASE r > 0
      <3>1. (b + 1) * r < (b + 2) * r /\ (b + 2) * r <= Split * r
        BY <1>1, <1>2, <1>9, <2>2
      <3> QED
        BY <1>1, <1>3, <1>5, <3>1
    <2> QED
      BY <1>1, <2>1, <2>2
  <1> QED
    BY <1>1, <1>3, <1>6, <1>7, <1>8, <1>9 DEF r

\* Loading the next block, when nothing is in transmission.
LEMMA PartWorks ==
    ASSUME trace \in Traces, Split \in Nat \ {0, 1}, CurrentReadBlock \in 0..(Split - 1),
           NEW k \in Nat, NEW list \in Lists(k), NEW bound \in Nat, handled \in Seq(Event),
           Len(handled) + k + 4 * (Lines - CurrentReadBlock * ReadBlockSize) <= bound,
           LoadPartialContacts(list), UNCHANGED <<trace, Split, handled>>
    PROVE  /\ CurrentReadBlock' \in 1..Split /\ pc' \in {"run", "abort"}
           /\ \E c \in {0, 1} :
                 /\ \A m : Shape(SimList', m, 0, c)
                 /\ c = 1 => CurrentReadBlock' \in 1..(Split - 1)
                             /\ StopLine(CurrentReadBlock') < Lines
                 /\ Len(handled) + (Len(SimList') - 0 - c)
                       + 4 * (Lines - (IF c = 1 THEN StopLine(CurrentReadBlock') ELSE Lines))
                       <= bound
  <1> DEFINE b == CurrentReadBlock
  <1> DEFINE r == ReadBlockSize
  <1>1. Lines \in Nat /\ \A i \in 1..Lines : trace[i].begin \in Nat
    BY TraceFacts DEF Lines
  <1>2. /\ r \in Nat /\ b * r \in Nat /\ b * r <= (b + 1) * r /\ (b + 1) * r <= Lines
        /\ StartLine(b + 1) = b * r + 1
        /\ StopLine(b + 1) = (IF b + 1 = Split THEN Lines ELSE (b + 1) * r)
        /\ b + 1 < Split /\ StartLine(b + 1) < Lines => (b + 1) * r < Lines
    BY <1>1, BlockFacts
  <1>3. b \in Nat /\ b + 1 \in 1..Split /\ (b + 1 < Split => b + 1 \in 1..(Split - 1))
        /\ (b + 1 = Split \/ b + 1 < Split)
    OBVIOUS
  <1>4. Len(handled) \in Nat /\ (b + 1) * r \in Nat
    BY <1>2, <1>3
  <1> DEFINE first == StartLine(b + 1)
  <1> DEFINE last == StopLine(b + 1)
  <1> DEFINE read == Loaded(list, trace, first, last)
  <1>5. CurrentReadBlock' = b + 1
    BY DEF LoadPartialContacts
  <1>6. CASE first >= Lines
    <2>1. pc' = "abort" /\ SimList' = list
      BY <1>6 DEF LoadPartialContacts
    <2>2. (\A m : Shape(list, m, 0, 0)) /\ Len(list) = k
      BY QuietShape
    <2>3. Len(handled) + (k - 0 - 0) + 4 * (Lines - Lines) <= bound
      BY <1>1, <1>2, <1>4
    <2> QED
      BY <1>3, <1>5, <2>1, <2>2, <2>3
  <1>7. CASE first < Lines
    <2>1. /\ pc' = "run"
          /\ SimList' = IF b + 1 < Split THEN WithCheckPoint(read, trace[last + 1].begin)
                        ELSE read
      <3>1. ~(first >= Lines)
        BY <1>1, <1>2, <1>7
      <3> QED
        BY <3>1 DEF LoadPartialContacts
    <2>2. /\ first \in Nat \ {0} /\ last \in 0..Lines /\ first <= last + 1
          /\ last \in Nat /\ last + 1 - first = last - b * r
      <3>1. /\ first = b * r + 1 /\ first < Lines
            /\ last = IF b + 1 = Split THEN Lines ELSE (b + 1) * r
        BY <1>2, <1>7
      <3>2. PICK u \in Nat : u = b * r
        BY <1>2
      <3>3. PICK w \in Nat : w = (b + 1) * r
        BY <1>4
      <3>4. u <= w /\ w <= Lines
        BY <1>2, <3>2, <3>3
      <3> HIDE DEF first, last, r, b
      <3>5. first = u + 1 /\ (last = Lines \/ last = w)
        BY <3>1, <3>2, <3>3
      <3> QED
        BY <1>1, <3>1, <3>2, <3>4, <3>5
    <2> DEFINE h == k + 4 * (last + 1 - first)
    <2>3. h \in Nat /\ h = k + 4 * (last - b * r)
      <3>1. last + 1 - first \in Nat
        <4> HIDE DEF first, last
        <4> QED
          BY <2>2
      <3> HIDE DEF first, last, r, b
      <3> QED
        BY <2>2, <3>1
    <2>4. read \in Lists(h)
      <3>1. last \in 0..Len(trace)
        BY <2>2 DEF Lines
      <3> HIDE DEF first, last
      <3> QED
        BY <2>2, <3>1, LoadedWorks
    <2> HIDE DEF first, last, read, h
    <2>5. (\A m : Shape(read, m, 0, 0)) /\ Len(read) = h
      BY <2>3, <2>4, QuietShape
    <2>6. CASE b + 1 = Split
      <3>1. SimList' = read
        BY <1>3, <2>1, <2>6
      <3>2. last = Lines
        BY <1>2, <2>6 DEF last
      <3>3. Len(handled) + (h - 0 - 0) + 4 * (Lines - Lines) <= bound
        BY <1>1, <1>2, <1>4, <2>3, <3>2
      <3> QED
        BY <1>3, <1>5, <2>1, <2>5, <3>1, <3>3
    <2>7. CASE b + 1 < Split
      <3>1. last = (b + 1) * r /\ last < Lines /\ last = StopLine(CurrentReadBlock')
        BY <1>2, <1>3, <1>5, <1>7, <2>7 DEF last, first
      <3> DEFINE e == CheckPoint(trace[last + 1].begin)
      <3>2. last + 1 \in 1..Lines
        BY <1>1, <2>2, <3>1
      <3>3. e \in Points /\ e.id = "CheckPoint"
        BY <1>1, <3>2 DEF CheckPoint, Points
      <3>4. SimList' = Insertion(read, e)
        BY <2>1, <2>7 DEF WithCheckPoint
      <3> HIDE DEF e
      <3>5. /\ read \in Seq(Event) /\ InOrderOfTime(read) /\ e \in Event
            /\ \A i \in 1..h : read[i] \in Quiet
        <4>1. read \in Seq(Quiet) /\ Len(read) = h /\ InOrderOfTime(read)
          BY <2>4 DEF Lists
        <4>2. read \in Seq(Event)
          BY <4>1, EventFacts
        <4> QED
          BY <3>3, <4>1, <4>2, EventFacts
      <3> DEFINE y == Insertion(read, e)
      <3>6. PICK j \in 1..(h + 1) :
               /\ y \in Seq(Event) /\ Len(y) = h + 1
               /\ \A i \in 1..(h + 1) :
                     y[i] = IF i < j THEN read[i] ELSE IF i = j THEN e ELSE read[i - 1]
               /\ InOrderOfTime(y)
        <4>1. PICK j \in 1..(Len(read) + 1) :
                 /\ y \in Seq(Event) /\ Len(y) = Len(read) + 1
                 /\ \A i \in 1..(Len(read) + 1) :
                       y[i] = IF i < j THEN read[i] ELSE IF i = j THEN e ELSE read[i - 1]
                 /\ InOrderOfTime(y)
          BY <3>5, Inserted
        <4> HIDE DEF y
        <4> QED
          BY <2>5, <4>1
      <3> HIDE DEF y
      <3>7. \A i \in 1..(h + 1) : /\ y[i] \in Quiet \cup Points
                                  /\ y[i].id = "CheckPoint" => i = j
        <4> TAKE i \in 1..(h + 1)
        <4>1. CASE i < j
          <5>1. i \in 1..h /\ y[i] = read[i]
            BY <2>3, <3>6, <4>1
          <5> QED
            BY <3>5, <5>1, EventFacts
        <4>2. CASE i = j
          BY <3>3, <3>6, <4>2
        <4>3. CASE i > j
          <5>1. i - 1 \in 1..h
            <6>1. i \in Nat /\ j \in Nat /\ 1 <= j /\ i <= h + 1
              BY <2>3
            <6> QED
              BY <2>3, <4>3, <6>1
          <5>2. ~(i < j) /\ i # j
            BY <2>3, <4>3
          <5>3. y[i] = read[i - 1]
            BY <3>6, <5>2
          <5> QED
            BY <3>5, <5>1, <5>3, EventFacts
        <4> QED
          BY <4>1, <4>2, <4>3
      <3>8. 0 \in 0..Len(y) /\ \A i \in 1..Len(y) : i \in 1..(h + 1)
        BY <2>3, <3>6
      <3>9. \A m : Shape(y, m, 0, 1)
        BY <3>6, <3>7, <3>8 DEF Shape
      <3>10. Len(handled) + (Len(y) - 0 - 1) + 4 * (Lines - last) <= bound
        BY <1>1, <1>2, <1>4, <2>2, <2>3, <3>6
      <3>11. SimList' = y
        BY <3>4 DEF y
      <3>12. CurrentReadBlock' \in 1..(Split - 1)
        BY <1>3, <1>5, <2>7
      <3> QED
        BY <1>3, <1>5, <2>1, <3>1, <3>9, <3>10, <3>11, <3>12
    <2> QED
      BY <1>3, <2>6, <2>7
  <1>8. first \in Nat
    BY <1>2
  <1> QED
    BY <1>1, <1>6, <1>7, <1>8

-----------------------------------------------------------------------------
(* The invariant holds.                                                    *)

\* What TrafficGen inserts are packets of the application.
LEMMA TrafficFacts ==
    ASSUME NEW s \in Traffics
    PROVE  AppEvents(s) \in Seq(Quiet) /\ Len(AppEvents(s)) = Len(s) /\ Len(s) \in Nat
  <1>1. s \in Seq([to : Nodes, time : Nat])
    BY SimulatorAssumption
  <1>2. \A i \in 1..Len(s) : s[i].to \in Nodes /\ s[i].time \in Nat
    <2> TAKE i \in 1..Len(s)
    <2> DEFINE T == [to : Nodes, time : Nat]
    <2>1. s[i] \in T
      <3>1. s \in Seq(T)
        BY <1>1
      <3> HIDE DEF T
      <3> QED
        BY <3>1
    <2> QED
      BY <2>1
  <1>3. \A i \in 1..Len(s) : Transmission(s[i].time, APPLICATION, s[i].to) \in Quiet
    BY <1>2 DEF Transmission, Quiet
  <1>4. Len(s) \in Nat
    BY <1>1
  <1> QED
    BY <1>3, <1>4 DEF AppEvents

\* The invariant holds at first.
LEMMA InitIInv == Init => IInv
  <1> SUFFICES ASSUME Init PROVE IInv
    OBVIOUS
  <1>1. <<>> \in Lists(0)
    BY DEF Lists, InOrderOfTime
  <1>2. /\ AppEvents(traffic) \in Seq(Quiet) /\ Len(AppEvents(traffic)) = Len(traffic)
        /\ Len(traffic) \in Nat
    BY TrafficFacts DEF Init
  <1>3. SimList \in Lists(0 + Len(traffic))
    BY <1>1, <1>2, QuietInsertedAll DEF Init
  <1>4. Shape(SimList, N, 0, 0) /\ Len(SimList) = Len(traffic)
    BY <1>2, <1>3, QuietShape
  <1>5. Lines \in Nat
    BY TraceFacts DEF Init, Lines
  <1>6. Progress(0, 0)
    BY <1>2, <1>4, <1>5 DEF Init, Progress, LinesRead
  <1>7. Values
    <2>1. 0 \in 0..(IF Split = NOTSET THEN 0 ELSE Split)
      BY SimulatorAssumption DEF Init, NOTSET
    <2> QED
      BY <2>1, SimulatorAssumption DEF Init, Values
  <1>8. Symmetric(N)
    BY DEF Init, Symmetric
  <1> QED
    BY <1>6, <1>7, <1>8 DEF IInv

\* What the handlers rely on.
LEMMA ValueFacts ==
    ASSUME Values
    PROVE  /\ Lines \in Nat /\ Len(traffic) \in Nat /\ Len(handled) \in Nat
           /\ 4 * Lines + Len(traffic) \in Nat
           /\ Split \notin {NOTSET, 1} => Split \in Nat \ {0, 1}
           /\ APPLICATION \notin Nodes
  <1>1. Lines \in Nat /\ Len(traffic) \in Nat
    BY TraceFacts, TrafficFacts DEF Values, Lines
  <1>2. Len(handled) \in Nat
    BY DEF Values
  <1>3. Split \notin {NOTSET, 1} => Split \in Nat \ {0, 1}
    BY SimulatorAssumption DEF Values, NOTSET
  <1>4. APPLICATION \notin Nodes
    BY SimulatorAssumption DEF APPLICATION
  <1> QED
    BY <1>1, <1>2, <1>3, <1>4

\* Loading the whole trace.
LEMMA StepComplete ==
    ASSUME IInv, LoadCompleteContacts PROVE IInv'
  <1>1. PICK p \in Nat, c \in {0, 1} : Progress(p, c)
    BY DEF IInv
  <1>2. /\ p = 0 /\ c = 0 /\ Shape(SimList, N, 0, 0) /\ pc = "load" /\ pc' = "run"
        /\ SimList' = Loaded(SimList, trace, 1, Lines)
        /\ Len(handled) + (Len(SimList) - 0 - 0) + 4 * (Lines - 0) <= 4 * Lines + Len(traffic)
        /\ UNCHANGED <<trace, traffic, Split, CurrentTime, N, CurrentReadBlock, sends, handled>>
    BY <1>1 DEF Progress, LoadCompleteContacts, LinesRead
  <1>3. Lines \in Nat /\ Len(traffic) \in Nat /\ Len(handled) \in Nat /\ trace \in Traces
    BY ValueFacts DEF IInv, Values
  <1>4. SimList \in Lists(Len(SimList)) /\ Len(SimList) \in Nat
    BY <1>2, QuietShape DEF Shape
  <1>5. SimList' \in Lists(Len(SimList) + 4 * (Lines + 1 - 1))
    <2>1. 1 \in Nat \ {0} /\ Lines \in 0..Len(trace) /\ 1 <= Lines + 1
      BY <1>3 DEF Lines
    <2> QED
      BY <1>2, <1>3, <1>4, <2>1, LoadedWorks
  <1>6. Len(SimList) + 4 * (Lines + 1 - 1) \in Nat
    BY <1>3, <1>4
  <1>7. Shape(SimList', N', 0, 0) /\ Len(SimList') = Len(SimList) + 4 * Lines
    <2>1. Len(SimList) + 4 * (Lines + 1 - 1) = Len(SimList) + 4 * Lines
      BY <1>3, <1>4
    <2> QED
      BY <1>5, <1>6, <2>1, QuietShape
  <1>8. Lines' = Lines
    BY <1>2 DEF Lines
  <1>9. LinesRead(0)' = Lines
    BY <1>2, <1>8 DEF LinesRead
  <1>10. Len(handled) + (Len(SimList') - 0 - 0) + 4 * (Lines - Lines) <= 4 * Lines + Len(traffic)
    BY <1>2, <1>3, <1>4, <1>7
  <1>11. Progress(0, 0)'
    BY <1>2, <1>7, <1>8, <1>9, <1>10 DEF Progress
  <1>12. Values' /\ Symmetric(N)'
    BY <1>2 DEF IInv, Values, Symmetric
  <1> QED
    BY <1>11, <1>12 DEF IInv

\* Loading the first block.
LEMMA StepFirst ==
    ASSUME IInv, LoadFirstBlock PROVE IInv'
  <1>1. PICK p \in Nat, c \in {0, 1} : Progress(p, c)
    BY DEF IInv
  <1>2. /\ p = 0 /\ c = 0 /\ Shape(SimList, N, 0, 0) /\ pc = "load" /\ CurrentReadBlock = 0
        /\ Len(handled) + (Len(SimList) - 0 - 0) + 4 * (Lines - 0) <= 4 * Lines + Len(traffic)
        /\ LoadPartialContacts(SimList) /\ Split \notin {NOTSET, 1}
        /\ UNCHANGED <<trace, traffic, Split, CurrentTime, N, sends, handled>>
    BY <1>1 DEF Progress, LoadFirstBlock, LinesRead
  <1>3. /\ Lines \in Nat /\ Len(traffic) \in Nat /\ Len(handled) \in Nat /\ trace \in Traces
        /\ handled \in Seq(Event) /\ 4 * Lines + Len(traffic) \in Nat
        /\ Split \in Nat \ {0, 1}
    BY <1>2, ValueFacts DEF IInv, Values
  <1>4. SimList \in Lists(Len(SimList)) /\ Len(SimList) \in Nat
    BY <1>2, QuietShape DEF Shape
  <1>5. CurrentReadBlock \in 0..(Split - 1) /\ 0 * ReadBlockSize = 0
    <2>1. ReadBlockSize \in Nat
      <3>1. 0 \in 0..(Split - 1)
        BY <1>3
      <3> QED
        BY <1>3, <3>1, BlockFacts
    <2> QED
      BY <1>2, <1>3, <2>1
  <1>6. Len(handled) + Len(SimList) + 4 * (Lines - CurrentReadBlock * ReadBlockSize)
          <= 4 * Lines + Len(traffic)
    <2>1. CurrentReadBlock * ReadBlockSize = 0
      BY <1>2, <1>5
    <2> QED
      BY <1>2, <1>3, <1>4, <2>1
  <1> DEFINE bound == 4 * Lines + Len(traffic)
  <1>7. /\ CurrentReadBlock' \in 1..Split /\ pc' \in {"run", "abort"}
        /\ \E d \in {0, 1} :
              /\ \A m : Shape(SimList', m, 0, d)
              /\ d = 1 => CurrentReadBlock' \in 1..(Split - 1)
                          /\ StopLine(CurrentReadBlock') < Lines
              /\ Len(handled) + (Len(SimList') - 0 - d)
                    + 4 * (Lines - (IF d = 1 THEN StopLine(CurrentReadBlock') ELSE Lines))
                    <= bound
    <2> HIDE DEF bound
    <2>1. bound \in Nat /\ Len(handled) + Len(SimList)
             + 4 * (Lines - CurrentReadBlock * ReadBlockSize) <= bound
      BY <1>3, <1>6 DEF bound
    <2> QED
      BY <1>2, <1>3, <1>4, <1>5, <2>1, PartWorks
  <1>8. PICK d \in {0, 1} :
              /\ \A m : Shape(SimList', m, 0, d)
              /\ d = 1 => CurrentReadBlock' \in 1..(Split - 1)
                          /\ StopLine(CurrentReadBlock') < Lines
              /\ Len(handled) + (Len(SimList') - 0 - d)
                    + 4 * (Lines - (IF d = 1 THEN StopLine(CurrentReadBlock') ELSE Lines))
                    <= bound
    BY <1>7
  <1>9. /\ Lines' = Lines /\ StopLine(CurrentReadBlock)' = StopLine(CurrentReadBlock')
        /\ LinesRead(d)' = IF d = 1 THEN StopLine(CurrentReadBlock') ELSE Lines
    <2>1. Lines' = Lines /\ ReadBlockSize' = ReadBlockSize /\ Split' = Split
      BY <1>2 DEF Lines, ReadBlockSize
    <2>2. StopLine(CurrentReadBlock)' = StopLine(CurrentReadBlock')
      BY <2>1 DEF StopLine
    <2> QED
      BY <1>7, <2>1, <2>2 DEF LinesRead
  <1>10. Progress(0, d)'
    BY <1>2, <1>7, <1>8, <1>9 DEF Progress
  <1>11. Values' /\ Symmetric(N)'
    BY <1>2, <1>3, <1>7 DEF IInv, Values, Symmetric, NOTSET
  <1> QED
    BY <1>10, <1>11 DEF IInv

\* Loading the next block.
LEMMA StepContinue ==
    ASSUME IInv, ContinueLoading PROVE IInv'
  <1>1. PICK p \in Nat, c \in {0, 1} : Progress(p, c)
    BY DEF IInv
  <1>2. /\ pc = "run" /\ SimList # <<>> /\ Top.id = "CheckPoint" /\ CurrentTime' = Top.time
        /\ LoadPartialContacts(Tail(SimList))
        /\ UNCHANGED <<trace, traffic, Split, N, sends, handled>>
    BY DEF ContinueLoading, TopIs
  <1>3. /\ Lines \in Nat /\ Len(traffic) \in Nat /\ Len(handled) \in Nat /\ trace \in Traces
        /\ handled \in Seq(Event) /\ 4 * Lines + Len(traffic) \in Nat
    BY ValueFacts DEF IInv, Values
  <1>4. /\ Shape(SimList, N, p, c) /\ Len(SimList) \in Nat \ {0}
        /\ Len(Tail(SimList)) = Len(SimList) - 1 /\ Top.time \in Nat
        /\ p > 0 => Top \in Sent(N)
        /\ p = 0 => c = 1 /\ Shape(Tail(SimList), N, 0, 0)
    <2>1. Shape(SimList, N, p, c) /\ SimList # <<>> /\ p \in Nat /\ Head(SimList).id = "CheckPoint"
      BY <1>1, <1>2 DEF Progress, Top
    <2> QED
      BY <2>1, Popped DEF Top
  <1>5. p = 0 /\ c = 1 /\ Shape(Tail(SimList), N, 0, 0)
    <2>1. ~(p > 0)
      BY <1>2, <1>4, EventFacts
    <2> QED
      BY <1>4, <2>1
  <1>6. /\ Split \in Nat \ {0, 1} /\ CurrentReadBlock \in 1..(Split - 1)
        /\ LinesRead(c) = StopLine(CurrentReadBlock)
        /\ Len(handled) + (Len(SimList) - p - c) + 4 * (Lines - LinesRead(c))
             <= 4 * Lines + Len(traffic)
    <2>1. Values
      BY DEF IInv
    <2> QED
      BY <1>1, <1>2, <1>5, <2>1, ValueFacts DEF Progress, LinesRead
  <1> DEFINE k == Len(Tail(SimList))
  <1>7. Tail(SimList) \in Lists(k) /\ k \in Nat /\ k = Len(SimList) - 0 - 1
    <2>1. k \in Nat /\ k = Len(SimList) - 0 - 1
      BY <1>4
    <2>2. Tail(SimList) \in Lists(Len(Tail(SimList)))
      BY <1>5, QuietShape, Zenon
    <2> QED
      BY <2>1, <2>2
  <1>8. /\ CurrentReadBlock \in 0..(Split - 1)
        /\ StopLine(CurrentReadBlock) = CurrentReadBlock * ReadBlockSize
    <2>1. CurrentReadBlock \in 0..(Split - 1)
      BY <1>6
    <2> QED
      BY <1>3, <1>6, <2>1, BlockFacts
  <1> DEFINE bound == 4 * Lines + Len(traffic)
  <1>9. /\ CurrentReadBlock' \in 1..Split /\ pc' \in {"run", "abort"}
        /\ \E d \in {0, 1} :
              /\ \A m : Shape(SimList', m, 0, d)
              /\ d = 1 => CurrentReadBlock' \in 1..(Split - 1)
                          /\ StopLine(CurrentReadBlock') < Lines
              /\ Len(handled) + (Len(SimList') - 0 - d)
                    + 4 * (Lines - (IF d = 1 THEN StopLine(CurrentReadBlock') ELSE Lines))
                    <= bound
    <2> HIDE DEF bound, k
    <2>1. bound \in Nat /\ Len(handled) + k
             + 4 * (Lines - CurrentReadBlock * ReadBlockSize) <= bound
      BY <1>3, <1>5, <1>6, <1>7, <1>8 DEF bound
    <2> QED
      BY <1>2, <1>3, <1>6, <1>7, <1>8, <2>1, PartWorks
  <1>10. PICK d \in {0, 1} :
              /\ \A m : Shape(SimList', m, 0, d)
              /\ d = 1 => CurrentReadBlock' \in 1..(Split - 1)
                          /\ StopLine(CurrentReadBlock') < Lines
              /\ Len(handled) + (Len(SimList') - 0 - d)
                    + 4 * (Lines - (IF d = 1 THEN StopLine(CurrentReadBlock') ELSE Lines))
                    <= bound
    BY <1>9
  <1>11. /\ Lines' = Lines /\ StopLine(CurrentReadBlock)' = StopLine(CurrentReadBlock')
         /\ LinesRead(d)' = IF d = 1 THEN StopLine(CurrentReadBlock') ELSE Lines
    <2>1. Lines' = Lines /\ ReadBlockSize' = ReadBlockSize /\ Split' = Split
      BY <1>2 DEF Lines, ReadBlockSize
    <2>2. StopLine(CurrentReadBlock)' = StopLine(CurrentReadBlock')
      BY <2>1 DEF StopLine
    <2> QED
      BY <1>9, <2>1, <2>2 DEF LinesRead
  <1>12. Split \notin {NOTSET, 1}
    BY <1>6 DEF NOTSET
  <1>13. Progress(0, d)'
    BY <1>2, <1>9, <1>10, <1>11, <1>12 DEF Progress
  <1>14. Values' /\ Symmetric(N)'
    BY <1>2, <1>4, <1>6, <1>9 DEF IInv, Values, Symmetric, NOTSET
  <1> QED
    BY <1>13, <1>14 DEF IInv

\* What is new in the list are transmissions in front of the others, and
\* nothing in it is earlier than the event just handled.
Reacted ==
    /\ NotBefore(SimList', CurrentTime')
    /\ \E k \in Nat : /\ Behind(Tail(SimList), k, SimList')
                      /\ \A i \in 1..k : SimList'[i] \in Sent(N')

\* The end of every action that lets a node act: when the event on top is
\* gone and the node has sent what it wants, all is as it should be.
LEMMA Acted ==
    ASSUME IInv, NEW p \in Nat, NEW c \in {0, 1}, Progress(p, c), pc = "run", SimList # <<>>,
           CurrentTime' = Top.time, N' \in [Nodes -> SUBSET Nodes], Symmetric(N'),
           sends' \in 0..MaxSends,
           SentFrom(Tail(SimList), N', IF p = 0 THEN 0 ELSE p - 1, c, Top.time, SimList'),
           handled' = IF p = 0 THEN Append(handled, Top) ELSE handled,
           UNCHANGED <<trace, traffic, Split, pc, CurrentReadBlock>>
    PROVE  IInv' /\ Reacted
  <1>1. /\ Len(SimList) \in Nat \ {0} /\ Len(Tail(SimList)) = Len(SimList) - 1
        /\ Top.time \in Nat /\ Top \in Event
    BY Popped DEF Progress, Top
  <1>2. /\ Lines \in Nat /\ Len(traffic) \in Nat /\ Len(handled) \in Nat
        /\ handled \in Seq(Event)
    BY ValueFacts DEF IInv, Values
  <1> DEFINE q == IF p = 0 THEN 0 ELSE p - 1
  <1>3. PICK k \in Nat : /\ Shape(SimList', N', q + k, c) /\ Behind(Tail(SimList), k, SimList')
                         /\ Len(SimList') = Len(Tail(SimList)) + k
                         /\ NotBefore(SimList', CurrentTime')
    BY DEF SentFrom, Behind
  <1>4. q \in Nat /\ q + k \in Nat
    OBVIOUS
  <1>5. /\ handled' \in Seq(Event)
        /\ Len(handled') + (Len(SimList') - (q + k) - c) = Len(handled) + (Len(SimList) - p - c)
    <2>1. CASE p = 0
      <3>1. handled' = Append(handled, Top) /\ q = 0
        BY <2>1
      <3>2. handled' \in Seq(Event) /\ Len(handled') = Len(handled) + 1
        BY <1>1, <1>2, <3>1
      <3> QED
        BY <1>1, <1>2, <1>3, <2>1, <3>1, <3>2
    <2>2. CASE p # 0
      BY <1>1, <1>2, <1>3, <2>2
    <2> QED
      BY <2>1, <2>2
  <1> HIDE DEF q
  <1>6. Lines' = Lines /\ LinesRead(c)' = LinesRead(c) /\ StopLine(CurrentReadBlock)' = StopLine(CurrentReadBlock)
    BY DEF Lines, LinesRead, StopLine, ReadBlockSize
  <1>7. Progress(q + k, c)'
    BY <1>3, <1>5, <1>6 DEF Progress
  <1>8. Values'
    BY <1>1, <1>5 DEF IInv, Values
  <1>9. Reacted
    <2>1. \A i \in 1..k : i \in 1..(q + k)
      BY <1>4
    <2> QED
      BY <1>3, <2>1 DEF Reacted, Shape
  <1> QED
    BY <1>4, <1>7, <1>8, <1>9 DEF IInv, Symmetric

\* A contact begins.
LEMMA StepUp ==
    ASSUME IInv, ContactUp PROVE IInv' /\ Reacted
  <1>1. PICK p \in Nat, c \in {0, 1} : Progress(p, c)
    BY DEF IInv
  <1>2. /\ pc = "run" /\ SimList # <<>> /\ Top.id = "ContactUp" /\ CurrentTime' = Top.time
        /\ N' = Connected(Top.a, Top.b) /\ React(Top.a, Top.b, N', 0)
        /\ handled' = Append(handled, Top)
        /\ UNCHANGED <<trace, traffic, Split, pc, CurrentReadBlock>>
    BY DEF ContactUp, TopIs
  <1>3. /\ Top.time \in Nat /\ NotBefore(Tail(SimList), Top.time)
        /\ p > 0 => Top \in Sent(N)
        /\ p = 0 => Top \in Quiet \cup Points /\ Shape(Tail(SimList), N, 0, c)
    BY <1>1, <1>2, Popped DEF Progress, Top
  <1>4. p = 0
    BY <1>2, <1>3, EventFacts
  <1>5. Top.a \in Nodes /\ Top.b \in Nodes /\ Top.a # Top.b
    BY <1>2, <1>3, <1>4, EventFacts
  <1>6. N \in [Nodes -> SUBSET Nodes] /\ Symmetric(N)
    BY DEF IInv, Values
  <1>7. /\ N' \in [Nodes -> SUBSET Nodes] /\ Top.b \in N'[Top.a]
        /\ \A n \in Nodes : N'[n] = IF n \in {Top.a, Top.b} THEN N[n] \cup ({Top.a, Top.b} \ {n})
                                     ELSE N[n]
    BY <1>2, <1>5, <1>6 DEF Connected
  <1>8. Symmetric(N')
    BY <1>6, <1>7 DEF Symmetric
  <1>9. 0 \in 0..MaxSends
    BY SimulatorAssumption
  <1>10. SentFrom(Tail(SimList), N', 0, c, Top.time, SimList') /\ sends' \in 0..MaxSends
    <2>1. Shape(Tail(SimList), N', 0, c)
      BY <1>3, <1>4, AnyLinks
    <2> QED
      BY <2>1, <1>2, <1>3, <1>4, <1>5, <1>7, <1>9, ReactWorks
  <1> QED
    BY <1>1, <1>2, <1>4, <1>7, <1>8, <1>10, Acted

\* A contact ends.
LEMMA StepDown ==
    ASSUME IInv, ContactDown PROVE IInv' /\ Reacted
  <1>1. PICK p \in Nat, c \in {0, 1} : Progress(p, c)
    BY DEF IInv
  <1>2. /\ pc = "run" /\ SimList # <<>> /\ Top.id = "ContactDown" /\ CurrentTime' = Top.time
        /\ N' = Disconnected(Top.a, Top.b) /\ SimList' = Tail(SimList) /\ sends' = 0
        /\ handled' = Append(handled, Top)
        /\ UNCHANGED <<trace, traffic, Split, pc, CurrentReadBlock>>
    BY DEF ContactDown, TopIs
  <1>3. /\ Top.time \in Nat /\ NotBefore(Tail(SimList), Top.time)
        /\ Len(Tail(SimList)) \in Nat
        /\ p > 0 => Top \in Sent(N)
        /\ p = 0 => Top \in Quiet \cup Points /\ Shape(Tail(SimList), N, 0, c)
    <2>1. Len(SimList) \in Nat \ {0} /\ Len(Tail(SimList)) = Len(SimList) - 1
      BY <1>1, <1>2, Popped DEF Progress
    <2>2. Len(Tail(SimList)) \in Nat
      BY <2>1
    <2> QED
      BY <1>1, <1>2, <2>2, Popped DEF Progress, Top
  <1>4. p = 0
    BY <1>2, <1>3, EventFacts
  <1>5. N \in [Nodes -> SUBSET Nodes] /\ Symmetric(N)
    BY DEF IInv, Values
  <1>6. N' \in [Nodes -> SUBSET Nodes] /\ Symmetric(N')
    <2>1. N' \in [Nodes -> SUBSET Nodes]
      BY <1>2, <1>5 DEF Disconnected
    <2>2. \A n \in Nodes : N'[n] = IF n \in {Top.a, Top.b} THEN N[n] \ ({Top.a, Top.b} \ {n})
                                   ELSE N[n]
      BY <1>2 DEF Disconnected
    <2>3. Symmetric(N')
      <3> SUFFICES ASSUME NEW x \in Nodes, NEW y \in Nodes, y \in N'[x] PROVE x \in N'[y]
        BY DEF Symmetric
      <3>1. y \in N[x] /\ x \in N[y]
        BY <1>5, <2>2 DEF Symmetric
      <3>2. ~(x \in {Top.a, Top.b} /\ y \in {Top.a, Top.b} \ {x})
        BY <2>2
      <3> QED
        BY <2>2, <3>1, <3>2
    <2> QED
      BY <2>1, <2>3
  <1>7. SentFrom(Tail(SimList), N', 0, c, Top.time, SimList')
    <2>1. 0 + 0 = 0 /\ Behind(Tail(SimList), 0, Tail(SimList))
      BY <1>3, BehindFacts
    <2>2. Shape(Tail(SimList), N', 0, c)
      BY <1>3, <1>4, AnyLinks
    <2> QED
      BY <1>2, <1>3, <1>4, <2>1, <2>2 DEF SentFrom
  <1>8. sends' \in 0..MaxSends
    BY <1>2, SimulatorAssumption
  <1> QED
    BY <1>1, <1>2, <1>4, <1>6, <1>7, <1>8, Acted

\* A packet comes from the application.
LEMMA StepApp ==
    ASSUME IInv, ReceiveFromApp PROVE IInv' /\ Reacted
  <1>1. PICK p \in Nat, c \in {0, 1} : Progress(p, c)
    BY DEF IInv
  <1>2. /\ pc = "run" /\ SimList # <<>> /\ Top.id = "Transmission" /\ CurrentTime' = Top.time
        /\ Top.a = APPLICATION /\ React(Top.b, APPLICATION, N, 0)
        /\ handled' = Append(handled, Top)
        /\ UNCHANGED <<trace, traffic, Split, pc, N, CurrentReadBlock>>
    BY DEF ReceiveFromApp, TopIs
  <1>3. /\ Top.time \in Nat /\ NotBefore(Tail(SimList), Top.time)
        /\ p > 0 => Top \in Sent(N)
        /\ p = 0 => Top \in Quiet \cup Points /\ Shape(Tail(SimList), N, 0, c)
    BY <1>1, <1>2, Popped DEF Progress, Top
  <1>4. p = 0
    BY <1>2, <1>3, EventFacts
  <1>5. Top.b \in Nodes
    BY <1>2, <1>3, <1>4, EventFacts
  <1>6. N \in [Nodes -> SUBSET Nodes] /\ Symmetric(N)
    BY DEF IInv, Values
  <1>7. 0 \in 0..MaxSends
    BY SimulatorAssumption
  <1>8. SentFrom(Tail(SimList), N, 0, c, Top.time, SimList') /\ sends' \in 0..MaxSends
    BY <1>2, <1>3, <1>4, <1>5, <1>6, <1>7, ReactWorks
  <1> QED
    BY <1>1, <1>2, <1>4, <1>6, <1>8, Acted

\* A transmission arrives.
LEMMA StepReceive ==
    ASSUME IInv, Receive PROVE IInv' /\ Reacted
  <1>1. PICK p \in Nat, c \in {0, 1} : Progress(p, c)
    BY DEF IInv
  <1>2. /\ pc = "run" /\ SimList # <<>> /\ Top.id = "Transmission" /\ CurrentTime' = Top.time
        /\ Top.a # APPLICATION
        /\ IF AreConnected(Top.a, Top.b) THEN React(Top.b, Top.a, N, sends)
           ELSE SimList' = Tail(SimList) /\ UNCHANGED sends
        /\ UNCHANGED <<trace, traffic, Split, pc, N, CurrentReadBlock, handled>>
    BY DEF Receive, TopIs
  <1>3. /\ Top.time \in Nat /\ NotBefore(Tail(SimList), Top.time)
        /\ p > 0 => Top \in Sent(N) /\ Shape(Tail(SimList), N, p - 1, c)
        /\ p = 0 => Top \in Quiet \cup Points
    BY <1>1, <1>2, Popped DEF Progress, Top
  <1>4. p # 0
    BY <1>2, <1>3, EventFacts
  <1>5. Top.a \in Nodes /\ Top.b \in Nodes /\ Top.b \in N[Top.a] /\ p - 1 \in Nat
    BY <1>3, <1>4, EventFacts
  <1>6. N \in [Nodes -> SUBSET Nodes] /\ Symmetric(N) /\ sends \in 0..MaxSends
    BY DEF IInv, Values
  <1>7. Top.a \in N[Top.b]
    BY <1>5, <1>6 DEF Symmetric
  <1>8. React(Top.b, Top.a, N, sends)
    BY <1>2, <1>5 DEF AreConnected
  <1>9. SentFrom(Tail(SimList), N, p - 1, c, Top.time, SimList') /\ sends' \in 0..MaxSends
    BY <1>3, <1>4, <1>5, <1>6, <1>7, <1>8, ReactWorks
  <1> QED
    BY <1>1, <1>2, <1>4, <1>6, <1>9, Acted

\* The inductive invariant: the list is in order, begins with what is in
\* transmission, over links that are up, and has at most one checkpoint.
THEOREM Invariance == Spec => []IInv
  <1>1. Init => IInv
    BY InitIInv
  <1>2. IInv /\ [Next]_vars => IInv'
    <2> SUFFICES ASSUME IInv, [Next]_vars PROVE IInv'
      OBVIOUS
    <2>1. CASE Next
      BY <2>1, StepComplete, StepFirst, StepContinue, StepUp, StepDown, StepApp, StepReceive
         DEF Next
    <2>2. CASE UNCHANGED vars
      <3>1. Values' /\ Symmetric(N)'
        BY <2>2 DEF IInv, Values, Symmetric, vars
      <3>2. \E p \in Nat : \E c \in {0, 1} : Progress(p, c)'
        <4>1. PICK p \in Nat, c \in {0, 1} : Progress(p, c)
          BY DEF IInv
        <4>2. Lines' = Lines /\ LinesRead(c)' = LinesRead(c)
              /\ StopLine(CurrentReadBlock)' = StopLine(CurrentReadBlock)
          BY <2>2 DEF vars, Lines, LinesRead, StopLine, ReadBlockSize
        <4>3. Progress(p, c)'
          BY <2>2, <4>1, <4>2 DEF Progress, vars
        <4> QED
          BY <4>3
      <3> QED
        BY <3>1, <3>2 DEF IInv
    <2> QED
      BY <2>1, <2>2
  <1> QED
    BY <1>1, <1>2, PTL DEF Spec

\* Type correctness: no contact or packet is handled more often than the
\* trace and the traffic have it.
THEOREM TypeCorrect == Spec => []TypeOK
  <1>1. IInv => TypeOK
    <2> SUFFICES ASSUME IInv PROVE TypeOK
      OBVIOUS
    <2>1. PICK p \in Nat, c \in {0, 1} : Progress(p, c)
      BY DEF IInv
    <2>2. Lines \in Nat /\ Len(traffic) \in Nat /\ Len(handled) \in Nat /\ Values
      BY ValueFacts DEF IInv
    <2>3. SimList \in Seq(Event) /\ p \in 0..Len(SimList)
      BY <2>1 DEF Progress, Shape
    <2>4. \A i \in DOMAIN SimList :
             /\ SimList[i].id \in {"ContactUp", "ContactDown", "Transmission", "CheckPoint"}
             /\ SimList[i].time \in Nat
      <3> TAKE i \in DOMAIN SimList
      <3>1. SimList[i] \in Event
        BY <2>3
      <3> QED
        BY <3>1, EventFacts
    <2>5. Len(handled) <= 4 * Lines + Len(traffic)
      <3>1. /\ Len(handled) + (Len(SimList) - p - c) + 4 * (Lines - LinesRead(c))
                 <= 4 * Lines + Len(traffic)
            /\ Len(SimList) \in Nat /\ p <= Len(SimList)
        BY <2>1, <2>3 DEF Progress
      <3>2. CASE c = 0
        <4>1. LinesRead(c) \in {0, Lines}
          BY <3>2 DEF LinesRead
        <4> QED
          BY <2>2, <3>1, <3>2, <4>1
      <3>3. CASE c = 1
        <4>1. pc # "load" /\ LinesRead(c) = StopLine(CurrentReadBlock)
          BY <2>1, <3>3 DEF Progress, LinesRead
        <4>2. StopLine(CurrentReadBlock) < Lines /\ StopLine(CurrentReadBlock) \in Nat
          <5>1. /\ Split \notin {NOTSET, 1} /\ CurrentReadBlock \in 1..(Split - 1)
                /\ StopLine(CurrentReadBlock) < Lines
            BY <2>1, <3>3 DEF Progress
          <5>2. Split \in Nat \ {0} /\ CurrentReadBlock \in 0..(Split - 1)
            BY <2>2, <5>1, ValueFacts
          <5> QED
            BY <2>2, <5>1, <5>2, BlockFacts
        <4> QED
          BY <2>2, <3>1, <3>3, <4>1, <4>2
      <3> QED
        BY <3>2, <3>3
    <2> QED
      BY <2>2, <2>4, <2>5 DEF TypeOK, Values
  <1> QED
    BY <1>1, Invariance, PTL

\* An exchange is over before the next contact, packet of the application or
\* checkpoint, and all of it is received: no packet is sent over a link that
\* is gone, or loses its link on the way.
THEOREM ExchangesComplete == Spec => []RunToCompletion
  <1>1. IInv => RunToCompletion
    <2> SUFFICES ASSUME IInv, NEW j \in DOMAIN SimList,
                        SimList[j].id = "Transmission", SimList[j].a # APPLICATION
                 PROVE  /\ AreConnected(SimList[j].a, SimList[j].b)
                        /\ \A i \in 1..j : SimList[i].id = "Transmission"
                                           /\ SimList[i].a # APPLICATION
      BY DEF RunToCompletion
    <2>1. PICK p \in Nat, c \in {0, 1} : Progress(p, c)
      BY DEF IInv
    <2>2. /\ SimList \in Seq(Event) /\ p \in 0..Len(SimList)
          /\ \A i \in 1..p : SimList[i] \in Sent(N)
          /\ \A i \in (p + 1)..Len(SimList) : SimList[i] \in Quiet \cup Points
      BY <2>1 DEF Progress, Shape
    <2>3. j \in 1..p
      <3>1. j \in 1..Len(SimList)
        BY <2>2
      <3>2. j \notin (p + 1)..Len(SimList)
        BY <2>2, EventFacts
      <3> QED
        BY <2>2, <3>1, <3>2
    <2>4. \A i \in 1..j : i \in 1..p
      BY <2>3
    <2>5. \A i \in 1..j : SimList[i].id = "Transmission" /\ SimList[i].a # APPLICATION
      BY <2>2, <2>4, EventFacts
    <2>6. SimList[j].b \in N[SimList[j].a]
      BY <2>2, <2>3, EventFacts
    <2> QED
      BY <2>5, <2>6 DEF AreConnected
  <1> QED
    BY <1>1, Invariance, PTL

-----------------------------------------------------------------------------
(* What is inserted behind events that are earlier; loading in two parts.  *)

\* The walk of InsertEvent has one place to stop.
LEMMA PlaceUnique ==
    ASSUME NEW list \in Seq(Event), NEW t \in Nat,
           NEW j \in 1..(Len(list) + 1), NEW k \in 1..(Len(list) + 1),
           IsPlace(j, list, t), IsPlace(k, list, t)
    PROVE  j = k
  <1>1. Len(list) \in Nat /\ \A i \in 1..Len(list) : list[i].time \in Nat
    BY EventFacts
  <1>2. ASSUME NEW x \in 1..(Len(list) + 1), NEW y \in 1..(Len(list) + 1),
               IsPlace(x, list, t), IsPlace(y, list, t), x < y
        PROVE  FALSE
    <2>1. x \in 1..Len(list) /\ x \in 1..(y - 1)
      BY <1>1, <1>2
    <2>2. list[x].time >= t /\ list[x].time < t
      BY <1>2, <2>1 DEF IsPlace
    <2> QED
      BY <1>1, <2>1, <2>2
  <1>3. ~(j < k) /\ ~(k < j)
    BY <1>2
  <1> QED
    BY <1>1, <1>3

\* An event later than all of one list is inserted behind it.
LEMMA InsertedBehind ==
    ASSUME NEW front \in Seq(Event), NEW list \in Seq(Event), NEW e \in Event,
           \A i \in 1..Len(front) : front[i].time < e.time
    PROVE  Insertion(front \o list, e) = front \o Insertion(list, e)
  <1> DEFINE m == Len(front)
  <1> DEFINE n == Len(list)
  <1> DEFINE both == front \o list
  <1>1. /\ both \in Seq(Event) /\ Len(both) = m + n /\ m \in Nat /\ n \in Nat
        /\ \A i \in 1..(m + n) : both[i] = IF i <= m THEN front[i] ELSE list[i - m]
    BY ConcatProperties
  <1> HIDE DEF both
  <1>2. e.time \in Nat /\ \A i \in 1..m : front[i].time \in Nat
    BY EventFacts
  <1> DEFINE x == Insertion(both, e)
  <1>3. PICK k \in 1..(m + n + 1) :
           /\ IsPlace(k, both, e.time) /\ x \in Seq(Event) /\ Len(x) = m + n + 1
           /\ \A i \in 1..(m + n + 1) :
                 x[i] = IF i < k THEN both[i] ELSE IF i = k THEN e ELSE both[i - 1]
    <2>1. PICK k \in 1..(Len(both) + 1) :
             /\ IsPlace(k, both, e.time) /\ x \in Seq(Event) /\ Len(x) = Len(both) + 1
             /\ \A i \in 1..(Len(both) + 1) :
                   x[i] = IF i < k THEN both[i] ELSE IF i = k THEN e ELSE both[i - 1]
      <3>1. both \in Seq(Event)
        BY <1>1
      <3> HIDE DEF m, n
      <3> QED
        BY <3>1, Inserted
    <2> HIDE DEF x
    <2> QED
      BY <1>1, <2>1
  <1> HIDE DEF x
  <1> DEFINE y == Insertion(list, e)
  <1>4. PICK j \in 1..(n + 1) :
           /\ IsPlace(j, list, e.time) /\ y \in Seq(Event) /\ Len(y) = n + 1
           /\ \A i \in 1..(n + 1) :
                 y[i] = IF i < j THEN list[i] ELSE IF i = j THEN e ELSE list[i - 1]
    BY Inserted
  <1> HIDE DEF y
  <1>5. IsPlace(m + j, both, e.time) /\ m + j \in 1..(m + n + 1)
    <2>1. ASSUME NEW i \in 1..((m + j) - 1) PROVE both[i].time < e.time
      <3>1. CASE i <= m
        <4>1. both[i] = front[i] /\ i \in 1..m
          BY <1>1, <1>4, <3>1
        <4> QED
          BY <4>1
      <3>2. CASE i > m
        <4>1. both[i] = list[i - m] /\ i - m \in 1..(j - 1)
          BY <1>1, <1>4, <3>2
        <4> QED
          BY <1>4, <4>1 DEF IsPlace
      <3> QED
        BY <1>1, <3>1, <3>2
    <2>2. ASSUME m + j <= Len(both) PROVE both[m + j].time >= e.time
      <3>0. m + j \in 1..(m + n) /\ (m + j) - m = j /\ ~(m + j <= m) /\ j <= n
        BY <1>1, <1>4, <2>2
      <3>1. both[m + j] = list[j] /\ j <= n
        BY <1>1, <3>0
      <3> QED
        BY <1>4, <3>1 DEF IsPlace
    <2> QED
      BY <1>1, <1>4, <2>1, <2>2 DEF IsPlace
  <1>6. k = m + j
    <2>1. k \in 1..(Len(both) + 1) /\ m + j \in 1..(Len(both) + 1)
      BY <1>1, <1>5
    <2> QED
      BY <1>1, <1>2, <1>3, <1>5, <2>1, PlaceUnique
  <1> DEFINE z == front \o y
  <1>7. /\ z \in Seq(Event) /\ Len(z) = m + n + 1
        /\ \A i \in 1..(m + n + 1) : z[i] = IF i <= m THEN front[i] ELSE y[i - m]
    <2>1. /\ z \in Seq(Event) /\ Len(z) = m + Len(y)
          /\ \A i \in 1..(m + Len(y)) : z[i] = IF i <= m THEN front[i] ELSE y[i - m]
      BY <1>4, ConcatProperties
    <2>2. m + Len(y) = m + n + 1
      BY <1>1, <1>4
    <2> QED
      BY <2>1, <2>2
  <1> HIDE DEF z
  <1>8. ASSUME NEW i \in 1..(m + n + 1) PROVE x[i] = z[i]
    <2>1. CASE i <= m
      <3>1. i < k /\ x[i] = both[i] /\ both[i] = front[i]
        BY <1>1, <1>3, <1>4, <1>6, <2>1
      <3> QED
        BY <1>7, <2>1, <3>1
    <2>2. CASE i > m
      <3> DEFINE h == i - m
      <3>1. h \in 1..(n + 1) /\ i = m + h /\ z[i] = y[h]
        BY <1>1, <1>7, <2>2
      <3>2. CASE h < j
        <4>1. i < k /\ h \in 1..n /\ both[i] = list[h]
          BY <1>1, <1>4, <1>6, <2>2, <3>1, <3>2
        <4> QED
          BY <1>3, <1>4, <3>1, <3>2, <4>1
      <3>3. CASE h = j
        BY <1>3, <1>4, <1>6, <3>1, <3>3
      <3>4. CASE h > j
        <4>1. i > k /\ i - 1 \in 1..(m + n) /\ i - 1 > m /\ (i - 1) - m = h - 1
          BY <1>1, <1>4, <1>6, <3>1, <3>4
        <4>2. both[i - 1] = list[h - 1]
          BY <1>1, <4>1
        <4>3. x[i] = both[i - 1]
          BY <1>3, <4>1
        <4>4. y[h] = list[h - 1]
          BY <1>4, <3>1, <3>4
        <4> QED
          BY <3>1, <4>2, <4>3, <4>4
      <3> QED
        <4>1. h \in Int /\ j \in Int
          BY <3>1
        <4> HIDE DEF h
        <4> QED
          BY <3>2, <3>3, <3>4, <4>1
    <2> QED
      BY <1>1, <2>1, <2>2
  <1>9. x = z
    BY <1>3, <1>7, <1>8
  <1> QED
    BY <1>9 DEF x, y, z, both

\* The same for several events, and for the lines of a trace.
LEMMA InsertedAllBehind ==
    ASSUME NEW front \in Seq(Event), NEW list \in Seq(Event), NEW events \in Seq(Event),
           \A i \in 1..Len(front) : \A j \in 1..Len(events) : front[i].time < events[j].time
    PROVE  InsertAll(front \o list, events) = front \o InsertAll(list, events)
  <1> DEFINE n == Len(events)
  <1>1. n \in Nat /\ front \o list \in Seq(Event) /\ \A i \in 1..n : events[i] \in Event
    OBVIOUS
  <1>2. PICK g \in [0..n -> Seq(Event)] :
           /\ g[0] = front \o list
           /\ \A i \in 1..n : g[i] = Insertion(g[i - 1], events[i])
           /\ InsertAll(front \o list, events) = g[n]
    BY <1>1, InsertAllSteps
  <1>3. PICK h \in [0..n -> Seq(Event)] :
           /\ h[0] = list
           /\ \A i \in 1..n : h[i] = Insertion(h[i - 1], events[i])
           /\ InsertAll(list, events) = h[n]
    BY <1>1, InsertAllSteps
  <1> DEFINE P == {i \in 0..n : g[i] = front \o h[i]}
  <1>4. 0 \in P
    BY <1>1, <1>2, <1>3
  <1>5. ASSUME NEW i \in 1..n, i - 1 \in P PROVE i \in P
    <2>1. i \in 0..n /\ i - 1 \in 0..n /\ g[i - 1] = front \o h[i - 1]
      BY <1>1, <1>5
    <2>2. h[i - 1] \in Seq(Event) /\ events[i] \in Event
      BY <1>1, <2>1
    <2>3. Insertion(front \o h[i - 1], events[i]) = front \o Insertion(h[i - 1], events[i])
      BY <2>2, InsertedBehind
    <2> QED
      BY <1>2, <1>3, <2>1, <2>3
  <1>6. P = 0..n
    <2>1. P \in SUBSET (0..n)
      OBVIOUS
    <2> HIDE DEF P
    <2> QED
      BY <1>1, <1>4, <1>5, <2>1, NumbersUpto
  <1>7. n \in P
    <2> HIDE DEF P
    <2> QED
      BY <1>1, <1>6
  <1> QED
    BY <1>2, <1>3, <1>7

\* What is loaded comes behind what is earlier than the first line of it.
LEMMA LoadedBehind ==
    ASSUME NEW front \in Seq(Event), NEW list \in Seq(Event), NEW t \in Traces,
           NEW first \in Nat \ {0}, NEW last \in 0..Len(t), first <= last + 1,
           \A i \in 1..Len(front) : \A j \in first..last : front[i].time < t[j].begin
    PROVE  Loaded(front \o list, t, first, last) = front \o Loaded(list, t, first, last)
  <1> DEFINE n == last + 1 - first
  <1>1. /\ n \in Nat /\ front \o list \in Seq(Event)
        /\ \A i \in 1..n : first + i - 1 \in first..last /\ t[first + i - 1] \in Contacts
    <2>1. last \in Nat /\ last <= Len(t) /\ \A i \in 1..Len(t) : t[i] \in Contacts
      BY TraceFacts
    <2>2. \A i \in 1..n : first + i - 1 \in 1..Len(t) /\ first + i - 1 \in first..last
      BY <2>1, TraceFacts
    <2> QED
      BY <2>1, <2>2
  <1>2. PICK g : LinesInserted(front \o list, t, first, last, g)
    BY <1>1, LoadedSteps
  <1>3. PICK h : LinesInserted(list, t, first, last, h)
    BY LoadedSteps
  <1>4. /\ g[0] = front \o list
        /\ \A i \in 1..n : g[i] = InsertAll(g[i - 1], LineEvents(t[first + i - 1]))
        /\ Loaded(front \o list, t, first, last) = g[n]
    BY <1>2 DEF LinesInserted
  <1>5. /\ h[0] = list /\ h \in [0..n -> Seq(Event)]
        /\ \A i \in 1..n : h[i] = InsertAll(h[i - 1], LineEvents(t[first + i - 1]))
        /\ Loaded(list, t, first, last) = h[n]
    BY <1>3 DEF LinesInserted
  <1> HIDE DEF n
  <1> DEFINE P == {i \in 0..n : g[i] = front \o h[i]}
  <1>6. 0 \in P
    BY <1>1, <1>4, <1>5
  <1>7. ASSUME NEW i \in 1..n, i - 1 \in P PROVE i \in P
    <2>1. i \in 0..n /\ i - 1 \in 0..n /\ g[i - 1] = front \o h[i - 1]
      BY <1>1, <1>7
    <2> DEFINE c == t[first + i - 1]
    <2> DEFINE es == LineEvents(c)
    <2>2. h[i - 1] \in Seq(Event) /\ es \in Seq(Event)
      BY <1>1, <1>5, <2>1, LineFacts, EventFacts
    <2>3. \A j \in 1..Len(front) : \A k \in 1..Len(es) : front[j].time < es[k].time
      <3>1. c \in Contacts /\ \A j \in 1..Len(front) : front[j].time < c.begin
        BY <1>1
      <3>2. c.begin \in Nat /\ c.end \in Nat /\ c.begin <= c.end
        BY <3>1, SimulatorAssumption
      <3>3. \A j \in 1..Len(front) : front[j].time \in Nat
        BY EventFacts
      <3>4. Len(es) = 4 /\ \A k \in 1..4 : es[k].time \in {c.begin, c.end}
        BY DEF LineEvents, Up, Down
      <3> HIDE DEF c, es
      <3> TAKE j \in 1..Len(front)
      <3> TAKE k \in 1..Len(es)
      <3>5. front[j].time < c.begin /\ front[j].time \in Nat
        BY <3>1, <3>3
      <3>6. es[k].time = c.begin \/ es[k].time = c.end
        BY <3>4
      <3> QED
        BY <3>2, <3>5, <3>6
    <2> HIDE DEF es
    <2>4. InsertAll(front \o h[i - 1], es) = front \o InsertAll(h[i - 1], es)
      BY <2>2, <2>3, InsertedAllBehind
    <2> QED
      BY <1>4, <1>5, <2>1, <2>4 DEF es
  <1>8. P = 0..n
    <2>1. P \in SUBSET (0..n)
      OBVIOUS
    <2> HIDE DEF P
    <2> QED
      BY <1>1, <1>6, <1>7, <2>1, NumbersUpto
  <1>9. n \in P
    <2> HIDE DEF P
    <2> QED
      BY <1>1, <1>8
  <1> QED
    BY <1>4, <1>5, <1>9

\* Loading some lines and then the next ones is loading all of them.
LEMMA LoadedInTwo ==
    ASSUME NEW x \in Seq(Event), NEW t \in Traces, NEW first \in Nat \ {0},
           NEW mid \in 0..Len(t), NEW last \in 0..Len(t), first <= mid + 1, mid <= last
    PROVE  Loaded(Loaded(x, t, first, mid), t, mid + 1, last) = Loaded(x, t, first, last)
  <1> DEFINE a == mid + 1 - first
  <1> DEFINE b == last + 1 - (mid + 1)
  <1> DEFINE n == last + 1 - first
  <1> DEFINE y == Loaded(x, t, first, mid)
  <1>1. /\ a \in Nat /\ b \in Nat /\ n \in Nat /\ n = a + b /\ first <= last + 1
        /\ mid + 1 \in Nat \ {0} /\ mid + 1 <= last + 1 /\ first \in Nat /\ first + a = mid + 1
    BY TraceFacts
  <1>2. PICK f : LinesInserted(x, t, first, mid, f)
    BY LoadedSteps
  <1>3. /\ f[0] = x /\ f \in [0..a -> Seq(Event)]
        /\ \A i \in 1..a : f[i] = InsertAll(f[i - 1], LineEvents(t[first + i - 1]))
        /\ y = f[a]
    BY <1>2 DEF LinesInserted
  <1>4. y \in Seq(Event)
    <2>1. a \in 0..a
      BY <1>1
    <2> QED
      BY <1>3, <2>1
  <1> HIDE DEF y
  <1>5. PICK g : LinesInserted(y, t, mid + 1, last, g)
    BY <1>1, <1>4, LoadedSteps
  <1>6. /\ g[0] = y
        /\ \A i \in 1..b : g[i] = InsertAll(g[i - 1], LineEvents(t[mid + 1 + i - 1]))
        /\ Loaded(y, t, mid + 1, last) = g[b]
    BY <1>5 DEF LinesInserted
  <1>7. PICK h : LinesInserted(x, t, first, last, h)
    BY <1>1, LoadedSteps
  <1>8. /\ h[0] = x
        /\ \A i \in 1..n : h[i] = InsertAll(h[i - 1], LineEvents(t[first + i - 1]))
        /\ Loaded(x, t, first, last) = h[n]
    BY <1>7 DEF LinesInserted
  <1> HIDE DEF a, b, n
  <1> DEFINE P == {i \in 0..a : h[i] = f[i]}
  <1>9. P = 0..a
    <2>1. 0 \in P
      BY <1>1, <1>3, <1>8
    <2>2. ASSUME NEW i \in 1..a, i - 1 \in P PROVE i \in P
      <3>1. i \in 0..a /\ i \in 1..n /\ h[i - 1] = f[i - 1]
        BY <1>1, <2>2
      <3> QED
        BY <1>3, <1>8, <3>1
    <2>3. P \in SUBSET (0..a)
      OBVIOUS
    <2> HIDE DEF P
    <2> QED
      BY <1>1, <2>1, <2>2, <2>3, NumbersUpto
  <1>10. h[a] = y
    <2>1. a \in P
      <3> HIDE DEF P
      <3> QED
        BY <1>1, <1>9
    <2> QED
      BY <1>3, <2>1
  <1> DEFINE Q == {i \in 0..b : h[a + i] = g[i]}
  <1>11. Q = 0..b
    <2>1. 0 \in Q
      <3>1. a + 0 = a /\ 0 \in 0..b
        BY <1>1
      <3> QED
        BY <1>6, <1>10, <3>1
    <2>2. ASSUME NEW i \in 1..b, i - 1 \in Q PROVE i \in Q
      <3>1. /\ i \in 0..b /\ a + i \in 1..n /\ (a + i) - 1 = a + (i - 1)
            /\ first + (a + i) - 1 = mid + 1 + i - 1
        <4>1. i \in Nat /\ i >= 1 /\ i <= b /\ mid \in Nat
          BY <1>1
        <4> QED
          BY <1>1, <4>1
      <3>3. h[a + (i - 1)] = g[i - 1]
        BY <2>2
      <3>2. h[a + i] = InsertAll(h[a + (i - 1)], LineEvents(t[mid + 1 + i - 1]))
        <4>1. h[a + i] = InsertAll(h[(a + i) - 1], LineEvents(t[first + (a + i) - 1]))
          BY <1>8, <3>1
        <4> QED
          BY <3>1, <4>1
      <3> QED
        BY <1>6, <3>1, <3>2, <3>3
    <2>3. Q \in SUBSET (0..b)
      OBVIOUS
    <2> HIDE DEF Q
    <2> QED
      BY <1>1, <2>1, <2>2, <2>3, NumbersUpto
  <1>12. h[n] = g[b]
    <2>1. b \in Q
      <3> HIDE DEF Q
      <3> QED
        BY <1>1, <1>11
    <2> QED
      BY <1>1, <2>1
  <1> QED
    BY <1>6, <1>8, <1>12 DEF y

\* No lines: nothing is loaded.
LEMMA NoneLoaded ==
    ASSUME NEW x \in Seq(Event), NEW t \in Traces
    PROVE  Loaded(x, t, Len(t) + 1, Len(t)) = x
  <1> DEFINE first == Len(t) + 1
  <1>1. /\ Len(t) \in Nat /\ first \in Nat \ {0} /\ Len(t) \in 0..Len(t) /\ first <= Len(t) + 1
        /\ Len(t) + 1 - first = 0
    BY TraceFacts
  <1> HIDE DEF first
  <1>2. PICK h : LinesInserted(x, t, first, Len(t), h)
    BY <1>1, LoadedSteps
  <1> QED
    BY <1>1, <1>2 DEF LinesInserted, first

\* A sequence is a beginning of itself with another one behind it.
LEMMA PrefixOfBoth ==
    ASSUME NEW s \in Seq(Event), NEW l \in Seq(Event)
    PROVE  IsPrefix(s, s \o l)
  <1> DEFINE y == s \o l
  <1> DEFINE n == Len(s)
  <1>1. /\ y \in Seq(Event) /\ n \in Nat /\ n <= Len(y) /\ \A i \in 1..n : y[i] = s[i]
        /\ \A i \in 1..n : s[i] \in Event
    BY ConcatProperties
  <1> HIDE DEF y
  <1>2. /\ SubSeq(s, 1, n) \in Seq(Event) /\ Len(SubSeq(s, 1, n)) = n
        /\ \A i \in 1..n : SubSeq(s, 1, n)[i] = s[i]
    BY <1>1, SubSeqProperties
  <1>3. /\ SubSeq(y, 1, n) \in Seq(Event) /\ Len(SubSeq(y, 1, n)) = n
        /\ \A i \in 1..n : SubSeq(y, 1, n)[i] = y[i]
    BY <1>1, SubSeqProperties
  <1>4. SubSeq(s, 1, n) = SubSeq(y, 1, n)
    BY <1>1, <1>2, <1>3
  <1> QED
    BY <1>1, <1>4 DEF IsPrefix, y

\* An element may go from the beginning of one to the end of the other.
LEMMA MovedOver ==
    ASSUME NEW s \in Seq(Event), NEW l \in Seq(Event), l # <<>>
    PROVE  Append(s, Head(l)) \o Tail(l) = s \o l
  <1> DEFINE a == Append(s, Head(l))
  <1> DEFINE b == Tail(l)
  <1>1. /\ Len(s) \in Nat /\ Len(l) \in Nat \ {0} /\ b \in Seq(Event) /\ Len(b) = Len(l) - 1
        /\ Head(l) = l[1] /\ \A i \in 1..(Len(l) - 1) : b[i] = l[i + 1]
    BY TailFacts
  <1>2. /\ a \in Seq(Event) /\ Len(a) = Len(s) + 1
        /\ \A i \in 1..(Len(s) + 1) : a[i] = IF i <= Len(s) THEN s[i] ELSE l[1]
    <2>1. Head(l) \in Event
      BY TailFacts
    <2> QED
      BY <1>1, <2>1
  <1> HIDE DEF a, b
  <1> DEFINE x == a \o b
  <1> DEFINE y == s \o l
  <1> DEFINE n == Len(s) + Len(l)
  <1>3. /\ x \in Seq(Event) /\ Len(x) = n
        /\ \A i \in 1..n : x[i] = IF i <= Len(s) + 1 THEN a[i] ELSE b[i - (Len(s) + 1)]
    <2>1. /\ x \in Seq(Event) /\ Len(x) = Len(a) + Len(b)
          /\ \A i \in 1..(Len(a) + Len(b)) : x[i] = IF i <= Len(a) THEN a[i] ELSE b[i - Len(a)]
      BY <1>1, <1>2, ConcatProperties
    <2>2. Len(a) + Len(b) = n
      BY <1>1, <1>2
    <2> QED
      BY <1>2, <2>1, <2>2
  <1>4. /\ y \in Seq(Event) /\ Len(y) = n
        /\ \A i \in 1..n : y[i] = IF i <= Len(s) THEN s[i] ELSE l[i - Len(s)]
    BY ConcatProperties
  <1> HIDE DEF x, y
  <1>5. ASSUME NEW i \in 1..n PROVE x[i] = y[i]
    <2>0. i \in Nat /\ n \in Nat /\ Len(s) \in Nat
      BY <1>1
    <2>1. CASE i <= Len(s)
      <3>1. i \in 1..(Len(s) + 1) /\ i <= Len(s) + 1
        BY <2>0, <2>1
      <3>2. x[i] = a[i] /\ a[i] = s[i] /\ y[i] = s[i]
        BY <1>2, <1>3, <1>4, <2>1, <3>1
      <3> QED
        BY <3>2
    <2>2. CASE i = Len(s) + 1
      <3>1. i - Len(s) = 1 /\ ~(i <= Len(s)) /\ i \in 1..(Len(s) + 1)
        BY <2>0, <2>2
      <3>2. x[i] = l[1]
        BY <1>2, <1>3, <2>2, <3>1
      <3>3. y[i] = l[1]
        BY <1>4, <3>1
      <3> QED
        BY <3>2, <3>3
    <2>3. CASE i > Len(s) + 1
      <3>1. /\ i - (Len(s) + 1) \in 1..(Len(l) - 1) /\ (i - (Len(s) + 1)) + 1 = i - Len(s)
            /\ ~(i <= Len(s)) /\ ~(i <= Len(s) + 1)
        BY <1>1, <2>0, <2>3
      <3>2. x[i] = b[i - (Len(s) + 1)]
        BY <1>3, <3>1
      <3>3. b[i - (Len(s) + 1)] = l[i - Len(s)]
        BY <1>1, <3>1
      <3>4. y[i] = l[i - Len(s)]
        BY <1>4, <3>1
      <3> QED
        BY <3>2, <3>3, <3>4
    <2> QED
      BY <2>0, <2>1, <2>2, <2>3
  <1>6. x = y
    BY <1>3, <1>4, <1>5
  <1> QED
    BY <1>6 DEF x, y, a, b

-----------------------------------------------------------------------------
(* Contacts and packets of the application, taken out of the list.         *)

\* The list begins with p transmissions; behind them is real, with a
\* checkpoint of time t, if c = 1, behind the first k of it.
Bears(list, p, c, k, t, real) ==
    /\ real \in Seq(Quiet) /\ k \in 0..Len(real)
    /\ Len(list) = p + c + Len(real)
    /\ \A i \in 1..p : list[i].id = "Transmission" /\ list[i].a # APPLICATION
    /\ \A i \in 1..Len(real) : list[IF i <= k THEN p + i ELSE p + c + i] = real[i]
    /\ c = 1 => list[p + k + 1] = CheckPoint(t)

\* What is sent comes in front of it.
LEMMA BearsSent ==
    ASSUME NEW list, NEW y, NEW p \in Nat, NEW c \in {0, 1}, NEW k, NEW t, NEW real,
           Bears(list, p, c, k, t, real), NEW j \in Nat, Behind(list, j, y),
           \A i \in 1..j : y[i].id = "Transmission" /\ y[i].a # APPLICATION
    PROVE  Bears(y, p + j, c, k, t, real)
  <1>1. /\ Len(list) = p + c + Len(real) /\ Len(real) \in Nat /\ k \in 0..Len(real)
        /\ Len(y) = Len(list) + j /\ c \in Nat /\ k \in Nat
    BY DEF Bears, Behind
  <1>2. \A i \in 1..Len(list) : y[j + i] = list[i]
    BY DEF Behind
  <1>3. ASSUME NEW i \in 1..(p + j) PROVE y[i].id = "Transmission" /\ y[i].a # APPLICATION
    <2>1. CASE i <= j
      BY <2>1
    <2>2. CASE i > j
      <3>1. i - j \in 1..p /\ i - j \in 1..Len(list) /\ j + (i - j) = i
        BY <1>1, <2>2
      <3>2. y[i] = list[i - j]
        BY <1>2, <3>1
      <3> QED
        BY <3>1, <3>2 DEF Bears
    <2> QED
      BY <2>1, <2>2
  <1>4. ASSUME NEW i \in 1..Len(real)
        PROVE  y[IF i <= k THEN (p + j) + i ELSE (p + j) + c + i] = real[i]
    <2> DEFINE h == IF i <= k THEN p + i ELSE p + c + i
    <2>1. h \in 1..Len(list) /\ j + h = IF i <= k THEN (p + j) + i ELSE (p + j) + c + i
      BY <1>1
    <2>2. list[h] = real[i]
      BY DEF Bears
    <2> HIDE DEF h
    <2> QED
      BY <1>2, <2>1, <2>2
  <1>5. ASSUME c = 1 PROVE y[(p + j) + k + 1] = CheckPoint(t)
    <2>1. p + k + 1 \in 1..Len(list) /\ j + (p + k + 1) = (p + j) + k + 1
      BY <1>1, <1>5
    <2>2. list[p + k + 1] = CheckPoint(t)
      BY <1>5 DEF Bears
    <2>3. y[j + (p + k + 1)] = list[p + k + 1]
      BY <1>2, <2>1
    <2> QED
      BY <2>1, <2>2, <2>3
  <1>6. Len(y) = (p + j) + c + Len(real)
    BY <1>1
  <1> QED
    BY <1>3, <1>4, <1>5, <1>6 DEF Bears

\* What the head of the list is decides what is left without it.
LEMMA BearsPopped ==
    ASSUME NEW list \in Seq(Event), list # <<>>, NEW p \in Nat, NEW c \in {0, 1}, NEW k, NEW t,
           NEW real, Bears(list, p, c, k, t, real)
    PROVE  \/ /\ p > 0 /\ Head(list).id = "Transmission" /\ Head(list).a # APPLICATION
              /\ Bears(Tail(list), p - 1, c, k, t, real)
           \/ /\ p = 0 /\ c = 1 /\ k = 0 /\ Head(list) = CheckPoint(t) /\ Tail(list) = real
           \/ /\ p = 0 /\ real # <<>> /\ Head(list) = Head(real) /\ Head(list) \in Quiet
              /\ c = 1 => k > 0
              /\ Bears(Tail(list), 0, c, IF k = 0 THEN 0 ELSE k - 1, t, Tail(real))
  <1> DEFINE y == Tail(list)
  <1> DEFINE n == Len(real)
  <1>1. /\ y \in Seq(Event) /\ Len(list) \in Nat \ {0} /\ Len(y) = Len(list) - 1
        /\ \A i \in 1..(Len(list) - 1) : y[i] = list[i + 1]
        /\ Head(list) = list[1]
    BY TailFacts
  <1> HIDE DEF y
  <1>2. /\ Len(list) = p + c + n /\ real \in Seq(Quiet) /\ n \in Nat /\ k \in 0..n
        /\ \A i \in 1..p : list[i].id = "Transmission" /\ list[i].a # APPLICATION
        /\ \A i \in 1..n : list[IF i <= k THEN p + i ELSE p + c + i] = real[i]
        /\ c = 1 => list[p + k + 1] = CheckPoint(t)
    BY DEF Bears
  <1>3. c \in Nat /\ k \in Nat
    BY <1>2
  <1>4. CASE p > 0
    <2>1. \A i \in 1..(p - 1) : y[i].id = "Transmission" /\ y[i].a # APPLICATION
      <3> TAKE i \in 1..(p - 1)
      <3>1. i + 1 \in 1..p /\ y[i] = list[i + 1]
        BY <1>1, <1>2, <1>3
      <3> QED
        BY <1>2, <3>1
    <2>2. \A i \in 1..n : y[IF i <= k THEN (p - 1) + i ELSE (p - 1) + c + i] = real[i]
      <3> TAKE i \in 1..n
      <3> DEFINE h == IF i <= k THEN p + i ELSE p + c + i
      <3>1. /\ h - 1 \in 1..(Len(list) - 1) /\ (h - 1) + 1 = h
            /\ h - 1 = IF i <= k THEN (p - 1) + i ELSE (p - 1) + c + i
        BY <1>1, <1>2, <1>3, <1>4
      <3>2. list[h] = real[i]
        BY <1>2
      <3> HIDE DEF h
      <3>3. y[h - 1] = real[i]
        BY <1>1, <3>1, <3>2
      <3> QED
        BY <3>1, <3>3
    <2>3. c = 1 => y[(p - 1) + k + 1] = CheckPoint(t)
      <3> SUFFICES ASSUME c = 1 PROVE y[(p - 1) + k + 1] = CheckPoint(t)
        OBVIOUS
      <3>1. /\ (p - 1) + k + 1 \in 1..(Len(list) - 1)
            /\ ((p - 1) + k + 1) + 1 = p + k + 1
        BY <1>1, <1>2, <1>3, <1>4
      <3>2. y[(p - 1) + k + 1] = list[p + k + 1]
        BY <1>1, <3>1
      <3> QED
        BY <1>2, <3>2
    <2>4. Len(y) = (p - 1) + c + n
      BY <1>1, <1>2, <1>3
    <2>5. Bears(y, p - 1, c, k, t, real)
      BY <1>2, <2>1, <2>2, <2>3, <2>4 DEF Bears
    <2>6. Head(list).id = "Transmission" /\ Head(list).a # APPLICATION
      BY <1>1, <1>2, <1>4
    <2> QED
      BY <1>4, <2>5, <2>6 DEF y
  <1>5. CASE p = 0 /\ c = 1 /\ k = 0
    <2>1. Head(list) = CheckPoint(t)
      BY <1>1, <1>2, <1>5
    <2>2. Len(y) = n
      BY <1>1, <1>2, <1>5
    <2>3. \A i \in 1..n : y[i] = real[i]
      <3> TAKE i \in 1..n
      <3>1. ~(i <= k) /\ p + c + i = i + 1 /\ i \in 1..(Len(list) - 1)
        BY <1>1, <1>2, <1>5
      <3> QED
        BY <1>1, <1>2, <3>1
    <2>4. y = real
      BY <1>1, <1>2, <2>2, <2>3
    <2> QED
      BY <1>5, <2>1, <2>4 DEF y
  <1>6. CASE p = 0 /\ ~(c = 1 /\ k = 0)
    <2>1. n > 0
      BY <1>1, <1>2, <1>3, <1>6
    <2>2. list[1] = real[1]
      <3>1. 1 \in 1..n /\ (IF 1 <= k THEN p + 1 ELSE p + c + 1) = 1
        BY <1>2, <1>3, <1>6, <2>1
      <3> QED
        BY <1>2, <3>1
    <2> DEFINE z == Tail(real)
    <2>3. /\ real # <<>> /\ Head(real) = real[1] /\ real[1] \in Quiet
          /\ z \in Seq(Quiet) /\ Len(z) = n - 1 /\ \A i \in 1..(n - 1) : z[i] = real[i + 1]
      BY <1>2, <2>1
    <2> HIDE DEF z
    <2> DEFINE j == IF k = 0 THEN 0 ELSE k - 1
    <2>4. \A i \in 1..(n - 1) : y[IF i <= j THEN 0 + i ELSE 0 + c + i] = z[i]
      <3> TAKE i \in 1..(n - 1)
      <3> DEFINE h == IF i + 1 <= k THEN p + (i + 1) ELSE p + c + (i + 1)
      <3>1. list[h] = z[i]
        <4>1. i + 1 \in 1..n
          BY <1>2
        <4> QED
          BY <1>2, <2>3, <4>1
      <3>2. /\ h - 1 \in 1..(Len(list) - 1) /\ (h - 1) + 1 = h
            /\ h - 1 = IF i <= j THEN 0 + i ELSE 0 + c + i
        BY <1>2, <1>3, <1>6
      <3> HIDE DEF h, j
      <3>3. y[h - 1] = list[h]
        BY <1>1, <3>2
      <3> QED
        BY <3>1, <3>2, <3>3
    <2>5. c = 1 => y[0 + j + 1] = CheckPoint(t)
      <3> SUFFICES ASSUME c = 1 PROVE y[0 + j + 1] = CheckPoint(t)
        OBVIOUS
      <3>1. k > 0 /\ 0 + j + 1 = k /\ k \in 1..(Len(list) - 1) /\ p + k + 1 = k + 1
        BY <1>2, <1>3, <1>6
      <3>2. y[k] = list[k + 1]
        BY <1>1, <3>1
      <3> QED
        BY <1>2, <3>1, <3>2
    <2>6. Len(y) = 0 + c + (n - 1) /\ j \in 0..(n - 1)
      BY <1>1, <1>2, <1>3, <1>6, <2>1
    <2>7. Bears(y, 0, c, j, t, z)
      BY <2>3, <2>4, <2>5, <2>6 DEF Bears
    <2>8. c = 1 => k > 0
      BY <1>2, <1>6
    <2> QED
      BY <1>1, <1>6, <2>2, <2>3, <2>7, <2>8 DEF y, z
  <1> QED
    BY <1>4, <1>5, <1>6

-----------------------------------------------------------------------------
(* The order of what is handled.                                           *)

\* When the first line begins that has not been read.
NextBegin == trace[StopLine(CurrentReadBlock) + 1].begin

\* Of contacts and packets of the application, what has been handled, what
\* is in the list (real) and what remains to be read give the complete
\* order; as long as something remains, a checkpoint stands before it, and
\* what is before the checkpoint is earlier.
InSequence(p, c, k, real) ==
    /\ Bears(SimList, p, c, k, NextBegin, real)
    /\ pc = "load" => p = 0 /\ c = 0 /\ CurrentReadBlock = 0 /\ handled = <<>>
    /\ c = 1 => /\ Split \in Nat \ {0, 1} /\ CurrentReadBlock \in 1..(Split - 1)
                /\ StopLine(CurrentReadBlock) < Lines
                /\ \A i \in 1..Len(handled) : handled[i].time < NextBegin
                /\ \A i \in 1..k : real[i].time < NextBegin
    /\ Loaded(handled \o real, trace, LinesRead(c) + 1, Lines) = Complete

OInv ==
    /\ SameOrder
    /\ pc # "abort" => \E p \in Nat : \E c \in {0, 1} : \E k, real : InSequence(p, c, k, real)

\* The lines of a trace begin one after the other.
LEMMA BeginsInOrder ==
    ASSUME NEW t \in Traces, NEW i \in 1..Len(t), NEW j \in 1..Len(t), i <= j
    PROVE  t[i].begin <= t[j].begin
  <1>1. PICK n \in Lengths : t \in [1..n -> Contacts]
    BY DEF Traces
  <1>2. n \in Nat /\ DOMAIN t = 1..Len(t) /\ \A x \in 1..Len(t) : t[x].begin \in Nat
    BY <1>1, SimulatorAssumption, TraceFacts
  <1>3. \A x, y \in DOMAIN t : x < y => t[x].begin <= t[y].begin
    BY DEF Traces
  <1> QED
    BY <1>2, <1>3

\* What is earlier than the lines still to be read is a beginning of what
\* there is when they have been.
LEMMA FirstIsPrefix ==
    ASSUME NEW t \in Traces, NEW front \in Seq(Event), NEW real \in Seq(Event),
           NEW first \in Nat \ {0}, first <= Len(t) + 1,
           \A i \in 1..Len(front) : \A j \in first..Len(t) : front[i].time < t[j].begin
    PROVE  IsPrefix(front, Loaded(front \o real, t, first, Len(t)))
  <1>1. Len(t) \in Nat /\ Len(t) \in 0..Len(t)
    BY TraceFacts
  <1>2. Loaded(front \o real, t, first, Len(t)) = front \o Loaded(real, t, first, Len(t))
    BY <1>1, LoadedBehind
  <1>3. Loaded(real, t, first, Len(t)) \in Seq(Event)
    <2>1. PICK h : LinesInserted(real, t, first, Len(t), h)
      BY <1>1, LoadedSteps
    <2>2. Len(t) + 1 - first \in 0..(Len(t) + 1 - first)
      BY <1>1
    <2> QED
      BY <2>1, <2>2 DEF LinesInserted
  <1> QED
    BY <1>2, <1>3, PrefixOfBoth

\* A list without transmissions and checkpoint.
LEMMA BearsAlone ==
    ASSUME NEW list \in Seq(Event), NEW k, NEW t, NEW real, Bears(list, 0, 0, k, t, real)
    PROVE  list = real /\ real \in Seq(Quiet)
  <1>1. /\ real \in Seq(Quiet) /\ k \in 0..Len(real) /\ Len(list) = 0 + 0 + Len(real)
        /\ \A i \in 1..Len(real) : list[IF i <= k THEN 0 + i ELSE 0 + 0 + i] = real[i]
    BY DEF Bears
  <1>2. \A i \in 1..Len(real) : list[i] = real[i]
    <2> TAKE i \in 1..Len(real)
    <2>1. (IF i <= k THEN 0 + i ELSE 0 + 0 + i) = i
      OBVIOUS
    <2> QED
      BY <1>1, <2>1
  <1>3. Len(list) = Len(real)
    BY <1>1
  <1> QED
    BY <1>1, <1>2, <1>3

\* The list without its head is in order.
LEMMA TailInOrder ==
    ASSUME NEW list \in Seq(Event), list # <<>>, InOrderOfTime(list)
    PROVE  InOrderOfTime(Tail(list))
  <1> SUFFICES ASSUME NEW i \in 1..Len(Tail(list)), NEW j \in 1..Len(Tail(list)), i <= j
               PROVE  Tail(list)[i].time <= Tail(list)[j].time
    BY DEF InOrderOfTime
  <1>1. /\ Len(list) \in Nat \ {0} /\ Len(Tail(list)) = Len(list) - 1
        /\ \A x \in 1..(Len(list) - 1) : Tail(list)[x] = list[x + 1]
    BY TailFacts
  <1>2. /\ i + 1 \in 1..Len(list) /\ j + 1 \in 1..Len(list) /\ i + 1 <= j + 1
        /\ Tail(list)[i] = list[i + 1] /\ Tail(list)[j] = list[j + 1]
    BY <1>1
  <1> QED
    BY <1>2 DEF InOrderOfTime

\* At first nothing has been handled, and the packets of the application are
\* in the list.
LEMMA OInvInit == Init => OInv
  <1> SUFFICES ASSUME Init PROVE OInv
    OBVIOUS
  <1>1. trace \in Traces /\ Lines \in Nat
    BY TraceFacts DEF Init, Lines
  <1>2. SimList \in Seq(Quiet) /\ SimList \in Seq(Event) /\ Len(SimList) \in Nat
    <2>1. <<>> \in Lists(0)
      BY DEF Lists, InOrderOfTime
    <2>2. AppEvents(traffic) \in Seq(Quiet) /\ Len(AppEvents(traffic)) \in Nat
      BY TrafficFacts DEF Init
    <2>3. SimList \in Lists(0 + Len(AppEvents(traffic)))
      BY <2>1, <2>2, QuietInsertedAll DEF Init
    <2> QED
      BY <2>3, EventFacts DEF Lists
  <1>3. /\ handled = <<>> /\ pc = "load" /\ CurrentReadBlock = 0
        /\ SimList = InsertAll(<<>>, AppEvents(traffic))
    BY DEF Init
  <1>4. handled \o SimList = SimList
    BY <1>2, <1>3
  <1>5. LinesRead(0) = 0
    BY <1>3 DEF LinesRead
  <1>6. Loaded(handled \o SimList, trace, LinesRead(0) + 1, Lines) = Complete
    <2>1. LinesRead(0) + 1 = 1
      BY <1>5
    <2> QED
      BY <1>3, <1>4, <2>1 DEF Complete
  <1>7. Bears(SimList, 0, 0, 0, NextBegin, SimList)
    <2>1. \A i \in 1..Len(SimList) : ~(i <= 0) /\ 0 + 0 + i = i
      BY <1>2
    <2> QED
      BY <1>2, <2>1 DEF Bears
  <1>8. InSequence(0, 0, 0, SimList)
    BY <1>3, <1>6, <1>7 DEF InSequence
  <1>9. SameOrder
    <2>1. handled \in Seq(Event) /\ Len(handled) = 0
      BY <1>3
    <2>2. 1 \in Nat \ {0} /\ 1 <= Len(trace) + 1 /\ Lines = Len(trace)
      BY <1>1 DEF Lines
    <2>3. IsPrefix(handled, Loaded(handled \o SimList, trace, 1, Len(trace)))
      <3>1. \A i \in 1..Len(handled) : \A j \in 1..Len(trace) :
               handled[i].time < trace[j].begin
        BY <2>1
      <3> QED
        BY <1>1, <1>2, <2>1, <2>2, <3>1, FirstIsPrefix
    <2>4. LinesRead(0) + 1 = 1
      BY <1>5
    <2> QED
      BY <1>6, <2>2, <2>3, <2>4 DEF SameOrder
  <1> QED
    BY <1>8, <1>9 DEF OInv

\* Loading the whole trace.
LEMMA OrderComplete ==
    ASSUME IInv, OInv, LoadCompleteContacts PROVE OInv'
  <1>1. /\ pc = "load" /\ pc' = "run" /\ SimList' = Loaded(SimList, trace, 1, Lines)
        /\ UNCHANGED <<trace, traffic, Split, CurrentTime, N, CurrentReadBlock, sends, handled>>
    BY DEF LoadCompleteContacts
  <1>a. PICK p \in Nat, c \in {0, 1} : \E k, real : InSequence(p, c, k, real)
    BY <1>1 DEF OInv
  <1>2. PICK k, real : InSequence(p, c, k, real)
    BY <1>a
  <1>3. /\ p = 0 /\ c = 0 /\ handled = <<>> /\ Bears(SimList, 0, 0, k, NextBegin, real)
        /\ Loaded(handled \o real, trace, LinesRead(0) + 1, Lines) = Complete
    BY <1>1, <1>2 DEF InSequence
  <1>4. Lines \in Nat /\ Len(traffic) \in Nat /\ trace \in Traces
    BY ValueFacts DEF IInv, Values
  <1>5. SimList = real /\ real \in Seq(Quiet)
    <2>1. SimList \in Seq(Event)
      BY DEF IInv, Progress, Shape
    <2> QED
      BY <1>3, <2>1, BearsAlone
  <1>6. SimList' \in Lists(Len(SimList) + 4 * (Lines + 1 - 1))
    <2>1. 1 \in Nat \ {0} /\ Lines \in 0..Len(trace) /\ 1 <= Lines + 1
      BY <1>4 DEF Lines
    <2>2. SimList \in Lists(Len(SimList)) /\ Len(SimList) \in Nat
      <3>1. SimList \in Seq(Event) /\ InOrderOfTime(SimList)
        BY DEF IInv, Progress, Shape
      <3> QED
        BY <1>5, <3>1 DEF Lists
    <2> QED
      BY <1>1, <1>4, <2>1, <2>2, LoadedWorks
  <1>7. SimList' \in Seq(Quiet) /\ SimList' \in Seq(Event)
    BY <1>6, EventFacts DEF Lists
  <1>8. SimList' = Complete
    <2>1. LinesRead(0) + 1 = 1
      BY <1>1 DEF LinesRead
    <2>2. handled \o real = SimList
      BY <1>3, <1>5
    <2> QED
      BY <1>1, <1>3, <2>1, <2>2
  <1>9. Complete' = Complete /\ Lines' = Lines /\ handled' = <<>>
    BY <1>1, <1>3 DEF Complete, Lines
  <1>10. Loaded(handled' \o SimList', trace', LinesRead(0)' + 1, Lines') = Complete'
    <2>1. LinesRead(0)' + 1 = Len(trace) + 1 /\ Lines' = Len(trace)
      BY <1>1, <1>9 DEF LinesRead, Lines
    <2>2. handled' \o SimList' = SimList'
      BY <1>7, <1>9
    <2>3. Loaded(SimList', trace, Len(trace) + 1, Len(trace)) = SimList'
      BY <1>4, <1>7, NoneLoaded
    <2> QED
      BY <1>1, <1>8, <1>9, <2>1, <2>2, <2>3
  <1>11. Bears(SimList', 0, 0, 0, NextBegin', SimList')
    <2>1. \A i \in 1..Len(SimList') : ~(i <= 0) /\ 0 + 0 + i = i
      BY <1>7
    <2>2. Len(SimList') \in Nat
      BY <1>7
    <2> QED
      BY <1>7, <2>1, <2>2 DEF Bears
  <1>12. InSequence(0, 0, 0, SimList)'
    BY <1>1, <1>10, <1>11 DEF InSequence
  <1>13. SameOrder'
    BY <1>1, <1>9 DEF OInv, SameOrder
  <1> QED
    BY <1>12, <1>13 DEF OInv

\* Loading some lines behind what is earlier, and then the others behind both.
LEMMA NextLoaded ==
    ASSUME NEW front \in Seq(Event), NEW list \in Seq(Event), NEW t \in Traces,
           NEW first \in Nat \ {0}, NEW last \in 0..Len(t), first <= last + 1,
           \A i \in 1..Len(front) : \A j \in first..last : front[i].time < t[j].begin
    PROVE  Loaded(front \o Loaded(list, t, first, last), t, last + 1, Len(t))
             = Loaded(front \o list, t, first, Len(t))
  <1>1. front \o list \in Seq(Event) /\ Len(t) \in 0..Len(t) /\ last <= Len(t)
    BY TraceFacts
  <1>2. Loaded(front \o list, t, first, last) = front \o Loaded(list, t, first, last)
    BY LoadedBehind
  <1>3. Loaded(Loaded(front \o list, t, first, last), t, last + 1, Len(t))
          = Loaded(front \o list, t, first, Len(t))
    BY <1>1, LoadedInTwo
  <1> QED
    BY <1>2, <1>3

\* Loading the next block behind what has been handled.
LEMMA PartOrder ==
    ASSUME trace \in Traces, traffic \in Traffics, handled \in Seq(Event),
           Split \in Nat \ {0, 1}, CurrentReadBlock \in 0..(Split - 1),
           NEW m \in Nat, NEW list \in Lists(m),
           CurrentReadBlock * ReadBlockSize < Lines =>
              \A i \in 1..Len(handled) :
                 handled[i].time < trace[CurrentReadBlock * ReadBlockSize + 1].begin,
           Loaded(handled \o list, trace, CurrentReadBlock * ReadBlockSize + 1, Lines) = Complete,
           SameOrder, LoadPartialContacts(list),
           UNCHANGED <<trace, traffic, Split, handled>>
    PROVE  OInv'
  <1> DEFINE b == CurrentReadBlock
  <1> DEFINE r == ReadBlockSize
  <1>1. Lines \in Nat /\ Lines = Len(trace) /\ \A i \in 1..Lines : trace[i].begin \in Nat
    BY TraceFacts DEF Lines
  <1>2. /\ r \in Nat /\ b * r \in Nat /\ b * r <= (b + 1) * r /\ (b + 1) * r <= Lines
        /\ StartLine(b + 1) = b * r + 1
        /\ StopLine(b + 1) = (IF b + 1 = Split THEN Lines ELSE (b + 1) * r)
        /\ b + 1 < Split /\ StartLine(b + 1) < Lines => (b + 1) * r < Lines
    BY <1>1, BlockFacts
  <1>3. b \in Nat /\ b + 1 \in 1..Split /\ (b + 1 < Split => b + 1 \in 1..(Split - 1))
        /\ (b + 1 = Split \/ b + 1 < Split)
    OBVIOUS
  <1> DEFINE first == StartLine(b + 1)
  <1> DEFINE last == StopLine(b + 1)
  <1> DEFINE read == Loaded(list, trace, first, last)
  <1>4. CurrentReadBlock' = b + 1
    BY DEF LoadPartialContacts
  <1>5. /\ Complete' = Complete /\ Lines' = Lines
        /\ StopLine(CurrentReadBlock)' = last
    <2>1. Lines' = Lines /\ ReadBlockSize' = ReadBlockSize /\ Split' = Split
      BY DEF Lines, ReadBlockSize
    <2>2. Complete' = Complete
      BY <2>1 DEF Complete
    <2>3. StopLine(CurrentReadBlock)' = StopLine(b + 1)
      BY <1>4, <2>1 DEF StopLine
    <2> QED
      BY <2>1, <2>2, <2>3
  <1>6. SameOrder'
    BY <1>5 DEF SameOrder
  <1>7. CASE first >= Lines
    <2>1. pc' = "abort"
      BY <1>7 DEF LoadPartialContacts
    <2> QED
      BY <1>6, <2>1 DEF OInv
  <1>8. CASE first < Lines
    <2>1. /\ pc' = "run"
          /\ SimList' = IF b + 1 < Split THEN WithCheckPoint(read, trace[last + 1].begin)
                        ELSE read
      <3>1. ~(first >= Lines)
        BY <1>1, <1>2, <1>8
      <3> QED
        BY <3>1 DEF LoadPartialContacts
    <2>2. /\ first \in Nat \ {0} /\ last \in 0..Lines /\ first <= last + 1
          /\ last \in Nat /\ first <= Lines + 1 /\ first = b * r + 1
      <3>1. /\ first = b * r + 1 /\ first < Lines
            /\ last = IF b + 1 = Split THEN Lines ELSE (b + 1) * r
        BY <1>2, <1>8
      <3>2. PICK u \in Nat : u = b * r
        BY <1>2
      <3>3. PICK w \in Nat : w = (b + 1) * r
        BY <1>2, <1>3
      <3>4. u <= w /\ w <= Lines
        BY <1>2, <3>2, <3>3
      <3> HIDE DEF first, last, r, b
      <3>5. first = u + 1 /\ (last = Lines \/ last = w)
        BY <3>1, <3>2, <3>3
      <3> QED
        BY <1>1, <3>1, <3>2, <3>4, <3>5
    <2>3. list \in Seq(Event) /\ handled \o list \in Seq(Event)
      <3>1. list \in Seq(Event)
        BY EventFacts DEF Lists
      <3> QED
        BY <3>1
    <2>4. \E h \in Nat : read \in Lists(h)
      <3>1. last \in 0..Len(trace) /\ last + 1 - first \in Nat
        <4> HIDE DEF first, last
        <4> QED
          BY <1>1, <2>2
      <3> HIDE DEF first, last
      <3>2. Loaded(list, trace, first, last) \in Lists(m + 4 * (last + 1 - first))
        BY <2>2, <3>1, LoadedWorks
      <3>3. m + 4 * (last + 1 - first) \in Nat
        BY <3>1
      <3> QED
        BY <3>2, <3>3
    <2>5. read \in Seq(Quiet) /\ read \in Seq(Event) /\ Len(read) \in Nat
      <3> HIDE DEF read
      <3> QED
        BY <2>4, EventFacts DEF Lists
    <2>6. \A i \in 1..Len(handled) : \A j \in first..Lines : handled[i].time < trace[j].begin
      <3> TAKE i \in 1..Len(handled)
      <3> TAKE j \in first..Lines
      <3>1. b * r < Lines /\ b * r + 1 \in 1..Lines /\ b * r + 1 <= j /\ j \in 1..Lines
        <4> HIDE DEF b, r, first
        <4> QED
          BY <1>1, <1>2, <1>8, <2>2
      <3>2. handled[i].time < trace[b * r + 1].begin
        BY <3>1
      <3>3. trace[b * r + 1].begin <= trace[j].begin
        BY <1>1, <3>1, BeginsInOrder
      <3>4. handled[i].time \in Nat /\ trace[b * r + 1].begin \in Nat /\ trace[j].begin \in Nat
        BY <1>1, <3>1, EventFacts
      <3> QED
        BY <3>2, <3>3, <3>4
    <2>7. Loaded(handled \o read, trace, last + 1, Lines) = Complete
      <3>1. \A i \in 1..Len(handled) : \A j \in first..last : handled[i].time < trace[j].begin
        <4>1. \A j \in first..last : j \in first..Lines
          <5> HIDE DEF first, last
          <5> QED
            BY <1>1, <2>2
        <4> HIDE DEF first, last
        <4> QED
          BY <2>6, <4>1
      <3>2. last \in 0..Len(trace) /\ Lines \in 0..Len(trace) /\ last <= Lines
        <4> HIDE DEF first, last
        <4> QED
          BY <1>1, <2>2
      <3>3. Loaded(handled \o list, trace, first, Lines) = Complete
        BY <2>2
      <3>6. /\ trace \in Traces /\ handled \in Seq(Event) /\ list \in Seq(Event)
            /\ handled \o list \in Seq(Event) /\ first \in Nat \ {0} /\ first <= last + 1
        BY <2>2, <2>3
      <3>4. Loaded(handled \o read, trace, last + 1, Len(trace))
              = Loaded(handled \o list, trace, first, Len(trace))
        <4> HIDE DEF first, last
        <4> QED
          BY ONLY <3>1, <3>2, <3>6, NextLoaded DEF read
      <3> QED
        BY <1>1, <3>3, <3>4
    <2> HIDE DEF first, last, read
    <2>8. CASE b + 1 = Split
      <3>1. SimList' = read /\ last = Lines
        BY <1>2, <1>3, <2>1, <2>8 DEF last
      <3>2. LinesRead(0)' = Lines
        BY <1>5, <2>1 DEF LinesRead
      <3>4. Bears(SimList', 0, 0, 0, NextBegin', read)
        <4>1. \A i \in 1..Len(read) : ~(i <= 0) /\ 0 + 0 + i = i
          BY <2>5
        <4> QED
          BY <2>5, <3>1, <4>1 DEF Bears
      <3>5. pc' # "load"
        BY <2>1
      <3>6. Loaded(handled' \o read, trace', LinesRead(0)' + 1, Lines') = Complete'
        BY <1>5, <2>7, <3>1, <3>2
      <3>7. \E real : /\ Bears(SimList', 0, 0, 0, NextBegin', real)
                      /\ Loaded(handled' \o real, trace', LinesRead(0)' + 1, Lines') = Complete'
        BY <3>4, <3>6
      <3>8. PICK real : /\ Bears(SimList', 0, 0, 0, NextBegin', real)
                        /\ Loaded(handled' \o real, trace', LinesRead(0)' + 1, Lines') = Complete'
        BY <3>7
      <3>9. InSequence(0, 0, 0, real)'
        BY <3>5, <3>8 DEF InSequence
      <3> QED
        BY <1>6, <3>9 DEF OInv
    <2>9. CASE b + 1 < Split
      <3>1. last = (b + 1) * r /\ last < Lines
        BY <1>2, <1>3, <1>8, <2>9 DEF last, first
      <3> DEFINE t == trace[last + 1].begin
      <3> DEFINE e == CheckPoint(t)
      <3>2. last + 1 \in 1..Lines /\ t \in Nat
        BY <1>1, <2>2, <3>1
      <3>3. SimList' = Insertion(read, e)
        BY <2>1, <2>9 DEF WithCheckPoint
      <3>4. e \in Event /\ e.time = t
        <4>1. e \in Points
          BY <3>2 DEF CheckPoint, Points
        <4> QED
          BY <4>1, EventFacts DEF CheckPoint
      <3> HIDE DEF e
      <3>5. PICK j \in 1..(Len(read) + 1) :
               /\ IsPlace(j, read, t)
               /\ Len(SimList') = Len(read) + 1
               /\ \A i \in 1..(Len(read) + 1) :
                     SimList'[i] = IF i < j THEN read[i] ELSE IF i = j THEN e ELSE read[i - 1]
        <4>1. PICK j \in 1..(Len(read) + 1) :
               /\ IsPlace(j, read, e.time)
               /\ Len(Insertion(read, e)) = Len(read) + 1
               /\ \A i \in 1..(Len(read) + 1) :
                     Insertion(read, e)[i] = IF i < j THEN read[i]
                                             ELSE IF i = j THEN e ELSE read[i - 1]
          BY <2>5, <3>4, Inserted
        <4> QED
          BY <3>3, <3>4, <4>1
      <3> DEFINE k == j - 1
      <3>6. /\ k \in 0..Len(read) /\ \A i \in 1..k : read[i].time < t
        BY <2>5, <3>5 DEF IsPlace
      <3>7. Bears(SimList', 0, 1, k, t, read)
        <4>1. ASSUME NEW i \in 1..Len(read)
              PROVE  SimList'[IF i <= k THEN 0 + i ELSE 0 + 1 + i] = read[i]
          <5>1. CASE i <= k
            <6>1. i < j /\ i \in 1..(Len(read) + 1)
              BY <2>5, <5>1
            <6> QED
              BY <3>5, <5>1, <6>1
          <5>2. CASE ~(i <= k)
            <6>1. /\ ~(i + 1 < j) /\ i + 1 # j /\ i + 1 \in 1..(Len(read) + 1)
                  /\ 0 + 1 + i = i + 1 /\ (i + 1) - 1 = i
              BY <2>5, <5>2
            <6>2. SimList'[i + 1] = read[(i + 1) - 1]
              BY <3>5, <6>1
            <6> QED
              BY <5>2, <6>1, <6>2
          <5> QED
            BY <5>1, <5>2
        <4>2. SimList'[0 + k + 1] = CheckPoint(t)
          <5>1. 0 + k + 1 = j /\ ~(j < j)
            BY <2>5
          <5> QED
            BY <3>5, <5>1 DEF e
        <4>3. Len(SimList') = 0 + 1 + Len(read)
          BY <2>5, <3>5
        <4> QED
          BY <2>5, <3>6, <4>1, <4>2, <4>3 DEF Bears
      <3>8. NextBegin' = t
        BY <1>5 DEF NextBegin
      <3>9. LinesRead(1)' = last
        BY <1>5, <2>1 DEF LinesRead
      <3>10. \A i \in 1..Len(handled) : handled[i].time < t
        <4> TAKE i \in 1..Len(handled)
        <4>1. last + 1 \in first..Lines
          BY <1>1, <2>2, <3>2
        <4> QED
          BY <2>6, <4>1
      <3>11. Split' \in Nat \ {0, 1} /\ CurrentReadBlock' \in 1..(Split' - 1)
        BY <1>3, <1>4, <2>9
      <3>12. StopLine(CurrentReadBlock)' < Lines'
        BY <1>5, <3>1
      <3>13. Loaded(handled' \o read, trace', LinesRead(1)' + 1, Lines') = Complete'
        BY <1>5, <2>7, <3>9
      <3> HIDE DEF k, t
      <3>14. \E x, real : /\ Bears(SimList', 0, 1, x, NextBegin', real)
                          /\ \A i \in 1..x : real[i].time < NextBegin'
                          /\ Loaded(handled' \o real, trace', LinesRead(1)' + 1, Lines') = Complete'
        BY <3>6, <3>7, <3>8, <3>13
      <3>15. PICK x, real : /\ Bears(SimList', 0, 1, x, NextBegin', real)
                            /\ \A i \in 1..x : real[i].time < NextBegin'
                            /\ Loaded(handled' \o real, trace', LinesRead(1)' + 1, Lines') = Complete'
        BY <3>14
      <3>16. \A i \in 1..Len(handled') : handled'[i].time < NextBegin'
        BY <3>8, <3>10
      <3>17. pc' # "load"
        BY <2>1
      <3>18. InSequence(0, 1, x, real)'
        <4>1. Bears(SimList, 0, 1, x, NextBegin, real)'
          BY <3>15
        <4>2. (pc = "load" => 0 = 0 /\ 1 = 0 /\ CurrentReadBlock = 0 /\ handled = <<>>)'
          BY <3>17
        <4>3. (/\ Split \in Nat \ {0, 1} /\ CurrentReadBlock \in 1..(Split - 1)
               /\ StopLine(CurrentReadBlock) < Lines
               /\ \A i \in 1..Len(handled) : handled[i].time < NextBegin
               /\ \A i \in 1..x : real[i].time < NextBegin)'
          BY <3>11, <3>12, <3>15, <3>16
        <4>4. (Loaded(handled \o real, trace, LinesRead(1) + 1, Lines) = Complete)'
          BY <3>15
        <4> QED
          BY ONLY <4>1, <4>2, <4>3, <4>4 DEF InSequence
      <3> QED
        BY <1>6, <3>18 DEF OInv
    <2> QED
      BY <1>3, <2>8, <2>9
  <1>9. first \in Nat
    BY <1>2
  <1> QED
    BY <1>1, <1>7, <1>8, <1>9

\* Loading the first block.
LEMMA OrderFirst ==
    ASSUME IInv, OInv, LoadFirstBlock PROVE OInv'
  <1>1. /\ pc = "load" /\ Split \notin {NOTSET, 1} /\ LoadPartialContacts(SimList)
        /\ UNCHANGED <<trace, traffic, Split, CurrentTime, N, sends, handled>>
    BY DEF LoadFirstBlock
  <1>a. PICK p \in Nat, c \in {0, 1} : \E k, real : InSequence(p, c, k, real)
    BY <1>1 DEF OInv
  <1>2. PICK k, real : InSequence(p, c, k, real)
    BY <1>a
  <1>3. /\ p = 0 /\ c = 0 /\ handled = <<>> /\ CurrentReadBlock = 0
        /\ Bears(SimList, 0, 0, k, NextBegin, real)
        /\ Loaded(handled \o real, trace, LinesRead(0) + 1, Lines) = Complete
    BY <1>1, <1>2 DEF InSequence
  <1>4. /\ Lines \in Nat /\ trace \in Traces /\ traffic \in Traffics
        /\ Split \in Nat \ {0, 1} /\ handled \in Seq(Event)
    BY <1>1, ValueFacts DEF IInv, Values
  <1>5. SimList \in Seq(Event) /\ InOrderOfTime(SimList)
    BY DEF IInv, Progress, Shape
  <1>6. SimList = real /\ real \in Seq(Quiet) /\ SimList \in Lists(Len(SimList))
        /\ Len(SimList) \in Nat
    <2>1. SimList = real /\ real \in Seq(Quiet)
      BY <1>3, <1>5, BearsAlone
    <2> QED
      BY <1>5, <2>1 DEF Lists
  <1>7. CurrentReadBlock \in 0..(Split - 1) /\ CurrentReadBlock * ReadBlockSize = 0
    <2>1. ReadBlockSize \in Nat
      <3>1. 0 \in 0..(Split - 1)
        BY <1>4
      <3> QED
        BY <1>4, <3>1, BlockFacts
    <2> QED
      BY <1>3, <1>4, <2>1
  <1>8. LinesRead(0) = 0
    BY <1>1 DEF LinesRead
  <1>9. Loaded(handled \o SimList, trace, CurrentReadBlock * ReadBlockSize + 1, Lines) = Complete
    BY <1>3, <1>6, <1>7, <1>8
  <1>10. CurrentReadBlock * ReadBlockSize < Lines =>
            \A i \in 1..Len(handled) :
               handled[i].time < trace[CurrentReadBlock * ReadBlockSize + 1].begin
    <2>1. Len(handled) = 0
      BY <1>3
    <2> QED
      BY <2>1
  <1>11. SameOrder
    BY DEF OInv
  <1> QED
    BY <1>1, <1>4, <1>6, <1>7, <1>9, <1>10, <1>11, PartOrder

\* Loading the next block when its checkpoint is on top.
LEMMA OrderContinue ==
    ASSUME IInv, OInv, ContinueLoading PROVE OInv'
  <1>1. /\ pc = "run" /\ SimList # <<>> /\ Head(SimList).id = "CheckPoint"
        /\ LoadPartialContacts(Tail(SimList))
        /\ UNCHANGED <<trace, traffic, Split, N, sends, handled>>
    BY DEF ContinueLoading, TopIs, Top
  <1>a. PICK p \in Nat, c \in {0, 1} : \E k, real : InSequence(p, c, k, real)
    BY <1>1 DEF OInv
  <1>2. PICK k, real : InSequence(p, c, k, real)
    BY <1>a
  <1>3. /\ Lines \in Nat /\ trace \in Traces /\ traffic \in Traffics /\ handled \in Seq(Event)
    BY ValueFacts DEF IInv, Values
  <1>4. SimList \in Seq(Event) /\ InOrderOfTime(SimList)
    BY DEF IInv, Progress, Shape
  <1>5. Bears(SimList, p, c, k, NextBegin, real) /\ real \in Seq(Quiet)
    BY <1>2 DEF InSequence, Bears
  <1>6. p = 0 /\ c = 1 /\ k = 0 /\ Tail(SimList) = real
    <2>1. ~(Head(SimList) \in Quiet)
      BY <1>1, EventFacts
    <2>2. \/ Head(SimList).id = "Transmission"
          \/ p = 0 /\ c = 1 /\ k = 0 /\ Tail(SimList) = real
          \/ Head(SimList) \in Quiet
      BY <1>1, <1>4, <1>5, BearsPopped
    <2> QED
      BY <1>1, <2>1, <2>2
  <1>7. /\ Split \in Nat \ {0, 1} /\ CurrentReadBlock \in 1..(Split - 1)
        /\ StopLine(CurrentReadBlock) < Lines
        /\ \A i \in 1..Len(handled) : handled[i].time < NextBegin
        /\ Loaded(handled \o real, trace, LinesRead(1) + 1, Lines) = Complete
    BY <1>2, <1>6 DEF InSequence
  <1>8. /\ CurrentReadBlock \in 0..(Split - 1) /\ LinesRead(1) = StopLine(CurrentReadBlock)
        /\ StopLine(CurrentReadBlock) = CurrentReadBlock * ReadBlockSize
    <2>1. CurrentReadBlock \in 0..(Split - 1)
      BY <1>7
    <2> QED
      BY <1>1, <1>3, <1>7, <2>1, BlockFacts DEF LinesRead
  <1>9. Tail(SimList) \in Lists(Len(Tail(SimList))) /\ Len(Tail(SimList)) \in Nat
    <2>1. InOrderOfTime(Tail(SimList))
      BY <1>1, <1>4, TailInOrder
    <2>2. Tail(SimList) \in Seq(Quiet)
      BY ONLY <1>5, <1>6
    <2>3. Len(Tail(SimList)) \in Nat
      BY ONLY <2>2
    <2> QED
      BY <2>1, <2>2, <2>3 DEF Lists
  <1>10. Loaded(handled \o Tail(SimList), trace, CurrentReadBlock * ReadBlockSize + 1, Lines)
           = Complete
    BY <1>6, <1>7, <1>8
  <1>11. CurrentReadBlock * ReadBlockSize < Lines =>
            \A i \in 1..Len(handled) :
               handled[i].time < trace[CurrentReadBlock * ReadBlockSize + 1].begin
    BY <1>7, <1>8 DEF NextBegin
  <1>12. SameOrder
    BY DEF OInv
  <1>13. UNCHANGED <<trace, traffic, Split, handled>>
    BY <1>1
  <1> QED
    BY <1>1, <1>3, <1>7, <1>8, <1>9, <1>10, <1>11, <1>12, <1>13, PartOrder

\* Handling an event and what it makes a node send.
LEMMA OrderActed ==
    ASSUME IInv, IInv', OInv, pc = "run", SimList # <<>>, Reacted, Top.id # "CheckPoint",
           handled' = IF Top.id = "Transmission" /\ Top.a # APPLICATION THEN handled
                      ELSE Append(handled, Top),
           UNCHANGED <<trace, traffic, Split, pc, CurrentReadBlock>>
    PROVE  OInv'
  <1>a. PICK p \in Nat, c \in {0, 1} : \E k, real : InSequence(p, c, k, real)
    BY DEF OInv
  <1>1. PICK k, real : InSequence(p, c, k, real)
    BY <1>a
  <1>2. /\ Lines \in Nat /\ trace \in Traces /\ handled \in Seq(Event)
        /\ SimList \in Seq(Event) /\ Head(SimList) = Top
    BY ValueFacts DEF IInv, Values, Progress, Shape, Top
  <1>3. Bears(SimList, p, c, k, NextBegin, real) /\ real \in Seq(Quiet) /\ real \in Seq(Event)
    <2>1. Bears(SimList, p, c, k, NextBegin, real) /\ real \in Seq(Quiet)
      BY <1>1 DEF InSequence, Bears
    <2> QED
      BY <2>1, EventFacts
  <1>4. PICK j \in Nat : /\ Behind(Tail(SimList), j, SimList')
                         /\ \A i \in 1..j : SimList'[i] \in Sent(N')
    BY DEF Reacted
  <1>5. \A i \in 1..j : SimList'[i].id = "Transmission" /\ SimList'[i].a # APPLICATION
    BY <1>4, EventFacts
  <1>6. /\ NextBegin' = NextBegin /\ Complete' = Complete /\ Lines' = Lines
        /\ LinesRead(c)' = LinesRead(c) /\ StopLine(CurrentReadBlock)' = StopLine(CurrentReadBlock)
    BY DEF NextBegin, Complete, Lines, LinesRead, StopLine, ReadBlockSize
  <1>7. /\ c = 1 => /\ Split \in Nat \ {0, 1} /\ CurrentReadBlock \in 1..(Split - 1)
                    /\ StopLine(CurrentReadBlock) < Lines
                    /\ \A i \in 1..Len(handled) : handled[i].time < NextBegin
                    /\ \A i \in 1..k : real[i].time < NextBegin
        /\ Loaded(handled \o real, trace, LinesRead(c) + 1, Lines) = Complete
    BY <1>1 DEF InSequence
  <1>8. CASE Top.id = "Transmission" /\ Top.a # APPLICATION
    <2>1. p > 0 /\ Bears(Tail(SimList), p - 1, c, k, NextBegin, real) /\ p - 1 \in Nat
      <3>1. ~(Head(SimList) \in Quiet)
        BY <1>2, <1>8, EventFacts
      <3>2. \/ p > 0 /\ Bears(Tail(SimList), p - 1, c, k, NextBegin, real)
            \/ Head(SimList) = CheckPoint(NextBegin)
            \/ Head(SimList) \in Quiet
        BY <1>2, <1>3, BearsPopped
      <3>3. Head(SimList) # CheckPoint(NextBegin)
        BY <1>2 DEF CheckPoint
      <3> QED
        BY <3>1, <3>2, <3>3
    <2>2. Bears(SimList', (p - 1) + j, c, k, NextBegin, real) /\ (p - 1) + j \in Nat
      <3> DEFINE q == p - 1
      <3> DEFINE rest == Tail(SimList)
      <3>1. q \in Nat /\ Bears(rest, q, c, k, NextBegin, real) /\ Behind(rest, j, SimList')
        BY <1>4, <2>1
      <3> HIDE DEF q, rest
      <3>2. Bears(SimList', q + j, c, k, NextBegin, real)
        BY <1>5, <3>1, BearsSent
      <3>3. q + j \in Nat
        BY <3>1
      <3> QED
        BY <3>2, <3>3 DEF q
    <2>3. handled' = handled
      BY <1>8
    <2>4. InSequence((p - 1) + j, c, k, real)'
      BY <1>6, <1>7, <2>2, <2>3 DEF InSequence
    <2>5. SameOrder'
      BY <1>6, <2>3 DEF OInv, SameOrder
    <2> QED
      BY <2>2, <2>4, <2>5 DEF OInv
  <1>9. CASE ~(Top.id = "Transmission" /\ Top.a # APPLICATION)
    <2> DEFINE h == IF k = 0 THEN 0 ELSE k - 1
    <2>1. /\ p = 0 /\ real # <<>> /\ Top = Head(real) /\ (c = 1 => k > 0)
          /\ Bears(Tail(SimList), 0, c, h, NextBegin, Tail(real))
      <3>1. Top # CheckPoint(NextBegin)
        BY DEF CheckPoint
      <3> QED
        BY <1>2, <1>3, <1>9, <3>1, BearsPopped
    <2>2. Bears(SimList', 0 + j, c, h, NextBegin, Tail(real))
      BY <1>4, <1>5, <2>1, BearsSent
    <2>3. handled' = Append(handled, Head(real))
      BY <1>9, <2>1
    <2>4. handled' \o Tail(real) = handled \o real
      BY <1>2, <1>3, <2>1, <2>3, MovedOver
    <2>5. /\ Len(real) \in Nat \ {0} /\ Tail(real) \in Seq(Event) /\ Head(real) = real[1]
          /\ Len(Tail(real)) = Len(real) - 1
          /\ \A i \in 1..(Len(real) - 1) : Tail(real)[i] = real[i + 1]
      BY <1>3, <2>1, TailFacts
    <2>6. k \in 0..Len(real) /\ k \in Nat /\ Len(handled) \in Nat
      BY <1>2, <1>3, <2>5 DEF Bears
    <2>7. /\ handled' \in Seq(Event) /\ Len(handled') = Len(handled) + 1
          /\ \A i \in 1..(Len(handled) + 1) :
                handled'[i] = IF i <= Len(handled) THEN handled[i] ELSE real[1]
      <3>1. real[1] \in Event
        BY <1>3, <2>5
      <3> QED
        BY <1>2, <2>3, <2>5, <3>1
    <2>8. ASSUME c = 1
          PROVE  /\ \A i \in 1..Len(handled') : handled'[i].time < NextBegin
                 /\ \A i \in 1..h : Tail(real)[i].time < NextBegin
      <3>1. k > 0 /\ 1 \in 1..k /\ h = k - 1
        BY <2>1, <2>6, <2>8
      <3>2. real[1].time < NextBegin
        BY <1>7, <2>8, <3>1
      <3>3. ASSUME NEW i \in 1..Len(handled') PROVE handled'[i].time < NextBegin
        <4>1. i \in 1..(Len(handled) + 1)
          BY <2>7
        <4>2. CASE i <= Len(handled)
          <5>1. i \in 1..Len(handled) /\ handled'[i] = handled[i]
            BY <2>6, <2>7, <4>1, <4>2
          <5> QED
            BY <1>7, <2>8, <5>1
        <4>3. CASE ~(i <= Len(handled))
          BY <2>7, <3>2, <4>1, <4>3
        <4> QED
          BY <4>2, <4>3
      <3>4. ASSUME NEW i \in 1..h PROVE Tail(real)[i].time < NextBegin
        <4>1. i + 1 \in 1..k /\ i \in 1..(Len(real) - 1)
          BY <2>6, <3>1
        <4> QED
          BY <1>7, <2>5, <2>8, <4>1
      <3> QED
        BY <3>3, <3>4
    <2> HIDE DEF h
    <2>9. Loaded(handled' \o Tail(real), trace, LinesRead(c) + 1, Lines) = Complete
      BY <1>7, <2>4
    <2>10. \E x, rest : /\ rest \in Seq(Event)
                        /\ Bears(SimList', 0 + j, c, x, NextBegin, rest)
                        /\ c = 1 => \A i \in 1..x : rest[i].time < NextBegin
                        /\ Loaded(handled' \o rest, trace, LinesRead(c) + 1, Lines) = Complete
      BY <2>2, <2>5, <2>8, <2>9
    <2>11. PICK x, rest : /\ rest \in Seq(Event)
                          /\ Bears(SimList', 0 + j, c, x, NextBegin, rest)
                          /\ c = 1 => \A i \in 1..x : rest[i].time < NextBegin
                          /\ Loaded(handled' \o rest, trace, LinesRead(c) + 1, Lines) = Complete
      BY <2>10
    <2>12. InSequence(0 + j, c, x, rest)'
      <3>1. Bears(SimList, 0 + j, c, x, NextBegin, rest)'
        BY <1>6, <2>11
      <3>2. pc' # "load"
        OBVIOUS
      <3>3. (c = 1 => /\ Split \in Nat \ {0, 1} /\ CurrentReadBlock \in 1..(Split - 1)
                      /\ StopLine(CurrentReadBlock) < Lines
                      /\ \A i \in 1..Len(handled) : handled[i].time < NextBegin
                      /\ \A i \in 1..x : rest[i].time < NextBegin)'
        BY <1>6, <1>7, <2>8, <2>11
      <3>4. (Loaded(handled \o rest, trace, LinesRead(c) + 1, Lines) = Complete)'
        BY <1>6, <2>11
      <3> QED
        BY <3>1, <3>2, <3>3, <3>4 DEF InSequence
    <2>13. SameOrder'
      <3> DEFINE first == LinesRead(c) + 1
      <3>1. /\ first \in Nat \ {0} /\ first <= Lines + 1
            /\ \A i \in 1..Len(handled') : \A n \in first..Lines : handled'[i].time < trace[n].begin
        <4>1. CASE c = 0
          <5>1. LinesRead(c) = Lines
            BY <4>1 DEF LinesRead
          <5> QED
            BY <1>2, <5>1
        <4>2. CASE c = 1
          <5>1. /\ LinesRead(c) = StopLine(CurrentReadBlock)
                /\ StopLine(CurrentReadBlock) < Lines /\ StopLine(CurrentReadBlock) \in Nat
            <6>1. CurrentReadBlock \in 0..(Split - 1) /\ Split \in Nat \ {0}
              BY <1>7, <4>2
            <6> QED
              BY <1>2, <1>7, <4>2, <6>1, BlockFacts DEF LinesRead
          <5>2. NextBegin = trace[first].begin /\ first \in 1..Lines
            BY <1>2, <5>1 DEF NextBegin
          <5>3. ASSUME NEW i \in 1..Len(handled'), NEW n \in first..Lines
                PROVE  handled'[i].time < trace[n].begin
            <6>1. n \in 1..Lines /\ first <= n /\ Lines = Len(trace)
              BY <1>2, <5>2 DEF Lines
            <6>2. trace[first].begin <= trace[n].begin
              BY <1>2, <5>2, <6>1, BeginsInOrder
            <6>3. /\ trace[first].begin \in Nat /\ trace[n].begin \in Nat
                  /\ handled'[i].time \in Nat
              BY <1>2, <2>7, <5>2, <6>1, TraceFacts, EventFacts
            <6>4. handled'[i].time < NextBegin
              BY <2>8, <4>2
            <6> QED
              BY <5>2, <6>2, <6>3, <6>4
          <5> QED
            BY <1>2, <5>1, <5>3
        <4> QED
          BY <4>1, <4>2
      <3> HIDE DEF first
      <3> QED
        <4>1. Lines = Len(trace)
          BY DEF Lines
        <4>2. Loaded(handled' \o rest, trace, first, Len(trace)) = Complete
          BY <2>11, <4>1 DEF first
        <4>3. IsPrefix(handled', Loaded(handled' \o rest, trace, first, Len(trace)))
          BY <1>2, <2>7, <2>11, <3>1, <4>1, FirstIsPrefix
        <4>4. IsPrefix(handled', Complete')
          BY <1>6, <4>2, <4>3
        <4> QED
          BY <4>4 DEF SameOrder
    <2> QED
      BY <2>12, <2>13 DEF OInv
  <1> QED
    BY <1>8, <1>9

\* What an action handles besides transmissions is added to what has been
\* handled.
LEMMA OrderStep ==
    ASSUME IInv, OInv, Next PROVE IInv' /\ OInv'
  <1>1. CASE LoadCompleteContacts
    BY <1>1, StepComplete, OrderComplete
  <1>2. CASE LoadFirstBlock
    BY <1>2, StepFirst, OrderFirst
  <1>3. CASE ContinueLoading
    BY <1>3, StepContinue, OrderContinue
  <1>4. CASE ContactUp
    <2>1. /\ pc = "run" /\ SimList # <<>> /\ Top.id = "ContactUp" /\ handled' = Append(handled, Top)
          /\ UNCHANGED <<trace, traffic, Split, pc, CurrentReadBlock>>
      BY <1>4 DEF ContactUp, TopIs
    <2>2. IInv' /\ Reacted
      BY <1>4, StepUp
    <2> QED
      BY <2>1, <2>2, OrderActed
  <1>5. CASE ContactDown
    <2>1. /\ pc = "run" /\ SimList # <<>> /\ Top.id = "ContactDown" /\ handled' = Append(handled, Top)
          /\ UNCHANGED <<trace, traffic, Split, pc, CurrentReadBlock>>
      BY <1>5 DEF ContactDown, TopIs
    <2>2. IInv' /\ Reacted
      BY <1>5, StepDown
    <2> QED
      BY <2>1, <2>2, OrderActed
  <1>6. CASE ReceiveFromApp
    <2>1. /\ pc = "run" /\ SimList # <<>> /\ Top.id = "Transmission" /\ Top.a = APPLICATION
          /\ handled' = Append(handled, Top)
          /\ UNCHANGED <<trace, traffic, Split, pc, CurrentReadBlock>>
      BY <1>6 DEF ReceiveFromApp, TopIs
    <2>2. IInv' /\ Reacted
      BY <1>6, StepApp
    <2> QED
      BY <2>1, <2>2, OrderActed
  <1>7. CASE Receive
    <2>1. /\ pc = "run" /\ SimList # <<>> /\ Top.id = "Transmission" /\ Top.a # APPLICATION
          /\ handled' = handled
          /\ UNCHANGED <<trace, traffic, Split, pc, CurrentReadBlock>>
      BY <1>7 DEF Receive, TopIs
    <2>2. IInv' /\ Reacted
      BY <1>7, StepReceive
    <2> QED
      BY <2>1, <2>2, OrderActed
  <1> QED
    BY <1>1, <1>2, <1>3, <1>4, <1>5, <1>6, <1>7 DEF Next

\* The inductive invariant of the order: what has been handled, what is in
\* the list and what remains to be read make the complete order.
THEOREM OrderInvariance == Spec => []OInv
  <1>1. Init => OInv
    BY OInvInit
  <1>2. IInv /\ OInv /\ [Next]_vars => OInv'
    <2> SUFFICES ASSUME IInv, OInv, [Next]_vars PROVE OInv'
      OBVIOUS
    <2>1. CASE Next
      BY <2>1, OrderStep
    <2>2. CASE UNCHANGED vars
      <3>1. /\ Complete' = Complete /\ Lines' = Lines /\ NextBegin' = NextBegin
            /\ StopLine(CurrentReadBlock)' = StopLine(CurrentReadBlock)
            /\ \A c : LinesRead(c)' = LinesRead(c)
        BY <2>2 DEF vars, Complete, Lines, NextBegin, LinesRead, StopLine, ReadBlockSize
      <3>2. SameOrder'
        BY <2>2, <3>1 DEF OInv, SameOrder, vars
      <3>3. ASSUME NEW p, NEW c, NEW k, NEW real, InSequence(p, c, k, real)
            PROVE  InSequence(p, c, k, real)'
        BY <2>2, <3>1, <3>3 DEF InSequence, vars
      <3>4. pc' = pc
        BY <2>2 DEF vars
      <3> QED
        BY <3>2, <3>3, <3>4 DEF OInv
    <2> QED
      BY <2>1, <2>2
  <1> QED
    BY <1>1, <1>2, Invariance, PTL DEF Spec

\* Contacts and packets of the application are handled in the same order
\* whether the trace is loaded completely or piece by piece: the order in
\* which complete loading puts them.
THEOREM OrderKept == Spec => []SameOrder
  <1>1. OInv => SameOrder
    BY DEF OInv
  <1> QED
    BY <1>1, OrderInvariance, PTL

-----------------------------------------------------------------------------
(* Links and the contacts of the trace.                                    *)

\* Event e ends contact l, which is between a and b.
EndOf(e, l, a, b) ==
    /\ e.id = "ContactDown" /\ e.time = l.end
    /\ {e.a, e.b} = {a, b} /\ {l.a, l.b} = {a, b}

\* Every end of a contact in the list is one of trace t, and so is every
\* beginning, whose end comes later in the list.
OfTrace(list, t) ==
    /\ \A x \in 1..Len(list) : list[x].id = "ContactDown" =>
          \E i \in 1..Len(t) : EndOf(list[x], t[i], list[x].a, list[x].b)
    /\ \A x \in 1..Len(list) : list[x].id = "ContactUp" =>
          \E y \in 1..Len(list) : \E i \in 1..Len(t) :
             /\ x < y /\ EndOf(list[y], t[i], list[x].a, list[x].b)
             /\ t[i].begin = list[x].time

Has(list, e) == \E x \in 1..Len(list) : list[x] = e

\* What is in the list is in y as well.
Keeps(list, y) == \A x \in 1..Len(list) : \E z \in 1..Len(y) : y[z] = list[x]

\* The end of a contact, the beginning of one whose end is there, or another
\* kind of event.
Fits(list, t, e) ==
    \/ e.id = "ContactDown" /\ \E i \in 1..Len(t) : EndOf(e, t[i], e.a, e.b)
    \/ e.id = "ContactUp" /\ \E x \in 1..Len(list) : \E i \in 1..Len(t) :
          /\ EndOf(list[x], t[i], e.a, e.b)
          /\ t[i].begin = e.time /\ t[i].begin <= t[i].end
    \/ e.id \notin {"ContactDown", "ContactUp"}

\* Having what another list has is transitive.
LEMMA KeepsFacts ==
    /\ \A list : Keeps(list, list)
    /\ \A list, y, z : Keeps(list, y) /\ Keeps(y, z) => Keeps(list, z)
    /\ \A list, y, e : Keeps(list, y) /\ Has(list, e) => Has(y, e)
  <1>1. ASSUME NEW list, NEW y, NEW z, Keeps(list, y), Keeps(y, z) PROVE Keeps(list, z)
    <2> SUFFICES ASSUME NEW x \in 1..Len(list) PROVE \E w \in 1..Len(z) : z[w] = list[x]
      BY DEF Keeps
    <2>1. PICK v \in 1..Len(y) : y[v] = list[x]
      BY <1>1 DEF Keeps
    <2>2. PICK w \in 1..Len(z) : z[w] = y[v]
      BY <1>1 DEF Keeps
    <2> QED
      BY <2>1, <2>2
  <1>2. ASSUME NEW list PROVE Keeps(list, list)
    BY DEF Keeps
  <1>3. ASSUME NEW list, NEW y, NEW e, Keeps(list, y), Has(list, e) PROVE Has(y, e)
    <2>1. PICK x \in 1..Len(list) : list[x] = e
      BY <1>3 DEF Has
    <2>2. PICK w \in 1..Len(y) : y[w] = list[x]
      BY <1>3 DEF Keeps
    <2> QED
      BY <2>1, <2>2 DEF Has
  <1> QED
    BY <1>1, <1>2, <1>3

\* Inserting an event that fits: an end is inserted before its beginning,
\* which then goes in front of it, being earlier or as early.
LEMMA FitsInserted ==
    ASSUME NEW list \in Seq(Event), NEW t, NEW e \in Event, OfTrace(list, t), Fits(list, t, e),
           NEW time \in Nat, NotBefore(list, time), time <= e.time
    PROVE  /\ OfTrace(Insertion(list, e), t) /\ NotBefore(Insertion(list, e), time)
           /\ Keeps(list, Insertion(list, e)) /\ Has(Insertion(list, e), e)
  <1> DEFINE y == Insertion(list, e)
  <1> DEFINE n == Len(list)
  <1>1. PICK k \in 1..(n + 1) :
           /\ IsPlace(k, list, e.time) /\ y \in Seq(Event) /\ Len(y) = n + 1
           /\ \A i \in 1..(n + 1) :
                 y[i] = IF i < k THEN list[i] ELSE IF i = k THEN e ELSE list[i - 1]
    BY Inserted
  <1> HIDE DEF y
  <1>2. n \in Nat /\ k \in Nat /\ k > 0 /\ \A i \in 1..n : list[i] \in Event
    BY <1>1
  <1> DEFINE f(i) == IF i < k THEN i ELSE i + 1
  <1>3. \A i \in 1..n : f(i) \in 1..Len(y) /\ y[f(i)] = list[i] /\ f(i) # k
    <2> TAKE i \in 1..n
    <2>1. f(i) \in 1..(n + 1) /\ f(i) \in 1..Len(y)
      BY <1>1, <1>2
    <2>2. CASE i < k
      BY <1>1, <2>1, <2>2
    <2>3. CASE ~(i < k)
      <3>1. f(i) = i + 1 /\ ~(i + 1 < k) /\ i + 1 # k /\ (i + 1) - 1 = i
        BY <1>2, <2>3
      <3> QED
        BY <1>1, <2>1, <3>1
    <2> QED
      BY <2>2, <2>3
  <1>4. \A i, j \in 1..n : i < j => f(i) < f(j)
    BY <1>2
  <1>5. k \in 1..Len(y) /\ y[k] = e
    BY <1>1, <1>2
  <1>6. ASSUME NEW x \in 1..Len(y), x # k PROVE \E i \in 1..n : x = f(i) /\ y[x] = list[i]
    <2>1. CASE x < k
      <3>1. x \in 1..n /\ x = f(x)
        BY <1>1, <1>2, <2>1
      <3> QED
        BY <1>3, <3>1
    <2>2. CASE ~(x < k)
      <3>1. x - 1 \in 1..n /\ x = f(x - 1)
        BY <1>1, <1>2, <1>6, <2>2
      <3> HIDE DEF f
      <3> QED
        BY <1>3, <3>1
    <2> QED
      BY <2>1, <2>2
  <1>7. Keeps(list, y) /\ Has(y, e)
    <2> HIDE DEF f
    <2> QED
      BY <1>3, <1>5 DEF Keeps, Has
  <1>8. NotBefore(y, time)
    <2> HIDE DEF f
    <2>1. ASSUME NEW x \in 1..Len(y) PROVE time <= y[x].time
      <3>1. CASE x = k
        BY <1>5, <3>1
      <3>2. CASE x # k
        BY <1>6, <3>2 DEF NotBefore
      <3> QED
        BY <3>1, <3>2
    <2> QED
      BY <2>1 DEF NotBefore
  <1>9. ASSUME NEW x \in 1..Len(y), y[x].id = "ContactDown"
        PROVE  \E i \in 1..Len(t) : EndOf(y[x], t[i], y[x].a, y[x].b)
    <2> HIDE DEF f
    <2>1. CASE x = k
      BY <1>5, <1>9, <2>1 DEF Fits
    <2>2. CASE x # k
      <3>1. PICK i \in 1..n : y[x] = list[i]
        BY <1>6, <2>2
      <3> QED
        BY <1>9, <3>1 DEF OfTrace
    <2> QED
      BY <2>1, <2>2
  <1>10. ASSUME NEW x \in 1..Len(y), y[x].id = "ContactUp"
         PROVE  \E z \in 1..Len(y) : \E i \in 1..Len(t) :
                   x < z /\ EndOf(y[z], t[i], y[x].a, y[x].b) /\ t[i].begin = y[x].time
    <2>1. CASE x = k
      <3>1. PICK j \in 1..n, i \in 1..Len(t) :
               /\ EndOf(list[j], t[i], e.a, e.b)
               /\ t[i].begin = e.time /\ t[i].begin <= t[i].end
        BY <1>5, <1>10, <2>1 DEF Fits
      <3>2. ~(list[j].time < e.time)
        <4>1. list[j].time = t[i].end /\ list[j].time \in Nat /\ e.time \in Nat
          BY <1>2, <3>1, EventFacts DEF EndOf
        <4> QED
          BY <3>1, <4>1
      <3>3. ~(j < k)
        <4>1. j < k => j \in 1..(k - 1)
          BY <1>2
        <4> QED
          BY <1>1, <3>2, <4>1 DEF IsPlace
      <3>4. x < f(j)
        BY <1>2, <2>1, <3>3
      <3>5. f(j) \in 1..Len(y) /\ y[f(j)] = list[j]
        BY <1>3
      <3> HIDE DEF f
      <3> QED
        BY <1>5, <2>1, <3>1, <3>4, <3>5
    <2>2. CASE x # k
      <3>1. PICK h \in 1..n : x = f(h) /\ y[x] = list[h]
        <4> HIDE DEF f
        <4> QED
          BY <1>6, <2>2
      <3>2. PICK j \in 1..n, i \in 1..Len(t) :
               /\ h < j /\ EndOf(list[j], t[i], list[h].a, list[h].b)
               /\ t[i].begin = list[h].time
        BY <1>10, <3>1 DEF OfTrace
      <3>3. x < f(j) /\ f(j) \in 1..Len(y) /\ y[f(j)] = list[j]
        <4> HIDE DEF f
        <4> QED
          BY <1>3, <1>4, <3>1, <3>2
      <3> HIDE DEF f
      <3> QED
        BY <3>1, <3>2, <3>3
    <2> QED
      BY <2>1, <2>2
  <1>11. OfTrace(y, t)
    BY <1>9, <1>10 DEF OfTrace
  <1> QED
    BY <1>7, <1>8, <1>11 DEF y

\* Loading a line of the trace.
LEMMA LineLinks ==
    ASSUME NEW list \in Seq(Event), NEW t \in Traces, NEW i \in 1..Len(t), OfTrace(list, t),
           NEW time \in Nat, NotBefore(list, time), time <= t[i].begin
    PROVE  LET y == InsertAll(list, LineEvents(t[i]))
           IN  /\ OfTrace(y, t) /\ NotBefore(y, time) /\ Keeps(list, y) /\ y \in Seq(Event)
               /\ Has(y, Up(t[i].begin, t[i].a, t[i].b))
  <1> DEFINE c == t[i]
  <1> DEFINE events == LineEvents(c)
  <1>1. /\ c \in Contacts /\ c.a \in Nodes /\ c.b \in Nodes /\ c.begin \in Nat /\ c.end \in Nat
        /\ c.begin <= c.end /\ time <= c.begin /\ time <= c.end
    <2>1. c \in Contacts
      BY TraceFacts
    <2>2. c.a \in Nodes /\ c.b \in Nodes /\ c.begin \in Nat /\ c.end \in Nat /\ c.begin <= c.end
      BY <2>1, SimulatorAssumption
    <2> QED
      BY <2>1, <2>2
  <1>2. /\ events \in Seq(Quiet) /\ events \in Seq(Event) /\ Len(events) = 4
        /\ events[1] = Down(c.end, c.a, c.b) /\ events[2] = Up(c.begin, c.a, c.b)
        /\ events[3] = Down(c.end, c.b, c.a) /\ events[4] = Up(c.begin, c.b, c.a)
        /\ \A j \in 1..4 : events[j] \in Event
    <2>1. events \in Seq(Quiet) /\ Len(events) = 4
      BY <1>1, LineFacts
    <2>2. events \in Seq(Event)
      BY <2>1, EventFacts
    <2> QED
      BY <2>1, <2>2 DEF LineEvents
  <1> HIDE DEF events, c
  <1>3. PICK h \in [0..4 -> Seq(Event)] :
           /\ h[0] = list
           /\ \A j \in 1..4 : h[j] = Insertion(h[j - 1], events[j])
           /\ InsertAll(list, events) = h[4]
    <2>1. \E h \in [0..Len(events) -> Seq(Event)] :
             /\ h[0] = list
             /\ \A j \in 1..Len(events) : h[j] = Insertion(h[j - 1], events[j])
             /\ InsertAll(list, events) = h[Len(events)]
      BY <1>2, InsertAllSteps
    <2> QED
      BY <1>2, <2>1
  <1>4. /\ h[1] = Insertion(h[0], events[1]) /\ h[2] = Insertion(h[1], events[2])
        /\ h[3] = Insertion(h[2], events[3]) /\ h[4] = Insertion(h[3], events[4])
        /\ h[0] \in Seq(Event) /\ h[1] \in Seq(Event) /\ h[2] \in Seq(Event)
        /\ h[3] \in Seq(Event) /\ h[4] \in Seq(Event)
    BY <1>3
  <1>5. /\ events[1].id = "ContactDown" /\ events[1].time = c.end
        /\ events[2].id = "ContactUp" /\ events[2].time = c.begin
        /\ events[3].id = "ContactDown" /\ events[3].time = c.end
        /\ events[4].id = "ContactUp" /\ events[4].time = c.begin
        /\ EndOf(events[1], c, events[1].a, events[1].b)
        /\ EndOf(events[1], c, events[2].a, events[2].b)
        /\ EndOf(events[3], c, events[3].a, events[3].b)
        /\ EndOf(events[3], c, events[4].a, events[4].b)
    BY <1>2 DEF Down, Up, EndOf
  <1>6. c = t[i]
    BY DEF c
  <1>7. OfTrace(h[1], t) /\ NotBefore(h[1], time) /\ Keeps(list, h[1]) /\ Has(h[1], events[1])
    <2>1. Fits(h[0], t, events[1])
      BY <1>5, <1>6 DEF Fits
    <2> QED
      BY <1>1, <1>2, <1>3, <1>4, <1>5, <2>1, FitsInserted
  <1>8. OfTrace(h[2], t) /\ NotBefore(h[2], time) /\ Keeps(h[1], h[2]) /\ Has(h[2], events[2])
    <2>1. Fits(h[1], t, events[2])
      BY <1>1, <1>5, <1>6, <1>7 DEF Fits, Has
    <2> QED
      BY <1>1, <1>2, <1>4, <1>5, <1>7, <2>1, FitsInserted
  <1>9. OfTrace(h[3], t) /\ NotBefore(h[3], time) /\ Keeps(h[2], h[3]) /\ Has(h[3], events[3])
    <2>1. Fits(h[2], t, events[3])
      BY <1>5, <1>6 DEF Fits
    <2> QED
      BY <1>1, <1>2, <1>4, <1>5, <1>8, <2>1, FitsInserted
  <1>10. OfTrace(h[4], t) /\ NotBefore(h[4], time) /\ Keeps(h[3], h[4]) /\ Has(h[4], events[4])
    <2>1. Fits(h[3], t, events[4])
      BY <1>1, <1>5, <1>6, <1>9 DEF Fits, Has
    <2> QED
      BY <1>1, <1>2, <1>4, <1>5, <1>9, <2>1, FitsInserted
  <1>11. Keeps(list, h[4]) /\ Has(h[4], events[2])
    <2>1. Keeps(list, h[2]) /\ Keeps(h[2], h[4])
      BY <1>7, <1>8, <1>9, <1>10, KeepsFacts
    <2> QED
      BY <1>8, <2>1, KeepsFacts
  <1> QED
    BY <1>2, <1>3, <1>4, <1>10, <1>11 DEF events, c

\* Loading some lines of the trace, none of which begins before time.
LEMMA LoadedLinks ==
    ASSUME NEW list \in Seq(Event), NEW t \in Traces, OfTrace(list, t),
           NEW first \in Nat \ {0}, NEW last \in 0..Len(t), first <= last + 1,
           NEW time \in Nat, NotBefore(list, time),
           \A i \in first..last : time <= t[i].begin
    PROVE  LET y == Loaded(list, t, first, last)
           IN  /\ OfTrace(y, t) /\ NotBefore(y, time) /\ Keeps(list, y) /\ y \in Seq(Event)
               /\ \A i \in first..last : Has(y, Up(t[i].begin, t[i].a, t[i].b))
  <1> DEFINE n == last + 1 - first
  <1>1. n \in Nat /\ Len(t) \in Nat /\ \A i \in 1..n : first + i - 1 \in first..last
                                       /\ first + i - 1 \in 1..Len(t)
    <2>1. Len(t) \in Nat
      BY TraceFacts
    <2> QED
      BY <2>1
  <1>2. PICK h : LinesInserted(list, t, first, last, h)
    BY LoadedSteps
  <1>3. /\ h \in [0..n -> Seq(Event)] /\ h[0] = list
        /\ \A i \in 1..n : h[i] = InsertAll(h[i - 1], LineEvents(t[first + i - 1]))
        /\ Loaded(list, t, first, last) = h[n]
    BY <1>2 DEF LinesInserted
  <1> DEFINE There(i, j) == Has(h[i], Up(t[first + j - 1].begin, t[first + j - 1].a,
                                         t[first + j - 1].b))
  <1> DEFINE Good(i) == /\ OfTrace(h[i], t) /\ NotBefore(h[i], time) /\ Keeps(list, h[i])
                        /\ \A j \in 1..i : There(i, j)
  <1> DEFINE P == {i \in 0..n : Good(i)}
  <1>4. 0 \in P
    <2>1. Keeps(list, h[0])
      BY <1>3, KeepsFacts
    <2>2. \A j \in 1..0 : There(0, j)
      OBVIOUS
    <2> HIDE DEF There
    <2> QED
      BY <1>1, <1>3, <2>1, <2>2
  <1>5. ASSUME NEW i \in 1..n, i - 1 \in P PROVE i \in P
    <2> DEFINE m == i - 1
    <2> DEFINE l == first + i - 1
    <2>1. m \in 0..n /\ i \in 0..n /\ m \in Nat /\ i = m + 1
      BY <1>1
    <2>2. Good(m)
      BY <1>5
    <2>3. l \in first..last /\ l \in 1..Len(t) /\ h[m] \in Seq(Event)
          /\ h[i] = InsertAll(h[m], LineEvents(t[l])) /\ time <= t[l].begin
      <3>1. l \in first..last /\ l \in 1..Len(t)
        BY <1>1
      <3>2. h[m] \in Seq(Event)
        BY <1>3, <2>1
      <3> QED
        BY <1>3, <3>1, <3>2
    <2> HIDE DEF l, m
    <2>4. OfTrace(h[m], t) /\ NotBefore(h[m], time) /\ Keeps(list, h[m])
      BY <2>2
    <2>5. /\ OfTrace(h[i], t) /\ NotBefore(h[i], time) /\ Keeps(h[m], h[i])
          /\ Has(h[i], Up(t[l].begin, t[l].a, t[l].b))
      BY <2>3, <2>4, LineLinks
    <2>6. Keeps(list, h[i])
      BY <2>4, <2>5, KeepsFacts
    <2>7. ASSUME NEW j \in 1..i PROVE There(i, j)
      <3>1. CASE j = i
        BY <2>5, <3>1 DEF l
      <3>2. CASE j # i
        <4>1. j \in 1..m
          BY <2>1, <3>2
        <4>2. There(m, j)
          BY <2>2, <4>1
        <4> QED
          BY <2>5, <4>2, KeepsFacts
      <3> QED
        BY <3>1, <3>2
    <2>8. Good(i)
      <3> HIDE DEF There
      <3> QED
        BY <2>5, <2>6, <2>7
    <2> HIDE DEF Good
    <2> QED
      BY <2>1, <2>8
  <1>6. n \in P
    <2>1. P \in SUBSET (0..n)
      OBVIOUS
    <2> HIDE DEF P, n
    <2>2. P = 0..n
      BY <1>1, <1>4, <1>5, <2>1, NumbersUpto
    <2> QED
      BY <1>1, <2>2
  <1>7. Good(n)
    BY <1>6
  <1>8. ASSUME NEW i \in first..last PROVE Has(h[n], Up(t[i].begin, t[i].a, t[i].b))
    <2> DEFINE j == i + 1 - first
    <2>1. j \in 1..n /\ first + j - 1 = i
      BY <1>1
    <2>2. There(n, j)
      BY <1>7, <2>1
    <2> HIDE DEF j, n
    <2> QED
      BY <2>1, <2>2
  <1>9. h[n] \in Seq(Event)
    BY <1>1, <1>3
  <1> HIDE DEF n, There
  <1> QED
    BY <1>3, <1>7, <1>8, <1>9

\* There is a checkpoint in the list.
Checkpointed(list) == \E x \in 1..Len(list) : list[x].id = "CheckPoint"

\* Loading the next block: a line has been read, or begins no earlier than
\* the checkpoint that waits in the list.
LEMMA PartLinks ==
    ASSUME trace \in Traces, Split \in Nat \ {0, 1}, CurrentReadBlock \in 0..(Split - 1),
           NEW list \in Seq(Event), OfTrace(list, trace), NEW time \in Nat, NotBefore(list, time),
           CurrentReadBlock * ReadBlockSize < Lines
              => time <= trace[CurrentReadBlock * ReadBlockSize + 1].begin,
           LoadPartialContacts(list), UNCHANGED <<trace, Split>>
    PROVE  /\ OfTrace(SimList', trace) /\ NotBefore(SimList', time) /\ Keeps(list, SimList')
           /\ pc' \in {"run", "abort"}
           /\ pc' = "run" =>
                 \A i \in (CurrentReadBlock * ReadBlockSize + 1)..Lines :
                    \/ Has(SimList', Up(trace[i].begin, trace[i].a, trace[i].b))
                    \/ Checkpointed(SimList') /\ i > StopLine(CurrentReadBlock)'
  <1> DEFINE b == CurrentReadBlock
  <1> DEFINE r == ReadBlockSize
  <1>1. Lines \in Nat /\ Lines = Len(trace) /\ \A i \in 1..Lines : trace[i].begin \in Nat
    BY TraceFacts DEF Lines
  <1>2. /\ r \in Nat /\ b * r \in Nat /\ b * r <= (b + 1) * r /\ (b + 1) * r <= Lines
        /\ StartLine(b + 1) = b * r + 1
        /\ StopLine(b + 1) = (IF b + 1 = Split THEN Lines ELSE (b + 1) * r)
        /\ b + 1 < Split /\ StartLine(b + 1) < Lines => (b + 1) * r < Lines
    BY <1>1, BlockFacts
  <1>3. b + 1 = Split \/ b + 1 < Split
    OBVIOUS
  <1> DEFINE first == StartLine(b + 1)
  <1> DEFINE last == StopLine(b + 1)
  <1> DEFINE read == Loaded(list, trace, first, last)
  <1>4. StopLine(CurrentReadBlock)' = last
    <2>1. Lines' = Lines /\ ReadBlockSize' = ReadBlockSize /\ Split' = Split
      BY DEF Lines, ReadBlockSize
    <2>2. CurrentReadBlock' = b + 1
      BY DEF LoadPartialContacts
    <2> QED
      BY <2>1, <2>2 DEF StopLine
  <1>5. \/ first >= Lines /\ pc' = "abort" /\ SimList' = list
        \/ /\ ~(first >= Lines) /\ pc' = "run"
           /\ SimList' = IF b + 1 < Split THEN WithCheckPoint(read, trace[last + 1].begin)
                         ELSE read
    BY DEF LoadPartialContacts
  <1>6. CASE first >= Lines /\ pc' = "abort" /\ SimList' = list
    BY <1>6, KeepsFacts
  <1>7. CASE /\ ~(first >= Lines) /\ pc' = "run"
             /\ SimList' = IF b + 1 < Split THEN WithCheckPoint(read, trace[last + 1].begin)
                           ELSE read
    <2> DEFINE w == b * r
    <2> DEFINE v == (b + 1) * r
    <2>1. /\ w \in Nat /\ v \in Nat /\ w <= v /\ v <= Lines /\ first = w + 1
          /\ last = (IF b + 1 = Split THEN Lines ELSE v)
          /\ b + 1 < Split => v < Lines
      <3>1. (b + 1) * r \in Nat
        BY <1>2
      <3>2. first < Lines
        BY <1>1, <1>2, <1>7
      <3> QED
        BY <1>2, <3>1, <3>2
    <2> HIDE DEF w, v, b, first, last, read
    <2>2. /\ first \in Nat \ {0} /\ last \in 0..Len(trace) /\ first <= last + 1
          /\ first \in 1..Lines /\ w < Lines
      BY <1>1, <1>7, <2>1
    <2>3. \A i \in first..Lines : i \in 1..Lines /\ time <= trace[i].begin
                                  /\ trace[i].begin \in Nat
      <3> TAKE i \in first..Lines
      <3>1. i \in 1..Len(trace) /\ first \in 1..Len(trace) /\ first <= i
        BY <1>1, <2>2
      <3>2. trace[first].begin <= trace[i].begin
        BY <3>1, BeginsInOrder
      <3>3. time <= trace[first].begin
        BY <2>1, <2>2 DEF w, b
      <3> QED
        BY <1>1, <3>1, <3>2, <3>3
    <2>4. \A i \in first..last : i \in first..Lines
      BY <1>1, <2>2
    <2>5. /\ OfTrace(read, trace) /\ NotBefore(read, time) /\ Keeps(list, read)
          /\ read \in Seq(Event)
          /\ \A i \in first..last : Has(read, Up(trace[i].begin, trace[i].a, trace[i].b))
      BY <2>2, <2>3, <2>4, LoadedLinks DEF read
    <2>6. CASE b + 1 < Split
      <3> DEFINE e == CheckPoint(trace[last + 1].begin)
      <3>1. last + 1 \in first..Lines /\ last = v
        BY <1>1, <2>1, <2>2, <2>6
      <3>2. e \in Event /\ e.id = "CheckPoint" /\ time <= e.time
        <4>1. trace[last + 1].begin \in Nat /\ time <= trace[last + 1].begin
          BY <2>3, <3>1
        <4> QED
          BY <4>1 DEF CheckPoint, Event, Points
      <3>3. SimList' = Insertion(read, e)
        BY <1>7, <2>6 DEF WithCheckPoint
      <3>4. Fits(read, trace, e)
        BY <3>2 DEF Fits
      <3> HIDE DEF e
      <3>5. /\ OfTrace(SimList', trace) /\ NotBefore(SimList', time)
            /\ Keeps(read, SimList') /\ Has(SimList', e)
        BY <2>5, <3>2, <3>3, <3>4, FitsInserted
      <3>6. Checkpointed(SimList')
        BY <3>2, <3>5 DEF Has, Checkpointed
      <3>7. ASSUME NEW i \in first..Lines
            PROVE  \/ Has(SimList', Up(trace[i].begin, trace[i].a, trace[i].b))
                   \/ Checkpointed(SimList') /\ i > last
        <4>1. CASE i > last
          BY <3>6, <4>1
        <4>2. CASE ~(i > last)
          <5>1. i \in first..last
            BY <2>2, <4>2
          <5> QED
            BY <2>5, <3>5, <5>1, KeepsFacts
        <4> QED
          BY <4>1, <4>2
      <3>8. Keeps(list, SimList')
        BY <2>5, <3>5, KeepsFacts
      <3> QED
        BY <1>4, <1>7, <2>1, <3>5, <3>7, <3>8 DEF w, b, first, last
    <2>7. CASE ~(b + 1 < Split)
      <3>1. last = Lines /\ SimList' = read
        BY <1>3, <1>7, <2>1, <2>7 DEF b
      <3>2. \A i \in first..Lines : Has(SimList', Up(trace[i].begin, trace[i].a, trace[i].b))
        BY <2>5, <3>1
      <3> QED
        BY <1>7, <2>1, <2>5, <3>1, <3>2 DEF w, b
    <2> QED
      BY <2>6, <2>7
  <1> QED
    BY <1>5, <1>6, <1>7

\* The end of a contact of nodes a and b that has begun is in the list.
WillEnd(list, t, now, a, b) ==
    \E x \in 1..Len(list) : \E i \in 1..Len(t) :
        EndOf(list[x], t[i], a, b) /\ t[i].begin <= now

\* Contact l has not begun, or is a link of map m, or is over.
Noticed(list, m, now, l) ==
    \/ Has(list, Up(l.begin, l.a, l.b))
    \/ l.begin <= now /\ l.b \in m[l.a]
    \/ l.end <= now

\* Every link is one whose end is to come, and, if contacts of a pair do not
\* touch, every contact has been noticed that is not behind the checkpoint.
LInv ==
    /\ NotBefore(SimList, CurrentTime)
    /\ OfTrace(SimList, trace)
    /\ \A a, b \in Nodes : b \in N[a] => WillEnd(SimList, trace, CurrentTime, a, b)
    /\ pc = "load" => CurrentTime = 0
    /\ Separate /\ pc = "run" =>
          \A i \in 1..Lines : \/ Noticed(SimList, N, CurrentTime, trace[i])
                              \/ Checkpointed(SimList) /\ i > StopLine(CurrentReadBlock)

\* The values in a line of the trace.
LEMMA LineValues ==
    ASSUME NEW t \in Traces
    PROVE  \A i \in 1..Len(t) : /\ t[i].begin \in Nat /\ t[i].end \in Nat
                                /\ t[i].begin <= t[i].end
                                /\ t[i].a \in Nodes /\ t[i].b \in Nodes
  <1> TAKE i \in 1..Len(t)
  <1>1. t[i] \in Contacts
    BY TraceFacts
  <1> QED
    BY <1>1, SimulatorAssumption

\* An end to come is to come later as well, unless it is taken out.
LEMMA EndsKept ==
    ASSUME NEW list, NEW y, NEW t \in Traces, NEW now \in Nat, NEW later \in Nat, now <= later,
           NEW a, NEW b, WillEnd(list, t, now, a, b),
           \A x \in 1..Len(list) : list[x].id = "ContactDown" /\ {list[x].a, list[x].b} = {a, b}
              => Has(y, list[x])
    PROVE  WillEnd(y, t, later, a, b)
  <1>1. PICK x \in 1..Len(list), i \in 1..Len(t) :
           EndOf(list[x], t[i], a, b) /\ t[i].begin <= now
    BY DEF WillEnd
  <1>2. PICK z \in 1..Len(y) : y[z] = list[x]
    BY <1>1 DEF EndOf, Has
  <1>3. t[i].begin <= later
    BY <1>1, LineValues
  <1> QED
    BY <1>1, <1>2, <1>3 DEF WillEnd

\* The list when its head is gone and transmissions have come in front.
LEMMA BehindLinks ==
    ASSUME NEW list \in Seq(Event), list # <<>>, NEW t, OfTrace(list, t), NEW k \in Nat, NEW y,
           Behind(Tail(list), k, y), \A i \in 1..k : y[i].id = "Transmission"
    PROVE  OfTrace(y, t) /\ \A x \in 2..Len(list) : Has(y, list[x])
  <1>1. /\ Len(list) \in Nat \ {0} /\ Len(Tail(list)) = Len(list) - 1
        /\ \A i \in 1..(Len(list) - 1) : Tail(list)[i] = list[i + 1]
    BY TailFacts
  <1>2. /\ Len(y) = (Len(list) - 1) + k
        /\ \A i \in 1..(Len(list) - 1) : y[k + i] = list[i + 1]
    BY <1>1 DEF Behind
  <1>3. \A x \in 2..Len(list) : k + (x - 1) \in 1..Len(y) /\ y[k + (x - 1)] = list[x]
    <2> TAKE x \in 2..Len(list)
    <2>1. x - 1 \in 1..(Len(list) - 1) /\ (x - 1) + 1 = x /\ k + (x - 1) \in 1..Len(y)
      BY <1>1, <1>2
    <2> QED
      BY <1>2, <2>1
  <1>4. \A x \in 2..Len(list) : Has(y, list[x])
    BY <1>3 DEF Has
  <1>5. ASSUME NEW z \in 1..Len(y), y[z].id # "Transmission"
        PROVE  \E x \in 2..Len(list) : z = k + (x - 1) /\ y[z] = list[x]
    <2>1. z \notin 1..k
      BY <1>5
    <2>2. (z - k) + 1 \in 2..Len(list) /\ z = k + (((z - k) + 1) - 1)
      BY <1>1, <1>2, <2>1
    <2> QED
      BY <1>3, <2>2
  <1>6. ASSUME NEW z \in 1..Len(y), y[z].id = "ContactDown"
        PROVE  \E i \in 1..Len(t) : EndOf(y[z], t[i], y[z].a, y[z].b)
    <2>1. PICK x \in 2..Len(list) : y[z] = list[x]
      BY <1>5, <1>6
    <2>2. x \in 1..Len(list)
      BY <1>1
    <2> QED
      BY <1>6, <2>1, <2>2 DEF OfTrace
  <1>7. ASSUME NEW z \in 1..Len(y), y[z].id = "ContactUp"
        PROVE  \E v \in 1..Len(y) : \E i \in 1..Len(t) :
                  /\ z < v /\ EndOf(y[v], t[i], y[z].a, y[z].b)
                  /\ t[i].begin = y[z].time
    <2>1. PICK x \in 2..Len(list) : z = k + (x - 1) /\ y[z] = list[x]
      BY <1>5, <1>7
    <2>2. x \in 1..Len(list)
      BY <1>1
    <2>3. PICK w \in 1..Len(list), i \in 1..Len(t) :
             /\ x < w /\ EndOf(list[w], t[i], list[x].a, list[x].b)
             /\ t[i].begin = list[x].time
      BY <1>7, <2>1, <2>2 DEF OfTrace
    <2>4. w \in 2..Len(list) /\ z < k + (w - 1)
      BY <1>1, <2>1, <2>3
    <2> DEFINE v == k + (w - 1)
    <2>5. v \in 1..Len(y) /\ y[v] = list[w] /\ z < v
      BY <1>3, <2>4
    <2> HIDE DEF v
    <2> QED
      BY <2>1, <2>3, <2>5
  <1> QED
    BY <1>4, <1>6, <1>7 DEF OfTrace

\* At first there are packets of the application in the list, and no links.
LEMMA LInvInit ==
    ASSUME Init PROVE LInv
  <1> DEFINE events == AppEvents(traffic)
  <1>1. /\ events \in Seq(Event) /\ Len(events) \in Nat
        /\ \A i \in 1..Len(events) : events[i] \in Event /\ events[i].id = "Transmission"
    <2>1. events \in Seq(Quiet) /\ Len(events) \in Nat
      BY TrafficFacts DEF Init
    <2>2. events \in Seq(Event)
      BY <2>1, EventFacts
    <2>3. \A i \in 1..Len(events) : events[i] \in Event
      BY <2>1, <2>2
    <2>4. \A i \in DOMAIN events : events[i].id = "Transmission"
      BY DEF AppEvents, Transmission
    <2>5. DOMAIN events = 1..Len(events)
      BY <2>1
    <2> QED
      BY <2>1, <2>2, <2>3, <2>4, <2>5
  <1> HIDE DEF events
  <1> DEFINE good == {x \in Seq(Event) : OfTrace(x, trace) /\ NotBefore(x, 0)}
  <1> DEFINE V == [i \in 0..Len(events) |-> good]
  <1>2. <<>> \in V[0]
    <2>1. Len(<<>>) = 0
      OBVIOUS
    <2>2. OfTrace(<<>>, trace) /\ NotBefore(<<>>, 0)
      BY <2>1 DEF OfTrace, NotBefore
    <2> QED
      BY <1>1, <2>2
  <1>3. ASSUME NEW i \in 1..Len(events), NEW x \in V[i - 1] \cap Seq(Event)
        PROVE  Insertion(x, events[i]) \in V[i]
    <2>1. i \in 0..Len(events) /\ i - 1 \in 0..Len(events)
      BY <1>1
    <2>2. x \in good /\ events[i] \in Event /\ events[i].time \in Nat
      BY <1>1, <2>1, EventFacts
    <2>3. Fits(x, trace, events[i])
      BY <1>1 DEF Fits
    <2>4. Insertion(x, events[i]) \in Seq(Event)
      BY <2>2, Inserted
    <2>5. OfTrace(Insertion(x, events[i]), trace) /\ NotBefore(Insertion(x, events[i]), 0)
      BY <2>2, <2>3, FitsInserted
    <2> QED
      BY <2>1, <2>4, <2>5
  <1>4. SimList \in V[Len(events)]
    <2> HIDE DEF V
    <2>1. <<>> \in Seq(Event)
      OBVIOUS
    <2> QED
      BY <1>1, <1>2, <1>3, <2>1, InsertAllWorks DEF Init, events
  <1>5. OfTrace(SimList, trace) /\ NotBefore(SimList, 0)
    BY <1>1, <1>4
  <1> QED
    BY <1>5 DEF LInv, Init

\* Handling an event other than a checkpoint: a link comes up whose end is
\* behind its beginning, or the links of the pair go down.
LEMMA LinksActed ==
    ASSUME IInv, IInv', LInv, pc = "run", SimList # <<>>, Reacted, Top.id # "CheckPoint",
           CurrentTime' = Top.time, UNCHANGED <<trace, Split, pc, CurrentReadBlock>>,
           \A a, b \in Nodes : b \in N'[a] =>
              \/ b \in N[a] /\ ~(Top.id = "ContactDown" /\ {Top.a, Top.b} = {a, b})
              \/ Top.id = "ContactUp" /\ {Top.a, Top.b} = {a, b},
           \A a, b \in Nodes : b \in N[a] =>
              b \in N'[a] \/ (Top.id = "ContactDown" /\ {Top.a, Top.b} = {a, b}),
           Top.id = "ContactUp" => Top.b \in N'[Top.a]
    PROVE  LInv'
  <1>1. /\ Lines \in Nat /\ Lines = Len(trace) /\ trace \in Traces
        /\ CurrentTime \in Nat /\ CurrentTime' \in Nat
        /\ SimList \in Seq(Event) /\ Len(SimList) \in Nat \ {0} /\ Top = SimList[1]
    BY ValueFacts, TailFacts DEF IInv, Values, Progress, Shape, Top, Lines
  <1>2. /\ NotBefore(SimList, CurrentTime) /\ OfTrace(SimList, trace)
        /\ \A a, b \in Nodes : b \in N[a] => WillEnd(SimList, trace, CurrentTime, a, b)
        /\ Separate => \A i \in 1..Lines :
              \/ Noticed(SimList, N, CurrentTime, trace[i])
              \/ Checkpointed(SimList) /\ i > StopLine(CurrentReadBlock)
    BY DEF LInv
  <1>3. PICK k \in Nat : /\ Behind(Tail(SimList), k, SimList')
                         /\ \A i \in 1..k : SimList'[i] \in Sent(N')
    BY DEF Reacted
  <1>4. NotBefore(SimList', CurrentTime')
    BY DEF Reacted
  <1>5. OfTrace(SimList', trace) /\ \A x \in 2..Len(SimList) : Has(SimList', SimList[x])
    <2>1. \A i \in 1..k : SimList'[i].id = "Transmission"
      BY <1>3, EventFacts
    <2> QED
      BY <1>1, <1>2, <1>3, <2>1, BehindLinks
  <1>6. CurrentTime <= CurrentTime' /\ \A x \in 1..Len(SimList) : x = 1 \/ x \in 2..Len(SimList)
    BY <1>1, <1>2 DEF NotBefore
  <1>7. ASSUME NEW a \in Nodes, NEW b \in Nodes, b \in N'[a]
        PROVE  WillEnd(SimList', trace, CurrentTime', a, b)
    <2>1. CASE b \in N[a] /\ ~(Top.id = "ContactDown" /\ {Top.a, Top.b} = {a, b})
      <3>1. WillEnd(SimList, trace, CurrentTime, a, b)
        BY <1>2, <2>1
      <3>2. \A x \in 1..Len(SimList) :
               SimList[x].id = "ContactDown" /\ {SimList[x].a, SimList[x].b} = {a, b}
                  => Has(SimList', SimList[x])
        BY <1>1, <1>5, <1>6, <2>1
      <3> QED
        BY <1>1, <1>6, <3>1, <3>2, EndsKept
    <2>2. CASE Top.id = "ContactUp" /\ {Top.a, Top.b} = {a, b}
      <3>1. 1 \in 1..Len(SimList)
        BY <1>1
      <3>2. PICK y \in 1..Len(SimList), i \in 1..Len(trace) :
               /\ 1 < y /\ EndOf(SimList[y], trace[i], Top.a, Top.b)
               /\ trace[i].begin = Top.time
        BY <1>1, <1>2, <2>2, <3>1 DEF OfTrace
      <3>3. EndOf(SimList[y], trace[i], a, b)
        BY <2>2, <3>2 DEF EndOf
      <3>4. Has(SimList', SimList[y])
        BY <1>5, <1>6, <3>2
      <3>5. PICK z \in 1..Len(SimList') : SimList'[z] = SimList[y]
        BY <3>4 DEF Has
      <3>6. trace[i].begin <= CurrentTime'
        BY <1>1, <3>2
      <3> QED
        BY <3>3, <3>5, <3>6 DEF WillEnd
    <2> QED
      BY <1>7, <2>1, <2>2
  <1>8. ASSUME Separate, NEW i \in 1..Lines
        PROVE  \/ Noticed(SimList', N', CurrentTime', trace[i])
               \/ Checkpointed(SimList') /\ i > StopLine(CurrentReadBlock)
    <2> DEFINE l == trace[i]
    <2>1. /\ l.begin \in Nat /\ l.end \in Nat /\ l.begin <= l.end
          /\ l.a \in Nodes /\ l.b \in Nodes
      BY <1>1, LineValues
    <2>2. CASE Has(SimList, Up(l.begin, l.a, l.b))
      <3>1. PICK x \in 1..Len(SimList) : SimList[x] = Up(l.begin, l.a, l.b)
        BY <2>2 DEF Has
      <3>2. CASE x = 1
        <4>1. /\ Top.id = "ContactUp" /\ Top.time = l.begin /\ Top.a = l.a /\ Top.b = l.b
          BY <1>1, <3>1, <3>2 DEF Up
        <4>2. l.begin <= CurrentTime' /\ l.b \in N'[l.a]
          BY <2>1, <4>1
        <4> QED
          BY <4>2 DEF Noticed
      <3>3. CASE x \in 2..Len(SimList)
        <4>1. Has(SimList', Up(l.begin, l.a, l.b))
          BY <1>5, <3>1, <3>3
        <4> QED
          BY <4>1 DEF Noticed
      <3> QED
        BY <1>6, <3>2, <3>3
    <2>3. CASE l.begin <= CurrentTime /\ l.b \in N[l.a]
      <3>1. l.begin <= CurrentTime'
        BY <1>1, <1>6, <2>1, <2>3
      <3>2. CASE l.b \in N'[l.a]
        BY <3>1, <3>2 DEF Noticed
      <3>3. CASE Top.id = "ContactDown" /\ {Top.a, Top.b} = {l.a, l.b}
        <4>1. PICK j \in 1..Len(trace) : EndOf(Top, trace[j], Top.a, Top.b)
          <5>1. 1 \in 1..Len(SimList)
            BY <1>1
          <5> QED
            BY <1>1, <1>2, <3>3, <5>1 DEF OfTrace
        <4>2. /\ CurrentTime' = trace[j].end
              /\ {trace[i].a, trace[i].b} = {trace[j].a, trace[j].b}
          BY <3>3, <4>1 DEF EndOf
        <4>3. trace[j].begin \in Nat /\ trace[j].end \in Nat /\ trace[j].begin <= trace[j].end
          BY <1>1, LineValues
        <4>4. /\ i < j => trace[i].end < trace[j].begin
              /\ j < i => trace[j].end < trace[i].begin
          <5>1. i \in DOMAIN trace /\ j \in DOMAIN trace
            <6>1. DOMAIN trace = 1..Len(trace)
              BY <1>1, TraceFacts
            <6> QED
              BY <1>1, <6>1
          <5> QED
            BY <1>8, <4>2, <5>1 DEF Separate
        <4>5. l.end <= CurrentTime'
          <5>1. i \in Int /\ j \in Int
            BY <1>1
          <5>2. CASE i = j
            BY <2>1, <4>2, <5>2
          <5>3. CASE i < j
            BY <2>1, <4>2, <4>3, <4>4, <5>3
          <5>4. CASE j < i
            BY <2>1, <3>1, <4>2, <4>3, <4>4, <5>4
          <5> QED
            BY <5>1, <5>2, <5>3, <5>4
        <4> QED
          BY <4>5 DEF Noticed
      <3> QED
        BY <2>1, <2>3, <3>2, <3>3
    <2>4. CASE l.end <= CurrentTime
      <3>1. l.end <= CurrentTime'
        BY <1>1, <1>6, <2>1, <2>4
      <3> QED
        BY <3>1 DEF Noticed
    <2>5. CASE Checkpointed(SimList) /\ i > StopLine(CurrentReadBlock)
      <3>1. PICK x \in 1..Len(SimList) : SimList[x].id = "CheckPoint"
        BY <2>5 DEF Checkpointed
      <3>2. Has(SimList', SimList[x])
        BY <1>1, <1>5, <1>6, <3>1
      <3>3. Checkpointed(SimList')
        BY <3>1, <3>2 DEF Has, Checkpointed
      <3> QED
        BY <2>5, <3>3
    <2>6. Noticed(SimList, N, CurrentTime, l) \/ (Checkpointed(SimList) /\ i > StopLine(CurrentReadBlock))
      BY <1>2, <1>8
    <2> QED
      BY <2>2, <2>3, <2>4, <2>5, <2>6 DEF Noticed
  <1>9. /\ Separate' = Separate /\ Lines' = Lines
        /\ StopLine(CurrentReadBlock)' = StopLine(CurrentReadBlock)
    BY DEF Separate, Lines, StopLine, ReadBlockSize
  <1> QED
    BY <1>4, <1>5, <1>7, <1>8, <1>9 DEF LInv

\* Loading lines, when the clock may go on to the checkpoint.
LEMMA LinksLoaded ==
    ASSUME IInv, LInv, NEW list \in Seq(Event), trace' = trace, N' = N,
           CurrentTime' \in Nat, CurrentTime <= CurrentTime', pc' # "load",
           \A x \in 1..Len(SimList) : SimList[x].id = "CheckPoint" \/ Has(list, SimList[x]),
           Keeps(list, SimList'), OfTrace(SimList', trace), NotBefore(SimList', CurrentTime'),
           Separate /\ pc' = "run" =>
              \A i \in 1..Lines : \/ Noticed(SimList, N, CurrentTime, trace[i])
                                  \/ Has(SimList', Up(trace[i].begin, trace[i].a, trace[i].b))
                                  \/ Checkpointed(SimList') /\ i > StopLine(CurrentReadBlock)'
    PROVE  LInv'
  <1>1. Lines \in Nat /\ Lines = Len(trace) /\ trace \in Traces /\ CurrentTime \in Nat
    BY ValueFacts DEF IInv, Values, Lines
  <1>2. \A x \in 1..Len(SimList) : SimList[x].id = "CheckPoint" \/ Has(SimList', SimList[x])
    BY KeepsFacts
  <1>3. ASSUME NEW a \in Nodes, NEW b \in Nodes, b \in N[a]
        PROVE  WillEnd(SimList', trace, CurrentTime', a, b)
    <2>1. WillEnd(SimList, trace, CurrentTime, a, b)
      BY <1>3 DEF LInv
    <2>2. \A x \in 1..Len(SimList) :
             SimList[x].id = "ContactDown" /\ {SimList[x].a, SimList[x].b} = {a, b}
                => Has(SimList', SimList[x])
      BY <1>2
    <2> QED
      BY <1>1, <2>1, <2>2, EndsKept
  <1>4. ASSUME Separate, pc' = "run", NEW i \in 1..Lines
        PROVE  \/ Noticed(SimList', N, CurrentTime', trace[i])
               \/ Checkpointed(SimList') /\ i > StopLine(CurrentReadBlock)'
    <2> DEFINE l == trace[i]
    <2>1. l.begin \in Nat /\ l.end \in Nat
      BY <1>1, LineValues
    <2>2. CASE Has(SimList, Up(l.begin, l.a, l.b))
      <3>1. PICK x \in 1..Len(SimList) : SimList[x] = Up(l.begin, l.a, l.b)
        BY <2>2 DEF Has
      <3>2. SimList[x].id # "CheckPoint"
        BY <3>1 DEF Up
      <3>3. Has(SimList', Up(l.begin, l.a, l.b))
        BY <1>2, <3>1, <3>2
      <3> QED
        BY <3>3 DEF Noticed
    <2>3. CASE l.begin <= CurrentTime /\ l.b \in N[l.a]
      <3>1. l.begin <= CurrentTime'
        BY <1>1, <2>1, <2>3
      <3> QED
        BY <2>3, <3>1 DEF Noticed
    <2>4. CASE l.end <= CurrentTime
      <3>1. l.end <= CurrentTime'
        BY <1>1, <2>1, <2>4
      <3> QED
        BY <3>1 DEF Noticed
    <2>5. CASE Has(SimList', Up(l.begin, l.a, l.b))
      BY <2>5 DEF Noticed
    <2> QED
      BY <1>4, <2>2, <2>3, <2>4, <2>5 DEF Noticed
  <1>5. Separate' = Separate /\ Lines' = Lines
    BY DEF Separate, Lines
  <1> QED
    BY <1>3, <1>4, <1>5 DEF LInv

\* All of a list is in that list.
LEMMA HasAll == \A list : \A x \in 1..Len(list) : Has(list, list[x])
  BY DEF Has

\* Loading the whole trace.
LEMMA LinksComplete ==
    ASSUME IInv, LInv, LoadCompleteContacts PROVE LInv'
  <1>1. /\ pc = "load" /\ pc' = "run" /\ SimList' = Loaded(SimList, trace, 1, Lines)
        /\ UNCHANGED <<trace, traffic, Split, CurrentTime, N, CurrentReadBlock, sends, handled>>
    BY DEF LoadCompleteContacts
  <1>2. /\ Lines \in Nat /\ Lines = Len(trace) /\ trace \in Traces /\ SimList \in Seq(Event)
        /\ CurrentTime = 0
    BY <1>1, ValueFacts DEF IInv, Values, Progress, Shape, LInv, Lines
  <1>3. /\ OfTrace(SimList', trace) /\ NotBefore(SimList', 0) /\ Keeps(SimList, SimList')
        /\ \A i \in 1..Lines : Has(SimList', Up(trace[i].begin, trace[i].a, trace[i].b))
    <2>1. OfTrace(SimList, trace) /\ NotBefore(SimList, 0)
      BY <1>2 DEF LInv
    <2>2. \A i \in 1..Lines : 0 <= trace[i].begin
      BY <1>2, LineValues
    <2>3. 1 \in Nat \ {0} /\ Lines \in 0..Len(trace) /\ 1 <= Lines + 1
      BY <1>2
    <2> QED
      BY <1>1, <1>2, <2>1, <2>2, <2>3, LoadedLinks
  <1>4. CurrentTime' = 0 /\ CurrentTime' \in Nat /\ CurrentTime <= CurrentTime'
    BY <1>1, <1>2
  <1>5. NotBefore(SimList', CurrentTime') /\ trace' = trace /\ N' = N /\ pc' # "load"
    BY <1>1, <1>3, <1>4
  <1>6. \A x \in 1..Len(SimList) : SimList[x].id = "CheckPoint" \/ Has(SimList, SimList[x])
    BY HasAll
  <1>7. Separate /\ pc' = "run" =>
           \A i \in 1..Lines : \/ Noticed(SimList, N, CurrentTime, trace[i])
                               \/ Has(SimList', Up(trace[i].begin, trace[i].a, trace[i].b))
                               \/ Checkpointed(SimList') /\ i > StopLine(CurrentReadBlock)'
    BY <1>3
  <1> QED
    BY <1>2, <1>3, <1>4, <1>5, <1>6, <1>7, LinksLoaded

\* Loading the first block.
LEMMA LinksFirst ==
    ASSUME IInv, OInv, LInv, LoadFirstBlock PROVE LInv'
  <1>1. /\ pc = "load" /\ Split \notin {NOTSET, 1} /\ LoadPartialContacts(SimList)
        /\ UNCHANGED <<trace, traffic, Split, CurrentTime, N, sends, handled>>
    BY DEF LoadFirstBlock
  <1>2. /\ Lines \in Nat /\ Lines = Len(trace) /\ trace \in Traces /\ SimList \in Seq(Event)
        /\ CurrentTime = 0 /\ Split \in Nat \ {0, 1} /\ CurrentReadBlock = 0
    BY <1>1, ValueFacts DEF IInv, Values, Progress, Shape, LInv, Lines
  <1>3. CurrentReadBlock \in 0..(Split - 1) /\ CurrentReadBlock * ReadBlockSize = 0
    <2>1. ReadBlockSize \in Nat
      <3>1. 0 \in 0..(Split - 1)
        BY <1>2
      <3> QED
        BY <1>2, <3>1, BlockFacts
    <2> QED
      BY <1>2, <2>1
  <1>4. /\ OfTrace(SimList', trace) /\ NotBefore(SimList', 0) /\ Keeps(SimList, SimList')
        /\ pc' \in {"run", "abort"}
        /\ pc' = "run" =>
              \A i \in (CurrentReadBlock * ReadBlockSize + 1)..Lines :
                 \/ Has(SimList', Up(trace[i].begin, trace[i].a, trace[i].b))
                 \/ Checkpointed(SimList') /\ i > StopLine(CurrentReadBlock)'
    <2>1. OfTrace(SimList, trace) /\ NotBefore(SimList, 0)
      BY <1>2 DEF LInv
    <2>2. CurrentReadBlock * ReadBlockSize < Lines
             => 0 <= trace[CurrentReadBlock * ReadBlockSize + 1].begin
      <3>1. \A i \in 1..Lines : 0 <= trace[i].begin
        BY <1>2, LineValues
      <3> QED
        BY <1>2, <1>3, <3>1
    <2> QED
      BY <1>1, <1>2, <1>3, <2>1, <2>2, PartLinks
  <1>5. pc' = "run" =>
           \A i \in 1..Lines :
              \/ Has(SimList', Up(trace[i].begin, trace[i].a, trace[i].b))
              \/ Checkpointed(SimList') /\ i > StopLine(CurrentReadBlock)'
    BY <1>3, <1>4
  <1>6. CurrentTime' = 0 /\ CurrentTime' \in Nat /\ CurrentTime <= CurrentTime' /\ pc' # "load"
    BY <1>1, <1>2, <1>4
  <1>7. NotBefore(SimList', CurrentTime') /\ trace' = trace /\ N' = N
    BY <1>1, <1>4, <1>6
  <1>8. \A x \in 1..Len(SimList) : SimList[x].id = "CheckPoint" \/ Has(SimList, SimList[x])
    BY HasAll
  <1>9. Separate /\ pc' = "run" =>
           \A i \in 1..Lines : \/ Noticed(SimList, N, CurrentTime, trace[i])
                               \/ Has(SimList', Up(trace[i].begin, trace[i].a, trace[i].b))
                               \/ Checkpointed(SimList') /\ i > StopLine(CurrentReadBlock)'
    BY <1>5
  <1> QED
    BY <1>2, <1>4, <1>6, <1>7, <1>8, <1>9, LinksLoaded

\* Loading the next block: its lines begin with the checkpoint or later.
LEMMA LinksContinue ==
    ASSUME IInv, OInv, LInv, ContinueLoading PROVE LInv'
  <1>1. /\ pc = "run" /\ SimList # <<>> /\ Head(SimList).id = "CheckPoint"
        /\ CurrentTime' = Head(SimList).time /\ LoadPartialContacts(Tail(SimList))
        /\ UNCHANGED <<trace, traffic, Split, N, sends, handled>>
    BY DEF ContinueLoading, TopIs, Top
  <1>a. PICK p \in Nat, c \in {0, 1} : \E k, real : InSequence(p, c, k, real)
    BY <1>1 DEF OInv
  <1>2. PICK k, real : InSequence(p, c, k, real)
    BY <1>a
  <1>3. /\ Lines \in Nat /\ Lines = Len(trace) /\ trace \in Traces /\ CurrentTime \in Nat
        /\ SimList \in Seq(Event)
    BY ValueFacts DEF IInv, Values, Progress, Shape, Lines
  <1>4. Bears(SimList, p, c, k, NextBegin, real) /\ real \in Seq(Quiet)
    BY <1>2 DEF InSequence, Bears
  <1>5. c = 1 /\ Head(SimList) = CheckPoint(NextBegin)
    <2>1. ~(Head(SimList) \in Quiet)
      BY <1>1, EventFacts
    <2>2. \/ Head(SimList).id = "Transmission"
          \/ c = 1 /\ Head(SimList) = CheckPoint(NextBegin)
          \/ Head(SimList) \in Quiet
      BY <1>1, <1>3, <1>4, BearsPopped
    <2> QED
      BY <1>1, <2>1, <2>2
  <1>6. /\ Split \in Nat \ {0, 1} /\ CurrentReadBlock \in 1..(Split - 1)
        /\ CurrentReadBlock \in 0..(Split - 1)
    <2>1. Split \in Nat \ {0, 1} /\ CurrentReadBlock \in 1..(Split - 1)
      BY <1>2, <1>5 DEF InSequence
    <2> QED
      BY <2>1
  <1>7. StopLine(CurrentReadBlock) = CurrentReadBlock * ReadBlockSize
        /\ StopLine(CurrentReadBlock) \in Nat
    BY <1>3, <1>6, BlockFacts
  <1> DEFINE rest == Tail(SimList)
  <1>8. /\ rest \in Seq(Event) /\ Len(SimList) \in Nat \ {0} /\ Len(rest) = Len(SimList) - 1
        /\ \A i \in 1..(Len(SimList) - 1) : rest[i] = SimList[i + 1]
        /\ Head(SimList) = SimList[1] /\ SimList[1] \in Event
    BY <1>1, <1>3, TailFacts
  <1> HIDE DEF rest
  <1>9. /\ CurrentTime' = NextBegin /\ CurrentTime' \in Nat /\ CurrentTime <= CurrentTime'
    <2>1. CurrentTime' = NextBegin
      BY <1>1, <1>5 DEF CheckPoint
    <2>2. CurrentTime' \in Nat
      BY <1>1, <1>8, EventFacts
    <2>3. CurrentTime <= SimList[1].time
      BY <1>8 DEF LInv, NotBefore
    <2> QED
      BY <1>1, <1>8, <2>1, <2>2, <2>3
  <1>10. NotBefore(rest, CurrentTime')
    <2>1. InOrderOfTime(SimList)
      BY DEF IInv, Progress, Shape
    <2>2. ASSUME NEW i \in 1..Len(rest) PROVE CurrentTime' <= rest[i].time
      <3>1. 1 \in 1..Len(SimList) /\ i + 1 \in 1..Len(SimList) /\ 1 <= i + 1
            /\ rest[i] = SimList[i + 1]
        BY <1>8
      <3> QED
        BY <1>1, <1>8, <2>1, <3>1 DEF InOrderOfTime
    <2> QED
      BY <2>2 DEF NotBefore
  <1>11. OfTrace(rest, trace) /\ \A x \in 2..Len(SimList) : Has(rest, SimList[x])
    <2>1. Behind(rest, 0, rest)
      <3>1. Len(rest) \in Nat
        BY <1>8
      <3> QED
        BY <3>1, BehindFacts
    <2>2. OfTrace(SimList, trace)
      BY DEF LInv
    <2> QED
      BY <1>1, <1>3, <2>1, <2>2, BehindLinks DEF rest
  <1>12. \A x \in 1..Len(SimList) : SimList[x].id = "CheckPoint" \/ Has(rest, SimList[x])
    <2>1. \A x \in 1..Len(SimList) : x = 1 \/ x \in 2..Len(SimList)
      BY <1>8
    <2> QED
      BY <1>1, <1>8, <1>11, <2>1
  <1>13. /\ OfTrace(SimList', trace) /\ NotBefore(SimList', CurrentTime') /\ Keeps(rest, SimList')
         /\ pc' \in {"run", "abort"}
         /\ pc' = "run" =>
               \A i \in (CurrentReadBlock * ReadBlockSize + 1)..Lines :
                  \/ Has(SimList', Up(trace[i].begin, trace[i].a, trace[i].b))
                  \/ Checkpointed(SimList') /\ i > StopLine(CurrentReadBlock)'
    <2>1. CurrentTime' <= trace[CurrentReadBlock * ReadBlockSize + 1].begin
      <3>1. CurrentTime' = trace[CurrentReadBlock * ReadBlockSize + 1].begin
        BY <1>7, <1>9 DEF NextBegin
      <3>2. \A x \in Nat : x <= x
        OBVIOUS
      <3> QED
        BY <1>9, <3>1, <3>2
    <2>2. LoadPartialContacts(rest)
      BY <1>1 DEF rest
    <2> QED
      BY <1>1, <1>3, <1>6, <1>8, <1>9, <1>10, <1>11, <2>1, <2>2, PartLinks
  <1>14. Separate /\ pc' = "run" =>
            \A i \in 1..Lines :
               \/ Noticed(SimList, N, CurrentTime, trace[i])
               \/ Has(SimList', Up(trace[i].begin, trace[i].a, trace[i].b))
               \/ Checkpointed(SimList') /\ i > StopLine(CurrentReadBlock)'
    <2> SUFFICES ASSUME Separate, pc' = "run", NEW i \in 1..Lines
                 PROVE  \/ Noticed(SimList, N, CurrentTime, trace[i])
                        \/ Has(SimList', Up(trace[i].begin, trace[i].a, trace[i].b))
                        \/ Checkpointed(SimList') /\ i > StopLine(CurrentReadBlock)'
      OBVIOUS
    <2>1. CASE i > StopLine(CurrentReadBlock)
      <3> DEFINE w == CurrentReadBlock * ReadBlockSize
      <3>1. w \in Nat /\ i > w
        BY <1>7, <2>1
      <3> HIDE DEF w
      <3>2. i \in (w + 1)..Lines
        BY <1>3, <3>1
      <3> QED
        BY <1>13, <3>2 DEF w
    <2>2. CASE ~(i > StopLine(CurrentReadBlock))
      BY <1>1, <2>2 DEF LInv
    <2> QED
      BY <2>1, <2>2
  <1>15. trace' = trace /\ N' = N /\ pc' # "load"
    BY <1>1, <1>13
  <1> QED
    BY <1>8, <1>9, <1>12, <1>13, <1>14, <1>15, LinksLoaded

\* The only checkpoint is the one in its place.
LEMMA BearsPoint ==
    ASSUME NEW list \in Seq(Event), NEW p \in Nat, NEW c \in {0, 1}, NEW k, NEW t, NEW real,
           Bears(list, p, c, k, t, real),
           NEW x \in 1..Len(list), list[x].id = "CheckPoint"
    PROVE  c = 1 /\ list[x] = CheckPoint(t)
  <1> DEFINE n == Len(real)
  <1>1. /\ Len(list) = p + c + n /\ n \in Nat /\ k \in 0..n /\ k \in Nat /\ c \in Nat
        /\ real \in Seq(Quiet)
        /\ \A i \in 1..p : list[i].id = "Transmission"
        /\ \A i \in 1..n : list[IF i <= k THEN p + i ELSE p + c + i] = real[i]
        /\ c = 1 => list[p + k + 1] = CheckPoint(t)
    BY DEF Bears
  <1>2. \A i \in 1..n : real[i].id # "CheckPoint"
    <2> TAKE i \in 1..n
    <2>1. real[i] \in Quiet
      BY <1>1
    <2> QED
      BY <2>1, EventFacts
  <1>3. x > p
    <2>1. x \notin 1..p
      BY <1>1
    <2> QED
      BY <2>1
  <1>4. ~(x <= p + k)
    <2> SUFFICES ASSUME x <= p + k PROVE FALSE
      OBVIOUS
    <2>1. x - p \in 1..n /\ x - p <= k /\ p + (x - p) = x
      BY <1>1, <1>3
    <2>2. list[x] = real[x - p]
      BY <1>1, <2>1
    <2> QED
      BY <1>2, <2>1, <2>2
  <1>5. ~(x > p + c + k)
    <2> SUFFICES ASSUME x > p + c + k PROVE FALSE
      OBVIOUS
    <2> DEFINE i == x - (p + c)
    <2>1. i \in 1..n /\ ~(i <= k) /\ p + c + i = x
      BY <1>1
    <2> HIDE DEF i
    <2>2. list[x] = real[i]
      BY <1>1, <2>1
    <2> QED
      BY <1>2, <2>1, <2>2
  <1>6. c = 1 /\ x = p + k + 1
    BY <1>1, <1>4, <1>5
  <1> QED
    BY <1>1, <1>6

\* Every action keeps the links those of contacts of the trace.
LEMMA LinksStep ==
    ASSUME IInv, OInv, LInv, Next PROVE LInv'
  <1>1. CASE LoadCompleteContacts
    BY <1>1, LinksComplete
  <1>2. CASE LoadFirstBlock
    BY <1>2, LinksFirst
  <1>3. CASE ContinueLoading
    BY <1>3, LinksContinue
  <1>0. N \in [Nodes -> SUBSET Nodes] /\ SimList \in Seq(Event)
    BY DEF IInv, Values, Progress, Shape
  <1>4. CASE ContactUp
    <2>1. /\ pc = "run" /\ SimList # <<>> /\ Top.id = "ContactUp" /\ CurrentTime' = Top.time
          /\ UNCHANGED <<trace, Split, pc, CurrentReadBlock>> /\ N' = Connected(Top.a, Top.b)
      BY <1>4 DEF ContactUp, TopIs
    <2>2. IInv' /\ Reacted
      BY <1>4, StepUp
    <2>3. \A n \in Nodes : N'[n] = IF Top.a # Top.b /\ n \in {Top.a, Top.b}
                                   THEN N[n] \cup ({Top.a, Top.b} \ {n}) ELSE N[n]
      BY <2>1 DEF Connected
    <2>4. Top.a \in Nodes /\ Top.b \in Nodes /\ Top.a # Top.b
      <3>1. Top \in Event
        BY <1>0, <2>1, TailFacts DEF Top
      <3>2. Top \in Quiet
        BY <2>1, <3>1 DEF Event, Points
      <3> QED
        BY <2>1, <3>2, EventFacts
    <2>5. \A a, b \in Nodes : b \in N'[a] => b \in N[a] \/ {Top.a, Top.b} = {a, b}
      <3> SUFFICES ASSUME NEW a \in Nodes, NEW b \in Nodes, b \in N'[a], b \notin N[a]
                   PROVE  {Top.a, Top.b} = {a, b}
        OBVIOUS
      <3>1. a \in {Top.a, Top.b} /\ b \in {Top.a, Top.b} \ {a}
        BY <2>3
      <3> QED
        BY <3>1
    <2>6. \A a, b \in Nodes : b \in N[a] => b \in N'[a]
      BY <2>3
    <2>7. Top.b \in N'[Top.a]
      BY <2>3, <2>4
    <2> QED
      BY <2>1, <2>2, <2>5, <2>6, <2>7, LinksActed
  <1>5. CASE ContactDown
    <2>1. /\ pc = "run" /\ SimList # <<>> /\ Top.id = "ContactDown" /\ CurrentTime' = Top.time
          /\ UNCHANGED <<trace, Split, pc, CurrentReadBlock>> /\ N' = Disconnected(Top.a, Top.b)
      BY <1>5 DEF ContactDown, TopIs
    <2>2. IInv' /\ Reacted
      BY <1>5, StepDown
    <2>3. \A n \in Nodes : N'[n] = IF n \in {Top.a, Top.b} THEN N[n] \ ({Top.a, Top.b} \ {n})
                                   ELSE N[n]
      BY <2>1 DEF Disconnected
    <2>4. Top.a # Top.b
      <3>1. Top \in Event
        BY <1>0, <2>1, TailFacts DEF Top
      <3>2. Top \in Quiet
        BY <2>1, <3>1 DEF Event, Points
      <3> QED
        BY <2>1, <3>2 DEF Quiet
    <2>5. \A a, b \in Nodes : b \in N'[a] => b \in N[a] /\ {Top.a, Top.b} # {a, b}
      <3> SUFFICES ASSUME NEW a \in Nodes, NEW b \in Nodes, b \in N'[a]
                   PROVE  b \in N[a] /\ {Top.a, Top.b} # {a, b}
        OBVIOUS
      <3>1. b \in N[a]
        BY <2>3
      <3>2. ASSUME {Top.a, Top.b} = {a, b} PROVE FALSE
        <4>1. a # b /\ a \in {Top.a, Top.b} /\ b \in {Top.a, Top.b}
          BY <2>4, <3>2
        <4>2. b \notin N'[a]
          BY <2>3, <4>1
        <4> QED
          BY <4>2
      <3> QED
        BY <3>1, <3>2
    <2>6. \A a, b \in Nodes : b \in N[a] => b \in N'[a] \/ {Top.a, Top.b} = {a, b}
      <3> SUFFICES ASSUME NEW a \in Nodes, NEW b \in Nodes, b \in N[a], b \notin N'[a]
                   PROVE  {Top.a, Top.b} = {a, b}
        OBVIOUS
      <3>1. a \in {Top.a, Top.b} /\ b \in {Top.a, Top.b} /\ b # a
        BY <2>3
      <3> QED
        BY <3>1
    <2> QED
      BY <2>1, <2>2, <2>5, <2>6, LinksActed
  <1>6. CASE ReceiveFromApp
    <2>1. /\ pc = "run" /\ SimList # <<>> /\ Top.id = "Transmission" /\ CurrentTime' = Top.time
          /\ UNCHANGED <<trace, Split, pc, N, CurrentReadBlock>>
      BY <1>6 DEF ReceiveFromApp, TopIs
    <2>2. IInv' /\ Reacted
      BY <1>6, StepApp
    <2> QED
      BY <2>1, <2>2, LinksActed
  <1>7. CASE Receive
    <2>1. /\ pc = "run" /\ SimList # <<>> /\ Top.id = "Transmission" /\ CurrentTime' = Top.time
          /\ UNCHANGED <<trace, Split, pc, N, CurrentReadBlock>>
      BY <1>7 DEF Receive, TopIs
    <2>2. IInv' /\ Reacted
      BY <1>7, StepReceive
    <2> QED
      BY <2>1, <2>2, LinksActed
  <1> QED
    BY <1>1, <1>2, <1>3, <1>4, <1>5, <1>6, <1>7 DEF Next

\* The inductive invariant of the links: the end of every link is in the
\* list, and every contact has begun, is over, or is still to begin.
THEOREM LinkInvariance == Spec => []LInv
  <1>1. Init => LInv
    BY LInvInit
  <1>2. IInv /\ OInv /\ LInv /\ [Next]_vars => LInv'
    <2> SUFFICES ASSUME IInv, OInv, LInv, [Next]_vars PROVE LInv'
      OBVIOUS
    <2>1. CASE Next
      BY <2>1, LinksStep
    <2>2. CASE UNCHANGED vars
      <3>1. /\ Separate' = Separate /\ Lines' = Lines
            /\ StopLine(CurrentReadBlock)' = StopLine(CurrentReadBlock)
        BY <2>2 DEF vars, Separate, Lines, StopLine, ReadBlockSize
      <3> QED
        BY <2>2, <3>1 DEF LInv, vars
    <2> QED
      BY <2>1, <2>2
  <1> QED
    BY <1>1, <1>2, Invariance, OrderInvariance, PTL DEF Spec

\* Links exist in both directions and only during a contact of the trace,
\* and they do exist during one that no other contact of the pair touches.
THEOREM LinksFollowTrace == Spec => []LinksOfTrace
  <1>1. IInv /\ OInv /\ LInv => LinksOfTrace
    <2> SUFFICES ASSUME IInv, OInv, LInv PROVE LinksOfTrace
      OBVIOUS
    <2>1. /\ Lines \in Nat /\ Lines = Len(trace) /\ trace \in Traces /\ CurrentTime \in Nat
          /\ SimList \in Seq(Event) /\ Symmetric(N)
      BY ValueFacts DEF IInv, Values, Progress, Shape, Lines
    <2>2. DOMAIN trace = 1..Lines
      BY <2>1, TraceFacts
    <2>3. \A i \in 1..Len(SimList) : CurrentTime <= SimList[i].time
      BY DEF LInv, NotBefore
    <2>4. ASSUME NEW a \in Nodes, NEW b \in Nodes, b \in N[a]
          PROVE  /\ a \in N[b]
                 /\ \E i \in DOMAIN trace :
                       /\ {trace[i].a, trace[i].b} = {a, b}
                       /\ trace[i].begin <= CurrentTime /\ CurrentTime <= trace[i].end
      <3>1. PICK x \in 1..Len(SimList), i \in 1..Len(trace) :
               EndOf(SimList[x], trace[i], a, b) /\ trace[i].begin <= CurrentTime
        BY <2>4 DEF LInv, WillEnd
      <3>2. {trace[i].a, trace[i].b} = {a, b} /\ CurrentTime <= trace[i].end
        BY <2>3, <3>1 DEF EndOf
      <3>3. a \in N[b]
        BY <2>1, <2>4 DEF Symmetric
      <3> QED
        BY <2>1, <2>2, <3>1, <3>2, <3>3
    <2>5. ASSUME Separate, pc = "run", NEW i \in 1..Lines,
                 trace[i].begin < CurrentTime, CurrentTime < trace[i].end
          PROVE  trace[i].b \in N[trace[i].a]
      <3>1. trace[i].begin \in Nat /\ trace[i].end \in Nat
        BY <2>1, LineValues
      <3>2. CASE Has(SimList, Up(trace[i].begin, trace[i].a, trace[i].b))
        <4>1. PICK x \in 1..Len(SimList) :
                 SimList[x] = Up(trace[i].begin, trace[i].a, trace[i].b)
          BY <3>2 DEF Has
        <4>2. CurrentTime <= trace[i].begin
          BY <2>3, <4>1 DEF Up
        <4> QED
          BY <2>1, <2>5, <3>1, <4>2
      <3>3. CASE trace[i].end <= CurrentTime
        BY <2>1, <2>5, <3>1, <3>3
      <3>4. CASE Checkpointed(SimList) /\ i > StopLine(CurrentReadBlock)
        <4>a. PICK p \in Nat, c \in {0, 1} : \E k, real : InSequence(p, c, k, real)
          BY <2>5 DEF OInv
        <4>1. PICK k, real : InSequence(p, c, k, real)
          BY <4>a
        <4>2. PICK x \in 1..Len(SimList) : SimList[x].id = "CheckPoint"
          BY <3>4 DEF Checkpointed
        <4>3. c = 1 /\ SimList[x] = CheckPoint(NextBegin)
          BY <2>1, <4>1, <4>2, BearsPoint DEF InSequence
        <4>4. CurrentTime <= NextBegin
          BY <2>3, <4>3 DEF CheckPoint
        <4>5. /\ StopLine(CurrentReadBlock) < Lines /\ StopLine(CurrentReadBlock) \in Nat
          <5>1. /\ Split \in Nat \ {0} /\ CurrentReadBlock \in 0..(Split - 1)
                /\ StopLine(CurrentReadBlock) < Lines
            <6>1. Split \in Nat \ {0, 1} /\ CurrentReadBlock \in 1..(Split - 1)
                  /\ StopLine(CurrentReadBlock) < Lines
              BY <4>1, <4>3 DEF InSequence
            <6> QED
              BY <6>1
          <5> QED
            BY <2>1, <5>1, BlockFacts
        <4> DEFINE first == StopLine(CurrentReadBlock) + 1
        <4>6. first \in 1..Len(trace) /\ i \in 1..Len(trace) /\ first <= i
          BY <2>1, <3>4, <4>5
        <4>7. trace[first].begin <= trace[i].begin /\ trace[first].begin \in Nat
          BY <2>1, <4>6, BeginsInOrder, LineValues
        <4>8. CurrentTime <= trace[i].begin
          BY <2>1, <3>1, <4>4, <4>7 DEF NextBegin
        <4> QED
          BY <2>1, <2>5, <3>1, <4>8
      <3>5. \/ Noticed(SimList, N, CurrentTime, trace[i])
            \/ Checkpointed(SimList) /\ i > StopLine(CurrentReadBlock)
        BY <2>5 DEF LInv
      <3> QED
        BY <3>2, <3>3, <3>4, <3>5 DEF Noticed
    <2> QED
      BY <2>2, <2>4, <2>5 DEF LinksOfTrace
  <1> QED
    BY <1>1, Invariance, OrderInvariance, LinkInvariance, PTL
=============================================================================
