---------------------------- MODULE Lists_proofs -----------------------------
(***************************************************************************)
(* Proofs about the two lists of the simulator, the list of events and the *)
(* buffer of a node, each for every value of its constants.                *)
(*                                                                         *)
(* EventList: the chain is always in order, the clock never goes back, and *)
(* the linked list implements the abstract EventQueue.                     *)
(*                                                                         *)
(* PacketBuffer: a buffer never holds more than its size, no packet has    *)
(* two entries, the records account for the buffer, and every policy drops *)
(* what its name says.                                                     *)
(***************************************************************************)
EXTENDS EventList, PacketBuffer, SequenceTheorems, FiniteSetTheorems,
        WellFoundedInduction, TLAPS

-----------------------------------------------------------------------------
(* The list of events.                                                     *)

\* No pending event is earlier than the clock.
NothingOverdue == \A i \in 1..Len(Top) : Top[i].time >= current.time

\* The ranks in the chain have been given out.
RanksGiven == \A i \in 1..Len(Top) : Top[i].no <= inserted

\* The inductive invariant.  Ordered alone is not preserved: that the new
\* event is the youngest needs RanksGiven; that the clock does not go back
\* needs NothingOverdue, which in turn needs Ordered when the head leaves.
ListInv == ListTypeOK /\ Ordered /\ NothingOverdue /\ RanksGiven

\* Linking an event in at a place makes a chain one longer that holds the
\* old events in their old order and the new one at its place.
LEMMA LinkedType ==
    ASSUME NEW list \in Seq(Event), NEW e \in Event, NEW k \in 1..(Len(list) + 1)
    PROVE  /\ Linked(list, k, e) \in Seq(Event)
           /\ Len(Linked(list, k, e)) = Len(list) + 1
           /\ \A i \in 1..(Len(list) + 1) :
                 Linked(list, k, e)[i] =
                    IF i < k THEN list[i] ELSE IF i = k THEN e ELSE list[i - 1]
  <1> DEFINE n == Len(list)
  <1> DEFINE before == SubSeq(list, 1, k - 1)
  <1> DEFINE after == SubSeq(list, k, n)
  <1>1. n \in Nat /\ k \in Int /\ <<e>> \in Seq(Event) /\ Len(<<e>>) = 1
    OBVIOUS
  <1>2. \A i \in 1..n : list[i] \in Event
    OBVIOUS
  <1>3. /\ before \in Seq(Event) /\ Len(before) = k - 1
        /\ \A i \in 1..(k - 1) : before[i] = list[i]
    BY <1>1, <1>2, SubSeqProperties
  <1>4. /\ after \in Seq(Event) /\ Len(after) = n - k + 1
        /\ \A i \in 1..(n - k + 1) : after[i] = list[k + i - 1]
    BY <1>1, <1>2, SubSeqProperties
  <1> DEFINE half == before \o <<e>>
  <1> HIDE DEF before, after
  <1>5. /\ half \in Seq(Event) /\ Len(half) = k
        /\ \A i \in 1..k : half[i] = IF i < k THEN list[i] ELSE e
    BY <1>1, <1>3, ConcatProperties
  <1> HIDE DEF half
  <1> DEFINE f == half \o after
  <1>6. /\ f \in Seq(Event) /\ Len(f) = n + 1
        /\ \A i \in 1..(n + 1) : f[i] = IF i <= k THEN half[i] ELSE after[i - k]
    <2>1. /\ f \in Seq(Event) /\ Len(f) = Len(half) + Len(after)
          /\ \A i \in 1..(Len(half) + Len(after)) :
                f[i] = IF i <= Len(half) THEN half[i] ELSE after[i - Len(half)]
      BY <1>4, <1>5, ConcatProperties
    <2>2. Len(half) = k /\ Len(half) + Len(after) = n + 1
      BY <1>1, <1>4, <1>5
    <2> QED
      BY <2>1, <2>2
  <1>7. f = Linked(list, k, e)
    BY DEF f, half, before, after, Linked
  <1> HIDE DEF f
  <1>8. ASSUME NEW i \in 1..(n + 1)
        PROVE  f[i] = IF i < k THEN list[i] ELSE IF i = k THEN e ELSE list[i - 1]
    <2>1. CASE i <= k
      BY <1>1, <1>5, <1>6, <2>1
    <2>2. CASE i > k
      <3>1. i - k \in 1..(n - k + 1) /\ k + (i - k) - 1 = i - 1
        BY <1>1, <2>2
      <3>2. after[i - k] = list[i - 1]
        BY <1>4, <3>1
      <3> QED
        BY <1>1, <1>6, <2>2, <3>2
    <2> QED
      BY <1>1, <2>1, <2>2
  <1> QED
    BY <1>6, <1>7, <1>8

\* As a set, the chain after the insertion is the chain before it and e.
LEMMA LinkedSet ==
    ASSUME NEW list \in Seq(Event), NEW e \in Event, NEW k \in 1..(Len(list) + 1)
    PROVE  {Linked(list, k, e)[i] : i \in 1..Len(Linked(list, k, e))}
             = {list[i] : i \in 1..Len(list)} \cup {e}
  <1> DEFINE n == Len(list)
  <1> DEFINE f == Linked(list, k, e)
  <1>1. n \in Nat
    OBVIOUS
  <1>2. /\ Len(f) = n + 1
        /\ \A i \in 1..(n + 1) :
              f[i] = IF i < k THEN list[i] ELSE IF i = k THEN e ELSE list[i - 1]
    BY LinkedType, SMTT(30)
  <1> HIDE DEF f
  <1>3. ASSUME NEW x \in {list[i] : i \in 1..n}
        PROVE  \E j \in 1..(n + 1) : f[j] = x
    <2>1. PICK i \in 1..n : x = list[i]
      OBVIOUS
    <2>2. CASE i < k
      <3>1. i \in 1..(n + 1) /\ f[i] = x
        BY <1>1, <1>2, <2>1, <2>2
      <3> QED
        BY <3>1
    <2>3. CASE i >= k
      <3>1. i + 1 \in 1..(n + 1) /\ f[i + 1] = x
        BY <1>1, <1>2, <2>1, <2>3
      <3> QED
        BY <3>1
    <2> QED
      BY <1>1, <2>2, <2>3
  <1>4. f[k] = e /\ k \in 1..(n + 1)
    BY <1>1, <1>2
  <1>5. ASSUME NEW j \in 1..(n + 1)
        PROVE  f[j] \in {list[i] : i \in 1..n} \cup {e}
    BY <1>1, <1>2
  <1>6. \A x \in {list[i] : i \in 1..n} \cup {e} : x \in {f[i] : i \in 1..(n + 1)}
    BY <1>3, <1>4
  <1>7. \A x \in {f[i] : i \in 1..(n + 1)} : x \in {list[i] : i \in 1..n} \cup {e}
    BY <1>5
  <1>8. {f[i] : i \in 1..Len(f)} = {list[i] : i \in 1..n} \cup {e}
    BY <1>2, <1>6, <1>7
  <1> QED
    BY <1>8 DEF f

\* The head of a non-empty chain and what is left of it.
LEMMA TailFacts ==
    ASSUME NEW list \in Seq(Event), list # <<>>
    PROVE  /\ Tail(list) \in Seq(Event)
           /\ Len(list) \in Nat \ {0}
           /\ Len(Tail(list)) = Len(list) - 1
           /\ \A i \in 1..(Len(list) - 1) : Tail(list)[i] = list[i + 1]
           /\ Head(list) = list[1]
           /\ Head(list) \in Event
  OBVIOUS

\* Times and ranks are numbers.
LEMMA Numbers ==
    ASSUME ListTypeOK
    PROVE  /\ \A i \in 1..Len(Top) : Top[i].time \in Nat /\ Top[i].no \in Nat
           /\ current.time \in Nat
  <1>1. \A e \in Event : e.time \in Nat /\ e.no \in Nat
    <2> SUFFICES ASSUME NEW e \in Event PROVE e.time \in Nat /\ e.no \in Nat
      OBVIOUS
    <2>1. e.time \in Times /\ e.no \in 1..MaxEvents
      BY DEF Event
    <2>2. Times \subseteq Nat /\ MaxEvents \in Nat
      BY EventListAssumption
    <2> HIDE DEF Event
    <2>3. e.time \in Nat
      BY <2>1, <2>2
    <2>4. e.no \in Nat
      BY <2>1, <2>2
    <2> QED
      BY <2>3, <2>4
  <1>2. \A i \in 1..Len(Top) : Top[i] \in Event
    BY DEF ListTypeOK
  <1>3. Start.time \in Nat
    BY DEF Start
  <1>4. current.time \in Nat
    BY <1>1, <1>3 DEF ListTypeOK
  <1> QED
    BY <1>1, <1>2, <1>4

-----------------------------------------------------------------------------
\* The values the variables take.
LEMMA ListInvInit == ListInit => ListInv
  BY EventListAssumption
     DEF ListInit, ListInv, ListTypeOK, Ordered, NothingOverdue, RanksGiven, Start

\* An insertion preserves the invariant.
LEMMA InsertInv ==
    ASSUME ListInv, NEW t \in Times, Insert(t)
    PROVE  ListInv'
  <1> DEFINE e == [time |-> t, no |-> inserted + 1]
  <1>1. e \in Event /\ t \in Nat /\ inserted \in Nat /\ inserted' = inserted + 1
    BY EventListAssumption DEF ListInv, ListTypeOK, Insert, Event
  <1>2. Top \in Seq(Event)
    BY DEF ListInv, ListTypeOK
  <1>3. PICK k \in 1..(Len(Top) + 1) :
           IsPlace(k, Top, e.time) /\ Top' = Linked(Top, k, e)
    BY DEF Insert, InsertEvent
  <1> DEFINE n == Len(Top)
  <1>4. /\ Top' \in Seq(Event) /\ Len(Top') = n + 1 /\ n \in Nat
        /\ \A i \in 1..(n + 1) :
              Top'[i] = IF i < k THEN Top[i] ELSE IF i = k THEN e ELSE Top[i - 1]
    BY <1>1, <1>2, <1>3, LinkedType
  <1>a. \A i \in 1..(n + 1) : Top'[i] = e \/ \E j \in 1..n : Top'[i] = Top[j]
    <2> SUFFICES ASSUME NEW i \in 1..(n + 1), i # k
                 PROVE  \E j \in 1..n : Top'[i] = Top[j]
      BY <1>4
    <2>1. CASE i < k
      BY <1>4, <2>1
    <2>2. CASE i > k
      <3>1. i - 1 \in 1..n /\ Top'[i] = Top[i - 1]
        BY <1>4, <2>2
      <3> QED
        BY <3>1
    <2> QED
      BY <1>4, <2>1, <2>2
  <1>5. \A i \in 1..n : Top[i].time \in Nat /\ Top[i].no \in Nat
    BY Numbers DEF ListInv
  <1>6. ListTypeOK'
    BY <1>1, <1>4, EventListAssumption
       DEF ListInv, ListTypeOK, Insert, InsertEvent
  <1>7. Ordered'
    <2> SUFFICES ASSUME NEW i \in 1..(n + 1), NEW j \in 1..(n + 1), i < j
                 PROVE  \/ Top'[i].time < Top'[j].time
                        \/ Top'[i].time = Top'[j].time /\ Top'[i].no > Top'[j].no
      BY <1>4 DEF Ordered
    <2>0. /\ \A x, y \in 1..n :
                 x < y => \/ Top[x].time < Top[y].time
                          \/ Top[x].time = Top[y].time /\ Top[x].no > Top[y].no
          /\ \A x \in 1..n : Top[x].no < e.no
          /\ \A x \in 1..n : x < k => Top[x].time < t
          /\ k <= n => Top[k].time >= t
          /\ e.time = t
      <3>1. \A x, y \in 1..n :
               x < y => \/ Top[x].time < Top[y].time
                        \/ Top[x].time = Top[y].time /\ Top[x].no > Top[y].no
        BY DEF ListInv, Ordered
      <3>2. \A x \in 1..n : Top[x].no <= inserted
        BY DEF ListInv, RanksGiven
      <3>3. \A x \in 1..n : Top[x].no < e.no
        BY <1>1, <1>5, <3>2
      <3>4. e.time = t
        OBVIOUS
      <3>5. /\ \A x \in 1..(k - 1) : Top[x].time < t
            /\ k <= n => Top[k].time >= t
        BY <1>3, <3>4 DEF IsPlace
      <3>6. \A x \in 1..n : x < k => x \in 1..(k - 1)
        BY <1>3, <1>4
      <3> QED
        BY <3>1, <3>3, <3>4, <3>5, <3>6
    <2>1. \A y \in 1..n : y >= k => Top[y].time >= t
      <3> SUFFICES ASSUME NEW y \in 1..n, y >= k PROVE Top[y].time >= t
        OBVIOUS
      <3>1. CASE y = k
        BY <2>0, <3>1
      <3>2. CASE y > k
        <4>1. k \in 1..n
          BY <1>4, <3>2
        <4>2. Top[k].time <= Top[y].time
          BY <2>0, <3>2, <4>1, <1>5
        <4> QED
          BY <1>1, <1>4, <1>5, <2>0, <4>1, <4>2
      <3> QED
        BY <1>4, <3>1, <3>2
    <2> HIDE DEF e
    <2>2. CASE j < k
      <3>1. i \in 1..n /\ j \in 1..n /\ Top'[i] = Top[i] /\ Top'[j] = Top[j]
        BY <1>4, <2>2
      <3> QED
        BY <2>0, <3>1
    <2>3. CASE j = k
      <3>1. i \in 1..n /\ Top'[i] = Top[i] /\ Top'[j] = e /\ i < k
        BY <1>4, <2>3
      <3> QED
        BY <2>0, <3>1
    <2>4. CASE j > k /\ i < k
      <3>1. i \in 1..n /\ j - 1 \in 1..n /\ Top'[i] = Top[i] /\ Top'[j] = Top[j - 1]
        BY <1>4, <2>4
      <3>2. i < j - 1
        BY <1>4, <2>4
      <3> QED
        BY <2>0, <3>1, <3>2
    <2>5. CASE j > k /\ i = k
      <3>1. j - 1 \in 1..n /\ j - 1 >= k /\ Top'[i] = e /\ Top'[j] = Top[j - 1]
        BY <1>4, <2>5
      <3>2. Top[j - 1].time >= t /\ Top[j - 1].no < e.no /\ Top[j - 1].time \in Nat
        BY <2>0, <2>1, <3>1, <1>5
      <3> QED
        BY <1>1, <2>0, <3>1, <3>2 DEF e
    <2>6. CASE j > k /\ i > k
      <3>1. /\ i - 1 \in 1..n /\ j - 1 \in 1..n /\ i - 1 < j - 1
            /\ Top'[i] = Top[i - 1] /\ Top'[j] = Top[j - 1]
        BY <1>4, <2>6
      <3> QED
        BY <2>0, <3>1
    <2> QED
      BY <1>4, <2>2, <2>3, <2>4, <2>5, <2>6
  <1>8. NothingOverdue'
    <2>1. current' = current /\ t >= current.time
      BY DEF Insert
    <2>2. ASSUME NEW i \in 1..(n + 1)
          PROVE  Top'[i].time >= current.time
      <3>1. \A j \in 1..n : Top[j].time >= current.time
        BY DEF ListInv, NothingOverdue
      <3>2. e.time >= current.time
        BY <2>1
      <3> HIDE DEF e
      <3> QED
        BY <1>a, <3>1, <3>2
    <2> QED
      BY <1>4, <2>1, <2>2 DEF NothingOverdue
  <1>9. RanksGiven'
    <2>1. ASSUME NEW i \in 1..(n + 1)
          PROVE  Top'[i].no <= inserted + 1
      <3>1. \A x \in 1..n : Top[x].no <= inserted + 1
        BY <1>1, <1>4, <1>5 DEF ListInv, RanksGiven
      <3>2. e.no <= inserted + 1
        BY <1>1
      <3> HIDE DEF e
      <3> QED
        BY <1>a, <3>1, <3>2
    <2> QED
      BY <1>1, <1>4, <2>1 DEF RanksGiven
  <1> QED
    BY <1>6, <1>7, <1>8, <1>9 DEF ListInv

\* A retrieval preserves the invariant.
LEMMA GetTopInv ==
    ASSUME ListInv, GetTop
    PROVE  ListInv'
  <1> DEFINE n == Len(Top)
  <1>1. /\ Top' \in Seq(Event) /\ n \in Nat \ {0} /\ Len(Top') = n - 1
        /\ \A i \in 1..(n - 1) : Top'[i] = Top[i + 1]
        /\ current' = Top[1] /\ current' \in Event
        /\ inserted' = inserted /\ NumberEvents' = NumberEvents - 1
    BY TailFacts DEF ListInv, ListTypeOK, GetTop
  <1>2. ListTypeOK'
    BY <1>1 DEF ListInv, ListTypeOK
  <1>3. Ordered'
    <2> SUFFICES ASSUME NEW i \in 1..(n - 1), NEW j \in 1..(n - 1), i < j
                 PROVE  \/ Top'[i].time < Top'[j].time
                        \/ Top'[i].time = Top'[j].time /\ Top'[i].no > Top'[j].no
      BY <1>1 DEF Ordered
    <2>1. i + 1 \in 1..n /\ j + 1 \in 1..n /\ i + 1 < j + 1
      BY <1>1
    <2>2. \/ Top[i + 1].time < Top[j + 1].time
          \/ Top[i + 1].time = Top[j + 1].time /\ Top[i + 1].no > Top[j + 1].no
      BY <2>1 DEF ListInv, Ordered
    <2> QED
      BY <1>1, <2>2
  <1>4. NothingOverdue'
    <2> SUFFICES ASSUME NEW i \in 1..(n - 1)
                 PROVE  Top'[i].time >= current'.time
      BY <1>1 DEF NothingOverdue
    <2>1. 1 \in 1..n /\ i + 1 \in 1..n /\ 1 < i + 1
      BY <1>1
    <2>2. Top[1].time <= Top[i + 1].time
      <3>1. Top[1].time \in Nat /\ Top[i + 1].time \in Nat
        BY <2>1, Numbers DEF ListInv
      <3> QED
        BY <2>1, <3>1 DEF ListInv, Ordered
    <2> QED
      BY <1>1, <2>1, <2>2, Numbers DEF ListInv
  <1>5. RanksGiven'
    BY <1>1 DEF ListInv, RanksGiven
  <1> QED
    BY <1>2, <1>3, <1>4, <1>5 DEF ListInv

\* Every step preserves the invariant.
LEMMA ListInvNext == ListInv /\ [ListNext]_listVars => ListInv'
  <1> SUFFICES ASSUME ListInv, [ListNext]_listVars PROVE ListInv'
    OBVIOUS
  <1>1. CASE GetTop
    BY <1>1, GetTopInv
  <1>2. ASSUME NEW t \in Times, Insert(t) PROVE ListInv'
    BY <1>2, InsertInv
  <1>3. CASE UNCHANGED listVars
    BY <1>3 DEF listVars, ListInv, ListTypeOK, Ordered, NothingOverdue, RanksGiven
  <1> QED
    BY <1>1, <1>2, <1>3 DEF ListNext

\* The inductive invariant holds in every reachable state of the list.
THEOREM ListInvariance == ListSpec => []ListInv
  BY ListInvInit, ListInvNext, PTL DEF ListSpec

\* The variables keep to their types and NumberEvents counts the chain
\* (EventList::InsertEvent, EventList::GetTop).
THEOREM ListTypeCorrect == ListSpec => []ListTypeOK
  <1>1. ListInv => ListTypeOK
    BY DEF ListInv
  <1> QED
    BY ListInvariance, <1>1, PTL

\* The chain is always ordered by time, the youngest of an instant first.
THEOREM AlwaysOrdered == ListSpec => []Ordered
  <1>1. ListInv => Ordered
    BY DEF ListInv
  <1> QED
    BY ListInvariance, <1>1, PTL

\* The clock of Simulator::startSimulation never goes back.
THEOREM ClockNeverBack == ListSpec => ClockMonotone
  <1>1. ListInv /\ [ListNext]_listVars => [current'.time >= current.time]_listVars
    <2> SUFFICES ASSUME ListInv, ListNext PROVE current'.time >= current.time
      OBVIOUS
    <2>1. current.time \in Nat
      BY Numbers DEF ListInv
    <2>2. CASE GetTop
      <3>1. current' = Top[1] /\ 1 \in 1..Len(Top)
        BY <2>2, TailFacts DEF GetTop, ListInv, ListTypeOK
      <3> QED
        BY <3>1 DEF ListInv, NothingOverdue
    <2>3. ASSUME NEW t \in Times, Insert(t) PROVE current'.time >= current.time
      BY <2>1, <2>3 DEF Insert
    <2> QED
      BY <2>2, <2>3 DEF ListNext
  <1> QED
    BY ListInvariance, <1>1, PTL DEF ListSpec, ClockMonotone

-----------------------------------------------------------------------------
\* The abstract events still pending.
Pending == {Top[i] : i \in 1..Len(Top)}

\* A retrieval hands out the first event of the abstract queue.
LEMMA GetTopRefines ==
    ASSUME ListInv, GetTop
    PROVE  \E e \in Pending : Queue!Retrieve(e)
  <1> DEFINE n == Len(Top)
  <1>1. /\ n \in Nat \ {0} /\ Len(Top') = n - 1
        /\ \A i \in 1..(n - 1) : Top'[i] = Top[i + 1]
        /\ current' = Top[1] /\ inserted' = inserted
    BY TailFacts DEF ListInv, ListTypeOK, GetTop
  <1>2. 1 \in 1..n /\ Top[1] \in Pending
    BY <1>1 DEF Pending
  <1>3. \A j \in 1..n : j # 1 => Queue!Precedes(Top[1], Top[j]) /\ Top[j] # Top[1]
    <2> SUFFICES ASSUME NEW j \in 1..n, j # 1
                 PROVE  Queue!Precedes(Top[1], Top[j]) /\ Top[j] # Top[1]
      OBVIOUS
    <2>1. 1 < j
      BY <1>1
    <2>2. \/ Top[1].time < Top[j].time
          \/ Top[1].time = Top[j].time /\ Top[1].no > Top[j].no
      BY <1>2, <2>1 DEF ListInv, Ordered
    <2>3. Top[1].time \in Nat /\ Top[1].no \in Nat /\ Top[j].no \in Nat /\ Top[j].time \in Nat
      BY <1>2, Numbers DEF ListInv
    <2> QED
      BY <2>2, <2>3 DEF Queue!Precedes
  <1>4. \A f \in Pending \ {Top[1]} : Queue!Precedes(Top[1], f)
    BY <1>3 DEF Pending
  <1>5. Pending' = Pending \ {Top[1]}
    <2>1. ASSUME NEW x \in Pending' PROVE x \in Pending \ {Top[1]}
      <3>1. PICK i \in 1..(n - 1) : x = Top'[i]
        BY <1>1, <2>1 DEF Pending
      <3>2. i + 1 \in 1..n /\ x = Top[i + 1] /\ i + 1 # 1
        BY <1>1, <3>1
      <3> QED
        BY <1>3, <3>2 DEF Pending
    <2>2. ASSUME NEW x \in Pending \ {Top[1]} PROVE x \in Pending'
      <3>1. PICK i \in 1..n : x = Top[i] /\ i # 1
        BY DEF Pending
      <3>2. i - 1 \in 1..(n - 1) /\ x = Top'[i - 1]
        BY <1>1, <3>1
      <3> QED
        BY <1>1, <3>2 DEF Pending
    <2> QED
      BY <2>1, <2>2
  <1> QED
    BY <1>1, <1>2, <1>4, <1>5 DEF Queue!Retrieve, Pending

\* An insertion is one of the abstract queue.
LEMMA InsertRefines ==
    ASSUME ListInv, NEW t \in Times, Insert(t)
    PROVE  Queue!Insert(t)
  <1> DEFINE e == [time |-> t, no |-> inserted + 1]
  <1>1. e \in Event /\ Top \in Seq(Event)
    BY EventListAssumption DEF ListInv, ListTypeOK, Insert, Event
  <1>2. PICK k \in 1..(Len(Top) + 1) : Top' = Linked(Top, k, e)
    BY DEF Insert, InsertEvent
  <1>3. Pending' = Pending \cup {e}
    <2>1. {Linked(Top, k, e)[i] : i \in 1..Len(Linked(Top, k, e))}
             = {Top[i] : i \in 1..Len(Top)} \cup {e}
      BY <1>1, LinkedSet
    <2> HIDE DEF e
    <2> QED
      BY <1>2, <2>1 DEF Pending
  <1> QED
    BY <1>3 DEF Insert, Queue!Insert, Pending

\* The linked list implements the abstract queue: every behaviour of
\* EventList, its chain seen as a set, is a behaviour of EventQueue.
THEOREM Refinement == ListSpec => ImplementsQueue
  <1>1. ListInit => Queue!Init
    BY DEF ListInit, Queue!Init, Start, Queue!Start
  <1>2. ListInv /\ [ListNext]_listVars => [Queue!Next]_Queue!vars
    <2> SUFFICES ASSUME ListInv, [ListNext]_listVars PROVE [Queue!Next]_Queue!vars
      OBVIOUS
    <2>1. CASE GetTop
      BY <2>1, GetTopRefines DEF Queue!Next, Pending
    <2>2. ASSUME NEW t \in Times, Insert(t) PROVE Queue!Next
      BY <2>2, InsertRefines DEF Queue!Next
    <2>3. CASE UNCHANGED listVars
      BY <2>3 DEF listVars, Queue!vars
    <2> QED
      BY <2>1, <2>2, <2>3 DEF ListNext
  <1> QED
    BY ListInvariance, <1>1, <1>2, PTL DEF ListSpec, ImplementsQueue, Queue!Spec

-----------------------------------------------------------------------------
(* The buffer.  First, numbers.                                            *)

\* A nonempty set of numbers has a smallest element.
LEMMA LeastNumber ==
    ASSUME NEW T \in SUBSET Nat, T # {}
    PROVE  \E x \in T : \A y \in T : x <= y
  <1> DEFINE R == OpToRel(<, Nat)
  <1>1. IsWellFoundedOn(R, Nat)
    BY NatLessThanWellFounded
  <1>2. \A x, y \in Nat : x < y <=> <<x, y>> \in R
    BY DEF OpToRel
  <1> HIDE DEF R
  <1>3. PICK x \in T : \A y \in T : ~(<<y, x>> \in R)
    BY <1>1, WFMin
  <1>4. \A y \in T : ~(y < x)
    BY <1>2, <1>3
  <1> QED
    BY <1>4

\* A nonempty set of numbers with a bound has a largest element.
LEMMA LargestNumber ==
    ASSUME NEW n \in Nat, NEW T \in SUBSET (0..n), T # {}
    PROVE  \E x \in T : \A y \in T : x >= y
  <1> DEFINE D == {n - x : x \in T}
  <1>0. \A x \in T : x \in Int /\ n - x \in Nat
    OBVIOUS
  <1>1. D \in SUBSET Nat /\ D # {}
    BY <1>0, Zenon
  <1>2. PICK d \in D : \A y \in D : d <= y
    BY <1>1, LeastNumber
  <1>3. PICK x \in T : d = n - x
    BY <1>2
  <1>4. ASSUME NEW y \in T PROVE x >= y
    <2>1. n - x <= n - y
      BY <1>2, <1>3
    <2>2. x \in 0..n /\ y \in 0..n
      BY <1>3
    <2> QED
      BY <2>1, <2>2
  <1> QED
    BY <1>4

\* A set of numbers that has 0 and with each number the next one has them all.
LEMMA NumbersFromZero ==
    ASSUME NEW P \in SUBSET Nat, 0 \in P, \A k \in P : k + 1 \in P
    PROVE  P = Nat
  <1>1. SUFFICES ASSUME Nat \ P # {} PROVE FALSE
    OBVIOUS
  <1>2. PICK k \in Nat \ P : \A y \in Nat \ P : k <= y
    BY <1>1, LeastNumber
  <1>3. k # 0 /\ k - 1 \in Nat
    BY <1>2
  <1>4. k - 1 \in P
    BY <1>2, <1>3
  <1>5. (k - 1) + 1 \in P
    BY <1>4
  <1> QED
    BY <1>2, <1>3, <1>5

-----------------------------------------------------------------------------
(* Lists that keep a part of another one, in its order.                    *)

Ascends(f) == \A i, j \in DOMAIN f : i < j => f[i] < f[j]

\* The positions of a set have an order.
LEMMA InOrderExists ==
    ASSUME NEW n \in Nat, NEW I \in SUBSET (1..n)
    PROVE  /\ IsFiniteSet(I) /\ Cardinality(I) \in 0..n
           /\ InOrder(I) \in [1..Cardinality(I) -> I]
           /\ Ascends(InOrder(I))
  <1> DEFINE P == {k \in Nat : \A T \in SUBSET I : Cardinality(T) = k =>
                      \E f \in [1..k -> T] : Ascends(f)}
  <1>1. \A T \in SUBSET I : IsFiniteSet(T) /\ Cardinality(T) \in 0..n
    <2>1. IsFiniteSet(1..n) /\ Cardinality(1..n) = n
      BY FS_Interval
    <2> TAKE T \in SUBSET I
    <2>2. T \in SUBSET (1..n)
      OBVIOUS
    <2>3. IsFiniteSet(T) /\ Cardinality(T) <= Cardinality(1..n)
      BY <2>1, <2>2, FS_Subset
    <2>4. Cardinality(T) \in Nat
      BY <2>3, FS_CardinalityType
    <2> QED
      BY <2>1, <2>3, <2>4
  <1>2. 0 \in P
    <2>1. ASSUME NEW T \in SUBSET I, Cardinality(T) = 0
          PROVE  \E f \in [1..0 -> T] : Ascends(f)
      <3>1. [i \in 1..0 |-> 0] \in [1..0 -> T]
        OBVIOUS
      <3>2. Ascends([i \in 1..0 |-> 0])
        BY DEF Ascends
      <3> QED
        BY <3>1, <3>2
    <2> QED
      BY <2>1
  <1>3. ASSUME NEW k \in P PROVE k + 1 \in P
    <2>1. ASSUME NEW T \in SUBSET I, Cardinality(T) = k + 1
          PROVE  \E f \in [1..(k + 1) -> T] : Ascends(f)
      <3>0. k \in Nat
        BY <1>3
      <3>1. T # {} /\ T \in SUBSET (0..n)
        BY <2>1, <3>0, FS_EmptySet
      <3>2. PICK m \in T : \A y \in T : m >= y
        BY <3>1, LargestNumber
      <3>3. Cardinality(T \ {m}) = k /\ T \ {m} \in SUBSET I
        BY <1>1, <2>1, <3>0, <3>2, FS_RemoveElement
      <3>4. PICK g \in [1..k -> T \ {m}] : Ascends(g)
        BY <1>3, <3>3
      <3> DEFINE f == [i \in 1..(k + 1) |-> IF i = k + 1 THEN m ELSE g[i]]
      <3>5. \A i \in 1..(k + 1) : i # k + 1 => i \in 1..k
        BY <3>0
      <3>6. f \in [1..(k + 1) -> T]
        BY <3>2, <3>4, <3>5
      <3>7. ASSUME NEW i \in 1..(k + 1), NEW j \in 1..(k + 1), i < j PROVE f[i] < f[j]
        <4>1. i \in 1..k /\ f[i] = g[i] /\ g[i] \in T \ {m}
          BY <3>0, <3>4, <3>7
        <4>2. T \subseteq 0..n
          BY <3>1
        <4>3. CASE j = k + 1
          <5>1. f[j] = m
            BY <4>3
          <5>2. g[i] \in T /\ g[i] # m /\ m \in T
            BY <3>2, <4>1
          <5>3. m >= g[i]
            BY <3>2, <5>2
          <5>4. g[i] \in 0..n /\ m \in 0..n
            BY <4>2, <5>2
          <5> QED
            BY <4>1, <5>1, <5>2, <5>3, <5>4
        <4>4. CASE j # k + 1
          <5>1. j \in 1..k /\ f[j] = g[j]
            BY <3>5, <4>4
          <5>2. DOMAIN g = 1..k
            BY <3>4
          <5> QED
            BY <3>4, <3>7, <4>1, <5>1, <5>2 DEF Ascends
        <4> QED
          BY <4>3, <4>4
      <3>8. DOMAIN f = 1..(k + 1)
        OBVIOUS
      <3> HIDE DEF f
      <3>9. Ascends(f)
        BY <3>7, <3>8 DEF Ascends
      <3> QED
        BY <3>6, <3>9
    <2> QED
      BY <1>3, <2>1
  <1>4. P = Nat
    <2>1. P \in SUBSET Nat
      OBVIOUS
    <2> HIDE DEF P
    <2> QED
      BY <1>2, <1>3, <2>1, NumbersFromZero
  <1>5. \E f \in [1..Cardinality(I) -> I] : Ascends(f)
    BY <1>1, <1>4
  <1> QED
    BY <1>1, <1>5 DEF InOrder, Ascends

\* The order leaves no position out.
LEMMA InOrderOnto ==
    ASSUME NEW n \in Nat, NEW I \in SUBSET (1..n)
    PROVE  \A i \in I : \E k \in 1..Cardinality(I) : InOrder(I)[k] = i
  <1> DEFINE f == InOrder(I)
  <1> DEFINE c == Cardinality(I)
  <1> DEFINE J == {f[k] : k \in 1..c}
  <1>1. IsFiniteSet(I) /\ c \in Nat /\ f \in [1..c -> I] /\ Ascends(f)
    BY InOrderExists
  <1>2. \A k, l \in 1..c : f[k] = f[l] => k = l
    <2> SUFFICES ASSUME NEW k \in 1..c, NEW l \in 1..c, f[k] = f[l], k # l PROVE FALSE
      OBVIOUS
    <2>1. DOMAIN f = 1..c /\ f[k] \in 1..n /\ f[l] \in 1..n
      BY <1>1
    <2>2. f[k] < f[l] \/ f[l] < f[k]
      BY <1>1, <2>1 DEF Ascends
    <2> QED
      BY <2>1, <2>2
  <1> HIDE DEF f
  <1>3. J \subseteq I
    BY <1>1
  <1>4. IsFiniteSet(1..c) /\ Cardinality(1..c) = c
    BY <1>1, FS_Interval
  <1> DEFINE g == [k \in 1..c |-> f[k]]
  <1>5. g \in Bijection(1..c, J)
    BY <1>1, <1>2 DEF Bijection, Injection, Surjection, IsInjective
  <1>6. Cardinality(J) = c
    BY <1>4, <1>5, FS_Bijection DEF ExistsBijection
  <1>7. J = I
    BY <1>1, <1>3, <1>6, FS_Subset
  <1> QED
    BY <1>7 DEF f

\* List c is a part of list b: h tells where its entries are in b.
Part(c, b, h) ==
    /\ h \in [1..Len(c) -> 1..Len(b)]
    /\ Ascends(h)
    /\ \A k \in 1..Len(c) : c[k] = b[h[k]]

\* Kept makes a part of the list that has all the positions it is given.
LEMMA KeptFacts ==
    ASSUME NEW S, NEW b \in Seq(S), NEW I \in SUBSET DOMAIN b
    PROVE  /\ Kept(b, I) \in Seq(S)
           /\ Cardinality(I) \in 0..Len(b)
           /\ Len(Kept(b, I)) = Cardinality(I)
           /\ Part(Kept(b, I), b, InOrder(I))
           /\ \A i \in I : \E k \in 1..Len(Kept(b, I)) : InOrder(I)[k] = i
           /\ \A k \in 1..Len(Kept(b, I)) : InOrder(I)[k] \in I
  <1> DEFINE n == Len(b)
  <1> DEFINE c == Cardinality(I)
  <1> DEFINE f == InOrder(I)
  <1>1. n \in Nat /\ I \in SUBSET (1..n) /\ DOMAIN b = 1..n
    OBVIOUS
  <1>2. c \in 0..n /\ f \in [1..c -> I] /\ Ascends(f)
    BY <1>1, InOrderExists
  <1>3. \A i \in I : \E k \in 1..c : f[k] = i
    BY <1>1, InOrderOnto
  <1> HIDE DEF f, c
  <1>4. Kept(b, I) = [k \in 1..c |-> b[f[k]]]
    BY DEF Kept, f, c
  <1>5. \A k \in 1..c : f[k] \in I /\ f[k] \in 1..n /\ b[f[k]] \in S
    BY <1>1, <1>2
  <1>6. [k \in 1..c |-> b[f[k]]] \in Seq(S) /\ Len([k \in 1..c |-> b[f[k]]]) = c
    BY <1>2, <1>5, IsASeq
  <1>7. f \in [1..c -> 1..n]
    BY <1>2, <1>5
  <1>8. \A k \in 1..c : Kept(b, I)[k] = b[f[k]]
    BY <1>4
  <1>9. Part(Kept(b, I), b, f)
    BY <1>2, <1>4, <1>6, <1>7, <1>8 DEF Part
  <1> QED
    BY <1>2, <1>3, <1>4, <1>5, <1>6, <1>9 DEF f, c

\* What is left without the entry at one position.
LEMMA RemoveAtFacts ==
    ASSUME NEW S, NEW b \in Seq(S), NEW i \in 1..Len(b)
    PROVE  /\ RemoveAt(b, i) \in Seq(S)
           /\ Len(RemoveAt(b, i)) = Len(b) - 1
           /\ \E h : Part(RemoveAt(b, i), b, h)
           /\ \A j \in (1..Len(b)) \ {i} :
                 \E k \in 1..(Len(b) - 1) : RemoveAt(b, i)[k] = b[j]
  <1> DEFINE n == Len(b)
  <1> DEFINE front == SubSeq(b, 1, i - 1)
  <1> DEFINE rear == SubSeq(b, i + 1, n)
  <1>1. n \in Nat /\ i \in 1..n /\ \A j \in 1..n : b[j] \in S
    OBVIOUS
  <1>2. /\ front \in Seq(S) /\ Len(front) = i - 1
        /\ \A k \in 1..(i - 1) : front[k] = b[k]
    BY <1>1, SubSeqProperties
  <1>3. /\ rear \in Seq(S) /\ Len(rear) = n - i
        /\ \A k \in 1..(n - i) : rear[k] = b[i + k]
    <2>1. i + 1 \in 1..(n + 1)
      BY <1>1
    <2>2. \A k \in 1..(n - i) : (i + 1) + k - 1 = i + k /\ (i + 1) + k - 1 \in 1..n
      BY <1>1
    <2> QED
      BY <1>1, <2>1, <2>2, SubSeqProperties
  <1> DEFINE c == front \o rear
  <1> HIDE DEF front, rear
  <1>4. /\ c \in Seq(S) /\ Len(c) = n - 1
        /\ \A k \in 1..(n - 1) : c[k] = IF k < i THEN b[k] ELSE b[k + 1]
    <2>1. /\ c \in Seq(S) /\ Len(c) = (i - 1) + (n - i)
          /\ \A k \in 1..((i - 1) + (n - i)) :
                c[k] = IF k <= i - 1 THEN front[k] ELSE rear[k - (i - 1)]
      <3>1. /\ c \in Seq(S) /\ Len(c) = Len(front) + Len(rear)
            /\ \A k \in 1..(Len(front) + Len(rear)) :
                  c[k] = IF k <= Len(front) THEN front[k] ELSE rear[k - Len(front)]
        BY <1>2, <1>3, ConcatProperties
      <3>2. Len(front) = i - 1 /\ Len(rear) = n - i
        BY <1>2, <1>3
      <3> HIDE DEF c
      <3> QED
        BY <3>1, <3>2
    <2>2. (i - 1) + (n - i) = n - 1
      BY <1>1
    <2>3. ASSUME NEW k \in 1..(n - 1) PROVE c[k] = IF k < i THEN b[k] ELSE b[k + 1]
      <3>1. CASE k < i
        <4>1. k \in 1..(i - 1) /\ k <= i - 1
          BY <1>1, <3>1
        <4> QED
          BY <1>2, <2>1, <2>2, <3>1, <4>1
      <3>2. CASE ~(k < i)
        <4>1. ~(k <= i - 1) /\ k - (i - 1) \in 1..(n - i) /\ i + (k - (i - 1)) = k + 1
          BY <1>1, <3>2
        <4> QED
          BY <1>3, <2>1, <2>2, <3>2, <4>1
      <3> QED
        BY <3>1, <3>2
    <2> QED
      BY <2>1, <2>2, <2>3
  <1>5. c = RemoveAt(b, i)
    BY DEF RemoveAt, front, rear
  <1> HIDE DEF c
  <1> DEFINE h == [k \in 1..(n - 1) |-> IF k < i THEN k ELSE k + 1]
  <1>6. Part(c, b, h)
    <2>1. h \in [1..Len(c) -> 1..Len(b)]
      BY <1>1, <1>4
    <2>2. Ascends(h)
      BY <1>1 DEF Ascends
    <2>3. \A k \in 1..(n - 1) : c[k] = b[h[k]]
      BY <1>4
    <2> QED
      BY <1>4, <2>1, <2>2, <2>3 DEF Part
  <1>7. ASSUME NEW j \in (1..n) \ {i} PROVE \E k \in 1..(n - 1) : c[k] = b[j]
    <2>1. CASE j < i
      <3>1. j \in 1..(n - 1)
        BY <1>1, <2>1
      <3> QED
        BY <1>4, <2>1, <3>1
    <2>2. CASE j > i
      <3>1. j - 1 \in 1..(n - 1) /\ ~(j - 1 < i) /\ (j - 1) + 1 = j
        BY <1>1, <2>2
      <3> QED
        BY <1>4, <2>2, <3>1
    <2> QED
      BY <1>1, <1>7, <2>1, <2>2
  <1> QED
    BY <1>4, <1>5, <1>6, <1>7

\* A list of entries as it may be at time t: no packet has two entries, and
\* they are in the order of their arrival.
InBuffer(b, t) ==
    /\ b \in Seq(Entry)
    /\ \A i, j \in 1..Len(b) : b[i].pktID = b[j].pktID => i = j
    /\ \A i, j \in 1..Len(b) : i <= j => b[i].InsTime <= b[j].InsTime
    /\ \A i \in 1..Len(b) : b[i].InsTime <= t /\ b[i].CreationTime <= t

\* So is every part of it.
LEMMA PartInBuffer ==
    ASSUME NEW t, NEW b, InBuffer(b, t), NEW c \in Seq(Entry), NEW h, Part(c, b, h)
    PROVE  InBuffer(c, t)
  <1>1. Len(c) \in Nat /\ Len(b) \in Nat
    BY DEF InBuffer
  <1>2. \A k \in 1..Len(c) : h[k] \in 1..Len(b) /\ c[k] = b[h[k]]
    BY DEF Part
  <1>3. \A k, l \in 1..Len(c) : k < l => h[k] < h[l]
    BY DEF Part, Ascends
  <1>4. ASSUME NEW k \in 1..Len(c), NEW l \in 1..Len(c), c[k].pktID = c[l].pktID
        PROVE  k = l
    <2>1. h[k] = h[l]
      BY <1>2, <1>4 DEF InBuffer
    <2>2. ~(k < l) /\ ~(l < k)
      BY <1>2, <1>3, <2>1
    <2> QED
      BY <1>1, <2>2
  <1>5. ASSUME NEW k \in 1..Len(c), NEW l \in 1..Len(c), k <= l
        PROVE  c[k].InsTime <= c[l].InsTime
    <2>1. h[k] <= h[l]
      BY <1>1, <1>2, <1>3, <1>5
    <2> QED
      BY <1>2, <2>1 DEF InBuffer
  <1>6. \A k \in 1..Len(c) : c[k].InsTime <= t /\ c[k].CreationTime <= t
    BY <1>2 DEF InBuffer
  <1> QED
    BY <1>4, <1>5, <1>6 DEF InBuffer

\* So is the list with a new packet that arrives at t.
LEMMA AppendInBuffer ==
    ASSUME NEW t \in Nat, NEW b, InBuffer(b, t), NEW e \in Entry,
           e.pktID \notin IDs(b), e.InsTime = t, e.CreationTime <= t
    PROVE  InBuffer(Append(b, e), t) /\ Len(Append(b, e)) = Len(b) + 1
  <1> DEFINE n == Len(b)
  <1> DEFINE c == Append(b, e)
  <1>1. b \in Seq(Entry) /\ n \in Nat
    BY DEF InBuffer
  <1>2. /\ c \in Seq(Entry) /\ Len(c) = n + 1
        /\ \A i \in 1..n : c[i] = b[i]
        /\ c[n + 1] = e
    BY <1>1, AppendProperties
  <1> HIDE DEF c
  <1>3. \A i \in 1..(n + 1) : i = n + 1 \/ i \in 1..n
    BY <1>1
  <1>4. \A i \in 1..n : b[i].pktID # e.pktID
    BY <1>1 DEF IDs
  <1>5. \A i \in 1..n : b[i].InsTime <= t /\ b[i].CreationTime <= t
    BY DEF InBuffer
  <1>6. \A i, j \in 1..(n + 1) : c[i].pktID = c[j].pktID => i = j
    BY <1>2, <1>3, <1>4 DEF InBuffer
  <1>7. ASSUME NEW i \in 1..(n + 1), NEW j \in 1..(n + 1), i <= j
        PROVE  c[i].InsTime <= c[j].InsTime
    <2>1. CASE j \in 1..n
      <3>1. i \in 1..n
        BY <1>1, <1>7, <2>1
      <3> QED
        BY <1>2, <1>7, <2>1, <3>1 DEF InBuffer
    <2>2. CASE j = n + 1
      <3>1. CASE i \in 1..n
        BY <1>2, <1>5, <2>2, <3>1
      <3>2. CASE i = n + 1
        BY <1>2, <2>2, <3>2
      <3> QED
        BY <1>3, <3>1, <3>2
    <2> QED
      BY <1>3, <2>1, <2>2
  <1>8. \A i \in 1..(n + 1) : c[i].InsTime <= t /\ c[i].CreationTime <= t
    BY <1>2, <1>3, <1>5
  <1>9. InBuffer(c, t)
    BY <1>2, <1>6, <1>7, <1>8 DEF InBuffer
  <1> QED
    BY <1>2, <1>9 DEF c

\* There are as many packets as entries.
LEMMA CountIDs ==
    ASSUME NEW t, NEW b, InBuffer(b, t)
    PROVE  Cardinality(IDs(b)) = Len(b)
  <1> DEFINE n == Len(b)
  <1> DEFINE f == [i \in 1..n |-> b[i].pktID]
  <1>1. n \in Nat /\ DOMAIN b = 1..n
    BY DEF InBuffer
  <1>2. f \in Bijection(1..n, IDs(b))
    <2>1. f \in [1..n -> IDs(b)]
      BY <1>1 DEF IDs
    <2>2. \A i, j \in 1..n : f[i] = f[j] => i = j
      BY DEF InBuffer
    <2>3. \A p \in IDs(b) : \E i \in 1..n : f[i] = p
      BY <1>1 DEF IDs
    <2> HIDE DEF f
    <2> QED
      BY <2>1, <2>2, <2>3 DEF Bijection, Injection, Surjection, IsInjective
  <1> HIDE DEF f, n
  <1>3. IsFiniteSet(1..n) /\ Cardinality(1..n) = n
    BY <1>1, FS_Interval
  <1> QED
    BY <1>2, <1>3, FS_Bijection DEF ExistsBijection, n

-----------------------------------------------------------------------------
(* What the policies choose.                                               *)

\* The first and the last of a set of positions.
LEMMA ForemostHindmost ==
    ASSUME NEW b, NEW n \in Nat, NEW I \in SUBSET (1..n), I # {}
    PROVE  /\ Foremost(b, I) \in I /\ \A j \in I : Foremost(b, I) <= j
           /\ Hindmost(b, I) \in I /\ \A j \in I : Hindmost(b, I) >= j
  <1>1. I \in SUBSET Nat /\ I \in SUBSET (0..n)
    OBVIOUS
  <1>2. \E i \in I : \A j \in I : i <= j
    BY <1>1, LeastNumber
  <1>3. \E i \in I : \A j \in I : i >= j
    BY <1>1, LargestNumber
  <1> QED
    BY <1>2, <1>3 DEF Foremost, Hindmost

\* The first of the oldest packets at a set of positions.
LEMMA OldestFacts ==
    ASSUME NEW b \in Seq(Entry), NEW I \in SUBSET (1..Len(b)), I # {}
    PROVE  /\ Oldest(b, I) \in I
           /\ \A j \in I : b[Oldest(b, I)].CreationTime <= b[j].CreationTime
  <1> DEFINE n == Len(b)
  <1> DEFINE T == {b[i].CreationTime : i \in I}
  <1>0. \A i \in I : i \in 1..n /\ b[i] \in Entry
    OBVIOUS
  <1>1. n \in Nat /\ \A i \in I : i \in Nat /\ b[i].CreationTime \in Nat
    BY <1>0 DEF Entry
  <1>2. T \in SUBSET Nat /\ T # {}
    BY <1>1
  <1>3. PICK m \in T : \A y \in T : m <= y
    BY <1>2, LeastNumber
  <1> DEFINE J == {i \in I : b[i].CreationTime = m}
  <1>4. J \in SUBSET Nat /\ J # {}
    BY <1>1, <1>3
  <1>5. PICK i \in J : \A j \in J : i <= j
    BY <1>4, LeastNumber
  <1>6. i \in I /\ b[i].CreationTime = m
    BY <1>5
  <1>7. ASSUME NEW j \in I
        PROVE  \/ b[i].CreationTime < b[j].CreationTime
               \/ b[i].CreationTime = b[j].CreationTime /\ i <= j
    <2>1. m <= b[j].CreationTime
      BY <1>3
    <2>2. CASE b[j].CreationTime = m
      <3>1. j \in J
        BY <2>2
      <3> QED
        BY <1>5, <1>6, <2>2, <3>1
    <2>3. CASE b[j].CreationTime # m
      BY <1>1, <1>2, <1>3, <1>6, <2>1, <2>3
    <2> QED
      BY <2>2, <2>3
  <1> DEFINE o == Oldest(b, I)
  <1>8. o \in I /\ \A j \in I : \/ b[o].CreationTime < b[j].CreationTime
                                \/ b[o].CreationTime = b[j].CreationTime /\ o <= j
    BY <1>6, <1>7 DEF Oldest
  <1> HIDE DEF o
  <1>9. \A j \in I : b[o].CreationTime <= b[j].CreationTime
    BY <1>1, <1>8
  <1> QED
    BY <1>8, <1>9 DEF o

\* The last of the youngest packets at a set of positions.
LEMMA YoungestFacts ==
    ASSUME NEW t \in Nat, NEW b, InBuffer(b, t), NEW I \in SUBSET (1..Len(b)), I # {}
    PROVE  /\ Youngest(b, I) \in I
           /\ \A j \in I : b[Youngest(b, I)].CreationTime >= b[j].CreationTime
  <1> DEFINE n == Len(b)
  <1> DEFINE T == {b[i].CreationTime : i \in I}
  <1>0. \A i \in I : i \in 1..n /\ b[i] \in Entry /\ b[i].CreationTime <= t
    BY DEF InBuffer
  <1>1. n \in Nat /\ \A i \in I : i \in 0..n /\ b[i].CreationTime \in 0..t
    BY <1>0 DEF Entry, InBuffer
  <1>2. T \in SUBSET (0..t) /\ T # {}
    BY <1>1
  <1>3. PICK m \in T : \A y \in T : m >= y
    BY <1>2, LargestNumber
  <1> DEFINE J == {i \in I : b[i].CreationTime = m}
  <1>4. J \in SUBSET (0..n) /\ J # {}
    BY <1>1, <1>3
  <1>5. PICK i \in J : \A j \in J : i >= j
    BY <1>1, <1>4, LargestNumber
  <1>6. i \in I /\ b[i].CreationTime = m
    BY <1>5
  <1>7. ASSUME NEW j \in I
        PROVE  \/ b[i].CreationTime > b[j].CreationTime
               \/ b[i].CreationTime = b[j].CreationTime /\ i >= j
    <2>1. m >= b[j].CreationTime
      BY <1>3
    <2>2. CASE b[j].CreationTime = m
      <3>1. j \in J
        BY <2>2
      <3> QED
        BY <1>5, <1>6, <2>2, <3>1
    <2>3. CASE b[j].CreationTime # m
      BY <1>1, <1>2, <1>3, <1>6, <2>1, <2>3
    <2> QED
      BY <2>2, <2>3
  <1> DEFINE o == Youngest(b, I)
  <1>8. o \in I /\ \A j \in I : \/ b[o].CreationTime > b[j].CreationTime
                                \/ b[o].CreationTime = b[j].CreationTime /\ o >= j
    BY <1>6, <1>7 DEF Youngest
  <1> HIDE DEF o
  <1>9. \A j \in I : b[o].CreationTime >= b[j].CreationTime
    BY <1>1, <1>8
  <1> QED
    BY <1>8, <1>9 DEF o

\* Every policy drops a packet of the list, and what its name says.
LEMMA DropFacts ==
    ASSUME NEW t \in Nat, NEW b, InBuffer(b, t), Len(b) > 0, DropPol \in Policies
    PROVE  /\ Drop(b) \in 1..Len(b)
           /\ \A j \in 1..Len(b) :
                 /\ DropPol = "DF" => b[Drop(b)].InsTime <= b[j].InsTime
                 /\ DropPol = "DT" => b[Drop(b)].InsTime >= b[j].InsTime
                 /\ DropPol = "DO" => b[Drop(b)].CreationTime <= b[j].CreationTime
                 /\ DropPol = "DY" => b[Drop(b)].CreationTime >= b[j].CreationTime
           /\ DropPol \in {"DF_ASP", "DT_ASP"} /\ b[Drop(b)].Hops = 0 => Relayed(b) = {}
  <1> DEFINE n == Len(b)
  <1> DEFINE D == DOMAIN b
  <1>1. b \in Seq(Entry) /\ n \in Nat /\ D = 1..n /\ D # {}
    BY DEF InBuffer
  <1>2. \A I \in SUBSET D : /\ Preferred(b, I) \in SUBSET D /\ Preferred(b, I) # {}
                            /\ I # {} => Preferred(b, I) = I
    BY <1>1 DEF Preferred
  <1>3. /\ Relayed(b) \subseteq D
        /\ OlderThanFront(b) \subseteq D /\ NotOlderThanFront(b) \subseteq D
    BY DEF Relayed, OlderThanFront, NotOlderThanFront
  <1>4. \A i, j \in 1..n : i <= j => b[i].InsTime <= b[j].InsTime
    BY DEF InBuffer
  <1>5. \A i \in 1..n : b[i].InsTime \in Nat
    <2> TAKE i \in 1..n
    <2>1. b[i] \in Entry
      BY <1>1
    <2> QED
      BY <2>1 DEF Entry
  <1> HIDE DEF n, D
  <1>6. \A I \in SUBSET D : I # {} =>
           /\ Foremost(b, I) \in I /\ \A j \in I : Foremost(b, I) <= j
           /\ Hindmost(b, I) \in I /\ \A j \in I : Hindmost(b, I) >= j
    BY <1>1, ForemostHindmost
  <1>7. \A I \in SUBSET D : I # {} =>
           /\ Oldest(b, I) \in I
           /\ \A j \in I : b[Oldest(b, I)].CreationTime <= b[j].CreationTime
    BY <1>1, OldestFacts DEF n
  <1>8. \A I \in SUBSET D : I # {} =>
           /\ Youngest(b, I) \in I
           /\ \A j \in I : b[Youngest(b, I)].CreationTime >= b[j].CreationTime
    BY <1>1, YoungestFacts DEF n
  <1> DEFINE Goal ==
        /\ Drop(b) \in 1..n
        /\ \A j \in 1..n :
              /\ DropPol = "DF" => b[Drop(b)].InsTime <= b[j].InsTime
              /\ DropPol = "DT" => b[Drop(b)].InsTime >= b[j].InsTime
              /\ DropPol = "DO" => b[Drop(b)].CreationTime <= b[j].CreationTime
              /\ DropPol = "DY" => b[Drop(b)].CreationTime >= b[j].CreationTime
        /\ DropPol \in {"DF_ASP", "DT_ASP"} /\ b[Drop(b)].Hops = 0 => Relayed(b) = {}
  <1>9. SUFFICES Goal
    BY DEF n
  <1>10. CASE DropPol = "DF"
    <2>1. Drop(b) = Foremost(b, D)
      BY <1>10 DEF Drop, D
    <2>2. Drop(b) \in D /\ \A j \in D : Drop(b) <= j
      BY <1>1, <1>6, <2>1
    <2>3. \A j \in D : b[Drop(b)].InsTime <= b[j].InsTime
      BY <1>1, <1>4, <2>2
    <2> QED
      BY <1>1, <1>10, <2>2, <2>3
  <1>11. CASE DropPol = "DT"
    <2>1. Drop(b) = Hindmost(b, D)
      BY <1>11 DEF Drop, D
    <2>2. Drop(b) \in D /\ \A j \in D : Drop(b) >= j
      BY <1>1, <1>6, <2>1
    <2>3. \A j \in D : b[Drop(b)].InsTime >= b[j].InsTime
      BY <1>1, <1>4, <1>5, <2>2
    <2> QED
      BY <1>1, <1>11, <2>2, <2>3
  <1>12. CASE DropPol = "DO"
    <2>1. Drop(b) = Oldest(b, D)
      BY <1>12 DEF Drop, D
    <2>2. Drop(b) \in D /\ \A j \in D : b[Drop(b)].CreationTime <= b[j].CreationTime
      BY <1>1, <1>7, <2>1
    <2> QED
      BY <1>1, <1>12, <2>2
  <1>13. CASE DropPol = "DY"
    <2>1. Drop(b) = Youngest(b, D)
      BY <1>13 DEF Drop, D
    <2>2. Drop(b) \in D /\ \A j \in D : b[Drop(b)].CreationTime >= b[j].CreationTime
      BY <1>1, <1>8, <2>1
    <2> QED
      BY <1>1, <1>13, <2>2
  <1>14. CASE DropPol = "DF_ASP"
    <2>1. Drop(b) = Foremost(b, Preferred(b, Relayed(b)))
      BY <1>14 DEF Drop
    <2>2. Drop(b) \in Preferred(b, Relayed(b)) /\ Drop(b) \in D
      BY <1>1, <1>2, <1>3, <1>6, <2>1
    <2>3. Relayed(b) # {} => Drop(b) \in Relayed(b)
      BY <1>2, <1>3, <2>2
    <2>4. b[Drop(b)].Hops = 0 => Relayed(b) = {}
      <3>1. \A i \in Relayed(b) : b[i].Hops > 0
        BY DEF Relayed
      <3> QED
        BY <2>3, <3>1
    <2> QED
      BY <1>1, <1>14, <2>2, <2>4
  <1>15. CASE DropPol = "DT_ASP"
    <2>1. Drop(b) = Hindmost(b, Preferred(b, Relayed(b)))
      BY <1>15 DEF Drop
    <2>2. Drop(b) \in Preferred(b, Relayed(b)) /\ Drop(b) \in D
      BY <1>1, <1>2, <1>3, <1>6, <2>1
    <2>3. Relayed(b) # {} => Drop(b) \in Relayed(b)
      BY <1>2, <1>3, <2>2
    <2>4. b[Drop(b)].Hops = 0 => Relayed(b) = {}
      <3>1. \A i \in Relayed(b) : b[i].Hops > 0
        BY DEF Relayed
      <3> QED
        BY <2>3, <3>1
    <2> QED
      BY <1>1, <1>15, <2>2, <2>4
  <1>16. CASE DropPol = "DO_ASP"
    <2>1. Drop(b) = Oldest(b, Preferred(b, OlderThanFront(b)))
      BY <1>16 DEF Drop
    <2>2. Drop(b) \in D
      BY <1>1, <1>2, <1>3, <1>7, <2>1
    <2> QED
      BY <1>1, <1>16, <2>2
  <1>17. CASE DropPol = "DY_ASP"
    <2>1. Drop(b) = Youngest(b, Preferred(b, NotOlderThanFront(b)))
      BY <1>17 DEF Drop
    <2>2. Drop(b) \in D
      BY <1>1, <1>2, <1>3, <1>8, <2>1
    <2> QED
      BY <1>1, <1>17, <2>2
  <1> QED
    BY <1>10, <1>11, <1>12, <1>13, <1>14, <1>15, <1>16, <1>17 DEF Policies

-----------------------------------------------------------------------------
(* Counting records.                                                       *)

\* How many records of a kind there are.
Tally(r, of) == Cardinality({i \in DOMAIN r : r[i].of = of})

\* Records of one kind are counted in full, and not as of another.
LEMMA TallyOfOne ==
    ASSUME NEW r \in Seq(Record), NEW k, \A i \in 1..Len(r) : r[i].of = k
    PROVE  Tally(r, k) = Len(r) /\ \A of : of # k => Tally(r, of) = 0
  <1>1. DOMAIN r = 1..Len(r) /\ Len(r) \in Nat
    OBVIOUS
  <1>2. {i \in DOMAIN r : r[i].of = k} = 1..Len(r)
    BY <1>1
  <1>3. \A of : of # k => {i \in DOMAIN r : r[i].of = of} = {}
    BY <1>1
  <1>4. Cardinality(1..Len(r)) = Len(r)
    <2> DEFINE n == Len(r)
    <2>1. n \in Nat
      OBVIOUS
    <2> HIDE DEF n
    <2>2. Cardinality(1..n) = n
      BY <2>1, FS_Interval
    <2> QED
      BY <2>2 DEF n
  <1>5. Cardinality({}) = 0
    BY FS_EmptySet
  <1> QED
    BY <1>2, <1>3, <1>4, <1>5 DEF Tally

\* The records that are appended add to the count.
LEMMA TallyConcat ==
    ASSUME NEW r \in Seq(Record), NEW q \in Seq(Record), NEW of
    PROVE  /\ Tally(r, of) \in Nat /\ Tally(q, of) \in Nat
           /\ Tally(r \o q, of) = Tally(r, of) + Tally(q, of)
  <1> DEFINE n == Len(r)
  <1> DEFINE m == Len(q)
  <1> DEFINE c == r \o q
  <1> DEFINE S == {i \in 1..n : r[i].of = of}
  <1> DEFINE T == {i \in 1..m : q[i].of = of}
  <1> DEFINE U == {n + i : i \in T}
  <1>1. n \in Nat /\ m \in Nat /\ DOMAIN r = 1..n /\ DOMAIN q = 1..m
    OBVIOUS
  <1>2. /\ c \in Seq(Record) /\ Len(c) = n + m
        /\ \A i \in 1..(n + m) : c[i] = IF i <= n THEN r[i] ELSE q[i - n]
    BY ConcatProperties
  <1> HIDE DEF c, n, m
  <1>3. DOMAIN c = 1..(n + m)
    BY <1>2
  <1>4. IsFiniteSet(1..n) /\ IsFiniteSet(1..m)
    BY <1>1, FS_Interval
  <1>5. IsFiniteSet(S) /\ IsFiniteSet(T) /\ Cardinality(S) \in Nat /\ Cardinality(T) \in Nat
    <2>1. S \in SUBSET (1..n) /\ T \in SUBSET (1..m)
      OBVIOUS
    <2>2. IsFiniteSet(S) /\ IsFiniteSet(T)
      BY <1>4, <2>1, FS_Subset
    <2> QED
      BY <2>2, FS_CardinalityType
  <1>6. IsFiniteSet(U) /\ Cardinality(U) = Cardinality(T)
    <2> DEFINE f == [i \in T |-> n + i]
    <2>1. f \in [T -> U]
      OBVIOUS
    <2>2. \A i, j \in T : f[i] = f[j] => i = j
      BY <1>1
    <2>3. \A u \in U : \E i \in T : f[i] = u
      OBVIOUS
    <2> HIDE DEF f, T, U
    <2>4. f \in Bijection(T, U)
      BY <2>1, <2>2, <2>3 DEF Bijection, Injection, Surjection, IsInjective
    <2> QED
      BY <1>5, <2>4, FS_Bijection DEF ExistsBijection
  <1>7. {i \in DOMAIN c : c[i].of = of} = S \cup U
    <2>1. ASSUME NEW i \in 1..(n + m), c[i].of = of PROVE i \in S \cup U
      <3>1. CASE i <= n
        BY <1>1, <1>2, <2>1, <3>1
      <3>2. CASE ~(i <= n)
        <4>1. i - n \in 1..m /\ i = n + (i - n) /\ c[i] = q[i - n]
          BY <1>1, <1>2, <3>2
        <4>2. i - n \in T
          BY <2>1, <4>1
        <4> QED
          BY <4>1, <4>2
      <3> QED
        BY <3>1, <3>2
    <2>2. ASSUME NEW i \in S PROVE i \in 1..(n + m) /\ c[i].of = of
      <3>1. i \in 1..n /\ i <= n /\ i \in 1..(n + m) /\ r[i].of = of
        BY <1>1
      <3> QED
        BY <1>2, <3>1
    <2>3. ASSUME NEW i \in T PROVE n + i \in 1..(n + m) /\ c[n + i].of = of
      <3>1. /\ i \in 1..m /\ ~(n + i <= n) /\ n + i \in 1..(n + m)
            /\ (n + i) - n = i /\ q[i].of = of
        BY <1>1
      <3> QED
        BY <1>2, <3>1
    <2> QED
      BY <1>3, <2>1, <2>2, <2>3
  <1>8. S \cap U = {}
    <2>1. \A i \in S : i <= n
      BY <1>1
    <2>2. \A i \in T : ~(n + i <= n)
      BY <1>1
    <2> QED
      BY <2>1, <2>2
  <1>9. Cardinality(S \cup U) = Cardinality(S) + Cardinality(U) - Cardinality(S \cap U)
    BY <1>5, <1>6, FS_Union
  <1>10. Cardinality(S \cap U) = 0
    BY <1>8, FS_EmptySet
  <1>11. Tally(r, of) = Cardinality(S) /\ Tally(q, of) = Cardinality(T)
    BY <1>1 DEF Tally
  <1>12. Tally(c, of) = Cardinality(S) + Cardinality(T)
    <2>1. Tally(c, of) = Cardinality(S \cup U)
      BY <1>7 DEF Tally
    <2> HIDE DEF S, T, U
    <2> QED
      BY <1>5, <1>6, <1>9, <1>10, <2>1
  <1> HIDE DEF S, T
  <1> QED
    BY <1>5, <1>11, <1>12 DEF c

\* Records as they may be at time t, in the order in which they were made.
Timely(r, t) ==
    /\ r \in Seq(Record)
    /\ \A i, j \in 1..Len(r) : i <= j => r[i].time <= r[j].time
    /\ \A i \in 1..Len(r) : r[i].time <= t

\* They still are with records of time t at the end.
LEMMA TimelyConcat ==
    ASSUME NEW t \in Nat, NEW r, Timely(r, t), NEW q \in Seq(Record),
           \A i \in 1..Len(q) : q[i].time = t
    PROVE  Timely(r \o q, t)
  <1> DEFINE n == Len(r)
  <1> DEFINE m == Len(q)
  <1> DEFINE c == r \o q
  <1>1. n \in Nat /\ m \in Nat /\ r \in Seq(Record)
    BY DEF Timely
  <1>2. /\ c \in Seq(Record) /\ Len(c) = n + m
        /\ \A i \in 1..(n + m) : c[i] = IF i <= n THEN r[i] ELSE q[i - n]
    BY <1>1, ConcatProperties
  <1>3. \A i \in 1..n : r[i].time <= t
    BY DEF Timely
  <1>4. \A i, j \in 1..n : i <= j => r[i].time <= r[j].time
    BY DEF Timely
  <1> HIDE DEF c
  <1>5. ASSUME NEW i \in 1..(n + m)
        PROVE  IF i <= n THEN i \in 1..n /\ c[i] = r[i] /\ c[i].time <= t ELSE c[i].time = t
    <2>1. CASE i <= n
      BY <1>1, <1>2, <1>3, <2>1
    <2>2. CASE ~(i <= n)
      <3>1. i - n \in 1..m
        BY <1>1, <2>2
      <3> QED
        BY <1>2, <2>2, <3>1
    <2> QED
      BY <2>1, <2>2
  <1>6. ASSUME NEW i \in 1..(n + m), NEW j \in 1..(n + m), i <= j
        PROVE  c[i].time <= c[j].time
    <2>1. CASE j <= n
      <3>1. i <= n
        BY <1>1, <1>6, <2>1
      <3> QED
        BY <1>4, <1>5, <1>6, <2>1, <3>1
    <2>2. CASE ~(j <= n)
      <3>1. c[j].time = t /\ c[i].time <= t
        BY <1>5, <2>2
      <3> QED
        BY <3>1
    <2> QED
      BY <2>1, <2>2
  <1>7. \A i \in 1..(n + m) : c[i].time <= t
    BY <1>5
  <1>8. Timely(c, t)
    BY <1>2, <1>6, <1>7 DEF Timely
  <1> QED
    BY <1>8 DEF c

\* A part of a step's records: at one time, of one kind.
Batch(q, t, k, n) ==
    /\ q \in Seq(Record) /\ Len(q) = n
    /\ \A i \in 1..Len(q) : q[i].time = t /\ q[i].of = k

\* What a batch does to the records and to the count of each kind.
LEMMA BatchConcat ==
    ASSUME NEW t \in Nat, NEW r, Timely(r, t), NEW k, NEW n \in Nat, NEW q, Batch(q, t, k, n)
    PROVE  /\ Timely(r \o q, t)
           /\ \A of : /\ Tally(r, of) \in Nat
                      /\ Tally(r \o q, of) = Tally(r, of) + (IF of = k THEN n ELSE 0)
  <1>1. Timely(r \o q, t)
    BY TimelyConcat DEF Batch
  <1>2. r \in Seq(Record) /\ q \in Seq(Record) /\ Len(q) = n
    BY DEF Timely, Batch
  <1>3. Tally(q, k) = n /\ \A of : of # k => Tally(q, of) = 0
    BY <1>2, TallyOfOne DEF Batch
  <1>4. ASSUME NEW of
        PROVE  /\ Tally(r, of) \in Nat
               /\ Tally(r \o q, of) = Tally(r, of) + (IF of = k THEN n ELSE 0)
    <2>1. Tally(r, of) \in Nat /\ Tally(r \o q, of) = Tally(r, of) + Tally(q, of)
      BY <1>2, TallyConcat
    <2> QED
      BY <1>3, <2>1
  <1> QED
    BY <1>1, <1>4

-----------------------------------------------------------------------------
(* The inductive invariant of the buffer.                                 *)

\* The values of the variables that hold no list.
BufferTypes ==
    /\ Set \in Configurations
    /\ numPacketDrops \in Nat /\ added \in Nat /\ now \in Nat
    /\ creation \in Seq(Nat) /\ \A p \in DOMAIN creation : creation[p] <= now

\* The records account for the buffer, but for what CleanBuffer removes, and
\* for the drops.
Balance ==
    Set.bufferRecording =>
        /\ Tally(Records, "dropped") = numPacketDrops
        /\ Set.Cleaned \/ Tally(Records, "inserted") =
              Len(Entries) + Tally(Records, "dropped") + Tally(Records, "dead")
                 + Tally(Records, "removed")

\* The inductive invariant.  The order of arrival is what makes the ends of
\* the list the packets that have been there longest and shortest; the order
\* of the records is what a reader relies on that stops at the first record
\* before its interval.
BufferInv ==
    /\ BufferTypes
    /\ InBuffer(Entries, now)
    /\ PacketNum = Len(Entries)
    /\ WithinSize
    /\ Timely(Records, now)
    /\ Balance

\* The settings of a run.
LEMMA SetFacts ==
    ASSUME Set \in Configurations
    PROVE  /\ DropPol \in Policies /\ BufferSize \in Nat /\ TTL \in Nat
           /\ Set.bufferRecording \in BOOLEAN /\ Set.Cleaned \in BOOLEAN
  <1>1. Set \in Settings
    BY BufferAssumption
  <1> QED
    BY <1>1 DEF Settings, DropPol, BufferSize, TTL

\* The empty buffer satisfies the invariant.
LEMMA InitBufferInv == Init => BufferInv
  <1> SUFFICES ASSUME Init PROVE BufferInv
    OBVIOUS
  <1>1. Entries = <<>> /\ Records = <<>> /\ creation = <<>> /\ Set \in Configurations
    BY DEF Init
  <1>2. BufferTypes
    <2>1. creation \in Seq(Nat) /\ DOMAIN creation = {}
      BY <1>1
    <2> QED
      BY <2>1 DEF Init, BufferTypes
  <1>3. InBuffer(Entries, now) /\ PacketNum = Len(Entries)
    <2>1. <<>> \in Seq(Entry) /\ Len(<<>>) = 0
      OBVIOUS
    <2> QED
      BY <1>1, <2>1 DEF Init, InBuffer
  <1>4. WithinSize
    BY <1>1, SetFacts DEF WithinSize
  <1>5. <<>> \in Seq(Record) /\ Len(<<>>) = 0
    OBVIOUS
  <1>6. Timely(Records, now)
    BY <1>1, <1>5 DEF Timely
  <1>7. Balance
    <2>1. \A of : Tally(Records, of) = 0
      <3> TAKE of
      <3>1. {i \in DOMAIN Records : Records[i].of = of} = {}
        BY <1>1
      <3> QED
        BY <3>1, FS_EmptySet DEF Tally
    <2> QED
      BY <1>1, <1>5, <2>1 DEF Balance, Init
  <1> QED
    BY <1>2, <1>3, <1>4, <1>6, <1>7 DEF BufferInv

\* What a purge leaves, and the records it makes of what it removes.
LEMMA PurgeFacts ==
    ASSUME BufferInv
    PROVE  /\ InBuffer(Alive, now)
           /\ Len(Alive) \in 0..Len(Entries)
           /\ Batch(Deaths, now, "dead",
                    IF Set.bufferRecording THEN Len(Entries) - Len(Alive) ELSE 0)
  <1> DEFINE I == {i \in DOMAIN Entries : IsAlive(Entries[i])}
  <1>1. Entries \in Seq(Entry) /\ I \in SUBSET DOMAIN Entries /\ now \in Nat
    BY DEF BufferInv, BufferTypes, InBuffer
  <1> HIDE DEF I
  <1>2. /\ Kept(Entries, I) \in Seq(Entry)
        /\ Len(Kept(Entries, I)) \in 0..Len(Entries)
        /\ Part(Kept(Entries, I), Entries, InOrder(I))
    BY <1>1, KeptFacts
  <1>3. Alive = Kept(Entries, I)
    BY DEF Alive, I
  <1>4. InBuffer(Alive, now)
    BY <1>2, <1>3, PartInBuffer DEF BufferInv
  <1>5. CASE Set.bufferRecording
    <2> DEFINE n == Len(Entries) - Len(Alive)
    <2> DEFINE r == [time |-> now, RTTL |-> 0, of |-> "dead"]
    <2>1. n \in Nat
      BY <1>1, <1>2, <1>3
    <2>2. r \in Record
      BY <1>1 DEF Record, Kinds
    <2>3. Deaths = [i \in 1..n |-> r]
      BY <1>5 DEF Deaths
    <2> HIDE DEF n, r
    <2>4. Deaths \in Seq(Record) /\ Len(Deaths) = n
      BY <2>1, <2>2, <2>3, IsASeq
    <2>5. \A i \in 1..n : Deaths[i].time = now /\ Deaths[i].of = "dead"
      BY <2>3 DEF r
    <2> QED
      BY <1>2, <1>3, <1>4, <1>5, <2>4, <2>5 DEF Batch, n
  <1>6. CASE ~Set.bufferRecording
    <2>1. Deaths = <<>>
      BY <1>6 DEF Deaths
    <2>2. <<>> \in Seq(Record) /\ Len(<<>>) = 0
      OBVIOUS
    <2> QED
      BY <1>2, <1>3, <1>4, <1>6, <2>1, <2>2 DEF Batch
  <1> QED
    BY <1>5, <1>6

\* One record, if any are made.
LEMMA RecordedFacts ==
    ASSUME Set \in Configurations, now \in Nat, NEW k \in Kinds, NEW x \in Int
    PROVE  Batch(Recorded(k, x), now, k, IF Set.bufferRecording THEN 1 ELSE 0)
  <1>1. CASE Set.bufferRecording
    <2> DEFINE r == [time |-> now, RTTL |-> x, of |-> k]
    <2>1. r \in Record
      BY DEF Record
    <2>2. Recorded(k, x) = <<r>>
      BY <1>1 DEF Recorded
    <2>3. r.time = now /\ r.of = k
      OBVIOUS
    <2> HIDE DEF r
    <2>4. <<r>> \in Seq(Record) /\ Len(<<r>>) = 1 /\ \A i \in 1..1 : <<r>>[i] = r
      BY <2>1
    <2> QED
      BY <1>1, <2>2, <2>3, <2>4 DEF Batch
  <1>2. CASE ~Set.bufferRecording
    <2>1. Recorded(k, x) = <<>>
      BY <1>2 DEF Recorded
    <2>2. <<>> \in Seq(Record) /\ Len(<<>>) = 0
      OBVIOUS
    <2> QED
      BY <1>2, <2>1, <2>2 DEF Batch
  <1> QED
    BY <1>1, <1>2

\* The remaining time to live is a number.
LEMMA RTTLType ==
    ASSUME Set \in Configurations, now \in Nat, NEW x \in Nat
    PROVE  RTTL(x) \in Int
  BY SetFacts DEF RTTL

-----------------------------------------------------------------------------
\* The room that addPkt makes: a part of the purged list with space for one,
\* and the records of it.
Room == IF isFull(Alive) THEN RemoveAt(Alive, Drop(Alive)) ELSE Alive

Losses ==
    IF isFull(Alive) THEN Recorded("dropped", RTTL(Alive[Drop(Alive)].CreationTime)) ELSE <<>>

\* There is room for one more, and at most one drop is recorded.
LEMMA RoomFacts ==
    ASSUME BufferInv
    PROVE  /\ InBuffer(Room, now)
           /\ Len(Room) = Len(Alive) - (IF isFull(Alive) THEN 1 ELSE 0)
           /\ Len(Room) \in Nat
           /\ BufferSize > 0 => Len(Room) < BufferSize
           /\ IDs(Room) \subseteq IDs(Alive)
           /\ Batch(Losses, now, "dropped",
                    IF isFull(Alive) /\ Set.bufferRecording THEN 1 ELSE 0)
  <1>1. /\ InBuffer(Alive, now) /\ Len(Alive) \in 0..Len(Entries)
        /\ Alive \in Seq(Entry) /\ Entries \in Seq(Entry)
    BY PurgeFacts DEF InBuffer, BufferInv
  <1>2. /\ now \in Nat /\ Set \in Configurations
        /\ DropPol \in Policies /\ BufferSize \in Nat
    BY SetFacts DEF BufferInv, BufferTypes
  <1>3. BufferSize > 0 => Len(Alive) <= BufferSize
    BY <1>1, <1>2 DEF BufferInv, WithinSize
  <1>4. CASE isFull(Alive)
    <2>1. Len(Alive) = BufferSize /\ Len(Alive) > 0
      BY <1>4 DEF isFull
    <2>2. Drop(Alive) \in 1..Len(Alive)
      BY <1>1, <1>2, <2>1, DropFacts
    <2> DEFINE v == Drop(Alive)
    <2> HIDE DEF v
    <2>3. /\ RemoveAt(Alive, v) \in Seq(Entry)
          /\ Len(RemoveAt(Alive, v)) = Len(Alive) - 1
          /\ \E h : Part(RemoveAt(Alive, v), Alive, h)
      BY <1>1, <2>2, RemoveAtFacts DEF v
    <2>4. Room = RemoveAt(Alive, v)
      BY <1>4 DEF Room, v
    <2>5. InBuffer(Room, now)
      BY <1>1, <2>3, <2>4, PartInBuffer
    <2>6. IDs(Room) \subseteq IDs(Alive)
      <3>1. PICK h : Part(Room, Alive, h)
        BY <2>3, <2>4
      <3>2. \A k \in 1..Len(Room) : h[k] \in 1..Len(Alive) /\ Room[k] = Alive[h[k]]
        BY <3>1 DEF Part
      <3>3. DOMAIN Room = 1..Len(Room) /\ DOMAIN Alive = 1..Len(Alive)
        BY <1>1, <2>3, <2>4
      <3> QED
        BY <3>2, <3>3 DEF IDs
    <2>7. Alive[v] \in Entry
      BY <1>1, <2>2 DEF v
    <2>8. RTTL(Alive[v].CreationTime) \in Int
      BY <1>2, <2>7, RTTLType DEF Entry
    <2>9. Batch(Recorded("dropped", RTTL(Alive[v].CreationTime)), now, "dropped",
                IF Set.bufferRecording THEN 1 ELSE 0)
      BY <1>2, <2>8, RecordedFacts DEF Kinds
    <2>10. Batch(Losses, now, "dropped", IF isFull(Alive) /\ Set.bufferRecording THEN 1 ELSE 0)
      BY <1>4, <2>9 DEF Losses, v
    <2> QED
      BY <1>1, <1>2, <1>4, <2>1, <2>3, <2>4, <2>5, <2>6, <2>10
  <1>5. CASE ~isFull(Alive)
    <2>1. Room = Alive /\ Losses = <<>>
      BY <1>5 DEF Room, Losses
    <2>2. <<>> \in Seq(Record) /\ Len(<<>>) = 0
      OBVIOUS
    <2>3. BufferSize > 0 => Len(Alive) # BufferSize
      BY <1>5 DEF isFull
    <2> QED
      BY <1>1, <1>2, <1>3, <1>5, <2>1, <2>2, <2>3 DEF Batch
  <1> QED
    BY <1>4, <1>5

\* An access purges.
LEMMA AccessKept ==
    ASSUME BufferInv, Access
    PROVE  BufferInv'
  <1>1. /\ Entries' = Alive /\ Records' = Records \o Deaths
        /\ PacketNum' = PacketNum - (Len(Entries) - Len(Alive))
        /\ UNCHANGED <<numPacketDrops, added, creation, now, Set>>
    BY DEF Access
  <1> DEFINE d == IF Set.bufferRecording THEN Len(Entries) - Len(Alive) ELSE 0
  <1>2. /\ InBuffer(Alive, now) /\ Len(Alive) \in 0..Len(Entries)
        /\ Batch(Deaths, now, "dead", d)
        /\ Len(Entries) \in Nat
    BY PurgeFacts DEF BufferInv, InBuffer
  <1>3. d \in Nat /\ now \in Nat /\ Timely(Records, now)
    BY <1>2 DEF BufferInv, BufferTypes
  <1> HIDE DEF d
  <1>4. /\ Timely(Records', now)
        /\ \A of : /\ Tally(Records, of) \in Nat
                   /\ Tally(Records', of) = Tally(Records, of) + (IF of = "dead" THEN d ELSE 0)
    BY <1>1, <1>2, <1>3, BatchConcat
  <1>5. BufferTypes'
    BY <1>1 DEF BufferInv, BufferTypes
  <1>6. WithinSize'
    BY <1>1, <1>2, SetFacts DEF WithinSize, BufferInv, BufferTypes, BufferSize
  <1>7. Balance'
    <2>1. /\ Tally(Records', "dead") = Tally(Records, "dead") + d
          /\ Tally(Records', "dropped") = Tally(Records, "dropped")
          /\ Tally(Records', "inserted") = Tally(Records, "inserted")
          /\ Tally(Records', "removed") = Tally(Records, "removed")
          /\ Tally(Records, "dead") \in Nat /\ Tally(Records, "dropped") \in Nat
          /\ Tally(Records, "inserted") \in Nat /\ Tally(Records, "removed") \in Nat
      BY <1>4
    <2>2. Set.bufferRecording => d = Len(Entries) - Len(Alive)
      BY DEF d
    <2>3. ASSUME Set.bufferRecording PROVE Tally(Records', "dropped") = numPacketDrops'
      BY <1>1, <2>1, <2>3 DEF BufferInv, Balance
    <2>4. ASSUME Set.bufferRecording, ~Set.Cleaned
          PROVE  Tally(Records', "inserted") =
                    Len(Entries') + Tally(Records', "dropped") + Tally(Records', "dead")
                       + Tally(Records', "removed")
      <3>1. Tally(Records, "inserted") =
               Len(Entries) + Tally(Records, "dropped") + Tally(Records, "dead")
                  + Tally(Records, "removed")
        BY <2>4 DEF BufferInv, Balance
      <3>2. d = Len(Entries) - Len(Alive) /\ Len(Entries') = Len(Alive)
        BY <1>1, <2>2, <2>4
      <3>3. /\ Len(Entries) = Len(Entries') + d
            /\ Len(Entries) \in Nat /\ Len(Entries') \in Nat /\ d \in Nat
        BY <1>2, <1>3, <3>2
      <3> QED
        BY <2>1, <3>1, <3>3
    <2> QED
      BY <1>1, <2>3, <2>4 DEF Balance
  <1>8. PacketNum' = Len(Entries')
    BY <1>1, <1>2 DEF BufferInv
  <1> QED
    BY <1>1, <1>2, <1>4, <1>5, <1>6, <1>7, <1>8 DEF BufferInv

\* What an addition does, with the room made for it.
LEMMA AddedShape ==
    ASSUME NEW e, Added(e)
    PROVE  /\ Entries' = Append(Room, e)
           /\ PacketNum' = PacketNum - (Len(Entries) - Len(Room)) + 1
           /\ numPacketDrops' = numPacketDrops + (IF isFull(Alive) THEN 1 ELSE 0)
           /\ Records' = ((Records \o Deaths) \o Losses)
                            \o Recorded("inserted", RTTL(e.CreationTime))
  BY DEF Added, Room, Losses

\* addPkt keeps the invariant: a buffer that is not full has room for one
\* more, and one that is loses one first.
LEMMA AddedKept ==
    ASSUME BufferInv, NEW e \in Entry, e.pktID \notin IDs(Alive), e.InsTime = now,
           e.CreationTime <= now, Added(e), UNCHANGED <<now, Set>>, added' \in Nat,
           creation' \in Seq(Nat), \A p \in DOMAIN creation' : creation'[p] <= now
    PROVE  BufferInv'
  <1> DEFINE full == isFull(Alive)
  <1> DEFINE d == IF Set.bufferRecording THEN Len(Entries) - Len(Alive) ELSE 0
  <1> DEFINE l == IF full /\ Set.bufferRecording THEN 1 ELSE 0
  <1> DEFINE m == IF Set.bufferRecording THEN 1 ELSE 0
  <1> DEFINE lost == IF full THEN 1 ELSE 0
  <1>1. /\ InBuffer(Alive, now) /\ Len(Alive) \in 0..Len(Entries)
        /\ Batch(Deaths, now, "dead", d) /\ Len(Entries) \in Nat
    BY PurgeFacts DEF BufferInv, InBuffer
  <1>2. /\ InBuffer(Room, now) /\ Len(Room) = Len(Alive) - lost /\ Len(Room) \in Nat
        /\ BufferSize > 0 => Len(Room) < BufferSize
        /\ IDs(Room) \subseteq IDs(Alive)
        /\ Batch(Losses, now, "dropped", l)
    BY RoomFacts
  <1>3. /\ now \in Nat /\ Set \in Configurations /\ numPacketDrops \in Nat
        /\ BufferSize \in Nat /\ Timely(Records, now)
    BY SetFacts DEF BufferInv, BufferTypes
  <1>4. Batch(Recorded("inserted", RTTL(e.CreationTime)), now, "inserted", m)
    BY <1>3, RTTLType, RecordedFacts DEF Kinds, Entry
  <1>5. d \in Nat /\ l \in Nat /\ m \in Nat /\ lost \in {0, 1}
    BY <1>1
  <1>6. /\ Entries' = Append(Room, e)
        /\ PacketNum' = PacketNum - (Len(Entries) - Len(Room)) + 1
        /\ numPacketDrops' = numPacketDrops + lost
        /\ Records' = ((Records \o Deaths) \o Losses) \o Recorded("inserted", RTTL(e.CreationTime))
    BY AddedShape
  <1>7. InBuffer(Entries', now) /\ Len(Entries') = Len(Room) + 1
    BY <1>2, <1>3, <1>6, AppendInBuffer
  <1> HIDE DEF full, d, l, m, lost
  <1> DEFINE r1 == Records \o Deaths
  <1> DEFINE r2 == r1 \o Losses
  <1>8. /\ Timely(r1, now)
        /\ \A of : /\ Tally(Records, of) \in Nat
                   /\ Tally(r1, of) = Tally(Records, of) + (IF of = "dead" THEN d ELSE 0)
    BY <1>1, <1>3, <1>5, BatchConcat
  <1> HIDE DEF r1
  <1>9. /\ Timely(r2, now)
        /\ \A of : Tally(r2, of) = Tally(r1, of) + (IF of = "dropped" THEN l ELSE 0)
    BY <1>2, <1>3, <1>5, <1>8, BatchConcat
  <1> HIDE DEF r2
  <1>10. /\ Timely(Records', now)
         /\ \A of : Tally(Records', of) = Tally(r2, of) + (IF of = "inserted" THEN m ELSE 0)
    <2>1. Records' = r2 \o Recorded("inserted", RTTL(e.CreationTime))
      BY <1>6 DEF r1, r2
    <2> QED
      BY <1>3, <1>4, <1>5, <1>9, <2>1, BatchConcat
  <1>11. BufferTypes'
    BY <1>3, <1>5, <1>6 DEF BufferInv, BufferTypes
  <1>12. PacketNum' = Len(Entries')
    BY <1>1, <1>2, <1>6, <1>7 DEF BufferInv
  <1>13. WithinSize'
    BY <1>2, <1>3, <1>7 DEF WithinSize, BufferSize
  <1>14. Balance'
    <2>1. /\ Tally(Records', "inserted") = Tally(Records, "inserted") + m
          /\ Tally(Records', "dropped") = Tally(Records, "dropped") + l
          /\ Tally(Records', "dead") = Tally(Records, "dead") + d
          /\ Tally(Records', "removed") = Tally(Records, "removed")
          /\ Tally(Records, "inserted") \in Nat /\ Tally(Records, "dropped") \in Nat
          /\ Tally(Records, "dead") \in Nat /\ Tally(Records, "removed") \in Nat
      BY <1>5, <1>8, <1>9, <1>10
    <2>2. ASSUME Set.bufferRecording
          PROVE  m = 1 /\ l = lost /\ d = Len(Entries) - Len(Alive)
      BY <2>2 DEF m, l, d, lost
    <2>3. ASSUME Set.bufferRecording PROVE Tally(Records', "dropped") = numPacketDrops'
      BY <1>6, <2>1, <2>2, <2>3 DEF BufferInv, Balance
    <2>4. ASSUME Set.bufferRecording, ~Set.Cleaned
          PROVE  Tally(Records', "inserted") =
                    Len(Entries') + Tally(Records', "dropped") + Tally(Records', "dead")
                       + Tally(Records', "removed")
      <3>1. Tally(Records, "inserted") =
               Len(Entries) + Tally(Records, "dropped") + Tally(Records, "dead")
                  + Tally(Records, "removed")
        BY <2>4 DEF BufferInv, Balance
      <3>2. /\ Len(Entries') + l + d = Len(Entries) + m
            /\ Len(Entries) \in Nat /\ Len(Entries') \in Nat
        BY <1>1, <1>2, <1>5, <1>7, <2>2, <2>4
      <3>3. Len(Entries) + m = Len(Entries') + l + d /\ d \in Nat /\ l \in Nat /\ m \in Nat
        BY <1>5, <3>2
      <3>4. \A a, b, c \in Nat :
               (Len(Entries) + a + b + c) + m = Len(Entries') + (a + l) + (b + d) + c
        BY <3>2, <3>3
      <3>5. (Len(Entries) + Tally(Records, "dropped") + Tally(Records, "dead")
                + Tally(Records, "removed")) + m =
            Len(Entries') + (Tally(Records, "dropped") + l) + (Tally(Records, "dead") + d)
                + Tally(Records, "removed")
        BY <2>1, <3>4
      <3> QED
        BY <2>1, <3>1, <3>5
    <2> QED
      BY <2>3, <2>4 DEF Balance
  <1> QED
    BY <1>7, <1>10, <1>11, <1>12, <1>13, <1>14 DEF BufferInv

\* A packet of the node itself.
LEMMA OriginateKept ==
    ASSUME BufferInv, Originate
    PROVE  BufferInv'
  <1> DEFINE p == Len(creation')
  <1> DEFINE e == [pktID |-> p, CreationTime |-> now, InsTime |-> now, Hops |-> 0]
  <1>1. /\ creation' = Append(creation, now)
        /\ addPkt(p, now, 0)
    BY DEF Originate
  <1>2. now \in Nat /\ added \in Nat /\ creation \in Seq(Nat)
    BY DEF BufferInv, BufferTypes
  <1>3. /\ creation' \in Seq(Nat) /\ p \in Nat
        /\ \A q \in DOMAIN creation' : creation'[q] <= now
    <2>1. \A q \in 1..Len(creation) : creation[q] <= now
      BY DEF BufferInv, BufferTypes
    <2>2. /\ creation' \in Seq(Nat) /\ Len(creation') = Len(creation) + 1
          /\ \A i \in 1..Len(creation) : creation'[i] = creation[i]
          /\ creation'[Len(creation) + 1] = now
      BY <1>1, <1>2, AppendProperties
    <2> QED
      BY <1>2, <2>1, <2>2
  <1> HIDE DEF p
  <1>4. e \in Entry /\ e.pktID = p /\ e.InsTime = now /\ e.CreationTime <= now
    BY <1>2, <1>3 DEF Entry
  <1>5. p \notin IDs(Alive) /\ Added(e) /\ UNCHANGED <<now, Set>> /\ added' = added + 1
    BY <1>1 DEF addPkt, Exists
  <1> HIDE DEF e
  <1> QED
    BY <1>2, <1>3, <1>4, <1>5, AddedKept

\* A packet from another node, known here or not.
LEMMA RelayKept ==
    ASSUME BufferInv, Relay
    PROVE  BufferInv'
  <1>1. now \in Nat /\ added \in Nat /\ creation \in Seq(Nat)
        /\ \A p \in DOMAIN creation : creation[p] <= now
    BY DEF BufferInv, BufferTypes
  <1>2. ASSUME NEW p \in Nat, NEW ct \in Nat, ct <= now, addPkt(p, ct, 1),
               creation' \in Seq(Nat), \A q \in DOMAIN creation' : creation'[q] <= now
        PROVE  BufferInv'
    <2> DEFINE e == [pktID |-> p, CreationTime |-> ct, InsTime |-> now, Hops |-> 1]
    <2>1. e \in Entry /\ e.pktID = p /\ e.InsTime = now /\ e.CreationTime <= now
      BY <1>1, <1>2 DEF Entry
    <2>2. p \notin IDs(Alive) /\ Added(e) /\ UNCHANGED <<now, Set>> /\ added' = added + 1
      BY <1>2 DEF addPkt, Exists
    <2> HIDE DEF e
    <2> QED
      BY <1>1, <1>2, <2>1, <2>2, AddedKept
  <1>3. CASE \E p \in DOMAIN creation :
                /\ creation' = creation
                /\ addPkt(p, creation[p], 1)
    <2>1. PICK p \in DOMAIN creation : creation' = creation /\ addPkt(p, creation[p], 1)
      BY <1>3
    <2>2. p \in Nat /\ creation[p] \in Nat /\ creation[p] <= now
      BY <1>1, <2>1
    <2> QED
      BY <1>1, <1>2, <2>1, <2>2
  <1>4. CASE \E ct \in 0..now :
                /\ creation' = Append(creation, ct)
                /\ addPkt(Len(creation'), ct, 1)
    <2>1. PICK ct \in 0..now : creation' = Append(creation, ct) /\ addPkt(Len(creation'), ct, 1)
      BY <1>4
    <2>2. ct \in Nat /\ ct <= now
      BY <1>1, <2>1
    <2>3. /\ creation' \in Seq(Nat) /\ Len(creation') = Len(creation) + 1
          /\ \A i \in 1..Len(creation) : creation'[i] = creation[i]
          /\ creation'[Len(creation) + 1] = ct
      BY <1>1, <2>1, <2>2, AppendProperties
    <2>4. Len(creation') \in Nat /\ \A q \in DOMAIN creation' : creation'[q] <= now
      BY <1>1, <2>2, <2>3
    <2> QED
      BY <1>2, <2>1, <2>2, <2>3, <2>4
  <1> QED
    BY <1>3, <1>4 DEF Relay

\* A removal takes one entry out of the list and makes one record.
LEMMA RemoveKept ==
    ASSUME BufferInv, removePkt
    PROVE  BufferInv'
  <1>1. PICK i \in DOMAIN Entries :
           /\ Records' = Records \o Recorded("removed", RTTL(Entries[i].CreationTime))
           /\ Entries' = RemoveAt(Entries, i)
           /\ PacketNum' = PacketNum - 1
           /\ UNCHANGED <<numPacketDrops, added, creation, now, Set>>
    BY DEF removePkt
  <1> DEFINE m == IF Set.bufferRecording THEN 1 ELSE 0
  <1>2. /\ now \in Nat /\ Set \in Configurations /\ numPacketDrops \in Nat
        /\ BufferSize \in Nat /\ Timely(Records, now) /\ Entries \in Seq(Entry)
        /\ InBuffer(Entries, now)
    BY SetFacts DEF BufferInv, BufferTypes, InBuffer
  <1>3. i \in 1..Len(Entries) /\ Len(Entries) \in Nat /\ Entries[i] \in Entry
    BY <1>2
  <1>4. /\ Entries' \in Seq(Entry) /\ Len(Entries') = Len(Entries) - 1
        /\ \E h : Part(Entries', Entries, h)
    BY <1>1, <1>2, <1>3, RemoveAtFacts
  <1>5. InBuffer(Entries', now)
    BY <1>2, <1>4, PartInBuffer
  <1>6. Batch(Recorded("removed", RTTL(Entries[i].CreationTime)), now, "removed", m)
    BY <1>2, <1>3, RTTLType, RecordedFacts DEF Kinds, Entry
  <1>7. m \in Nat
    OBVIOUS
  <1> HIDE DEF m
  <1>8. /\ Timely(Records', now)
        /\ \A of : /\ Tally(Records, of) \in Nat
                   /\ Tally(Records', of) = Tally(Records, of) + (IF of = "removed" THEN m ELSE 0)
    BY <1>1, <1>2, <1>6, <1>7, BatchConcat
  <1>9. BufferTypes'
    BY <1>1 DEF BufferInv, BufferTypes
  <1>10. WithinSize'
    BY <1>1, <1>2, <1>3, <1>4 DEF WithinSize, BufferInv, BufferSize
  <1>11. Balance'
    <2>1. /\ Tally(Records', "removed") = Tally(Records, "removed") + m
          /\ Tally(Records', "dropped") = Tally(Records, "dropped")
          /\ Tally(Records', "inserted") = Tally(Records, "inserted")
          /\ Tally(Records', "dead") = Tally(Records, "dead")
          /\ Tally(Records, "dead") \in Nat /\ Tally(Records, "dropped") \in Nat
          /\ Tally(Records, "inserted") \in Nat /\ Tally(Records, "removed") \in Nat
      BY <1>8
    <2>2. Set.bufferRecording => m = 1
      BY DEF m
    <2>3. ASSUME Set.bufferRecording PROVE Tally(Records', "dropped") = numPacketDrops'
      BY <1>1, <2>1, <2>3 DEF BufferInv, Balance
    <2>4. ASSUME Set.bufferRecording, ~Set.Cleaned
          PROVE  Tally(Records', "inserted") =
                    Len(Entries') + Tally(Records', "dropped") + Tally(Records', "dead")
                       + Tally(Records', "removed")
      <3>1. Tally(Records, "inserted") =
               Len(Entries) + Tally(Records, "dropped") + Tally(Records, "dead")
                  + Tally(Records, "removed")
        BY <2>4 DEF BufferInv, Balance
      <3>2. Len(Entries) = Len(Entries') + m /\ Len(Entries') \in Nat
        BY <1>3, <1>4, <2>2, <2>4
      <3> QED
        BY <1>7, <2>1, <3>1, <3>2
    <2> QED
      BY <1>1, <2>3, <2>4 DEF Balance
  <1>12. PacketNum' = Len(Entries')
    BY <1>1, <1>4 DEF BufferInv
  <1> QED
    BY <1>1, <1>5, <1>8, <1>9, <1>10, <1>11, <1>12 DEF BufferInv

\* A cleaning removes without records, and only where buffers are cleaned.
LEMMA CleanKept ==
    ASSUME BufferInv, CleanBuffer
    PROVE  BufferInv'
  <1>1. PICK ps \in SUBSET IDs(Entries) :
           /\ Set.Cleaned
           /\ Entries' = Kept(Entries, {i \in DOMAIN Entries : Entries[i].pktID \notin ps})
           /\ PacketNum' = PacketNum - Cardinality({i \in DOMAIN Entries : Entries[i].pktID \in ps})
           /\ UNCHANGED <<Records, numPacketDrops, added, creation, now, Set>>
    BY DEF CleanBuffer
  <1> DEFINE n == Len(Entries)
  <1> DEFINE I == {i \in DOMAIN Entries : Entries[i].pktID \notin ps}
  <1> DEFINE J == {i \in DOMAIN Entries : Entries[i].pktID \in ps}
  <1>2. /\ now \in Nat /\ Set \in Configurations /\ BufferSize \in Nat
        /\ Timely(Records, now) /\ Entries \in Seq(Entry) /\ InBuffer(Entries, now)
    BY SetFacts DEF BufferInv, BufferTypes, InBuffer
  <1>3. n \in Nat /\ DOMAIN Entries = 1..n /\ I \in SUBSET DOMAIN Entries
    BY <1>2
  <1>4. J = (1..n) \ I /\ I \in SUBSET (1..n)
    BY <1>3
  <1> HIDE DEF I, J, n
  <1>5. /\ Kept(Entries, I) \in Seq(Entry)
        /\ Cardinality(I) \in 0..Len(Entries)
        /\ Len(Kept(Entries, I)) = Cardinality(I)
        /\ Part(Kept(Entries, I), Entries, InOrder(I))
    BY <1>2, <1>3, KeptFacts
  <1>6. Entries' = Kept(Entries, I) /\ PacketNum' = PacketNum - Cardinality(J)
    BY <1>1 DEF I, J
  <1>7. InBuffer(Entries', now)
    BY <1>2, <1>5, <1>6, PartInBuffer
  <1>8. Cardinality(J) = n - Cardinality(I)
    <2>1. IsFiniteSet(1..n) /\ Cardinality(1..n) = n
      BY <1>3, FS_Interval
    <2>2. Cardinality((1..n) \ I) = Cardinality(1..n) - Cardinality((1..n) \cap I)
      BY <2>1, FS_Difference
    <2>3. (1..n) \cap I = I
      BY <1>4
    <2> QED
      BY <1>4, <2>1, <2>2, <2>3
  <1>9. PacketNum' = Len(Entries')
    BY <1>3, <1>5, <1>6, <1>8 DEF BufferInv, n
  <1>10. WithinSize'
    BY <1>1, <1>2, <1>3, <1>5, <1>6 DEF WithinSize, BufferInv, BufferSize, n
  <1>11. BufferTypes'
    BY <1>1 DEF BufferInv, BufferTypes
  <1>12. Balance'
    BY <1>1 DEF BufferInv, Balance
  <1> QED
    BY <1>1, <1>2, <1>7, <1>9, <1>10, <1>11, <1>12 DEF BufferInv

\* Time passes.
LEMMA TickKept ==
    ASSUME BufferInv, Tick
    PROVE  BufferInv'
  <1>1. /\ now' = now + 1
        /\ UNCHANGED <<Entries, PacketNum, Records, numPacketDrops, added, creation, Set>>
    BY DEF Tick
  <1>2. now \in Nat /\ now' \in Nat /\ \A x \in Nat : x <= now => x <= now'
    BY <1>1 DEF BufferInv, BufferTypes
  <1>3. BufferTypes'
    <2>1. \A p \in DOMAIN creation : creation[p] \in Nat /\ creation[p] <= now
      BY DEF BufferInv, BufferTypes
    <2> QED
      BY <1>1, <1>2, <2>1 DEF BufferInv, BufferTypes
  <1>4. InBuffer(Entries, now')
    <2>1. InBuffer(Entries, now)
      BY DEF BufferInv
    <2>2. \A i \in 1..Len(Entries) : Entries[i].InsTime \in Nat /\ Entries[i].CreationTime \in Nat
      <3> TAKE i \in 1..Len(Entries)
      <3>1. Entries[i] \in Entry
        BY <2>1 DEF InBuffer
      <3> QED
        BY <3>1 DEF Entry
    <2> QED
      BY <1>2, <2>1, <2>2 DEF InBuffer
  <1>5. Timely(Records, now')
    <2>1. Timely(Records, now)
      BY DEF BufferInv
    <2>2. \A i \in 1..Len(Records) : Records[i].time \in Nat
      <3> TAKE i \in 1..Len(Records)
      <3>1. Records[i] \in Record
        BY <2>1 DEF Timely
      <3> QED
        BY <3>1 DEF Record
    <2> QED
      BY <1>2, <2>1, <2>2 DEF Timely
  <1> QED
    BY <1>1, <1>3, <1>4, <1>5 DEF BufferInv, WithinSize, Balance, BufferSize

\* Every step of the buffer keeps the invariant.
LEMMA BufferInvNext == BufferInv /\ [Next]_vars => BufferInv'
  <1> SUFFICES ASSUME BufferInv, [Next]_vars PROVE BufferInv'
    OBVIOUS
  <1>1. CASE UNCHANGED vars
    BY <1>1 DEF vars, BufferInv, BufferTypes, WithinSize, Balance, BufferSize
  <1> QED
    BY <1>1, AccessKept, OriginateKept, RelayKept, RemoveKept, CleanKept, TickKept DEF Next

\* The invariant holds in every reachable state of the buffer, whatever is
\* added, purged, dropped, removed and cleaned.
THEOREM BufferInvariance == Spec => []BufferInv
  <1>1. Init => BufferInv
    BY InitBufferInv
  <1> QED
    BY <1>1, BufferInvNext, PTL DEF Spec

-----------------------------------------------------------------------------
(* What follows from it.                                                   *)

\* The values of the variables are right, the counter equals the length of
\* the list, and no packet has two entries.
THEOREM BufferTypeCorrect == Spec => []TypeOK
  <1>1. ASSUME BufferInv PROVE TypeOK
    <2>1. InBuffer(Entries, now) /\ PacketNum = Len(Entries) /\ Entries \in Seq(Entry)
      BY <1>1 DEF BufferInv, InBuffer
    <2>2. Cardinality(IDs(Entries)) = Len(Entries)
      BY <2>1, CountIDs
    <2>3. Records \in Seq(Record)
      BY <1>1 DEF BufferInv, Timely
    <2> QED
      BY <1>1, <2>1, <2>2, <2>3 DEF TypeOK, BufferInv, BufferTypes
  <1> QED
    BY <1>1, BufferInvariance, PTL

\* A buffer never holds more packets than its size, although isFull tells
\* only a buffer that holds exactly as many.
THEOREM NeverOverfull == Spec => []WithinSize
  <1>1. BufferInv => WithinSize
    BY DEF BufferInv
  <1> QED
    BY <1>1, BufferInvariance, PTL

\* The drops from start until before end.
DropsWithin(start, end) ==
    {i \in DOMAIN Records : Records[i].time \in start..(end - 1) /\ Records[i].of = "dropped"}

\* A reader that stops at the first record before its interval misses none.
LEMMA ReaderMissesNone ==
    ASSUME Timely(Records, now), NEW start \in Nat, NEW end \in Nat
    PROVE  getNumPacketDrops(start, end) = Cardinality(DropsWithin(start, end))
  <1> DEFINE Read == {i \in DOMAIN Records : \A j \in i..Len(Records) : ~(Records[j].time < start)}
  <1>1. ReadUntil(LAMBDA r : r.time < start) = Read
    BY DEF ReadUntil
  <1>2. /\ Records \in Seq(Record) /\ DOMAIN Records = 1..Len(Records)
        /\ Len(Records) \in Nat
    BY DEF Timely
  <1>3. \A i \in 1..Len(Records) : Records[i].time \in Nat
    <2> TAKE i \in 1..Len(Records)
    <2>1. Records[i] \in Record
      BY <1>2
    <2> QED
      BY <2>1 DEF Record
  <1>4. ASSUME NEW i \in DOMAIN Records, Records[i].time \in start..(end - 1)
        PROVE  i \in Read
    <2>1. ASSUME NEW j \in i..Len(Records) PROVE ~(Records[j].time < start)
      <3>1. i \in 1..Len(Records) /\ j \in 1..Len(Records) /\ i <= j
        BY <1>2, <2>1
      <3>2. Records[i].time <= Records[j].time
        BY <3>1 DEF Timely
      <3> QED
        BY <1>3, <1>4, <3>1, <3>2
    <2> QED
      BY <2>1
  <1>5. {i \in Read : /\ Records[i].time \in start..(end - 1)
                      /\ Records[i].of = "dropped"} = DropsWithin(start, end)
    BY <1>4 DEF DropsWithin
  <1> QED
    BY <1>1, <1>5 DEF getNumPacketDrops

\* The drops of two intervals that touch are those of both together.
LEMMA DropsSplit ==
    ASSUME Timely(Records, now), NEW s \in Nat, NEW m \in Nat, NEW e \in Nat, s <= m, m <= e
    PROVE  getNumPacketDrops(s, m) + getNumPacketDrops(m, e) = getNumPacketDrops(s, e)
  <1>1. IsFiniteSet(DOMAIN Records)
    <2> DEFINE n == Len(Records)
    <2>1. n \in Nat /\ DOMAIN Records = 1..n
      BY DEF Timely
    <2> HIDE DEF n
    <2> QED
      BY <2>1, FS_Interval
  <1> DEFINE A == DropsWithin(s, m)
  <1> DEFINE B == DropsWithin(m, e)
  <1>2. IsFiniteSet(A) /\ IsFiniteSet(B)
    <2>1. A \in SUBSET DOMAIN Records /\ B \in SUBSET DOMAIN Records
      BY DEF DropsWithin
    <2> QED
      BY <1>1, <2>1, FS_Subset
  <1>3. A \cup B = DropsWithin(s, e)
    <2>1. \A t : t \in s..(e - 1) <=> t \in s..(m - 1) \/ t \in m..(e - 1)
      OBVIOUS
    <2> QED
      BY <2>1 DEF DropsWithin
  <1>4. A \cap B = {}
    <2>1. \A t : ~(t \in s..(m - 1) /\ t \in m..(e - 1))
      OBVIOUS
    <2> QED
      BY <2>1 DEF DropsWithin
  <1> HIDE DEF A, B
  <1>5. Cardinality(A \cup B) = Cardinality(A) + Cardinality(B)
    <2>1. Cardinality(A \cup B) = Cardinality(A) + Cardinality(B) - Cardinality(A \cap B)
      BY <1>2, FS_Union
    <2>2. Cardinality(A \cap B) = 0 /\ Cardinality(A) \in Nat /\ Cardinality(B) \in Nat
      BY <1>2, <1>4, FS_EmptySet, FS_CardinalityType
    <2> QED
      BY <2>1, <2>2
  <1> QED
    BY <1>3, <1>5, ReaderMissesNone DEF A, B

\* The records account for every change of the buffer, and what is read from
\* them in intervals adds up.
THEOREM RecordsAgree == Spec => []RecordsAddUp
  <1>1. ASSUME BufferInv PROVE RecordsAddUp
    <2>1. SUFFICES ASSUME Set.bufferRecording PROVE RecordsAddUp
      BY DEF RecordsAddUp
    <2>2. /\ now \in Nat /\ Timely(Records, now) /\ Records \in Seq(Record)
          /\ Tally(Records, "dropped") = numPacketDrops
      BY <1>1, <2>1 DEF BufferInv, BufferTypes, Balance, Timely
    <2>3. ASSUME ~Set.Cleaned
          PROVE  Len(Entries) = Tally(Records, "inserted") - Tally(Records, "dropped")
                                   - Tally(Records, "dead") - Tally(Records, "removed")
      <3>1. \A of : Tally(Records, of) \in Nat
        BY <2>2, TallyConcat
      <3>2. Tally(Records, "inserted") =
               Len(Entries) + Tally(Records, "dropped") + Tally(Records, "dead")
                  + Tally(Records, "removed")
        BY <1>1, <2>1, <2>3 DEF BufferInv, Balance
      <3>3. Len(Entries) \in Nat
        BY <1>1 DEF BufferInv, InBuffer
      <3>4. \A n, a, b, c, i \in Nat : i = n + a + b + c => n = i - a - b - c
        OBVIOUS
      <3> QED
        BY <3>1, <3>2, <3>3, <3>4
    <2>4. getNumPacketDrops(0, now + 1) = numPacketDrops
      <3>1. \A i \in DOMAIN Records : Records[i].time \in 0..((now + 1) - 1)
        <4> TAKE i \in DOMAIN Records
        <4>1. i \in 1..Len(Records) /\ Records[i] \in Record
          BY <2>2
        <4>2. Records[i].time <= now
          BY <2>2, <4>1 DEF Timely
        <4> QED
          BY <2>2, <4>1, <4>2 DEF Record
      <3>2. DropsWithin(0, now + 1) = {i \in DOMAIN Records : Records[i].of = "dropped"}
        BY <3>1 DEF DropsWithin
      <3>3. getNumPacketDrops(0, now + 1) = Cardinality(DropsWithin(0, now + 1))
        BY <2>2, ReaderMissesNone
      <3> QED
        BY <2>2, <3>2, <3>3 DEF Tally
    <2>5. \A s, m, e \in 0..(now + 1) : s <= m /\ m <= e =>
             getNumPacketDrops(s, m) + getNumPacketDrops(m, e) = getNumPacketDrops(s, e)
      <3> SUFFICES ASSUME NEW s \in 0..(now + 1), NEW m \in 0..(now + 1),
                          NEW e \in 0..(now + 1), s <= m, m <= e
                   PROVE  getNumPacketDrops(s, m) + getNumPacketDrops(m, e)
                             = getNumPacketDrops(s, e)
        OBVIOUS
      <3>1. s \in Nat /\ m \in Nat /\ e \in Nat
        BY <2>2
      <3> QED
        BY <2>2, <3>1, DropsSplit
    <2> QED
      BY <2>3, <2>4, <2>5 DEF RecordsAddUp, Tally
  <1> QED
    BY <1>1, BufferInvariance, PTL

-----------------------------------------------------------------------------
\* Only an addition to a full buffer drops, and it drops what the policy says.
LEMMA DropIsVictim ==
    ASSUME BufferInv, [Next]_vars, numPacketDrops' > numPacketDrops
    PROVE  /\ isFull(Alive)
           /\ \E e : Entries' = Append(Room, e)
  <1>1. numPacketDrops \in Nat
    BY DEF BufferInv, BufferTypes
  <1>2. ASSUME NEW e, Added(e) PROVE isFull(Alive) /\ \E x : Entries' = Append(Room, x)
    <2>1. /\ Entries' = Append(Room, e)
          /\ numPacketDrops' = numPacketDrops + (IF isFull(Alive) THEN 1 ELSE 0)
      BY <1>2, AddedShape
    <2> QED
      BY <1>1, <2>1
  <1>3. ASSUME NEW p, NEW ct, NEW hops, addPkt(p, ct, hops)
        PROVE  isFull(Alive) /\ \E e : Entries' = Append(Room, e)
    BY <1>2, <1>3 DEF addPkt
  <1>4. numPacketDrops' # numPacketDrops
    BY <1>1
  <1>5. Originate \/ Relay
    BY <1>4 DEF Next, vars, Access, removePkt, CleanBuffer, Tick
  <1> QED
    BY <1>3, <1>5 DEF Originate, Relay

\* What is dropped is what the name of the policy says, for every policy and
\* every buffer: the front of the list is the packet that has been there
\* longest because the list is always in the order of arrival.
THEOREM DropsAsNamed == Spec => DropsByName
  <1> DEFINE Named ==
        /\ \A i \in DOMAIN Alive : Dropped(i) =>
             \A j \in DOMAIN Alive :
                 /\ DropPol = "DF" => Alive[i].InsTime <= Alive[j].InsTime
                 /\ DropPol = "DT" => Alive[i].InsTime >= Alive[j].InsTime
                 /\ DropPol = "DO" => Alive[i].CreationTime <= Alive[j].CreationTime
                 /\ DropPol = "DY" => Alive[i].CreationTime >= Alive[j].CreationTime
        /\ DropPol \in {"DF_ASP", "DT_ASP"} => SparesSource
  <1>1. ASSUME BufferInv, [Next]_vars PROVE Named
    <2>1. /\ InBuffer(Alive, now) /\ now \in Nat /\ DropPol \in Policies
          /\ Alive \in Seq(Entry) /\ Len(Alive) \in Nat /\ BufferSize \in Nat
      BY <1>1, PurgeFacts, SetFacts DEF BufferInv, BufferTypes, InBuffer
    <2>2. DOMAIN Alive = 1..Len(Alive)
      BY <2>1
    <2>3. ASSUME NEW i \in DOMAIN Alive, Dropped(i)
          PROVE  i = Drop(Alive) /\ Len(Alive) > 0
      <3>1. isFull(Alive) /\ \E e : Entries' = Append(Room, e)
        BY <1>1, <2>3, DropIsVictim DEF Dropped
      <3>2. PICK e : Entries' = Append(Room, e)
        BY <3>1
      <3>3. Len(Alive) > 0
        BY <2>1, <3>1 DEF isFull
      <3> DEFINE v == Drop(Alive)
      <3>4. v \in 1..Len(Alive)
        BY <2>1, <3>3, DropFacts
      <3> HIDE DEF v
      <3>5. Room = RemoveAt(Alive, v)
        BY <3>1 DEF Room, v
      <3>6. /\ Room \in Seq(Entry) /\ Len(Room) = Len(Alive) - 1
            /\ \A j \in (1..Len(Alive)) \ {v} :
                  \E k \in 1..(Len(Alive) - 1) : Room[k] = Alive[j]
        BY <2>1, <3>4, <3>5, RemoveAtFacts
      <3>7. \A k \in 1..Len(Room) : k \in DOMAIN Entries' /\ Entries'[k] = Room[k]
        BY <3>2, <3>6
      <3>8. CASE i # v
        <4>1. PICK k \in 1..Len(Room) : Room[k] = Alive[i]
          BY <2>2, <2>3, <3>6, <3>8
        <4>2. k \in DOMAIN Entries' /\ Entries'[k].pktID = Alive[i].pktID
          BY <3>7, <4>1
        <4>3. Alive[i].pktID \in IDs(Entries')
          BY <4>2 DEF IDs
        <4> QED
          BY <2>3, <4>3 DEF Dropped
      <3> QED
        BY <3>3, <3>8 DEF v
    <2>4. Len(Alive) > 0 =>
            /\ \A j \in DOMAIN Alive :
                  /\ DropPol = "DF" => Alive[Drop(Alive)].InsTime <= Alive[j].InsTime
                  /\ DropPol = "DT" => Alive[Drop(Alive)].InsTime >= Alive[j].InsTime
                  /\ DropPol = "DO" => Alive[Drop(Alive)].CreationTime <= Alive[j].CreationTime
                  /\ DropPol = "DY" => Alive[Drop(Alive)].CreationTime >= Alive[j].CreationTime
            /\ DropPol \in {"DF_ASP", "DT_ASP"} /\ Alive[Drop(Alive)].Hops = 0
                  => Relayed(Alive) = {}
      BY <2>1, <2>2, DropFacts
    <2>5. DropPol \in {"DF_ASP", "DT_ASP"} => SparesSource
      BY <2>3, <2>4 DEF SparesSource
    <2> QED
      BY <2>3, <2>4, <2>5
  <1>2. BufferInv /\ [Next]_vars => [Named]_vars
    BY <1>1
  <1> QED
    BY <1>2, BufferInvariance, PTL DEF Spec, DropsByName
=============================================================================
