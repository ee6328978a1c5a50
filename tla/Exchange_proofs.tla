-------------------------- MODULE Exchange_proofs ---------------------------
(***************************************************************************)
(* Lemmas about class Routing and the exchange of summaries, for whatever  *)
(* protocol runs on them, in every network, traffic load, buffer size,     *)
(* time to live and with every deletion mechanism: what handlers do to the *)
(* stack of events and to the packet pool, what is in transmission, and    *)
(* who is still to receive it; and, for the protocols without utilities,   *)
(* that an exchange leaves nothing out but what a node keeps to itself.    *)
(* The proofs about the protocols rest on them.                            *)
(***************************************************************************)
EXTENDS Exchange, Integers, FiniteSetsExt, SequenceTheorems, FiniteSetTheorems,
        WellFoundedInduction, TLAPS

\* A packet that the pool may hold.  Those of types this class does not know,
\* the answers of a protocol, may say anything.
IsPacket(pkt) ==
    /\ pkt.prev \in Nodes /\ pkt.next \in Nodes
    /\ pkt.type \in Types => pkt \in Message

\* A transmission e whose packet is in pool pl and whose receivers are, by
\* the connection map cn, neighbours of the sender.
InTransit(e, pl, cn, last) ==
    /\ e.id \in DOMAIN pl
    /\ e.id <= last
    /\ e.rcv # {}
    /\ e.rcv \subseteq cn[e.a]
    /\ pl[e.id].prev = e.a
    /\ IF pl[e.id].type = "DATA" THEN pl[e.id].access = Cardinality(e.rcv)
       ELSE e.rcv = {pl[e.id].next}

\* The stack of events: transmissions lie above contacts, each packet of the
\* pool belongs to one of them, and "last" is the identifier given out last.
StackOK(ev, pl, cn, last) ==
    /\ ev \in Seq(Event)
    /\ last \in Nat
    /\ \A i, j \in 1..Len(ev) : i < j /\ ev[j].ev = "TX" => ev[i].ev = "TX"
    /\ \A i, j \in 1..Len(ev) :
          ev[i].ev = "TX" /\ ev[j].ev = "TX" /\ ev[i].id = ev[j].id => i = j
    /\ \A i \in 1..Len(ev) : ev[i].ev = "TX" => InTransit(ev[i], pl, cn, last)
    /\ DOMAIN pl \subseteq Nat
    /\ \A id \in DOMAIN pl :
          /\ IsPacket(pl[id])
          /\ \E i \in 1..Len(ev) : ev[i].ev = "TX" /\ ev[i].id = id

NoApp(ev) == \A i \in 1..Len(ev) : ev[i].ev # "APP"

SetOK == Set \in Configurations

NetOK ==
    /\ now \in 0..MaxTime
    /\ conn \in [Nodes -> SUBSET Nodes]
    /\ \A a, b \in Nodes : b \in conn[a] => a \in conn[b]
    /\ origin \in Seq([src : Nodes, dst : Nodes, time : 0..MaxTime])
    /\ Len(origin) <= TrafficLoad

DataOK ==
    /\ buffer \in [Nodes -> SUBSET PktIDs]
    /\ delivered \in [Nodes -> SUBSET PktIDs]
    /\ god \subseteq PktIDs
    /\ received \subseteq PktIDs
    /\ duplicates \subseteq received
    /\ halted \in BOOLEAN

\* A packet of the application arrives when nothing else is going on.
AppOK ==
    \A i \in 1..Len(evlist) :
        evlist[i].ev = "APP" => Len(evlist) = 1 /\ Len(origin) < TrafficLoad

\* The inductive invariant.  LinksLive alone is not preserved: a handler
\* answers over the link its packet came by, so links must be symmetric and
\* the packet's previous hop the sender of the transmission; and the end of
\* a contact must not find a transmission pending, hence the stack's shape.
IInv == NetOK /\ DataOK /\ AppOK /\ StackOK(evlist, pool, conn, variousIDs)

-----------------------------------------------------------------------------
\* Packet identifiers.
LEMMA PktFacts ==
    /\ TrafficLoad \in Nat /\ PktIDs \subseteq Nat
    /\ \A S \in SUBSET PktIDs : IsFiniteSet(S) /\ Cardinality(S) \in Nat
    /\ \A S \in SUBSET Nodes : IsFiniteSet(S) /\ Cardinality(S) \in Nat
  <1>1. TrafficLoad \in Nat /\ IsFiniteSet(Nodes)
    BY RoutingAssumption
  <1>2. PktIDs \subseteq Nat /\ IsFiniteSet(PktIDs)
    BY <1>1, FS_Interval DEF PktIDs
  <1> QED
    BY <1>1, <1>2, FS_Subset, FS_CardinalityType

\* What the invariant says in the terms of the properties.
LEMMA InvImplies == IInv /\ SetOK => CommonTypeOK /\ LinksLive /\ PoolExact
  <1> SUFFICES ASSUME IInv, SetOK PROVE CommonTypeOK /\ LinksLive /\ PoolExact
    OBVIOUS
  <1> USE DEF IInv
  <1>1. /\ evlist \in Seq(Event) /\ DOMAIN evlist = 1..Len(evlist)
        /\ variousIDs \in Nat /\ DOMAIN pool \subseteq Nat
    BY DEF StackOK
  <1>2. CommonTypeOK
    BY <1>1 DEF CommonTypeOK, SetOK, NetOK, DataOK
  <1>3. LinksLive
    BY <1>1 DEF StackOK, InTransit, LinksLive, IsTX
  <1>4. DOMAIN pool = {evlist[i].id : i \in {j \in DOMAIN evlist : IsTX(j)}}
    <2>1. \A i \in DOMAIN evlist : IsTX(i) => evlist[i].id \in DOMAIN pool
      BY <1>1 DEF StackOK, InTransit, IsTX
    <2>2. \A id \in DOMAIN pool : \E i \in DOMAIN evlist : IsTX(i) /\ evlist[i].id = id
      BY <1>1 DEF StackOK, IsTX
    <2> QED
      BY <2>1, <2>2
  <1>5. \A i \in DOMAIN evlist :
           IsTX(i) /\ pool[evlist[i].id].type = "DATA"
              => pool[evlist[i].id].access = Cardinality(evlist[i].rcv)
    BY <1>1 DEF StackOK, InTransit, IsTX
  <1> QED
    BY <1>2, <1>3, <1>4, <1>5 DEF PoolExact

-----------------------------------------------------------------------------
(* What handlers send.                                                     *)

\* A sequence of packets that node n may send over the links cn.
Sendable(msgs, n, cn) ==
    /\ \E S : msgs \in Seq(S)
    /\ \A k \in 1..Len(msgs) :
          /\ IsPacket(msgs[k])
          /\ msgs[k].prev = n
          /\ IF msgs[k].type = "DATA"
             THEN cn[n] # {} /\ msgs[k].access = Cardinality(cn[n])
             ELSE msgs[k].next \in cn[n]

\* A packet to a neighbour may be sent, ...
LEMMA SendableOne ==
    ASSUME NEW n, NEW cn, NEW pkt, IsPacket(pkt), pkt.type # "DATA", pkt.prev = n,
           pkt.next \in cn[n]
    PROVE  Sendable(<<pkt>>, n, cn)
  <1> DEFINE msgs == <<pkt>>
  <1>1. \E S : msgs \in Seq(S)
    <2>1. msgs \in Seq({pkt})
      OBVIOUS
    <2> HIDE DEF msgs
    <2> QED
      BY <2>1
  <1>2. \A k \in 1..Len(msgs) : msgs[k] = pkt
    OBVIOUS
  <1> HIDE DEF msgs
  <1>3. Sendable(msgs, n, cn)
    BY <1>1, <1>2 DEF Sendable
  <1> QED
    BY <1>3 DEF msgs

\* ... for example a control packet.
LEMMA SendableControl ==
    ASSUME NEW n \in Nodes, NEW m \in Nodes, NEW cn, m \in cn[n],
           NEW type \in Types, type # "DATA", NEW ids \in SUBSET PktIDs
    PROVE  Sendable(<<Control(type, n, m, ids)>>, n, cn)
  <1> DEFINE pkt == Control(type, n, m, ids)
  <1>1. pkt \in Message
    BY DEF Control, Message
  <1>2. pkt.prev = n /\ pkt.next = m /\ pkt.type # "DATA"
    BY DEF Control
  <1>3. IsPacket(pkt)
    BY <1>1, <1>2 DEF IsPacket
  <1> HIDE DEF pkt
  <1> QED
    BY <1>2, <1>3, SendableOne DEF pkt

\* As may an answer of a type of the protocol's own.
LEMMA SendableReply ==
    ASSUME NEW n \in Nodes, NEW m \in Nodes, NEW cn, m \in cn[n],
           NEW type, type \notin Types, NEW body
    PROVE  Sendable(<<Reply(type, n, m, body)>>, n, cn)
  <1> DEFINE pkt == Reply(type, n, m, body)
  <1>1. /\ pkt.prev = n /\ pkt.next = m /\ pkt.type = type
        /\ pkt.type # "DATA" /\ pkt.type \notin Types
    BY DEF Reply, Types
  <1>2. IsPacket(pkt)
    BY <1>1 DEF IsPacket
  <1> HIDE DEF pkt
  <1> QED
    BY <1>1, <1>2, SendableOne DEF pkt

\* And so may the duplicates of data packets, in any order.
LEMMA SendableData ==
    ASSUME NEW n \in Nodes, NEW m \in Nodes, conn' \in [Nodes -> SUBSET Nodes],
           NEW S \in SUBSET PktIDs, NEW order \in Orders(S), NEW r \in Nat
    PROVE  Sendable(DataFor(n, m, order, r), n, conn')
  <1>1. Cardinality(S) \in Nat /\ Cardinality(conn'[n]) \in Nat
    BY PktFacts
  <1>2. order \in [1..Cardinality(S) -> S]
    BY DEF Orders
  <1>3. order \in Seq(S) /\ Len(order) = Cardinality(S)
    BY <1>1, <1>2
  <1>4. \A p \in S : Data(n, m, p, r) \in Message /\ IsPacket(Data(n, m, p, r))
    BY <1>1 DEF Data, Message, Types, IsPacket
  <1>5. \A p \in S : /\ Data(n, m, p, r).prev = n
                     /\ Data(n, m, p, r).type = "DATA"
                     /\ Data(n, m, p, r).access = Cardinality(conn'[n])
    BY DEF Data
  <1>6. CASE conn'[n] = {}
    <2>1. DataFor(n, m, order, r) = <<>>
      BY <1>6 DEF DataFor
    <2> QED
      BY <2>1 DEF Sendable
  <1>7. CASE conn'[n] # {}
    <2>1. DataFor(n, m, order, r) = [i \in 1..Len(order) |-> Data(n, m, order[i], r)]
      BY <1>7 DEF DataFor
    <2>2. \A i \in 1..Len(order) : order[i] \in S
      BY <1>3
    <2>3. /\ DataFor(n, m, order, r) \in Seq(Message)
          /\ Len(DataFor(n, m, order, r)) = Len(order)
      BY <1>1, <1>3, <1>4, <2>1, <2>2
    <2>4. \A i \in 1..Len(order) : DataFor(n, m, order, r)[i] = Data(n, m, order[i], r)
      BY <2>1
    <2> QED
      BY <1>4, <1>5, <1>7, <2>2, <2>3, <2>4 DEF Sendable
  <1> QED
    BY <1>6, <1>7

LEMMA SendableConcat ==
    ASSUME NEW n, NEW cn, NEW s, NEW t, Sendable(s, n, cn), Sendable(t, n, cn)
    PROVE  Sendable(s \o t, n, cn)
  <1>0. PICK S, T : s \in Seq(S) /\ t \in Seq(T)
    BY DEF Sendable
  <1> DEFINE U == S \cup T
  <1>1. s \in Seq(U) /\ t \in Seq(U) /\ Len(s) \in Nat /\ Len(t) \in Nat
    BY <1>0
  <1> HIDE DEF U
  <1>2. /\ s \o t \in Seq(U)
        /\ Len(s \o t) = Len(s) + Len(t)
        /\ \A i \in 1..(Len(s) + Len(t)) :
              (s \o t)[i] = IF i <= Len(s) THEN s[i] ELSE t[i - Len(s)]
    BY <1>1, ConcatProperties
  <1>3. ASSUME NEW k \in 1..(Len(s) + Len(t))
        PROVE  \/ \E i \in 1..Len(s) : (s \o t)[k] = s[i]
               \/ \E i \in 1..Len(t) : (s \o t)[k] = t[i]
    <2>1. CASE k <= Len(s)
      BY <1>1, <1>2, <2>1
    <2>2. CASE k > Len(s)
      <3>1. k - Len(s) \in 1..Len(t)
        BY <1>1, <2>2
      <3>2. (s \o t)[k] = t[k - Len(s)]
        BY <1>1, <1>2, <2>2
      <3> QED
        BY <3>1, <3>2
    <2> QED
      BY <1>1, <2>1, <2>2
  <1> QED
    BY <1>2, <1>3 DEF Sendable

\* The transmissions of a sequence of packets.
LEMMA TransmissionsFacts ==
    ASSUME conn' \in [Nodes -> SUBSET Nodes], NEW n \in Nodes, NEW msgs,
           Sendable(msgs, n, conn'), variousIDs \in Nat
    PROVE  /\ Transmissions(msgs) \in Seq(Event)
           /\ Len(Transmissions(msgs)) = Len(msgs)
           /\ Len(msgs) \in Nat
           /\ \A i \in 1..Len(msgs) :
                 LET e == Transmissions(msgs)[i]
                     k == Len(msgs) + 1 - i
                 IN  /\ k \in 1..Len(msgs)
                     /\ e.ev = "TX"
                     /\ e.a = n
                     /\ e.id = variousIDs + k
                     /\ e.rcv = IF msgs[k].type = "DATA" THEN conn'[n]
                                ELSE {msgs[k].next}
                     /\ e.rcv # {} /\ e.rcv \subseteq conn'[n]
  <1> DEFINE L == Len(msgs)
  <1> DEFINE E(k) == [ev |-> "TX", a |-> msgs[k].prev, id |-> variousIDs + k,
                      rcv |-> IF msgs[k].type = "DATA" THEN conn'[msgs[k].prev]
                              ELSE {msgs[k].next}]
  <1>1. L \in Nat
    BY DEF Sendable
  <1>2. ASSUME NEW k \in 1..L
        PROVE  /\ E(k) \in Event
               /\ msgs[k].prev = n
               /\ E(k).rcv # {} /\ E(k).rcv \subseteq conn'[n]
    <2>1. IsPacket(msgs[k]) /\ msgs[k].prev = n
      BY <1>1 DEF Sendable
    <2>2. msgs[k].next \in Nodes
      BY <2>1 DEF IsPacket
    <2>3. CASE msgs[k].type = "DATA"
      <3>1. E(k).rcv = conn'[n] /\ conn'[n] # {} /\ conn'[n] \subseteq Nodes
        BY <2>1, <2>3 DEF Sendable
      <3>2. E(k) \in Transmission
        BY <1>1, <2>1, <3>1 DEF Transmission
      <3> QED
        BY <2>1, <3>1, <3>2 DEF Event
    <2>4. CASE msgs[k].type # "DATA"
      <3>1. E(k).rcv = {msgs[k].next} /\ msgs[k].next \in conn'[n]
        BY <2>1, <2>4 DEF Sendable
      <3>2. E(k) \in Transmission
        BY <1>1, <2>1, <2>2, <3>1 DEF Transmission
      <3> QED
        BY <2>1, <3>1, <3>2 DEF Event
    <2> QED
      BY <2>3, <2>4
  <1>3. Transmissions(msgs) = [i \in 1..L |-> E(L + 1 - i)]
    BY DEF Transmissions
  <1>4. \A i \in 1..L : L + 1 - i \in 1..L
    BY <1>1
  <1> HIDE DEF E
  <1>5. Transmissions(msgs) \in [1..L -> Event]
    BY <1>2, <1>3, <1>4
  <1>6. Transmissions(msgs) \in Seq(Event) /\ Len(Transmissions(msgs)) = L
    BY <1>1, <1>5
  <1>7. ASSUME NEW i \in 1..L
        PROVE  LET e == Transmissions(msgs)[i]
                   k == L + 1 - i
               IN  /\ k \in 1..L
                   /\ e.ev = "TX"
                   /\ e.a = n
                   /\ e.id = variousIDs + k
                   /\ e.rcv = IF msgs[k].type = "DATA" THEN conn'[n]
                              ELSE {msgs[k].next}
                   /\ e.rcv # {} /\ e.rcv \subseteq conn'[n]
    <2>1. Transmissions(msgs)[i] = E(L + 1 - i)
      BY <1>3
    <2>2. L + 1 - i \in 1..L
      BY <1>4
    <2>3. /\ msgs[L + 1 - i].prev = n
          /\ E(L + 1 - i).rcv # {} /\ E(L + 1 - i).rcv \subseteq conn'[n]
      BY <1>2, <2>2
    <2> QED
      BY <2>1, <2>2, <2>3 DEF E
  <1> QED
    BY <1>1, <1>6, <1>7

\* A list of L elements, read backwards.
LEMMA Mirror ==
    ASSUME NEW L \in Nat, NEW R \in Nat, NEW k \in 1..L
    PROVE  L + 1 - k \in 1..L /\ L + 1 - (L + 1 - k) = k /\ L + 1 - k \in 1..(L + R)
  OBVIOUS

\* Sending keeps the stack in order, whatever remains on it.
LEMMA SendStack ==
    ASSUME conn' \in [Nodes -> SUBSET Nodes], NEW n \in Nodes, NEW msgs,
           Sendable(msgs, n, conn'), NEW erased, NEW rest,
           StackOK(rest, [i \in DOMAIN pool \ erased |-> pool[i]], conn', variousIDs),
           NoApp(rest), Send(msgs, erased, rest)
    PROVE  StackOK(evlist', pool', conn', variousIDs') /\ NoApp(evlist')
  <1> DEFINE L == Len(msgs)
  <1> DEFINE v == variousIDs
  <1> DEFINE T == Transmissions(msgs)
  <1> DEFINE old == [i \in DOMAIN pool \ erased |-> pool[i]]
  <1> DEFINE R == Len(rest)
  <1>1. /\ v \in Nat /\ rest \in Seq(Event) /\ R \in Nat
        /\ variousIDs' = v + L
        /\ evlist' = T \o rest
        /\ pool' = PoolWith(msgs, erased)
    BY DEF StackOK, Send
  <1>2. /\ T \in Seq(Event) /\ Len(T) = L /\ L \in Nat
        /\ \A i \in 1..L :
              /\ L + 1 - i \in 1..L
              /\ T[i].ev = "TX"
              /\ T[i].a = n
              /\ T[i].id = v + (L + 1 - i)
              /\ T[i].rcv = IF msgs[L + 1 - i].type = "DATA" THEN conn'[n]
                            ELSE {msgs[L + 1 - i].next}
              /\ T[i].rcv # {} /\ T[i].rcv \subseteq conn'[n]
    BY <1>1, TransmissionsFacts
  <1> HIDE DEF T
  <1>3. /\ evlist' \in Seq(Event) /\ Len(evlist') = L + R
        /\ \A i \in 1..L : evlist'[i] = T[i]
        /\ \A i \in 1..R : evlist'[L + i] = rest[i]
    <2>1. /\ T \o rest \in Seq(Event) /\ Len(T \o rest) = L + R
          /\ \A i \in 1..(L + R) :
                (T \o rest)[i] = IF i <= L THEN T[i] ELSE rest[i - L]
      <3>1. T \in Seq(Event) /\ rest \in Seq(Event) /\ Len(T) = L
        BY <1>1, <1>2
      <3> HIDE DEF L
      <3> QED
        BY <3>1, ConcatProperties
    <2>2. \A i \in 1..L : i \in 1..(L + R) /\ i <= L
      BY <1>1, <1>2
    <2>3. \A i \in 1..R : L + i \in 1..(L + R) /\ ~(L + i <= L) /\ (L + i) - L = i
      BY <1>1, <1>2
    <2> QED
      BY <1>1, <2>1, <2>2, <2>3
  <1>4. \A i \in 1..(L + R) : i \in 1..L \/ (i - L \in 1..R /\ i = L + (i - L))
    BY <1>1, <1>2
  <1>5. ASSUME NEW id \in DOMAIN old
        PROVE  id \in Nat /\ id <= v
    <2>1. StackOK(rest, old, conn', v)
      OBVIOUS
    <2> HIDE DEF old, v
    <2>2. PICK i \in 1..R : rest[i].ev = "TX" /\ rest[i].id = id
      BY <2>1 DEF StackOK
    <2>3. InTransit(rest[i], old, conn', v)
      BY <2>1, <2>2 DEF StackOK
    <2> QED
      BY <2>1, <2>2, <2>3 DEF StackOK, InTransit
  <1>6. /\ DOMAIN pool' = DOMAIN old \cup (v + 1)..(v + L)
        /\ \A id \in DOMAIN old : pool'[id] = old[id]
        /\ \A k \in 1..L : v + k \in DOMAIN pool' /\ pool'[v + k] = msgs[k]
    <2>1. pool' = [i \in DOMAIN old \cup (v + 1)..(v + L) |->
                      IF i \in (v + 1)..(v + L) THEN msgs[i - v] ELSE pool[i]]
      BY <1>1 DEF PoolWith, NewIDs
    <2>2. \A id \in DOMAIN old : id \notin (v + 1)..(v + L) /\ old[id] = pool[id]
      BY <1>1, <1>2, <1>5
    <2>3. \A k \in 1..L : v + k \in (v + 1)..(v + L) /\ (v + k) - v = k
      BY <1>1, <1>2
    <2> HIDE DEF old
    <2> QED
      BY <2>1, <2>2, <2>3
  <1> HIDE DEF old
  <1>7. StackOK(rest, old, conn', v)
    BY DEF old
  <1>8. ASSUME NEW i \in 1..L
        PROVE  InTransit(evlist'[i], pool', conn', variousIDs')
    <2> DEFINE k == L + 1 - i
    <2>1. k \in 1..L /\ evlist'[i] = T[i] /\ k \in Nat /\ k <= L
      BY <1>2, <1>3
    <2>2. /\ T[i].id = v + k /\ T[i].a = n
          /\ T[i].rcv = IF msgs[k].type = "DATA" THEN conn'[n] ELSE {msgs[k].next}
          /\ T[i].rcv # {} /\ T[i].rcv \subseteq conn'[n]
      BY <1>2
    <2> HIDE DEF k
    <2>3. v + k \in DOMAIN pool' /\ pool'[v + k] = msgs[k] /\ v + k <= v + L
      BY <1>1, <1>2, <1>6, <2>1
    <2>4. msgs[k].prev = n /\ (msgs[k].type = "DATA" => msgs[k].access = Cardinality(conn'[n]))
      BY <2>1 DEF Sendable
    <2> QED
      BY <1>1, <2>1, <2>2, <2>3, <2>4 DEF InTransit
  <1>9. ASSUME NEW i \in 1..R, rest[i].ev = "TX"
        PROVE  InTransit(evlist'[L + i], pool', conn', variousIDs') /\ rest[i].id <= v
    <2>1. InTransit(rest[i], old, conn', v) /\ evlist'[L + i] = rest[i]
      BY <1>3, <1>7, <1>9 DEF StackOK
    <2>2. /\ rest[i].id \in DOMAIN old /\ rest[i].id <= v
          /\ rest[i].id \in DOMAIN pool' /\ pool'[rest[i].id] = old[rest[i].id]
      BY <1>6, <2>1 DEF InTransit
    <2>3. rest[i].id \in Nat /\ rest[i].id <= v + L
      BY <1>1, <1>2, <1>5, <2>2
    <2> QED
      BY <1>1, <2>1, <2>2, <2>3 DEF InTransit
  <1>10. ASSUME NEW i \in 1..(L + R), evlist'[i].ev = "TX"
         PROVE  InTransit(evlist'[i], pool', conn', variousIDs')
    <2>1. CASE i \in 1..L
      BY <1>8, <2>1
    <2>2. CASE i \notin 1..L
      <3>1. i - L \in 1..R /\ evlist'[L + (i - L)] = rest[i - L] /\ i = L + (i - L)
        BY <1>3, <1>4, <2>2
      <3>2. evlist'[i] = rest[i - L] /\ rest[i - L].ev = "TX"
        BY <1>10, <3>1
      <3> QED
        BY <1>9, <3>1, <3>2
    <2> QED
      BY <2>1, <2>2
  <1>11. ASSUME NEW i \in 1..(L + R), NEW j \in 1..(L + R), i < j, evlist'[j].ev = "TX"
         PROVE  evlist'[i].ev = "TX"
    <2>1. CASE i \in 1..L
      BY <1>2, <1>3, <2>1
    <2>2. CASE i \notin 1..L
      <3>1. /\ i - L \in 1..R /\ i = L + (i - L)
            /\ j - L \in 1..R /\ j = L + (j - L) /\ i - L < j - L
        BY <1>1, <1>2, <1>11, <2>2
      <3>2. evlist'[i] = rest[i - L] /\ evlist'[j] = rest[j - L]
        BY <1>3, <3>1
      <3> QED
        BY <1>7, <1>11, <3>1, <3>2 DEF StackOK
    <2> QED
      BY <2>1, <2>2
  <1>12. ASSUME NEW i \in 1..(L + R), NEW j \in 1..(L + R), evlist'[i].ev = "TX",
                evlist'[j].ev = "TX", evlist'[i].id = evlist'[j].id
         PROVE  i = j
    <2>1. CASE i \in 1..L /\ j \in 1..L
      <3>0. i \in Nat /\ j \in Nat
        OBVIOUS
      <3>1. /\ evlist'[i].id = v + (L + 1 - i)
            /\ evlist'[j].id = v + (L + 1 - j)
        <4>1. \A k \in 1..L : evlist'[k].id = T[k].id /\ T[k].id = v + (L + 1 - k)
          BY <1>2, <1>3
        <4> QED
          BY <2>1, <4>1
      <3>2. v \in Nat /\ L \in Nat /\ v + (L + 1 - i) = v + (L + 1 - j)
        BY <1>1, <1>2, <1>12, <3>1
      <3> HIDE DEF v, L
      <3> QED
        BY <3>0, <3>2
    <2>2. CASE i \in 1..L /\ j \notin 1..L
      <3>1. j - L \in 1..R /\ evlist'[j] = rest[j - L]
        BY <1>3, <1>4, <2>2
      <3>2. rest[j - L].id <= v
        BY <1>9, <1>12, <3>1
      <3>3. evlist'[i].id = v + (L + 1 - i) /\ L + 1 - i \in 1..L
        BY <1>2, <1>3, <2>2
      <3>4. v + (L + 1 - i) <= v
        BY <1>12, <3>1, <3>2, <3>3
      <3>5. v \in Nat /\ L + 1 - i \in Nat \ {0}
        BY <1>1, <3>3
      <3> QED
        BY <3>4, <3>5
    <2>3. CASE i \notin 1..L /\ j \in 1..L
      <3>1. i - L \in 1..R /\ evlist'[i] = rest[i - L]
        BY <1>3, <1>4, <2>3
      <3>2. rest[i - L].id <= v
        BY <1>9, <1>12, <3>1
      <3>3. evlist'[j].id = v + (L + 1 - j) /\ L + 1 - j \in 1..L
        BY <1>2, <1>3, <2>3
      <3>4. v + (L + 1 - j) <= v
        BY <1>12, <3>1, <3>2, <3>3
      <3>5. v \in Nat /\ L + 1 - j \in Nat \ {0}
        BY <1>1, <3>3
      <3> QED
        BY <3>4, <3>5
    <2>4. CASE i \notin 1..L /\ j \notin 1..L
      <3>1. /\ i - L \in 1..R /\ evlist'[i] = rest[i - L] /\ i = L + (i - L)
            /\ j - L \in 1..R /\ evlist'[j] = rest[j - L] /\ j = L + (j - L)
        BY <1>3, <1>4, <2>4
      <3>2. i - L = j - L
        BY <1>7, <1>12, <3>1 DEF StackOK
      <3> QED
        BY <3>1, <3>2
    <2> QED
      BY <2>1, <2>2, <2>3, <2>4
  <1>13. ASSUME NEW id \in DOMAIN pool'
         PROVE  /\ id \in Nat
                /\ IsPacket(pool'[id])
                /\ \E i \in 1..(L + R) : evlist'[i].ev = "TX" /\ evlist'[i].id = id
    <2>1. CASE id \in DOMAIN old
      <3>1. pool'[id] = old[id] /\ IsPacket(old[id])
        BY <1>6, <1>7, <2>1 DEF StackOK
      <3>2. PICK i \in 1..R : rest[i].ev = "TX" /\ rest[i].id = id
        BY <1>7, <2>1 DEF StackOK
      <3>3. L + i \in 1..(L + R) /\ evlist'[L + i] = rest[i]
        BY <1>1, <1>2, <1>3
      <3> QED
        BY <1>5, <2>1, <3>1, <3>2, <3>3
    <2>2. CASE id \in (v + 1)..(v + L)
      <3> DEFINE k == id - v
      <3>1. k \in 1..L /\ id = v + k /\ id \in Nat
        BY <1>1, <1>2, <2>2
      <3>2. pool'[id] = msgs[k] /\ IsPacket(msgs[k])
        BY <1>6, <3>1 DEF Sendable
      <3>3. L + 1 - k \in 1..L /\ L + 1 - (L + 1 - k) = k /\ L + 1 - k \in 1..(L + R)
        BY <1>1, <1>2, <3>1, Mirror
      <3> HIDE DEF k
      <3>4. evlist'[L + 1 - k] = T[L + 1 - k] /\ T[L + 1 - k].ev = "TX"
            /\ T[L + 1 - k].id = v + (L + 1 - (L + 1 - k))
        BY <1>2, <1>3, <3>3
      <3> QED
        BY <3>1, <3>2, <3>3, <3>4
    <2> QED
      BY <1>6, <2>1, <2>2
  <1>14. NoApp(evlist')
    <2> SUFFICES ASSUME NEW i \in 1..(L + R) PROVE evlist'[i].ev # "APP"
      BY <1>3 DEF NoApp
    <2>1. CASE i \in 1..L
      BY <1>2, <1>3, <2>1
    <2>2. CASE i \notin 1..L
      <3>1. i - L \in 1..R /\ evlist'[i] = rest[i - L]
        BY <1>3, <1>4, <2>2
      <3> QED
        BY <3>1 DEF NoApp
    <2> QED
      BY <2>1, <2>2
  <1>15. variousIDs' \in Nat /\ DOMAIN pool' \subseteq Nat
    BY <1>1, <1>2, <1>13
  <1> QED
    BY <1>3, <1>10, <1>11, <1>12, <1>13, <1>14, <1>15 DEF StackOK

-----------------------------------------------------------------------------
(* The event on top of the stack.                                          *)

\* What is left when the event on top and its packet are gone.
LEMMA TailStack ==
    ASSUME StackOK(evlist, pool, conn, variousIDs), evlist # <<>>, Head(evlist).ev = "TX"
    PROVE  /\ StackOK(Tail(evlist), [i \in DOMAIN pool \ {Head(evlist).id} |-> pool[i]],
                      conn, variousIDs)
           /\ NoApp(evlist) => NoApp(Tail(evlist))
  <1> DEFINE top == Head(evlist)
  <1> DEFINE tail == Tail(evlist)
  <1> DEFINE left == [i \in DOMAIN pool \ {top.id} |-> pool[i]]
  <1> DEFINE n == Len(evlist)
  <1>1. /\ evlist \in Seq(Event) /\ n \in Nat \ {0} /\ top = evlist[1]
        /\ tail \in Seq(Event) /\ Len(tail) = n - 1
        /\ \A i \in 1..(n - 1) : tail[i] = evlist[i + 1]
    BY DEF StackOK
  <1>2. \A i \in 1..(n - 1) : i + 1 \in 1..n /\ i + 1 # 1
    BY <1>1
  <1> HIDE DEF top, tail
  <1>3. ASSUME NEW i \in 1..(n - 1), tail[i].ev = "TX"
        PROVE  InTransit(tail[i], left, conn, variousIDs)
    <2>1. tail[i] = evlist[i + 1] /\ i + 1 \in 1..n
      BY <1>1, <1>2
    <2>2. InTransit(evlist[i + 1], pool, conn, variousIDs)
      BY <1>3, <2>1 DEF StackOK
    <2>3. evlist[i + 1].id # top.id
      <3>1. 1 \in 1..n /\ evlist[1].ev = "TX" /\ i + 1 # 1
        BY <1>1, <1>2 DEF top
      <3> QED
        BY <1>1, <1>3, <2>1, <3>1 DEF StackOK
    <2>4. /\ tail[i].id \in DOMAIN left
          /\ left[tail[i].id] = pool[tail[i].id]
      BY <2>1, <2>2, <2>3 DEF InTransit
    <2> QED
      BY <2>1, <2>2, <2>4 DEF InTransit
  <1>4. ASSUME NEW id \in DOMAIN left
        PROVE  /\ id \in Nat /\ IsPacket(left[id])
               /\ \E i \in 1..(n - 1) : tail[i].ev = "TX" /\ tail[i].id = id
    <2>1. id \in DOMAIN pool /\ id # top.id /\ left[id] = pool[id]
      OBVIOUS
    <2>2. PICK i \in 1..n : evlist[i].ev = "TX" /\ evlist[i].id = id
      BY <2>1 DEF StackOK
    <2>3. i # 1
      BY <1>1, <2>1, <2>2
    <2>4. i - 1 \in 1..(n - 1) /\ (i - 1) + 1 = i
      BY <1>1, <2>3
    <2>5. tail[i - 1] = evlist[i]
      BY <1>1, <2>4
    <2>6. IsPacket(pool[id]) /\ id \in Nat
      BY <2>1 DEF StackOK
    <2> QED
      BY <2>1, <2>2, <2>4, <2>5, <2>6
  <1>5. ASSUME NEW i \in 1..(n - 1), NEW j \in 1..(n - 1)
        PROVE  /\ i < j /\ tail[j].ev = "TX" => tail[i].ev = "TX"
               /\ tail[i].ev = "TX" /\ tail[j].ev = "TX" /\ tail[i].id = tail[j].id
                     => i = j
    <2>1. /\ i + 1 \in 1..n /\ j + 1 \in 1..n
          /\ tail[i] = evlist[i + 1] /\ tail[j] = evlist[j + 1]
      BY <1>1, <1>2
    <2>2. /\ i < j => i + 1 < j + 1
          /\ i + 1 = j + 1 => i = j
      BY <1>1
    <2> QED
      BY <2>1, <2>2 DEF StackOK
  <1>6. NoApp(evlist) => NoApp(tail)
    BY <1>1, <1>2 DEF NoApp
  <1>7. variousIDs \in Nat /\ DOMAIN left \subseteq Nat
    BY <1>4 DEF StackOK
  <1> HIDE DEF left
  <1>8. StackOK(tail, left, conn, variousIDs)
    BY <1>1, <1>3, <1>4, <1>5, <1>7 DEF StackOK
  <1> QED
    BY <1>6, <1>8 DEF tail, left, top

\* A contact or a packet of the application is handled when nothing is in
\* transmission; links may change then.
LEMMA NoTransmission ==
    ASSUME StackOK(evlist, pool, conn, variousIDs), evlist # <<>>,
           Head(evlist).ev # "TX", NEW cn
    PROVE  /\ DOMAIN pool = {}
           /\ StackOK(Tail(evlist), pool, cn, variousIDs)
           /\ StackOK(Tail(evlist), [i \in DOMAIN pool \ {} |-> pool[i]], cn, variousIDs)
  <1> DEFINE n == Len(evlist)
  <1>1. /\ evlist \in Seq(Event) /\ n \in Nat \ {0} /\ Head(evlist) = evlist[1]
        /\ Tail(evlist) \in Seq(Event) /\ Len(Tail(evlist)) = n - 1
        /\ \A i \in 1..(n - 1) : Tail(evlist)[i] = evlist[i + 1] /\ i + 1 \in 1..n
    BY DEF StackOK
  <1>2. ASSUME NEW i \in 1..n PROVE evlist[i].ev # "TX"
    <2>1. 1 \in 1..n /\ (i = 1 \/ 1 < i)
      BY <1>1
    <2> QED
      BY <1>1, <2>1 DEF StackOK
  <1>3. DOMAIN pool = {}
    BY <1>2 DEF StackOK
  <1>4. \A i \in 1..(n - 1) : Tail(evlist)[i].ev # "TX"
    BY <1>1, <1>2
  <1>5. variousIDs \in Nat
    BY DEF StackOK
  <1>6. ASSUME NEW pl, DOMAIN pl = {} PROVE StackOK(Tail(evlist), pl, cn, variousIDs)
    BY <1>1, <1>4, <1>5, <1>6 DEF StackOK
  <1>7. DOMAIN [i \in DOMAIN pool \ {} |-> pool[i]] = {}
    BY <1>3
  <1> QED
    BY <1>3, <1>6, <1>7

\* The reception of the transmission on top by r.
Receiving(r) ==
    /\ TopIs("TX")
    /\ r \in Top.rcv
    /\ UNCHANGED netVars

LEMMA TopFacts ==
    ASSUME IInv, NEW r, Receiving(r)
    PROVE  /\ Top = evlist[1] /\ 1 \in 1..Len(evlist) /\ Top \in Transmission
           /\ Top.id \in DOMAIN pool /\ IsPacket(pool[Top.id])
           /\ r \in Nodes /\ Top.a \in Nodes /\ pool[Top.id].prev = Top.a
           /\ r \in conn[Top.a] /\ Top.a \in conn[r]
           /\ InTransit(Top, pool, conn, variousIDs)
           /\ NoApp(evlist)
           /\ evlist # <<>> /\ Head(evlist).ev = "TX"
           /\ conn' = conn /\ conn' \in [Nodes -> SUBSET Nodes]
  <1>1. evlist \in Seq(Event) /\ evlist # <<>> /\ Top = Head(evlist) /\ Top.ev = "TX"
    BY DEF IInv, StackOK, Receiving, TopIs, Top
  <1>2. Top = evlist[1] /\ 1 \in 1..Len(evlist) /\ Top \in Event
    BY <1>1
  <1>3. Top \in Transmission
    BY <1>1, <1>2 DEF Event, Contact_
  <1>4. InTransit(Top, pool, conn, variousIDs)
    BY <1>1, <1>2 DEF IInv, StackOK
  <1>5. Top.id \in DOMAIN pool /\ IsPacket(pool[Top.id]) /\ pool[Top.id].prev = Top.a
    BY <1>4 DEF IInv, StackOK, InTransit
  <1>6. Top.a \in Nodes /\ r \in conn[Top.a] /\ r \in Nodes
    BY <1>3, <1>4 DEF Transmission, InTransit, Receiving, IInv, NetOK
  <1>7. Top.a \in conn[r]
    BY <1>6 DEF IInv, NetOK
  <1>8. NoApp(evlist)
    <2> SUFFICES ASSUME NEW i \in 1..Len(evlist), evlist[i].ev = "APP" PROVE FALSE
      BY DEF NoApp
    <2>1. Len(evlist) = 1
      BY DEF IInv, AppOK
    <2>2. i = 1
      BY <2>1
    <2> QED
      BY <1>1, <1>2, <2>2
  <1>9. conn' = conn /\ conn' \in [Nodes -> SUBSET Nodes]
    BY DEF Receiving, netVars, IInv, NetOK
  <1> QED
    BY <1>1, <1>2, <1>3, <1>4, <1>5, <1>6, <1>7, <1>8, <1>9

\* A control packet has one receiver and leaves the stack with it.
LEMMA ControlFacts ==
    ASSUME IInv, NEW r, Receiving(r), pool[Top.id].type # "DATA"
    PROVE  /\ RestAfter(r) = Tail(evlist)
           /\ StackOK(RestAfter(r), [i \in DOMAIN pool \ {Top.id} |-> pool[i]],
                      conn', variousIDs)
           /\ NoApp(RestAfter(r))
           /\ pool[Top.id].prev \in conn'[r]
           /\ pool[Top.id].prev \in Nodes
           /\ pool[Top.id].type \in Types => pool[Top.id].ids \in SUBSET PktIDs
  <1>1. Top.rcv = {r}
    BY TopFacts DEF InTransit, Receiving
  <1>2. RestAfter(r) = Tail(evlist)
    BY <1>1 DEF RestAfter
  <1>3. /\ StackOK(Tail(evlist), [i \in DOMAIN pool \ {Top.id} |-> pool[i]],
                   conn, variousIDs)
        /\ NoApp(Tail(evlist))
    BY TailStack, TopFacts DEF Top, IInv
  <1>4. /\ pool[Top.id].type \in Types => pool[Top.id].ids \in SUBSET PktIDs
        /\ pool[Top.id].prev \in Nodes
    BY TopFacts DEF Message, IsPacket
  <1> QED
    BY <1>2, <1>3, <1>4, TopFacts

\* The access counter goes down with each reception, and the packet is
\* deleted with the last one.
LEMMA AccessStack ==
    ASSUME IInv, NEW r, Receiving(r), pool[Top.id].type = "DATA",
           Access(Top.id, RestAfter(r))
    PROVE  StackOK(evlist', pool', conn', variousIDs') /\ NoApp(evlist')
  <1> DEFINE id == Top.id
  <1> DEFINE n == Len(evlist)
  <1>1. /\ Top \in Transmission /\ id \in DOMAIN pool /\ IsPacket(pool[id])
        /\ InTransit(Top, pool, conn, variousIDs) /\ NoApp(evlist)
        /\ Top = evlist[1] /\ evlist # <<>> /\ Head(evlist).ev = "TX"
        /\ conn' = conn /\ r \in Top.rcv
    BY TopFacts DEF Receiving
  <1>2. /\ evlist' = RestAfter(r) /\ pool' = Accessed(id) /\ variousIDs' = variousIDs
    BY DEF Access
  <1>3. pool[id].access = Cardinality(Top.rcv) /\ IsFiniteSet(Top.rcv)
        /\ pool[id].access \in Nat
    <2>1. Top.rcv \in SUBSET Nodes
      BY <1>1 DEF Transmission
    <2> QED
      BY <1>1, <2>1, PktFacts DEF InTransit
  <1>4. CASE Top.rcv = {r}
    <2>1. pool[id].access = 1
      BY <1>3, <1>4, FS_Singleton
    <2>2. pool' = [i \in DOMAIN pool \ {id} |-> pool[i]] /\ evlist' = Tail(evlist)
      BY <1>2, <1>4, <2>1 DEF Accessed, RestAfter
    <2>3. /\ StackOK(Tail(evlist), [i \in DOMAIN pool \ {Head(evlist).id} |-> pool[i]],
                     conn, variousIDs)
          /\ NoApp(Tail(evlist))
      BY <1>1, TailStack DEF IInv
    <2>4. Head(evlist).id = id
      BY DEF Top
    <2> QED
      BY <1>1, <1>2, <2>2, <2>3, <2>4
  <1>5. CASE Top.rcv # {r}
    <2> DEFINE e == [Top EXCEPT !.rcv = @ \ {r}]
    <2>1. pool[id].access # 1
      <3>1. SUFFICES ASSUME pool[id].access = 1 PROVE FALSE
        OBVIOUS
      <3>2. \E x : Top.rcv = {x}
        BY <1>3, <3>1, FS_Singleton
      <3> QED
        BY <1>1, <1>5, <3>2
    <2>2. /\ pool' = [pool EXCEPT ![id].access = @ - 1]
          /\ evlist' = <<e>> \o Tail(evlist)
      BY <1>2, <1>5, <2>1 DEF Accessed, RestAfter
    <2>3. /\ e \in Event /\ e.ev = "TX" /\ e.id = id /\ e.a = Top.a
          /\ e.rcv = Top.rcv \ {r}
      BY <1>1 DEF Transmission, Event
    <2>4. /\ evlist' \in Seq(Event) /\ Len(evlist') = n /\ n \in Nat
          /\ evlist'[1] = e
          /\ \A i \in 1..n : i # 1 => evlist'[i] = evlist[i]
      <3>1. /\ evlist \in Seq(Event) /\ n \in Nat \ {0}
            /\ Tail(evlist) \in Seq(Event) /\ Len(Tail(evlist)) = n - 1
            /\ \A i \in 1..(n - 1) : Tail(evlist)[i] = evlist[i + 1]
        BY <1>1 DEF IInv, StackOK
      <3>2. <<e>> \in Seq(Event) /\ Len(<<e>>) = 1 /\ <<e>>[1] = e
        BY <2>3
      <3> HIDE DEF e
      <3>3. /\ <<e>> \o Tail(evlist) \in Seq(Event)
            /\ Len(<<e>> \o Tail(evlist)) = 1 + (n - 1)
            /\ \A i \in 1..(1 + (n - 1)) : (<<e>> \o Tail(evlist))[i] =
                   IF i <= 1 THEN <<e>>[i] ELSE Tail(evlist)[i - 1]
        BY <3>1, <3>2, ConcatProperties
      <3>4. ASSUME NEW i \in 1..n, i # 1 PROVE evlist'[i] = evlist[i]
        <4>1. i - 1 \in 1..(n - 1) /\ ~(i <= 1) /\ i \in 1..(1 + (n - 1))
          BY <3>1, <3>4
        <4>2. (<<e>> \o Tail(evlist))[i] = Tail(evlist)[i - 1]
          BY <3>3, <4>1
        <4>3. Tail(evlist)[i - 1] = evlist[(i - 1) + 1] /\ (i - 1) + 1 = i
          BY <3>1, <4>1
        <4> QED
          BY <2>2, <4>2, <4>3
      <3> QED
        BY <2>2, <3>1, <3>2, <3>3, <3>4
    <2>5. /\ DOMAIN pool' = DOMAIN pool
          /\ \A i \in DOMAIN pool : i # id => pool'[i] = pool[i]
          /\ pool'[id] = [pool[id] EXCEPT !.access = @ - 1]
      BY <1>1, <2>2
    <2>6. pool[id].access - 1 \in Nat /\ Cardinality(e.rcv) = pool[id].access - 1
      <3>1. Cardinality(Top.rcv \ {r}) = Cardinality(Top.rcv) - 1
            /\ IsFiniteSet(Top.rcv \ {r})
        BY <1>1, <1>3, FS_RemoveElement
      <3>2. Cardinality(Top.rcv \ {r}) \in Nat
        BY <3>1, FS_CardinalityType
      <3> QED
        BY <1>3, <2>3, <3>1, <3>2
    <2>7. /\ IsPacket(pool'[id]) /\ pool'[id].access = Cardinality(e.rcv)
          /\ pool'[id].prev = pool[id].prev /\ pool'[id].type = "DATA"
      <3>1. pool[id] \in Message
        BY <1>1 DEF IsPacket, Types
      <3>2. /\ pool'[id] \in Message /\ pool'[id].access = Cardinality(e.rcv)
            /\ pool'[id].prev = pool[id].prev /\ pool'[id].type = "DATA"
        BY <1>1, <2>5, <2>6, <3>1 DEF Message
      <3> QED
        BY <3>2 DEF IsPacket, Message
    <2>8. \A i \in 1..n : evlist'[i].ev = evlist[i].ev /\
                           (evlist[i].ev = "TX" => evlist'[i].id = evlist[i].id)
      BY <1>1, <2>3, <2>4 DEF Receiving, TopIs
    <2>9. ASSUME NEW i \in 1..n, evlist'[i].ev = "TX"
          PROVE  InTransit(evlist'[i], pool', conn', variousIDs')
      <3>1. CASE i = 1
        <4>1. e.rcv # {} /\ e.rcv \subseteq conn[Top.a]
          BY <1>1, <1>5, <2>3 DEF InTransit
        <4>2. pool[id].prev = Top.a /\ id <= variousIDs
          BY <1>1 DEF InTransit
        <4>3. evlist'[i] = e
          BY <2>4, <3>1
        <4>4. id \in DOMAIN pool' /\ id <= variousIDs'
          BY <1>1, <1>2, <2>5, <4>2
        <4> HIDE DEF e, id
        <4>5. e.rcv \subseteq conn'[e.a] /\ pool'[e.id].prev = e.a
          BY <1>1, <2>3, <2>7, <4>1, <4>2
        <4>6. pool'[e.id].type = "DATA" /\ pool'[e.id].access = Cardinality(e.rcv)
          BY <2>3, <2>7
        <4> QED
          BY <2>3, <4>1, <4>3, <4>4, <4>5, <4>6 DEF InTransit
      <3>2. CASE i # 1
        <4>1. evlist[i].ev = "TX" /\ evlist'[i] = evlist[i]
          BY <2>4, <2>9, <3>2
        <4>2. InTransit(evlist[i], pool, conn, variousIDs)
          BY <4>1 DEF IInv, StackOK
        <4>3. evlist[i].id # id
          <5>1. 1 \in 1..n /\ evlist[1].ev = "TX" /\ evlist[1].id = id
            BY <1>1, TopFacts DEF Transmission
          <5> QED
            BY <3>2, <4>1, <5>1 DEF IInv, StackOK
        <4> QED
          BY <1>1, <1>2, <2>5, <4>1, <4>2, <4>3 DEF InTransit
      <3> QED
        BY <3>1, <3>2
    <2>10. ASSUME NEW x \in DOMAIN pool'
           PROVE  /\ x \in Nat /\ IsPacket(pool'[x])
                  /\ \E i \in 1..n : evlist'[i].ev = "TX" /\ evlist'[i].id = x
      <3>1. x \in DOMAIN pool /\ x \in Nat /\ IsPacket(pool[x])
        BY <2>5 DEF IInv, StackOK
      <3>2. PICK i \in 1..n : evlist[i].ev = "TX" /\ evlist[i].id = x
        BY <3>1 DEF IInv, StackOK
      <3>3. evlist'[i].ev = "TX" /\ evlist'[i].id = x
        BY <2>8, <3>2
      <3> QED
        BY <2>5, <2>7, <3>1, <3>3
    <2>11. \A i, j \in 1..n :
              /\ i < j /\ evlist'[j].ev = "TX" => evlist'[i].ev = "TX"
              /\ evlist'[i].ev = "TX" /\ evlist'[j].ev = "TX"
                    /\ evlist'[i].id = evlist'[j].id => i = j
      BY <2>8 DEF IInv, StackOK
    <2>12. NoApp(evlist')
      BY <1>1, <2>4, <2>8 DEF NoApp
    <2>13. variousIDs' \in Nat
      BY <1>2 DEF IInv, StackOK
    <2> QED
      BY <2>4, <2>9, <2>10, <2>11, <2>12, <2>13 DEF StackOK
  <1> QED
    BY <1>4, <1>5

-----------------------------------------------------------------------------
(* The handlers.                                                           *)

\* What a handler leaves behind.
Kept ==
    /\ StackOK(evlist', pool', conn', variousIDs')
    /\ NoApp(evlist')
    /\ DataOK'

\* The parts of a buffer that handlers select.
LEMMA BufferParts ==
    ASSUME NEW b \in SUBSET PktIDs, NEW n
    PROVE  /\ Alive(b) \in SUBSET PktIDs
           /\ DestinedTo(b, n) \in SUBSET PktIDs
           /\ NotDestinedTo(b, n) \in SUBSET PktIDs
           /\ \A p \in PktIDs : \A c \in Added(b, p) : c \in SUBSET PktIDs
           /\ \A info \in SUBSET PktIDs : Cleaned(b, info) \in SUBSET PktIDs
  <1>1. Alive(b) \in SUBSET PktIDs
    BY DEF Alive
  <1>2. DestinedTo(b, n) \in SUBSET PktIDs /\ NotDestinedTo(b, n) \in SUBSET PktIDs
    BY <1>1 DEF DestinedTo, NotDestinedTo
  <1>3. \A p \in PktIDs : \A c \in Added(b, p) : c \in SUBSET PktIDs
    BY <1>1 DEF Added
  <1>4. \A info \in SUBSET PktIDs : Cleaned(b, info) \in SUBSET PktIDs
    BY DEF Cleaned
  <1> QED
    BY <1>1, <1>2, <1>3, <1>4

\* What a node learns about deliveries are packets.
LEMMA DeliveredData ==
    ASSUME DataOK, NEW n \in Nodes, NEW ps \in SUBSET PktIDs, SetAsDelivered(n, ps)
    PROVE  delivered' \in [Nodes -> SUBSET PktIDs] /\ god' \subseteq PktIDs
  <1>1. delivered \in [Nodes -> SUBSET PktIDs] /\ god \subseteq PktIDs
    BY DEF DataOK
  <1>2. [delivered EXCEPT ![n] = @ \cup ps] \in [Nodes -> SUBSET PktIDs]
    BY <1>1
  <1> QED
    BY <1>1, <1>2 DEF SetAsDelivered

\* A handler that changes one buffer and no record of deliveries.
LEMMA BufferData ==
    ASSUME DataOK, NEW n \in Nodes, NEW b \in SUBSET PktIDs,
           buffer' = [buffer EXCEPT ![n] = b], UNCHANGED <<dmVars, statVars, halted>>
    PROVE  DataOK'
  BY DEF DataOK, dmVars, statVars

\* What follows the direct transfers, in any protocol.
LEMMA SendableProceed ==
    ASSUME NEW n \in Nodes, NEW m \in Nodes, NEW cn, m \in cn[n],
           NEW b \in SUBSET PktIDs
    PROVE  Sendable(Proceed(n, m, b), n, cn) /\ Sendable(AfterDirectTransfers(n, m, b), n, cn)
  <1> DEFINE Safe(s) == Sendable(s, n, cn)
  <1>1. NotDestinedTo(b, m) \in SUBSET PktIDs
    BY BufferParts
  <1>2. \A t \in Types \ {"DATA"}, ids \in SUBSET PktIDs : Safe(<<Control(t, n, m, ids)>>)
    BY SendableControl
  <1>3. Safe(<<>>)
    BY DEF Sendable
  <1> HIDE DEF Safe
  <1>4. {"SUMMARY", "UTIL_DEST", "REQUEST_CONTACTS", "REQUEST_LC_FS",
         "REQUEST_BUFFER_INFO"} \subseteq Types \ {"DATA"}
    BY DEF Types
  <1>5. /\ Safe(<<Control("SUMMARY", n, m, NotDestinedTo(b, m))>>)
        /\ Safe(<<Control("UTIL_DEST", n, m, NotDestinedTo(b, m))>>)
        /\ Safe(<<Control("REQUEST_CONTACTS", n, m, {})>>)
        /\ Safe(<<Control("REQUEST_LC_FS", n, m, {})>>)
        /\ Safe(<<Control("REQUEST_BUFFER_INFO", n, m, {})>>)
    BY <1>1, <1>2, <1>4
  <1>6. Safe(AfterDirectTransfers(n, m, b))
    BY <1>3, <1>5 DEF AfterDirectTransfers
  <1>7. Safe(Proceed(n, m, b))
    BY <1>5, <1>6 DEF Proceed
  <1> QED
    BY <1>6, <1>7 DEF Safe

\* The direct transfers and what follows them.
LEMMA DirectPackets ==
    ASSUME DataOK, conn' \in [Nodes -> SUBSET Nodes],
           NEW n \in Nodes, NEW m \in Nodes, m \in conn'[n],
           NEW b \in SUBSET PktIDs, NEW info \in SUBSET PktIDs,
           NEW erased, NEW rest,
           StackOK(rest, [i \in DOMAIN pool \ erased |-> pool[i]], conn', variousIDs),
           NoApp(rest),
           SendDirectPackets(n, m, b, info, erased, rest)
    PROVE  Kept
  <1> DEFINE out == {p \in DestinedTo(b, m) : ~(KeepsDelivered /\ p \in info)}
  <1> DEFINE left == IF LeavesBuffer THEN Alive(b) \ out ELSE Alive(b)
  <1>1. out \in SUBSET PktIDs /\ left \in SUBSET PktIDs
    BY BufferParts
  <1>2. PICK order \in Orders(out) :
           Send(DataFor(n, m, order, 1) \o Proceed(n, m, left), erased, rest)
    BY DEF SendDirectPackets
  <1>3. /\ SetAsDelivered(n, info \cup out)
        /\ buffer' = [buffer EXCEPT ![n] = left]
        /\ UNCHANGED <<statVars, halted>>
    BY DEF SendDirectPackets
  <1> HIDE DEF out, left
  <1>4. Sendable(DataFor(n, m, order, 1), n, conn')
    BY <1>1, SendableData
  <1>5. Sendable(Proceed(n, m, left), n, conn')
    BY <1>1, SendableProceed
  <1>6. StackOK(evlist', pool', conn', variousIDs') /\ NoApp(evlist')
    BY <1>2, <1>4, <1>5, SendableConcat, SendStack
  <1>7. delivered' \in [Nodes -> SUBSET PktIDs] /\ god' \subseteq PktIDs
    BY <1>1, <1>3, DeliveredData
  <1>8. buffer' \in [Nodes -> SUBSET PktIDs]
    BY <1>1, <1>3 DEF DataOK
  <1>9. DataOK'
    BY <1>3, <1>7, <1>8 DEF DataOK, statVars
  <1> QED
    BY <1>6, <1>9 DEF Kept

\* An answer to the control packet on top, over the link it came by.
LEMMA AnswerKept ==
    ASSUME IInv, NEW r, Receiving(r), pool[Top.id].type # "DATA",
           NEW type \in Types, type # "DATA", NEW ids \in SUBSET PktIDs,
           Send(<<Control(type, r, pool[Top.id].prev, ids)>>, {Top.id}, RestAfter(r)),
           DataOK'
    PROVE  Kept
  <1>1. r \in Nodes /\ conn' \in [Nodes -> SUBSET Nodes]
    BY TopFacts
  <1>2. Sendable(<<Control(type, r, pool[Top.id].prev, ids)>>, r, conn')
    BY <1>1, ControlFacts, SendableControl
  <1> QED
    BY <1>1, <1>2, ControlFacts, SendStack DEF Kept

\* The program ends: nothing else changes.
LEMMA ExitKept ==
    ASSUME IInv, NEW r, Receiving(r), Exit
    PROVE  Kept
  <1>1. /\ evlist' = evlist /\ pool' = pool /\ variousIDs' = variousIDs
        /\ conn' = conn /\ NoApp(evlist)
    BY TopFacts DEF Exit, msgVars
  <1>2. DataOK'
    BY DEF Exit, IInv, DataOK, dmVars, statVars
  <1> QED
    BY <1>1, <1>2 DEF Kept, IInv

\* An exchange: the types of the packets sent in answer to another one.
LEMMA TypeFacts ==
    /\ {"DATA", "SUMMARY", "REQUEST", "DIRECT_SUMMARY", "DIRECT_REQUEST",
        "ANTIPACKET", "ANTIPACKET_RESPONSE", "REQUEST_BUFFER_INFO", "REQUEST_CONTACTS",
        "REQUEST_LC_FS", "UTIL_DEST"} = Types
    /\ \A t \in Types \ {"DATA"} : t # "DATA"
  BY DEF Types

LEMMA SummaryKept ==
    ASSUME IInv, NEW r, Receiving(r),
           ReceptionSummary(r, Top.id, pool[Top.id], RestAfter(r))
    PROVE  Kept
  <1> DEFINE ids == pool[Top.id].ids
  <1> DEFINE live == IF ids = {} THEN buffer[r] ELSE Alive(buffer[r])
  <1>1. /\ pool[Top.id].type = "SUMMARY"
        /\ buffer' = [buffer EXCEPT ![r] = live]
        /\ Send(<<Control("REQUEST", r, pool[Top.id].prev, ids \ live)>>, {Top.id},
                RestAfter(r))
        /\ UNCHANGED <<dmVars, statVars, halted>>
    BY DEF ReceptionSummary
  <1>2. r \in Nodes /\ buffer[r] \in SUBSET PktIDs
    BY TopFacts DEF IInv, DataOK
  <1>3. ids \in SUBSET PktIDs /\ live \in SUBSET PktIDs
    BY <1>1, <1>2, ControlFacts, BufferParts, TypeFacts
  <1> HIDE DEF ids, live
  <1>4. DataOK'
    BY <1>1, <1>2, <1>3, BufferData DEF IInv
  <1>5. "REQUEST" \in Types /\ "REQUEST" # "DATA" /\ ids \ live \in SUBSET PktIDs
    BY <1>3, TypeFacts
  <1> QED
    BY <1>1, <1>4, <1>5, AnswerKept

LEMMA DirectSummaryKept ==
    ASSUME IInv, NEW r, Receiving(r),
           ReceptionDirectSummary(r, Top.id, pool[Top.id], RestAfter(r))
    PROVE  Kept
  <1> DEFINE ids == pool[Top.id].ids
  <1> DEFINE live == IF ids = {} THEN buffer[r] ELSE Alive(buffer[r])
  <1> DEFINE wanted == {p \in ids : p \notin live /\ ~isDelivered(r, p)}
  <1>1. /\ pool[Top.id].type = "DIRECT_SUMMARY"
        /\ buffer' = [buffer EXCEPT ![r] = live]
        /\ Send(<<Control("DIRECT_REQUEST", r, pool[Top.id].prev, wanted)>>, {Top.id},
                RestAfter(r))
        /\ UNCHANGED <<dmVars, statVars, halted>>
    BY DEF ReceptionDirectSummary
  <1>2. r \in Nodes /\ buffer[r] \in SUBSET PktIDs
    BY TopFacts DEF IInv, DataOK
  <1>3. ids \in SUBSET PktIDs /\ live \in SUBSET PktIDs /\ wanted \in SUBSET PktIDs
    BY <1>1, <1>2, ControlFacts, BufferParts, TypeFacts
  <1> HIDE DEF ids, live, wanted
  <1>4. DataOK'
    BY <1>1, <1>2, <1>3, BufferData DEF IInv
  <1>5. "DIRECT_REQUEST" \in Types /\ "DIRECT_REQUEST" # "DATA"
    BY TypeFacts
  <1> QED
    BY <1>1, <1>3, <1>4, <1>5, AnswerKept

LEMMA AntipacketKept ==
    ASSUME IInv, NEW r, Receiving(r),
           ReceptionAntipacket(r, Top.id, pool[Top.id], RestAfter(r))
    PROVE  Kept
  <1> DEFINE info == delivered[r] \cup pool[Top.id].ids
  <1>1. /\ pool[Top.id].type = "ANTIPACKET"
        /\ delivered' = [delivered EXCEPT ![r] = info]
        /\ buffer' = [buffer EXCEPT ![r] = Cleaned(@, info)]
        /\ Send(<<Control("ANTIPACKET_RESPONSE", r, pool[Top.id].prev, info)>>, {Top.id},
                RestAfter(r))
        /\ UNCHANGED <<god, statVars, halted>>
    BY DEF ReceptionAntipacket
  <1>2. r \in Nodes /\ buffer[r] \in SUBSET PktIDs /\ delivered[r] \in SUBSET PktIDs
    BY TopFacts DEF IInv, DataOK
  <1>3. info \in SUBSET PktIDs
    BY <1>1, <1>2, ControlFacts, TypeFacts
  <1> HIDE DEF info
  <1>4. Cleaned(buffer[r], info) \in SUBSET PktIDs
    BY <1>2, <1>3, BufferParts
  <1>5. DataOK'
    BY <1>1, <1>2, <1>3, <1>4 DEF IInv, DataOK, statVars
  <1>6. "ANTIPACKET_RESPONSE" \in Types /\ "ANTIPACKET_RESPONSE" # "DATA"
    BY TypeFacts
  <1> QED
    BY <1>1, <1>3, <1>5, <1>6, AnswerKept

LEMMA AntipacketResponseKept ==
    ASSUME IInv, NEW r, Receiving(r),
           ReceptionAntipacketResponse(r, Top.id, pool[Top.id], RestAfter(r))
    PROVE  Kept
  <1> DEFINE info == delivered[r] \cup pool[Top.id].ids
  <1>1. /\ pool[Top.id].type = "ANTIPACKET_RESPONSE"
        /\ SendDirectPackets(r, pool[Top.id].prev, Cleaned(buffer[r], info), info,
                             {Top.id}, RestAfter(r))
    BY DEF ReceptionAntipacketResponse
  <1>2. /\ r \in Nodes /\ buffer[r] \in SUBSET PktIDs /\ delivered[r] \in SUBSET PktIDs
        /\ conn' \in [Nodes -> SUBSET Nodes]
    BY TopFacts DEF IInv, DataOK
  <1>3. info \in SUBSET PktIDs
    BY <1>1, <1>2, ControlFacts, TypeFacts
  <1> HIDE DEF info
  <1>4. Cleaned(buffer[r], info) \in SUBSET PktIDs
    BY <1>2, <1>3, BufferParts
  <1>5. DataOK
    BY DEF IInv
  <1>6. pool[Top.id].type # "DATA"
    BY <1>1
  <1>7. /\ StackOK(RestAfter(r), [i \in DOMAIN pool \ {Top.id} |-> pool[i]], conn',
                   variousIDs)
        /\ NoApp(RestAfter(r))
        /\ pool[Top.id].prev \in conn'[r] /\ pool[Top.id].prev \in Nodes
    BY <1>6, ControlFacts
  <1> QED
    BY <1>1, <1>2, <1>3, <1>4, <1>5, <1>7, DirectPackets

\* A request is answered by data packets, and then by msgs.
LEMMA RequestKept ==
    ASSUME IInv, NEW r, Receiving(r), pool[Top.id].type # "DATA",
           NEW ids \in SUBSET PktIDs, NEW order \in Orders(ids), NEW msgs, Sendable(msgs, r, conn'),
           Send(DataFor(r, pool[Top.id].prev, order, 1) \o msgs, {Top.id}, RestAfter(r)),
           NEW b \in SUBSET PktIDs, buffer' = [buffer EXCEPT ![r] = b],
           UNCHANGED <<dmVars, statVars, halted>>
    PROVE  Kept
  <1>1. r \in Nodes /\ conn' \in [Nodes -> SUBSET Nodes]
    BY TopFacts
  <1>2. pool[Top.id].prev \in Nodes
    BY ControlFacts
  <1>3. Sendable(DataFor(r, pool[Top.id].prev, order, 1) \o msgs, r, conn')
    BY <1>1, <1>2, SendableData, SendableConcat
  <1>4. DataOK'
    BY <1>1, BufferData DEF IInv
  <1> QED
    BY <1>1, <1>3, <1>4, ControlFacts, SendStack DEF Kept

LEMMA DirectRequestKept ==
    ASSUME IInv, NEW r, Receiving(r),
           ReceptionDirectRequest(r, Top.id, pool[Top.id], RestAfter(r))
    PROVE  Kept
  <1> DEFINE ids == pool[Top.id].ids
  <1> DEFINE m == pool[Top.id].prev
  <1> DEFINE live == Alive(buffer[r])
  <1> DEFINE left == IF LeavesBuffer THEN live \ DestinedTo(live, m) ELSE live
  <1>1. pool[Top.id].type # "DATA"
    BY DEF ReceptionDirectRequest
  <1>2. r \in Nodes /\ buffer[r] \in SUBSET PktIDs /\ m \in Nodes /\ m \in conn'[r]
    BY <1>1, TopFacts, ControlFacts DEF IInv, DataOK
  <1>3. left \in SUBSET PktIDs /\ ids \in SUBSET PktIDs
    BY <1>1, <1>2, BufferParts, ControlFacts, TypeFacts DEF ReceptionDirectRequest
  <1>4. CASE ids \subseteq live
    <2>1. PICK order \in Orders(ids) :
             Send(DataFor(r, m, order, 1) \o Proceed(r, m, left), {Top.id},
                  RestAfter(r))
      BY <1>4 DEF ReceptionDirectRequest
    <2>2. /\ buffer' = [buffer EXCEPT ![r] = left]
          /\ UNCHANGED <<dmVars, statVars, halted>>
      BY <1>4 DEF ReceptionDirectRequest
    <2>3. Sendable(Proceed(r, m, left), r, conn')
      <3> HIDE DEF left
      <3> QED
        BY <1>2, <1>3, SendableProceed
    <2> QED
      BY <1>1, <1>3, <2>1, <2>2, <2>3, RequestKept
  <1>5. CASE ~(ids \subseteq live)
    BY <1>5, ExitKept DEF ReceptionDirectRequest
  <1> QED
    BY <1>4, <1>5

LEMMA OverhearKept ==
    ASSUME IInv, NEW r, Receiving(r), pool[Top.id].type = "DATA",
           Overhear(r, Top.id, pool[Top.id], RestAfter(r))
    PROVE  Kept
  <1>1. Access(Top.id, RestAfter(r)) /\ UNCHANGED <<buffer, dmVars, statVars, halted>>
    BY DEF Overhear
  <1>2. DataOK'
    BY <1>1 DEF IInv, DataOK, dmVars, statVars
  <1> QED
    BY <1>1, <1>2, AccessStack DEF Kept

LEMMA DeliverKept ==
    ASSUME IInv, NEW r, Receiving(r), pool[Top.id].type = "DATA",
           NEW p \in pool[Top.id].ids,
           Deliver(r, Top.id, pool[Top.id], RestAfter(r), p)
    PROVE  Kept
  <1>1. r \in Nodes /\ p \in PktIDs /\ delivered[r] \in SUBSET PktIDs
    BY TopFacts, TypeFacts DEF Message, IsPacket, IInv, DataOK
  <1>2. CASE NoDuplicatesSupport /\ isDelivered(r, p)
    BY <1>2, ExitKept DEF Deliver
  <1>3. CASE ~(NoDuplicatesSupport /\ isDelivered(r, p))
    <2>1. /\ SetAsDelivered(r, delivered[r] \cup {p})
          /\ PktRec(p)
          /\ Access(Top.id, RestAfter(r))
          /\ UNCHANGED <<buffer, halted>>
      BY <1>3 DEF Deliver
    <2>2. delivered' \in [Nodes -> SUBSET PktIDs] /\ god' \subseteq PktIDs
      BY <1>1, <2>1, DeliveredData DEF IInv
    <2>3. received' \subseteq PktIDs /\ duplicates' \subseteq received'
      BY <1>1, <2>1 DEF PktRec, IInv, DataOK
    <2>4. DataOK'
      BY <2>1, <2>2, <2>3 DEF IInv, DataOK
    <2> QED
      BY <2>1, <2>4, AccessStack DEF Kept
  <1> QED
    BY <1>2, <1>3

-----------------------------------------------------------------------------
(* Contacts and packets of the application.                                *)

\* The contact on top.
LEMMA ContactFacts ==
    ASSUME IInv, NEW ev \in {"UP", "DOWN", "APP"}, TopIs(ev)
    PROVE  /\ Top.a \in Nodes /\ Top.b \in Nodes /\ Top.a # Top.b
           /\ evlist # <<>> /\ Head(evlist).ev # "TX" /\ evlist \in Seq(Event)
           /\ ev # "APP" => NoApp(Tail(evlist))
           /\ ev = "APP" => Tail(evlist) = <<>> /\ Len(origin) < TrafficLoad
  <1>1. evlist \in Seq(Event) /\ evlist # <<>> /\ Top = Head(evlist) /\ Top.ev = ev
    BY DEF IInv, StackOK, TopIs, Top
  <1>2. /\ Top = evlist[1] /\ 1 \in 1..Len(evlist) /\ Top \in Event
        /\ Tail(evlist) \in Seq(Event) /\ Len(Tail(evlist)) = Len(evlist) - 1
        /\ \A i \in 1..(Len(evlist) - 1) : Tail(evlist)[i] = evlist[i + 1]
    BY <1>1
  <1>3. Top \in Contact_
    BY <1>1, <1>2 DEF Event, Transmission
  <1>4. ASSUME ev # "APP", NEW i \in 1..Len(Tail(evlist)), Tail(evlist)[i].ev = "APP"
        PROVE  FALSE
    <2>1. i + 1 \in 1..Len(evlist) /\ evlist[i + 1].ev = "APP"
      BY <1>1, <1>2, <1>4
    <2>2. Len(evlist) = 1
      BY <2>1 DEF IInv, AppOK
    <2>3. i \in 1..(Len(evlist) - 1)
      BY <1>2, <1>4
    <2>4. 1..(Len(evlist) - 1) = {}
      BY <2>2
    <2> QED
      BY <2>3, <2>4
  <1>5. ASSUME ev = "APP" PROVE Tail(evlist) = <<>> /\ Len(origin) < TrafficLoad
    <2>1. Len(evlist) = 1 /\ Len(origin) < TrafficLoad
      BY <1>1, <1>2, <1>5 DEF IInv, AppOK
    <2>2. Len(Tail(evlist)) = 0
      BY <1>2, <2>1
    <2> QED
      BY <1>2, <2>1, <2>2, EmptySeq
  <1> QED
    BY <1>1, <1>3, <1>4, <1>5 DEF Contact_, NoApp

\* Links stay symmetric.
LEMMA LinkFacts ==
    ASSUME NetOK, NEW a \in Nodes, NEW b \in Nodes, a # b, Connect(a, b) \/ Disconnect(a, b)
    PROVE  /\ conn' \in [Nodes -> SUBSET Nodes]
           /\ \A m, n \in Nodes : n \in conn'[m] => m \in conn'[n]
           /\ Connect(a, b) => b \in conn'[a]
  <1>1. CASE Connect(a, b)
    <2>1. /\ conn' \in [Nodes -> SUBSET Nodes] /\ b \in conn'[a]
          /\ \A n \in Nodes : conn'[n] = IF n \in {a, b} THEN conn[n] \cup ({a, b} \ {n})
                                         ELSE conn[n]
      BY <1>1 DEF Connect, NetOK
    <2> QED
      BY <2>1 DEF NetOK
  <1>2. CASE Disconnect(a, b)
    <2>1. /\ conn' \in [Nodes -> SUBSET Nodes]
          /\ \A n \in Nodes : conn'[n] = IF n \in {a, b} THEN conn[n] \ {a, b} ELSE conn[n]
      BY <1>2 DEF Disconnect, NetOK
    <2>2. CASE ~Connect(a, b)
      BY <2>1, <2>2 DEF NetOK
    <2> QED
      BY <1>1, <2>2
  <1> QED
    BY <1>1, <1>2

\* A node greets its new contact.
LEMMA GreetingKept ==
    ASSUME IInv, ContactUp
    PROVE  Kept /\ NetOK'
  <1> DEFINE a == Top.a
  <1> DEFINE b == Top.b
  <1> DEFINE rest == Tail(evlist)
  <1>1. TopIs("UP") /\ Connect(a, b) /\ UNCHANGED <<now, origin>> /\ Contact(a, b, rest)
    BY DEF ContactUp
  <1>2. a \in Nodes /\ b \in Nodes /\ a # b /\ NoApp(rest)
        /\ evlist # <<>> /\ Head(evlist).ev # "TX"
    BY <1>1, ContactFacts
  <1>3. /\ conn' \in [Nodes -> SUBSET Nodes] /\ b \in conn'[a]
        /\ \A m, n \in Nodes : n \in conn'[m] => m \in conn'[n]
    BY <1>1, <1>2, LinkFacts DEF IInv
  <1>4. StackOK(rest, [i \in DOMAIN pool \ {} |-> pool[i]], conn', variousIDs)
    BY <1>2, NoTransmission DEF IInv
  <1>5. DataOK /\ buffer[a] \in SUBSET PktIDs /\ delivered[a] \in SUBSET PktIDs
    BY <1>2 DEF IInv, DataOK
  <1> HIDE DEF a, b, rest
  <1>6. ASSUME NEW type \in Types \ {"DATA"}, NEW ids \in SUBSET PktIDs,
               Send(<<Control(type, a, b, ids)>>, {}, rest)
        PROVE  StackOK(evlist', pool', conn', variousIDs') /\ NoApp(evlist')
    BY <1>2, <1>3, <1>4, <1>6, SendableControl, SendStack
  <1>7. Kept
    <2>1. CASE SendVaccine(a, b, rest)
      <3>1. Send(<<Control("ANTIPACKET", a, b, delivered[a])>>, {}, rest)
            /\ UNCHANGED <<buffer, dmVars, statVars, halted>>
        BY <2>1 DEF SendVaccine
      <3>2. "ANTIPACKET" \in Types \ {"DATA"}
        BY TypeFacts
      <3>3. DataOK'
        BY <1>5, <3>1 DEF DataOK, dmVars, statVars
      <3> QED
        BY <1>5, <1>6, <3>1, <3>2, <3>3 DEF Kept
    <2>2. CASE SendDirectSummary(a, b, rest)
      <3>1. Send(<<Control("DIRECT_SUMMARY", a, b, DestinedTo(buffer[a], b))>>, {}, rest)
            /\ buffer' = [buffer EXCEPT ![a] = Alive(@)]
            /\ UNCHANGED <<dmVars, statVars, halted>>
        BY <2>2 DEF SendDirectSummary
      <3>2. "DIRECT_SUMMARY" \in Types \ {"DATA"}
        BY TypeFacts
      <3>3. Alive(buffer[a]) \in SUBSET PktIDs /\ DestinedTo(buffer[a], b) \in SUBSET PktIDs
        BY <1>5, BufferParts
      <3>4. DataOK'
        BY <1>2, <1>5, <3>1, <3>3 DEF DataOK, dmVars, statVars
      <3> QED
        BY <1>6, <3>1, <3>2, <3>3, <3>4 DEF Kept
    <2>3. CASE SendDirectPackets(a, b, Cleaned(buffer[a], delivered[a]), delivered[a], {},
                                 rest)
      <3>1. Cleaned(buffer[a], delivered[a]) \in SUBSET PktIDs
        BY <1>5, BufferParts
      <3> QED
        BY <1>2, <1>3, <1>4, <1>5, <2>3, <3>1, DirectPackets
    <2> QED
      BY <1>1, <2>1, <2>2, <2>3 DEF Contact, a, b, rest
  <1>8. NetOK'
    BY <1>1, <1>3 DEF IInv, NetOK
  <1> QED
    BY <1>7, <1>8

LEMMA ContactUpKept == IInv /\ ContactUp => IInv'
  <1> SUFFICES ASSUME IInv, ContactUp PROVE IInv'
    OBVIOUS
  <1>1. Kept /\ NetOK'
    BY GreetingKept
  <1>2. AppOK'
    BY <1>1 DEF Kept, NoApp, AppOK
  <1> QED
    BY <1>1, <1>2 DEF Kept, IInv

LEMMA ContactDownKept == IInv /\ ContactDown => IInv'
  <1> SUFFICES ASSUME IInv, ContactDown PROVE IInv'
    OBVIOUS
  <1>1. /\ TopIs("DOWN") /\ Disconnect(Top.a, Top.b) /\ evlist' = Tail(evlist)
        /\ UNCHANGED <<now, origin, pool, variousIDs, buffer, dmVars, statVars, halted>>
    BY DEF ContactDown
  <1>2. /\ Top.a \in Nodes /\ Top.b \in Nodes /\ Top.a # Top.b /\ NoApp(Tail(evlist))
        /\ evlist # <<>> /\ Head(evlist).ev # "TX"
    BY <1>1, ContactFacts
  <1>3. /\ conn' \in [Nodes -> SUBSET Nodes]
        /\ \A m, n \in Nodes : n \in conn'[m] => m \in conn'[n]
    BY <1>1, <1>2, LinkFacts DEF IInv
  <1>4. StackOK(evlist', pool', conn', variousIDs')
    BY <1>1, <1>2, NoTransmission DEF IInv
  <1>5. NetOK' /\ DataOK'
    BY <1>1, <1>3 DEF IInv, NetOK, DataOK, dmVars, statVars
  <1>6. AppOK'
    BY <1>1, <1>2 DEF NoApp, AppOK
  <1> QED
    BY <1>4, <1>5, <1>6 DEF IInv

LEMMA RecvFromAppKept == IInv /\ RecvFromApp => IInv'
  <1> SUFFICES ASSUME IInv, RecvFromApp PROVE IInv'
    OBVIOUS
  <1> DEFINE p == Len(origin) + 1
  <1> DEFINE pkt == [src |-> Top.a, dst |-> Top.b, time |-> now]
  <1>1. /\ TopIs("APP") /\ origin' = Append(origin, pkt) /\ evlist' = Tail(evlist)
        /\ UNCHANGED <<now, conn, pool, variousIDs, dmVars, statVars, halted>>
    BY DEF RecvFromApp
  <1>2. PICK b \in Added(buffer[Top.a], p) : buffer' = [buffer EXCEPT ![Top.a] = b]
    BY DEF RecvFromApp
  <1>3. /\ Top.a \in Nodes /\ Top.b \in Nodes /\ Tail(evlist) = <<>>
        /\ Len(origin) < TrafficLoad /\ evlist # <<>> /\ Head(evlist).ev # "TX"
    BY <1>1, ContactFacts
  <1>4. /\ origin \in Seq([src : Nodes, dst : Nodes, time : 0..MaxTime])
        /\ Len(origin) \in Nat /\ now \in 0..MaxTime
    BY DEF IInv, NetOK
  <1>5. p \in PktIDs
    BY <1>3, <1>4, PktFacts DEF PktIDs
  <1>6. buffer[Top.a] \in SUBSET PktIDs
    BY <1>3 DEF IInv, DataOK
  <1>7. b \in SUBSET PktIDs
    BY <1>2, <1>5, <1>6, BufferParts
  <1>8. /\ origin' \in Seq([src : Nodes, dst : Nodes, time : 0..MaxTime])
        /\ Len(origin') = p
    BY <1>1, <1>3, <1>4
  <1>9. NetOK'
    <2>1. Len(origin') <= TrafficLoad
      BY <1>3, <1>4, <1>8, PktFacts
    <2> QED
      BY <1>1, <1>8, <2>1 DEF IInv, NetOK
  <1>10. DataOK'
    BY <1>1, <1>2, <1>3, <1>7, BufferData DEF IInv
  <1>11. AppOK'
    BY <1>1, <1>3 DEF AppOK
  <1>12. StackOK(evlist', pool', conn', variousIDs')
    BY <1>1, <1>3, NoTransmission DEF IInv
  <1> QED
    BY <1>9, <1>10, <1>11, <1>12 DEF IInv

-----------------------------------------------------------------------------
(* The environment and the theorems.                                       *)

\* Events can be put on the stack when it is empty, for then nothing is in
\* the pool.
LEMMA ScheduleKept ==
    ASSUME IInv, NEW events \in Seq(Contact_), Schedule(events),
           \A i \in 1..Len(events) :
              events[i].ev = "APP" => Len(events) = 1 /\ Len(origin) < TrafficLoad
    PROVE  IInv'
  <1>1. /\ evlist = <<>> /\ evlist' = events /\ variousIDs' = FirstID
        /\ UNCHANGED <<netVars, pool, buffer, dmVars, statVars, halted>>
    BY DEF Schedule, Quiet
  <1>2. DOMAIN pool = {}
    <2>1. 1..Len(evlist) = {}
      BY <1>1
    <2> QED
      BY <2>1 DEF IInv, StackOK
  <1>3. \A i \in 1..Len(events) : events[i] \in Event /\ events[i].ev # "TX"
    BY DEF Contact_, Event
  <1>4. events \in Seq(Event) /\ FirstID \in Nat
    BY <1>3, PktFacts DEF FirstID
  <1>5. StackOK(evlist', pool', conn', variousIDs')
    BY <1>1, <1>2, <1>3, <1>4 DEF StackOK, netVars
  <1>6. NetOK' /\ DataOK'
    BY <1>1 DEF IInv, NetOK, DataOK, netVars, dmVars, statVars
  <1>7. AppOK'
    BY <1>1 DEF AppOK, netVars
  <1> QED
    BY <1>5, <1>6, <1>7 DEF IInv

LEMMA EnvironmentKept == IInv /\ Environment => IInv'
  <1> SUFFICES ASSUME IInv, Environment PROVE IInv'
    OBVIOUS
  <1>1. CASE Tick
    <2>1. /\ now < MaxTime /\ now' = now + 1
          /\ UNCHANGED <<conn, origin, msgVars, buffer, dmVars, statVars, halted>>
      BY <1>1 DEF Tick
    <2>2. now' \in 0..MaxTime
      BY <2>1, RoutingAssumption DEF IInv, NetOK
    <2> QED
      BY <2>1, <2>2 DEF IInv, NetOK, DataOK, AppOK, StackOK, InTransit, msgVars,
         dmVars, statVars
  <1>2. ASSUME NEW ev \in {"UP", "DOWN", "APP"}, NEW c \in Nodes \X Nodes, c[1] # c[2]
        PROVE  /\ ContactEvent(ev, c[1], c[2]) \in Contact_
               /\ ContactEvent(ev, c[2], c[1]) \in Contact_
               /\ ContactEvent(ev, c[1], c[2]).ev = ev
               /\ ContactEvent(ev, c[2], c[1]).ev = ev
    BY <1>2 DEF ContactEvent, Contact_
  <1>3. ASSUME NEW c \in Encounters,
               \/ BeginContact(c[1], c[2]) \/ EndContact(c[1], c[2])
               \/ TouchContact(c[1], c[2])
        PROVE  IInv'
    <2> DEFINE up1 == ContactEvent("UP", c[1], c[2])
    <2> DEFINE up2 == ContactEvent("UP", c[2], c[1])
    <2> DEFINE down1 == ContactEvent("DOWN", c[1], c[2])
    <2> DEFINE down2 == ContactEvent("DOWN", c[2], c[1])
    <2>1. c \in Nodes \X Nodes /\ c[1] # c[2]
      BY RoutingAssumption
    <2>2. /\ {up1, up2, down1, down2} \subseteq Contact_
          /\ \A e \in {up1, up2, down1, down2} : e.ev # "APP"
      BY <1>2, <2>1
    <2>3. \/ Schedule(<<up2, up1>>) \/ Schedule(<<down2, down1>>)
          \/ Schedule(<<up2, down2, up1, down1>>)
      BY <1>3 DEF BeginContact, EndContact, TouchContact
    <2> HIDE DEF up1, up2, down1, down2
    <2>4. CASE Schedule(<<up2, up1>>)
      <3>1. /\ <<up2, up1>> \in Seq(Contact_)
            /\ \A i \in 1..Len(<<up2, up1>>) : <<up2, up1>>[i] \in {up1, up2, down1, down2}
        BY <2>2
      <3> QED
        BY <2>2, <2>4, <3>1, ScheduleKept
    <2>5. CASE Schedule(<<down2, down1>>)
      <3>1. /\ <<down2, down1>> \in Seq(Contact_)
            /\ \A i \in 1..Len(<<down2, down1>>) : <<down2, down1>>[i] \in {up1, up2, down1, down2}
        BY <2>2
      <3> QED
        BY <2>2, <2>5, <3>1, ScheduleKept
    <2>6. CASE Schedule(<<up2, down2, up1, down1>>)
      <3>1. /\ <<up2, down2, up1, down1>> \in Seq(Contact_)
            /\ \A i \in 1..Len(<<up2, down2, up1, down1>>) : <<up2, down2, up1, down1>>[i] \in {up1, up2, down1, down2}
        BY <2>2
      <3> QED
        BY <2>2, <2>6, <3>1, ScheduleKept
    <2> QED
      BY <2>3, <2>4, <2>5, <2>6
  <1>4. ASSUME NEW f \in Flows, Generate(f[1], f[2])
        PROVE  IInv'
    <2> DEFINE e == ContactEvent("APP", f[1], f[2])
    <2>1. e \in Contact_ /\ e.ev = "APP"
      BY <1>2, RoutingAssumption
    <2>2. Len(origin) < TrafficLoad /\ Schedule(<<e>>)
      BY <1>4 DEF Generate
    <2> HIDE DEF e
    <2>3. <<e>> \in Seq(Contact_) /\ Len(<<e>>) = 1
      BY <2>1
    <2> QED
      BY <2>2, <2>3, ScheduleKept
  <1> QED
    BY <1>1, <1>3, <1>4 DEF Environment

LEMMA InvInit == Init => IInv
  <1> SUFFICES ASSUME Init PROVE IInv
    OBVIOUS
  <1>1. NetOK
    BY RoutingAssumption DEF Init, NetOK
  <1>2. DataOK
    BY DEF Init, DataOK
  <1>3. AppOK
    BY DEF Init, AppOK
  <1>4. StackOK(evlist, pool, conn, variousIDs)
    <2>1. /\ evlist = <<>> /\ DOMAIN pool = {} /\ variousIDs \in Nat
      BY PktFacts DEF Init, FirstID
    <2>2. evlist \in Seq(Event) /\ 1..Len(evlist) = {}
      BY <2>1
    <2> QED
      BY <2>1, <2>2 DEF StackOK
  <1> QED
    BY <1>1, <1>2, <1>3, <1>4 DEF IInv

-----------------------------------------------------------------------------
(* What is in transmission.                                                *)

\* By the events ev, node x is still to receive packet id.
Awaiting(ev, id, x) ==
    \E i \in 1..Len(ev) : ev[i].ev = "TX" /\ ev[i].id = id /\ x \in ev[i].rcv

\* The transmissions among the events ev are of data packets in pool pl.
OnlyData(ev, pl) ==
    \A i \in 1..Len(ev) : ev[i].ev = "TX" => pl[ev[i].id].type = "DATA"

IsData(id) == pool[id].type = "DATA"

\* At most one packet in transmission is not a data packet, the one on top.
OneControl == \A i \in 2..Len(evlist) : evlist[i].ev = "TX" => IsData(evlist[i].id)

Known == 1..Len(origin)

-----------------------------------------------------------------------------
(* What is on the stack and in the pool after a handler.                   *)

\* In what remains of the stack nothing but data packets is in transmission.
LEMMA TailData ==
    ASSUME IInv, OneControl, evlist # <<>>
    PROVE  /\ OnlyData(Tail(evlist), pool)
           /\ \A id, x : Awaiting(Tail(evlist), id, x) => Awaiting(evlist, id, x)
           /\ \A id, x : Awaiting(evlist, id, x) /\ id # evlist[1].id
                            => Awaiting(Tail(evlist), id, x)
  <1> DEFINE n == Len(evlist)
  <1> DEFINE tail == Tail(evlist)
  <1>1. /\ evlist \in Seq(Event) /\ n \in Nat \ {0} /\ Len(tail) = n - 1
        /\ \A i \in 1..(n - 1) : tail[i] = evlist[i + 1]
    BY DEF IInv, StackOK
  <1>2. \A i \in 1..(n - 1) : i + 1 \in 1..n /\ i + 1 \in 2..Len(evlist)
    BY <1>1
  <1>3. OnlyData(tail, pool)
    BY <1>1, <1>2 DEF OnlyData, OneControl, IsData
  <1>4. ASSUME NEW id, NEW x, Awaiting(tail, id, x) PROVE Awaiting(evlist, id, x)
    BY <1>1, <1>2, <1>4 DEF Awaiting
  <1>5. ASSUME NEW id, NEW x, Awaiting(evlist, id, x), id # evlist[1].id
        PROVE  Awaiting(tail, id, x)
    <2>1. PICK i \in 1..n : evlist[i].ev = "TX" /\ evlist[i].id = id /\ x \in evlist[i].rcv
      BY <1>5 DEF Awaiting
    <2>2. i # 1
      BY <1>5, <2>1
    <2>3. i - 1 \in 1..(n - 1) /\ (i - 1) + 1 = i
      BY <1>1, <2>2
    <2>4. tail[i - 1] = evlist[i]
      BY <1>1, <2>3
    <2> QED
      BY <1>1, <2>1, <2>3, <2>4 DEF Awaiting
  <1> QED
    BY <1>3, <1>4, <1>5

\* Sending: the old packets are as before; each of the new ones is in the
\* pool, with the receivers it was sent to, and only the last one may be
\* other than data.
LEMMA SendView ==
    ASSUME conn' \in [Nodes -> SUBSET Nodes], NEW n \in Nodes, NEW msgs,
           Sendable(msgs, n, conn'), NEW erased, NEW rest,
           StackOK(rest, [i \in DOMAIN pool \ erased |-> pool[i]], conn', variousIDs),
           OnlyData(rest, pool),
           \A k \in 1..Len(msgs) : k < Len(msgs) => msgs[k].type = "DATA",
           Send(msgs, erased, rest)
    PROVE  /\ OneControl'
           /\ \A id \in DOMAIN pool \ erased :
                 /\ id \in DOMAIN pool' /\ pool'[id] = pool[id] /\ IsData(id)
                 /\ \A x : Awaiting(evlist', id, x) <=> Awaiting(rest, id, x)
           /\ \A id \in DOMAIN pool' : id \notin DOMAIN pool \ erased =>
                 \E k \in 1..Len(msgs) : id = variousIDs + k /\ pool'[id] = msgs[k]
           /\ \A k \in 1..Len(msgs) :
                 /\ variousIDs + k \in DOMAIN pool'
                 /\ variousIDs + k \notin DOMAIN pool \ erased
                 /\ pool'[variousIDs + k] = msgs[k]
                 /\ msgs[k].type = "DATA" =>
                       \A x \in conn'[n] : Awaiting(evlist', variousIDs + k, x)
  <1> DEFINE L == Len(msgs)
  <1> DEFINE v == variousIDs
  <1> DEFINE T == Transmissions(msgs)
  <1> DEFINE old == [i \in DOMAIN pool \ erased |-> pool[i]]
  <1> DEFINE R == Len(rest)
  <1>1. /\ v \in Nat /\ rest \in Seq(Event) /\ R \in Nat
        /\ evlist' = T \o rest
        /\ pool' = PoolWith(msgs, erased)
    BY DEF StackOK, Send
  <1>2. /\ T \in Seq(Event) /\ Len(T) = L /\ L \in Nat
        /\ \A i \in 1..L :
              /\ L + 1 - i \in 1..L
              /\ T[i].ev = "TX"
              /\ T[i].a = n
              /\ T[i].id = v + (L + 1 - i)
              /\ T[i].rcv = IF msgs[L + 1 - i].type = "DATA" THEN conn'[n]
                            ELSE {msgs[L + 1 - i].next}
              /\ T[i].rcv # {} /\ T[i].rcv \subseteq conn'[n]
    BY <1>1, TransmissionsFacts
  <1> HIDE DEF T
  <1>3. /\ Len(evlist') = L + R
        /\ \A i \in 1..L : evlist'[i] = T[i]
        /\ \A i \in 1..R : evlist'[L + i] = rest[i]
    <2>1. /\ Len(T \o rest) = L + R
          /\ \A i \in 1..(L + R) :
                (T \o rest)[i] = IF i <= L THEN T[i] ELSE rest[i - L]
      <3>1. T \in Seq(Event) /\ rest \in Seq(Event) /\ Len(T) = L
        BY <1>1, <1>2
      <3> HIDE DEF L
      <3> QED
        BY <3>1, ConcatProperties
    <2>2. \A i \in 1..L : i \in 1..(L + R) /\ i <= L
      BY <1>1, <1>2
    <2>3. \A i \in 1..R : L + i \in 1..(L + R) /\ ~(L + i <= L) /\ (L + i) - L = i
      BY <1>1, <1>2
    <2> QED
      BY <1>1, <2>1, <2>2, <2>3
  <1>4. \A i \in 1..(L + R) : i \in 1..L \/ (i - L \in 1..R /\ i = L + (i - L))
    BY <1>1, <1>2
  <1>5. ASSUME NEW id \in DOMAIN pool \ erased
        PROVE  /\ id \in Nat /\ id <= v
               /\ \E i \in 1..R : rest[i].ev = "TX" /\ rest[i].id = id
    <2>1. StackOK(rest, old, conn', v) /\ id \in DOMAIN old
      OBVIOUS
    <2> HIDE DEF old, v
    <2>2. PICK i \in 1..R : rest[i].ev = "TX" /\ rest[i].id = id
      BY <2>1 DEF StackOK
    <2>3. InTransit(rest[i], old, conn', v)
      BY <2>1, <2>2 DEF StackOK
    <2> QED
      BY <2>1, <2>2, <2>3 DEF StackOK, InTransit
  <1>6. ASSUME NEW i \in 1..R, rest[i].ev = "TX"
        PROVE  rest[i].id \in DOMAIN pool \ erased
    <2>1. StackOK(rest, old, conn', v)
      OBVIOUS
    <2>2. rest[i].id \in DOMAIN old
      <3> HIDE DEF old, v
      <3> QED
        BY <1>6, <2>1 DEF StackOK, InTransit
    <2> QED
      BY <2>2
  <1> HIDE DEF old
  <1>7. /\ DOMAIN pool' = (DOMAIN pool \ erased) \cup (v + 1)..(v + L)
        /\ \A id \in DOMAIN pool \ erased : pool'[id] = pool[id]
        /\ \A k \in 1..L : v + k \in DOMAIN pool' /\ pool'[v + k] = msgs[k]
                           /\ v + k \notin DOMAIN pool \ erased
    <2>1. pool' = [i \in (DOMAIN pool \ erased) \cup (v + 1)..(v + L) |->
                      IF i \in (v + 1)..(v + L) THEN msgs[i - v] ELSE pool[i]]
      BY <1>1 DEF PoolWith, NewIDs
    <2>2. \A id \in DOMAIN pool \ erased : id \notin (v + 1)..(v + L)
      BY <1>1, <1>2, <1>5
    <2>3. \A k \in 1..L : v + k \in (v + 1)..(v + L) /\ (v + k) - v = k
      BY <1>1, <1>2
    <2> QED
      BY <2>1, <2>2, <2>3
  <1>8. ASSUME NEW id \in DOMAIN pool \ erased
        PROVE  IsData(id)
    <2>1. PICK i \in 1..R : rest[i].ev = "TX" /\ rest[i].id = id
      BY <1>5
    <2> QED
      BY <2>1 DEF OnlyData, IsData
  <1>9. ASSUME NEW id \in DOMAIN pool \ erased, NEW x
        PROVE  Awaiting(evlist', id, x) <=> Awaiting(rest, id, x)
    <2>1. ASSUME Awaiting(rest, id, x) PROVE Awaiting(evlist', id, x)
      <3>1. PICK i \in 1..R : rest[i].ev = "TX" /\ rest[i].id = id /\ x \in rest[i].rcv
        BY <2>1 DEF Awaiting
      <3>2. L + i \in 1..(L + R) /\ evlist'[L + i] = rest[i]
        BY <1>1, <1>2, <1>3
      <3> QED
        BY <1>3, <3>1, <3>2 DEF Awaiting
    <2>2. ASSUME Awaiting(evlist', id, x) PROVE Awaiting(rest, id, x)
      <3>1. PICK i \in 1..(L + R) :
               evlist'[i].ev = "TX" /\ evlist'[i].id = id /\ x \in evlist'[i].rcv
        BY <1>3, <2>2 DEF Awaiting
      <3>2. i \notin 1..L
        <4>1. SUFFICES ASSUME i \in 1..L PROVE FALSE
          OBVIOUS
        <4>2. id = v + (L + 1 - i) /\ L + 1 - i \in 1..L
          BY <1>2, <1>3, <3>1, <4>1
        <4> QED
          BY <1>7, <4>2
      <3>3. i - L \in 1..R /\ evlist'[i] = rest[i - L]
        <4>1. i - L \in 1..R /\ i = L + (i - L)
          BY <1>4, <3>2
        <4>2. evlist'[L + (i - L)] = rest[i - L]
          BY <1>3, <4>1
        <4> QED
          BY <4>1, <4>2
      <3> QED
        BY <3>1, <3>3 DEF Awaiting
    <2> QED
      BY <2>1, <2>2
  <1>10. ASSUME NEW k \in 1..L, msgs[k].type = "DATA", NEW x \in conn'[n]
         PROVE  Awaiting(evlist', v + k, x)
    <2> DEFINE i == L + 1 - k
    <2>1. i \in 1..L /\ L + 1 - i = k /\ i \in 1..(L + R)
      BY <1>1, <1>2, Mirror
    <2> HIDE DEF i
    <2>2. /\ T[i].ev = "TX" /\ T[i].id = v + (L + 1 - i)
          /\ T[i].rcv = IF msgs[L + 1 - i].type = "DATA" THEN conn'[n]
                        ELSE {msgs[L + 1 - i].next}
      BY <1>2, <2>1
    <2>3. T[i].ev = "TX" /\ T[i].id = v + k /\ T[i].rcv = conn'[n]
      BY <1>10, <2>1, <2>2
    <2> QED
      BY <1>3, <2>1, <2>3 DEF Awaiting
  <1>11. OneControl'
    <2> SUFFICES ASSUME NEW i \in 2..(L + R), evlist'[i].ev = "TX"
                 PROVE  pool'[evlist'[i].id].type = "DATA"
      BY <1>3 DEF OneControl, IsData
    <2>1. i \in 1..(L + R)
      OBVIOUS
    <2>2. CASE i \in 1..L
      <3>1. L + 1 - i \in 1..L /\ L + 1 - i < L
        BY <1>2, <2>2
      <3>2. evlist'[i].id = v + (L + 1 - i)
        BY <1>2, <1>3, <2>2
      <3>3. pool'[v + (L + 1 - i)] = msgs[L + 1 - i]
        BY <1>7, <3>1
      <3> QED
        BY <3>1, <3>2, <3>3
    <2>3. CASE i \notin 1..L
      <3>1. i - L \in 1..R /\ i = L + (i - L)
        BY <1>4, <2>1, <2>3
      <3>2. evlist'[L + (i - L)] = rest[i - L]
        BY <1>3, <3>1
      <3>3. evlist'[i] = rest[i - L] /\ rest[i - L].ev = "TX"
        BY <3>1, <3>2
      <3> QED
        BY <1>6, <1>7, <3>1, <3>3 DEF OnlyData
    <2> QED
      BY <2>2, <2>3
  <1>12. ASSUME NEW id \in DOMAIN pool', id \notin DOMAIN pool \ erased
         PROVE  \E k \in 1..L : id = v + k /\ pool'[id] = msgs[k]
    <2>1. id \in (v + 1)..(v + L)
      BY <1>7, <1>12
    <2>2. id - v \in 1..L /\ id = v + (id - v)
      BY <1>1, <1>2, <2>1
    <2>3. pool'[v + (id - v)] = msgs[id - v]
      BY <1>7, <2>2
    <2> QED
      BY <2>2, <2>3
  <1> QED
    BY <1>7, <1>8, <1>9, <1>10, <1>11, <1>12

\* A data packet of node n for m with original p.
DataOf(pkt, n, m, p) ==
    pkt.type = "DATA" /\ pkt.prev = n /\ pkt.next = m /\ pkt.ids = {p}

\* A control packet alone.
LEMMA ControlView ==
    ASSUME conn' \in [Nodes -> SUBSET Nodes], NEW n \in Nodes, NEW pkt,
           Sendable(<<pkt>>, n, conn'), NEW erased, NEW rest,
           StackOK(rest, [i \in DOMAIN pool \ erased |-> pool[i]], conn', variousIDs),
           OnlyData(rest, pool),
           Send(<<pkt>>, erased, rest)
    PROVE  /\ OneControl'
           /\ \A id \in DOMAIN pool \ erased :
                 /\ id \in DOMAIN pool' /\ pool'[id] = pool[id] /\ IsData(id)
                 /\ \A x : Awaiting(evlist', id, x) <=> Awaiting(rest, id, x)
           /\ \A id \in DOMAIN pool' : id \notin DOMAIN pool \ erased => pool'[id] = pkt
  <1> DEFINE msgs == <<pkt>>
  <1>1. Len(msgs) = 1 /\ \A k \in 1..Len(msgs) : ~(k < Len(msgs)) /\ msgs[k] = pkt
    OBVIOUS
  <1>2. Sendable(msgs, n, conn') /\ Send(msgs, erased, rest)
    OBVIOUS
  <1> HIDE DEF msgs
  <1>3. /\ OneControl'
        /\ \A id \in DOMAIN pool \ erased :
              /\ id \in DOMAIN pool' /\ pool'[id] = pool[id] /\ IsData(id)
              /\ \A x : Awaiting(evlist', id, x) <=> Awaiting(rest, id, x)
        /\ \A id \in DOMAIN pool' : id \notin DOMAIN pool \ erased =>
              \E k \in 1..Len(msgs) : id = variousIDs + k /\ pool'[id] = msgs[k]
        /\ \A k \in 1..Len(msgs) :
              /\ variousIDs + k \in DOMAIN pool'
              /\ variousIDs + k \notin DOMAIN pool \ erased
              /\ pool'[variousIDs + k] = msgs[k]
              /\ msgs[k].type = "DATA" =>
                    \A x \in conn'[n] : Awaiting(evlist', variousIDs + k, x)
    <2>1. \A k \in 1..Len(msgs) : k < Len(msgs) => msgs[k].type = "DATA"
      BY <1>1
    <2> QED
      BY <1>2, <2>1, SendView
  <1> QED
    BY <1>1, <1>3

\* An order of a set of packets lists each of them once.
LEMMA OrderFacts ==
    ASSUME NEW S \in SUBSET PktIDs, NEW order \in Orders(S)
    PROVE  /\ order \in Seq(S) /\ Len(order) \in Nat
           /\ \A i, j \in 1..Len(order) : order[i] = order[j] => i = j
           /\ \A p \in S : \E i \in 1..Len(order) : order[i] = p
  <1>1. IsFiniteSet(S) /\ Cardinality(S) \in Nat
    BY PktFacts
  <1> DEFINE c == Cardinality(S)
  <1>2. /\ order \in [1..c -> S]
        /\ \A i, j \in 1..c : order[i] = order[j] => i = j
    BY DEF Orders
  <1>3. order \in Seq(S) /\ Len(order) = c
    BY <1>1, <1>2
  <1>4. order \in Injection(1..c, S)
    BY <1>2 DEF Injection, IsInjective
  <1>5. Cardinality(1..c) = c
    BY <1>1, FS_Interval
  <1>6. order \in Surjection(1..c, S)
    BY <1>1, <1>4, <1>5, FS_Injection
  <1> QED
    BY <1>1, <1>2, <1>3, <1>6 DEF Surjection

\* What is in transmission when n has sent m data packets with the originals
\* S, each of them once, and then msgs.
DataSent(n, m, S, msgs, erased, rest) ==
    /\ OneControl'
    /\ \A id \in DOMAIN pool \ erased :
          /\ id \in DOMAIN pool' /\ pool'[id] = pool[id] /\ IsData(id)
          /\ \A x : Awaiting(evlist', id, x) <=> Awaiting(rest, id, x)
    /\ \A id \in DOMAIN pool' : id \notin DOMAIN pool \ erased =>
          \/ \E k \in 1..Len(msgs) : pool'[id] = msgs[k]
          \/ \E p \in S : DataOf(pool'[id], n, m, p)
    /\ \A p \in S : \E id \in DOMAIN pool' :
          /\ id \notin DOMAIN pool \ erased
          /\ DataOf(pool'[id], n, m, p) /\ Awaiting(evlist', id, m)
    /\ \A x, y \in DOMAIN pool' :
          /\ x # y /\ x \notin DOMAIN pool \ erased /\ y \notin DOMAIN pool \ erased
          /\ pool'[x].type = "DATA" /\ pool'[y].type = "DATA"
          => pool'[x].ids \cap pool'[y].ids = {}

\* Data packets of n for m with the originals S, each once, and msgs behind.
LEMMA DataView ==
    ASSUME conn' \in [Nodes -> SUBSET Nodes], NEW n \in Nodes, NEW m \in Nodes,
           m \in conn'[n], NEW S \in SUBSET PktIDs, NEW order \in Orders(S), NEW rep \in Nat,
           NEW msgs, Sendable(msgs, n, conn'), Len(msgs) <= 1,
           \A k \in 1..Len(msgs) : msgs[k].type # "DATA",
           NEW erased, NEW rest,
           StackOK(rest, [i \in DOMAIN pool \ erased |-> pool[i]], conn', variousIDs),
           OnlyData(rest, pool),
           Send(DataFor(n, m, order, rep) \o msgs, erased, rest)
    PROVE  DataSent(n, m, S, msgs, erased, rest)
  <1> DEFINE data == DataFor(n, m, order, rep)
  <1> DEFINE all == data \o msgs
  <1> DEFINE L == Len(order)
  <1> DEFINE M == Len(msgs)
  <1> DEFINE old == DOMAIN pool \ erased
  <1>1. /\ order \in Seq(S) /\ L \in Nat
        /\ \A i, j \in 1..L : order[i] = order[j] => i = j
        /\ \A p \in S : \E i \in 1..L : order[i] = p
    BY OrderFacts
  <1>2. Sendable(data, n, conn') /\ Sendable(all, n, conn')
    BY SendableData, SendableConcat
  <1>3. /\ data = [i \in 1..L |-> Data(n, m, order[i], rep)]
        /\ Len(data) = L
        /\ \A i \in 1..L : DataOf(data[i], n, m, order[i])
    <2>1. data = [i \in 1..L |-> Data(n, m, order[i], rep)]
      BY DEF DataFor
    <2>2. \A i \in 1..L : DataOf(Data(n, m, order[i], rep), n, m, order[i])
      BY DEF Data, DataOf
    <2> QED
      BY <1>1, <2>1, <2>2, SMTT(30)
  <1>0. PICK Q, R : data \in Seq(Q) /\ msgs \in Seq(R)
    BY <1>2 DEF Sendable
  <1> DEFINE U == Q \cup R
  <1>4. data \in Seq(U) /\ msgs \in Seq(U) /\ M \in Nat /\ M <= 1
    BY <1>0
  <1> HIDE DEF U
  <1> HIDE DEF data
  <1>5. /\ Len(all) = L + M
        /\ \A i \in 1..L : all[i] = data[i] /\ i \in 1..(L + M)
        /\ \A i \in 1..M : all[L + i] = msgs[i] /\ L + i \in 1..(L + M)
    <2>1. /\ Len(all) = L + M
          /\ \A i \in 1..(L + M) : all[i] = IF i <= L THEN data[i] ELSE msgs[i - L]
      <3>1. Len(data) = L
        BY <1>3
      <3> HIDE DEF L
      <3> QED
        BY <1>4, <3>1, ConcatProperties
    <2>2. \A i \in 1..L : i \in 1..(L + M) /\ i <= L
      BY <1>1, <1>4
    <2>3. \A i \in 1..M : L + i \in 1..(L + M) /\ ~(L + i <= L) /\ (L + i) - L = i
      BY <1>1, <1>4
    <2> QED
      BY <2>1, <2>2, <2>3
  <1>6. \A k \in 1..(L + M) : k \in 1..L \/ (k - L \in 1..M /\ k = L + (k - L) /\ k = L + M)
    <2> HIDE DEF L, M
    <2>1. L \in Nat
      BY <1>1
    <2>2. M \in Nat /\ M <= 1
      BY <1>4
    <2> QED
      BY <2>1, <2>2
  <1>7. ASSUME NEW k \in 1..Len(all)
        PROVE  \/ k \in 1..L /\ DataOf(all[k], n, m, order[k])
               \/ k = L + M /\ k - L \in 1..M /\ all[k] = msgs[k - L]
    <2>1. CASE k \in 1..L
      BY <1>3, <1>5, <2>1
    <2>2. CASE k \notin 1..L
      <3>1. k - L \in 1..M /\ k = L + (k - L) /\ k = L + M
        BY <1>5, <1>6, <2>2
      <3>2. all[L + (k - L)] = msgs[k - L]
        BY <1>5, <3>1
      <3> QED
        BY <3>1, <3>2
    <2> QED
      BY <2>1, <2>2
  <1>8. \A k \in 1..Len(all) : k < Len(all) => all[k].type = "DATA"
    <2> SUFFICES ASSUME NEW k \in 1..Len(all), k < Len(all) PROVE all[k].type = "DATA"
      OBVIOUS
    <2>1. k # L + M
      BY <1>5
    <2>2. DataOf(all[k], n, m, order[k])
      BY <1>7, <2>1
    <2> QED
      BY <2>2 DEF DataOf
  <1> HIDE DEF all, L, M
  <1>9. Send(all, erased, rest)
    BY DEF all, data
  <1>10. /\ OneControl'
         /\ \A id \in old :
               /\ id \in DOMAIN pool' /\ pool'[id] = pool[id] /\ IsData(id)
               /\ \A x : Awaiting(evlist', id, x) <=> Awaiting(rest, id, x)
         /\ \A id \in DOMAIN pool' : id \notin old =>
               \E k \in 1..Len(all) : id = variousIDs + k /\ pool'[id] = all[k]
         /\ \A k \in 1..Len(all) :
               /\ variousIDs + k \in DOMAIN pool'
               /\ variousIDs + k \notin old
               /\ pool'[variousIDs + k] = all[k]
               /\ all[k].type = "DATA" =>
                     \A x \in conn'[n] : Awaiting(evlist', variousIDs + k, x)
    BY <1>2, <1>8, <1>9, SendView
  <1> HIDE DEF old
  <1>11. ASSUME NEW id \in DOMAIN pool', id \notin old
         PROVE  \/ \E k \in 1..M : pool'[id] = msgs[k]
                \/ \E k \in 1..L : id = variousIDs + k /\ DataOf(pool'[id], n, m, order[k])
    BY <1>7, <1>10, <1>11
  <1>12. \A k \in 1..L : order[k] \in S
    BY <1>1 DEF L
  <1>13. ASSUME NEW p \in S
         PROVE  \E id \in DOMAIN pool' :
                   id \notin old /\ DataOf(pool'[id], n, m, p) /\ Awaiting(evlist', id, m)
    <2>1. PICK k \in 1..L : order[k] = p
      BY <1>1
    <2>2. k \in 1..Len(all) /\ DataOf(all[k], n, m, p)
      BY <1>3, <1>5, <2>1
    <2>3. /\ variousIDs + k \in DOMAIN pool' /\ variousIDs + k \notin old
          /\ pool'[variousIDs + k] = all[k] /\ Awaiting(evlist', variousIDs + k, m)
      BY <1>10, <2>2 DEF DataOf
    <2> QED
      BY <2>2, <2>3
  <1>14. ASSUME NEW x \in DOMAIN pool', NEW y \in DOMAIN pool', x # y, x \notin old,
                y \notin old, pool'[x].type = "DATA", pool'[y].type = "DATA"
         PROVE  pool'[x].ids \cap pool'[y].ids = {}
    <2>1. \A k \in 1..M : msgs[k].type # "DATA"
      BY DEF M
    <2>2. PICK i \in 1..L : x = variousIDs + i /\ DataOf(pool'[x], n, m, order[i])
      BY <1>11, <1>14, <2>1
    <2>3. PICK j \in 1..L : y = variousIDs + j /\ DataOf(pool'[y], n, m, order[j])
      BY <1>11, <1>14, <2>1
    <2>4. order[i] # order[j]
      BY <1>1, <1>14, <2>2, <2>3
    <2> QED
      BY <2>2, <2>3, <2>4 DEF DataOf
  <1> QED
    BY <1>10, <1>11, <1>12, <1>13, <1>14 DEF old, M, DataSent

\* Below a control packet there are only data packets.
LEMMA ControlData ==
    ASSUME NEW erased, NEW rest,
           StackOK(rest, [i \in DOMAIN pool \ erased |-> pool[i]], conn', variousIDs),
           OnlyData(rest, pool)
    PROVE  \A id \in DOMAIN pool \ erased : IsData(id)
  <1> DEFINE pl == [i \in DOMAIN pool \ erased |-> pool[i]]
  <1>1. DOMAIN pl = DOMAIN pool \ erased /\ StackOK(rest, pl, conn', variousIDs)
    OBVIOUS
  <1> HIDE DEF pl
  <1>2. \A id \in DOMAIN pl : \E i \in 1..Len(rest) : rest[i].ev = "TX" /\ rest[i].id = id
    BY <1>1 DEF StackOK
  <1> QED
    BY <1>1, <1>2 DEF OnlyData, IsData

\* Data packets of n for m, and nothing behind.
LEMMA DataAlone ==
    ASSUME conn' \in [Nodes -> SUBSET Nodes], NEW n \in Nodes, NEW m \in Nodes,
           m \in conn'[n], NEW S \in SUBSET PktIDs, NEW order \in Orders(S), NEW rep \in Nat,
           NEW erased, NEW rest,
           StackOK(rest, [i \in DOMAIN pool \ erased |-> pool[i]], conn', variousIDs),
           OnlyData(rest, pool),
           Send(DataFor(n, m, order, rep), erased, rest)
    PROVE  DataSent(n, m, S, <<>>, erased, rest)
  <1> DEFINE data == DataFor(n, m, order, rep)
  <1> DEFINE none == <<>>
  <1>1. Sendable(data, n, conn')
    BY SendableData
  <1>2. /\ Sendable(none, n, conn') /\ Len(none) <= 1
        /\ \A k \in 1..Len(none) : none[k].type # "DATA"
    BY DEF Sendable
  <1>3. Send(data \o none, erased, rest)
    <2>1. PICK S1 : data \in Seq(S1)
      BY <1>1 DEF Sendable
    <2>2. data \o none = data
      BY <2>1, ConcatEmptySeq
    <2> QED
      BY <2>2
  <1> HIDE DEF none
  <1>4. DataSent(n, m, S, none, erased, rest)
    BY <1>2, <1>3, DataView
  <1> QED
    BY <1>4 DEF none


\* No handler changes the settings, the time or the packets of the sources.
Frame == UNCHANGED <<Set, now, origin>>

LEMMA FrameFacts ==
    ASSUME Frame
    PROVE  /\ DelMech' = DelMech /\ Known' = Known /\ origin' = origin
           /\ KeepsDelivered' <=> KeepsDelivered
           /\ NoDuplicatesSupport' <=> NoDuplicatesSupport
           /\ ExchangeDirectSummary' <=> ExchangeDirectSummary
           /\ \A p : IsAlive(p)' <=> IsAlive(p)
  BY DEF Frame, DelMech, Known, KeepsDelivered, NoDuplicatesSupport, ExchangeDirectSummary,
     IsAlive, TTL

\* The control packet on top, and what lies below.
LEMMA ControlStep ==
    ASSUME IInv, OneControl, NEW r, Receiving(r), pool[Top.id].type # "DATA"
    PROVE  /\ r = pool[Top.id].next
           /\ StackOK(RestAfter(r), [i \in DOMAIN pool \ {Top.id} |-> pool[i]],
                      conn', variousIDs)
           /\ OnlyData(RestAfter(r), pool)
           /\ \A id \in DOMAIN pool \ {Top.id} : \A x :
                 Awaiting(RestAfter(r), id, x) <=> Awaiting(evlist, id, x)
  <1>1. /\ RestAfter(r) = Tail(evlist)
        /\ StackOK(RestAfter(r), [i \in DOMAIN pool \ {Top.id} |-> pool[i]],
                   conn', variousIDs)
    BY ControlFacts
  <1>2. Top = evlist[1] /\ evlist # <<>> /\ InTransit(Top, pool, conn, variousIDs)
    BY TopFacts
  <1>3. r = pool[Top.id].next
    BY <1>2 DEF InTransit, Receiving
  <1>4. /\ OnlyData(Tail(evlist), pool)
        /\ \A id, x : Awaiting(Tail(evlist), id, x) => Awaiting(evlist, id, x)
        /\ \A id, x : Awaiting(evlist, id, x) /\ id # evlist[1].id
                         => Awaiting(Tail(evlist), id, x)
    BY <1>2, TailData
  <1> QED
    BY <1>1, <1>2, <1>3, <1>4

\* Below a data packet there are only data packets.
LEMMA AllData ==
    ASSUME IInv, OneControl, NEW r, Receiving(r), pool[Top.id].type = "DATA"
    PROVE  \A id \in DOMAIN pool : IsData(id)
  <1> SUFFICES ASSUME NEW id \in DOMAIN pool PROVE IsData(id)
    OBVIOUS
  <1>1. PICK i \in 1..Len(evlist) : evlist[i].ev = "TX" /\ evlist[i].id = id
    BY DEF IInv, StackOK
  <1>2. Top = evlist[1]
    BY TopFacts
  <1>3. CASE i = 1
    BY <1>1, <1>2, <1>3 DEF IsData
  <1>4. CASE i # 1
    <2>1. i \in 2..Len(evlist)
      BY <1>4
    <2> QED
      BY <1>1, <2>1 DEF OneControl
  <1> QED
    BY <1>3, <1>4

\* Reading a data packet takes one reception from the stack, and nothing else.
LEMMA AccessView ==
    ASSUME IInv, OneControl, NEW r, Receiving(r), pool[Top.id].type = "DATA",
           Access(Top.id, RestAfter(r))
    PROVE  /\ OneControl'
           /\ \A id \in DOMAIN pool' :
                 /\ id \in DOMAIN pool /\ IsData(id) /\ IsData(id)'
                 /\ pool'[id].prev = pool[id].prev /\ pool'[id].next = pool[id].next
                 /\ pool'[id].ids = pool[id].ids /\ pool'[id].rep = pool[id].rep
           /\ \A id, x : Awaiting(evlist', id, x)
                 <=> Awaiting(evlist, id, x) /\ ~(id = Top.id /\ x = r)
           /\ \A id, x : Awaiting(evlist', id, x) => id \in DOMAIN pool'
  <1> DEFINE n == Len(evlist)
  <1> DEFINE tail == Tail(evlist)
  <1> DEFINE e == [Top EXCEPT !.rcv = @ \ {r}]
  <1>1. /\ Top = evlist[1] /\ evlist # <<>> /\ Top \in Transmission /\ Top.id \in DOMAIN pool
        /\ pool[Top.id] \in Message /\ Top.ev = "TX"
    BY TopFacts, TypeFacts DEF Receiving, TopIs, IsPacket
  <1>2. /\ evlist \in Seq(Event) /\ n \in Nat \ {0} /\ Len(tail) = n - 1 /\ tail \in Seq(Event)
        /\ \A i \in 1..(n - 1) : tail[i] = evlist[i + 1]
    BY <1>1 DEF IInv, StackOK
  <1>3. \A id \in DOMAIN pool : IsData(id)
    BY AllData
  <1>4. \A id \in DOMAIN pool' :
           /\ id \in DOMAIN pool /\ IsData(id)'
           /\ pool'[id].prev = pool[id].prev /\ pool'[id].next = pool[id].next
           /\ pool'[id].ids = pool[id].ids /\ pool'[id].rep = pool[id].rep
    <2>1. CASE pool[Top.id].access = 1
      <3>1. pool' = [i \in DOMAIN pool \ {Top.id} |-> pool[i]]
        BY <2>1 DEF Access, Accessed
      <3> QED
        BY <1>3, <3>1 DEF IsData
    <2>2. CASE pool[Top.id].access # 1
      <3>1. pool' = [pool EXCEPT ![Top.id].access = @ - 1]
        BY <2>2 DEF Access, Accessed
      <3>2. /\ DOMAIN pool' = DOMAIN pool
            /\ \A i \in DOMAIN pool : i # Top.id => pool'[i] = pool[i]
            /\ pool'[Top.id] = [pool[Top.id] EXCEPT !.access = @ - 1]
        BY <1>1, <3>1
      <3>3. /\ pool'[Top.id].prev = pool[Top.id].prev /\ pool'[Top.id].next = pool[Top.id].next
            /\ pool'[Top.id].ids = pool[Top.id].ids /\ pool'[Top.id].type = pool[Top.id].type
            /\ pool'[Top.id].rep = pool[Top.id].rep
        BY <1>1, <3>2 DEF Message
      <3> QED
        BY <1>3, <3>2, <3>3 DEF IsData
    <2> QED
      BY <2>1, <2>2
  <1>5. StackOK(evlist', pool', conn', variousIDs')
    BY AccessStack
  <1>6. ASSUME NEW id, NEW x, Awaiting(evlist', id, x) PROVE id \in DOMAIN pool'
    <2>1. PICK i \in 1..Len(evlist') : evlist'[i].ev = "TX" /\ evlist'[i].id = id
      BY <1>6 DEF Awaiting
    <2> QED
      BY <1>5, <2>1 DEF StackOK, InTransit
  <1>7. OneControl'
    <2> SUFFICES ASSUME NEW i \in 2..Len(evlist'), evlist'[i].ev = "TX"
                 PROVE  pool'[evlist'[i].id].type = "DATA"
      BY DEF OneControl, IsData
    <2>1. i \in 1..Len(evlist')
      BY <1>5 DEF StackOK
    <2>2. evlist'[i].id \in DOMAIN pool'
      BY <1>5, <2>1 DEF StackOK, InTransit
    <2> QED
      BY <1>4, <2>2 DEF IsData
  <1>8. \A i \in 1..n : evlist[i].ev = "TX" /\ evlist[i].id = Top.id => i = 1
    BY <1>1, <1>2 DEF IInv, StackOK
  <1>9. \A id, x : Awaiting(tail, id, x) <=>
           \E i \in 1..n : i # 1 /\ evlist[i].ev = "TX" /\ evlist[i].id = id /\ x \in evlist[i].rcv
    <2>1. ASSUME NEW id, NEW x, Awaiting(tail, id, x)
          PROVE  \E i \in 1..n : i # 1 /\ evlist[i].ev = "TX" /\ evlist[i].id = id /\ x \in evlist[i].rcv
      <3>1. PICK i \in 1..(n - 1) : tail[i].ev = "TX" /\ tail[i].id = id /\ x \in tail[i].rcv
        BY <1>2, <2>1 DEF Awaiting
      <3>2. i + 1 \in 1..n /\ i + 1 # 1 /\ tail[i] = evlist[i + 1]
        BY <1>2
      <3> QED
        BY <3>1, <3>2
    <2>2. ASSUME NEW id, NEW x, NEW i \in 1..n, i # 1, evlist[i].ev = "TX", evlist[i].id = id,
                 x \in evlist[i].rcv
          PROVE  Awaiting(tail, id, x)
      <3>1. i - 1 \in 1..(n - 1) /\ (i - 1) + 1 = i
        BY <1>2, <2>2
      <3>2. tail[i - 1] = evlist[i]
        BY <1>2, <3>1
      <3> QED
        BY <1>2, <2>2, <3>1, <3>2 DEF Awaiting
    <2> QED
      BY <2>1, <2>2
  <1>10. \A id, x : Awaiting(evlist, id, x) <=>
            Awaiting(tail, id, x) \/ (id = Top.id /\ x \in Top.rcv)
    <2>1. \A id, x : Awaiting(evlist, id, x) <=>
             \E i \in 1..n : evlist[i].ev = "TX" /\ evlist[i].id = id /\ x \in evlist[i].rcv
      BY DEF Awaiting
    <2>2. 1 \in 1..n /\ evlist[1].ev = "TX" /\ evlist[1].id = Top.id /\ evlist[1].rcv = Top.rcv
      BY <1>1, <1>2
    <2> QED
      BY <1>9, <2>1, <2>2
  <1>11. \A x : ~Awaiting(tail, Top.id, x)
    BY <1>8, <1>9
  <1>12. \A id, x : Awaiting(evlist', id, x) <=>
            Awaiting(tail, id, x) \/ (id = Top.id /\ x \in Top.rcv \ {r})
    <2>1. CASE Top.rcv = {r}
      <3>1. evlist' = tail
        BY <2>1 DEF Access, RestAfter
      <3> QED
        BY <2>1, <3>1
    <2>2. CASE Top.rcv # {r}
      <3>1. evlist' = <<e>> \o tail
        BY <2>2 DEF Access, RestAfter
      <3>2. e \in Event /\ e.ev = "TX" /\ e.id = Top.id /\ e.rcv = Top.rcv \ {r}
        BY <1>1 DEF Transmission, Event
      <3> HIDE DEF e
      <3>3. <<e>> \in Seq(Event) /\ Len(<<e>>) = 1 /\ <<e>>[1] = e
        BY <3>2
      <3> HIDE DEF tail
      <3>4. /\ Len(<<e>> \o tail) = 1 + (n - 1)
            /\ \A i \in 1..(1 + (n - 1)) : (<<e>> \o tail)[i] =
                   IF i <= 1 THEN <<e>>[i] ELSE tail[i - 1]
        BY <1>2, <3>3, ConcatProperties
      <3>5. /\ Len(evlist') = n /\ evlist'[1] = e
            /\ \A i \in 1..(n - 1) : evlist'[i + 1] = tail[i] /\ i + 1 \in 1..n
        <4>1. 1 \in 1..(1 + (n - 1)) /\ 1 + (n - 1) = n
          BY <1>2
        <4>2. \A i \in 1..(n - 1) : i + 1 \in 1..(1 + (n - 1)) /\ ~(i + 1 <= 1) /\ (i + 1) - 1 = i
          BY <1>2
        <4> QED
          BY <3>1, <3>3, <3>4, <4>1, <4>2
      <3>6. ASSUME NEW id, NEW x, Awaiting(evlist', id, x)
            PROVE  Awaiting(tail, id, x) \/ (id = Top.id /\ x \in Top.rcv \ {r})
        <4>1. PICK i \in 1..n : evlist'[i].ev = "TX" /\ evlist'[i].id = id /\ x \in evlist'[i].rcv
          BY <3>5, <3>6 DEF Awaiting
        <4>2. CASE i = 1
          BY <3>2, <3>5, <4>1, <4>2
        <4>3. CASE i # 1
          <5>1. i - 1 \in 1..(n - 1) /\ (i - 1) + 1 = i
            BY <1>2, <4>3
          <5>2. evlist'[i] = tail[i - 1]
            BY <3>5, <5>1
          <5> QED
            BY <1>2, <4>1, <5>1, <5>2 DEF Awaiting
        <4> QED
          BY <4>2, <4>3
      <3>7. ASSUME NEW id, NEW x, Awaiting(tail, id, x)
            PROVE  Awaiting(evlist', id, x)
        <4>1. PICK i \in 1..(n - 1) : tail[i].ev = "TX" /\ tail[i].id = id /\ x \in tail[i].rcv
          BY <1>2, <3>7 DEF Awaiting
        <4> QED
          BY <3>5, <4>1 DEF Awaiting
      <3>8. \A x \in Top.rcv \ {r} : Awaiting(evlist', Top.id, x)
        <4>1. 1 \in 1..n
          BY <1>2
        <4> QED
          BY <3>2, <3>5, <4>1 DEF Awaiting
      <3> QED
        BY <3>6, <3>7, <3>8
    <2> QED
      BY <2>1, <2>2
  <1>13. \A id, x : Awaiting(evlist', id, x) <=> Awaiting(evlist, id, x) /\ ~(id = Top.id /\ x = r)
    BY <1>10, <1>11, <1>12
  <1> QED
    BY <1>3, <1>4, <1>6, <1>7, <1>13

-----------------------------------------------------------------------------
(* Sums over finite sets.  SumFunctionOnSet is a recursive function that   *)
(* takes the elements of a set one after the other, as CHOOSE picks them;  *)
(* here it is shown that the order does not matter.  The induction is over *)
(* sets of numbers and of sets, which have least elements.                 *)

\* A nonempty set of numbers has a least element.
LEMMA LeastNumber ==
    ASSUME NEW T \in SUBSET Nat, T # {}
    PROVE  \E x \in T : \A y \in T : x <= y
  <1> DEFINE R == OpToRel(<, Nat)
  <1>1. IsWellFoundedOn(R, Nat)
    BY NatLessThanWellFounded
  <1>2. \A x, y \in Nat : x < y <=> <<x, y>> \in R
    BY DEF OpToRel
  <1> HIDE DEF R
  <1>3. PICK x \in T : \A y \in T : ~(<<y, x>> \in R)
    BY <1>1, WFMin
  <1>4. \A y \in T : ~(y < x)
    BY <1>2, <1>3
  <1> QED
    BY <1>4

\* A set of numbers that has 0 and with each number the next one has them all.
LEMMA NumbersFromZero ==
    ASSUME NEW P \in SUBSET Nat, 0 \in P, \A k \in P : k + 1 \in P
    PROVE  P = Nat
  <1>1. SUFFICES ASSUME Nat \ P # {} PROVE FALSE
    OBVIOUS
  <1>2. PICK k \in Nat \ P : \A y \in Nat \ P : k <= y
    BY <1>1, LeastNumber
  <1>3. k # 0 /\ k - 1 \in Nat
    BY <1>2
  <1>4. k - 1 \in P
    BY <1>2, <1>3
  <1>5. (k - 1) + 1 \in P
    BY <1>4
  <1> QED
    BY <1>2, <1>3, <1>5

\* The element that is added first.
Pick(s) == CHOOSE x \in s : TRUE

\* A set of sets that has {}, and s if it has s without some element, has all
\* subsets of S.
LEMMA SubsetsFromEmpty ==
    ASSUME NEW S, IsFiniteSet(S), NEW P, {} \in P,
           \A s \in SUBSET S : s # {} /\ s \ {Pick(s)} \in P => s \in P
    PROVE  SUBSET S \subseteq P
  <1> DEFINE Q == {k \in Nat : \A s \in SUBSET S : Cardinality(s) = k => s \in P}
  <1>1. \A s \in SUBSET S : IsFiniteSet(s) /\ Cardinality(s) \in Nat
    BY FS_Subset, FS_CardinalityType
  <1>2. 0 \in Q
    <2>1. ASSUME NEW s \in SUBSET S, Cardinality(s) = 0 PROVE s \in P
      <3>1. s = {}
        BY <1>1, <2>1, FS_EmptySet
      <3> QED
        BY <3>1
    <2> QED
      BY <2>1
  <1>3. ASSUME NEW k \in Q PROVE k + 1 \in Q
    <2>1. ASSUME NEW s \in SUBSET S, Cardinality(s) = k + 1 PROVE s \in P
      <3>1. s # {}
        BY <2>1, FS_EmptySet
      <3>2. PICK x : x = Pick(s)
        OBVIOUS
      <3>3. x \in s
        BY <3>1, <3>2 DEF Pick
      <3>4. Cardinality(s \ {x}) = Cardinality(s) - 1
        BY <1>1, <3>3, FS_RemoveElement
      <3>5. Cardinality(s \ {x}) = k
        BY <2>1, <3>4
      <3>6. s \ {x} \in P
        BY <1>3, <3>5
      <3> QED
        BY <3>1, <3>2, <3>6
    <2> QED
      BY <1>3, <2>1
  <1>4. Q = Nat
    <2>1. Q \in SUBSET Nat
      OBVIOUS
    <2> HIDE DEF Q
    <2> QED
      BY <1>2, <1>3, <2>1, NumbersFromZero
  <1> QED
    BY <1>1, <1>4

-----------------------------------------------------------------------------
(* The recursive function.                                                 *)

\* The function g folds the subsets of S: its value for {} is e, for another
\* set that of f for one element and the value for the others.
FoldsTo(f, e, S, g) ==
    g = [s \in SUBSET S |-> IF s = {} THEN e ELSE f[<<Pick(s), g[s \ {Pick(s)}]>>]]

\* There is such a function.
LEMMA FoldExists ==
    ASSUME NEW f, NEW e, NEW S, IsFiniteSet(S)
    PROVE  \E g : FoldsTo(f, e, S, g)
  <1> DEFINE Upto(k, g) ==
        g = [s \in SUBSET S |-> IF s = {} \/ Cardinality(s) > k THEN e
                                ELSE f[<<Pick(s), g[s \ {Pick(s)}]>>]]
  <1> DEFINE P == {k \in Nat : \E g : Upto(k, g)}
  <1>1. \A s \in SUBSET S : IsFiniteSet(s) /\ Cardinality(s) \in Nat
    BY FS_Subset, FS_CardinalityType
  <1>2. \A s \in SUBSET S : s # {} => /\ Pick(s) \in s /\ s \ {Pick(s)} \in SUBSET S
                                      /\ Cardinality(s \ {Pick(s)}) = Cardinality(s) - 1
                                      /\ Cardinality(s) # 0
    <2> SUFFICES ASSUME NEW s \in SUBSET S, s # {}
                 PROVE  /\ Pick(s) \in s /\ s \ {Pick(s)} \in SUBSET S
                        /\ Cardinality(s \ {Pick(s)}) = Cardinality(s) - 1
                        /\ Cardinality(s) # 0
      OBVIOUS
    <2>1. Pick(s) \in s
      BY DEF Pick
    <2> QED
      BY <1>1, <2>1, FS_RemoveElement, FS_EmptySet
  <1>3. 0 \in P
    <2> DEFINE z == [s \in SUBSET S |-> e]
    <2>2. \A s \in SUBSET S : s = {} \/ Cardinality(s) > 0
      <3> SUFFICES ASSUME NEW s \in SUBSET S, s # {} PROVE Cardinality(s) > 0
        OBVIOUS
      <3>1. PICK c \in Nat : c = Cardinality(s)
        BY <1>1
      <3>2. c # 0
        BY <1>2, <3>1
      <3> QED
        BY <3>1, <3>2
    <2>1. Upto(0, z)
      BY <2>2
    <2> QED
      BY <2>1
  <1>4. ASSUME NEW k \in P PROVE k + 1 \in P
    <2>1. PICK g : Upto(k, g)
      BY <1>4
    <2> DEFINE h == [s \in SUBSET S |-> IF s = {} \/ Cardinality(s) > k + 1 THEN e
                                        ELSE f[<<Pick(s), g[s \ {Pick(s)}]>>]]
    <2>2. ASSUME NEW s \in SUBSET S, Cardinality(s) <= k PROVE h[s] = g[s]
      <3>1. g[s] = IF s = {} \/ Cardinality(s) > k THEN e ELSE f[<<Pick(s), g[s \ {Pick(s)}]>>]
        BY <2>1, Zenon
      <3>2. h[s] = IF s = {} \/ Cardinality(s) > k + 1 THEN e
                   ELSE f[<<Pick(s), g[s \ {Pick(s)}]>>]
        OBVIOUS
      <3>3. ~(Cardinality(s) > k) /\ ~(Cardinality(s) > k + 1)
        BY <1>1, <1>4, <2>2
      <3> HIDE DEF h
      <3> QED
        BY <3>1, <3>2, <3>3
    <2>3. ASSUME NEW s \in SUBSET S, s # {}, ~(Cardinality(s) > k + 1)
          PROVE  h[s] = f[<<Pick(s), h[s \ {Pick(s)}]>>]
      <3>1. s \ {Pick(s)} \in SUBSET S /\ Cardinality(s \ {Pick(s)}) <= k
        BY <1>1, <1>2, <1>4, <2>3
      <3>2. h[s \ {Pick(s)}] = g[s \ {Pick(s)}]
        BY <2>2, <3>1
      <3> QED
        BY <2>3, <3>2
    <2>4. Upto(k + 1, h)
      BY <2>3
    <2> HIDE DEF h, Upto
    <2> QED
      BY <1>4, <2>4
  <1>5. P = Nat
    <2>1. P \in SUBSET Nat
      OBVIOUS
    <2> HIDE DEF P
    <2> QED
      BY <1>3, <1>4, <2>1, NumbersFromZero
  <1>6. PICK g : Upto(Cardinality(S), g)
    <2>1. Cardinality(S) \in Nat
      BY FS_CardinalityType
    <2> QED
      BY <1>5, <2>1
  <1>7. \A s \in SUBSET S : ~(Cardinality(s) > Cardinality(S))
    BY <1>1, FS_Subset, FS_CardinalityType
  <1>8. FoldsTo(f, e, S, g)
    BY <1>6, <1>7 DEF FoldsTo
  <1> QED
    BY <1>8

\* If f takes values of V to values of V, the values of its fold are in V.
LEMMA FoldType ==
    ASSUME NEW V, NEW e \in V, NEW S, IsFiniteSet(S), NEW f \in [S \X V -> V]
    PROVE  \E g \in [SUBSET S -> V] : FoldsTo(f, e, S, g)
  <1>1. PICK g : FoldsTo(f, e, S, g)
    BY FoldExists
  <1>2. \A s \in SUBSET S :
           g[s] = IF s = {} THEN e ELSE f[<<Pick(s), g[s \ {Pick(s)}]>>]
    BY <1>1, Zenon DEF FoldsTo
  <1>3. \A s \in SUBSET S : s # {} => Pick(s) \in S
    BY DEF Pick
  <1> DEFINE P == {s \in SUBSET S : g[s] \in V}
  <1>4. {} \in P
    BY <1>2
  <1>5. \A s \in SUBSET S : s # {} /\ s \ {Pick(s)} \in P => s \in P
    BY <1>2, <1>3
  <1>6. SUBSET S \subseteq P
    <2> HIDE DEF P
    <2> QED
      BY <1>4, <1>5, SubsetsFromEmpty
  <1>7. g = [s \in SUBSET S |-> g[s]]
    BY <1>1, Zenon DEF FoldsTo
  <1> QED
    BY <1>1, <1>6, <1>7

\* The function g sums f over the subsets of S.
Adds(f, S, g) ==
    g = [s \in SUBSET S |-> IF s = {} THEN 0 ELSE f[Pick(s)] + g[s \ {Pick(s)}]]

\* There is such a function.
LEMMA AddsExists ==
    ASSUME NEW f, NEW S, IsFiniteSet(S), \A x \in S : f[x] \in Int
    PROVE  \E g : Adds(f, S, g)
  <1> DEFINE step == [q \in S \X Int |-> f[q[1]] + q[2]]
  <1>1. step \in [S \X Int -> Int] /\ 0 \in Int
    OBVIOUS
  <1>2. \A x \in S : \A k \in Int : step[<<x, k>>] = f[x] + k
    OBVIOUS
  <1> HIDE DEF step
  <1>3. PICK g \in [SUBSET S -> Int] : FoldsTo(step, 0, S, g)
    BY <1>1, FoldType
  <1>4. \A s \in SUBSET S : s # {} =>
           step[<<Pick(s), g[s \ {Pick(s)}]>>] = f[Pick(s)] + g[s \ {Pick(s)}]
    BY <1>2, <1>3 DEF Pick
  <1>5. g = [s \in SUBSET S |-> IF s = {} THEN 0 ELSE f[Pick(s)] + g[s \ {Pick(s)}]]
    BY <1>3, <1>4 DEF FoldsTo
  <1> QED
    BY <1>5 DEF Adds

\* It has integer values, and any element may be added first.
LEMMA AddsFacts ==
    ASSUME NEW f, NEW S, IsFiniteSet(S), \A x \in S : f[x] \in Int, NEW g, Adds(f, S, g)
    PROVE  /\ g[{}] = 0
           /\ \A s \in SUBSET S : g[s] \in Int
           /\ \A s \in SUBSET S : \A x \in s : g[s] = f[x] + g[s \ {x}]
           /\ (\A x \in S : f[x] \in Nat) => \A s \in SUBSET S : g[s] \in Nat
  <1>1. /\ g[{}] = 0
        /\ \A s \in SUBSET S : s # {} =>
              /\ Pick(s) \in s /\ Pick(s) \in S /\ s \ {Pick(s)} \in SUBSET S
              /\ g[s] = f[Pick(s)] + g[s \ {Pick(s)}]
    <2>1. \A s \in SUBSET S : g[s] = IF s = {} THEN 0 ELSE f[Pick(s)] + g[s \ {Pick(s)}]
      BY Zenon DEF Adds
    <2>2. \A s \in SUBSET S : s # {} => Pick(s) \in s
      BY DEF Pick
    <2> QED
      BY <2>1, <2>2
  <1>2. \A s \in SUBSET S : g[s] \in Int
    <2> DEFINE P == {s \in SUBSET S : g[s] \in Int}
    <2>1. {} \in P
      BY <1>1
    <2>2. \A s \in SUBSET S : s # {} /\ s \ {Pick(s)} \in P => s \in P
      BY <1>1
    <2>3. SUBSET S \subseteq P
      <3> HIDE DEF P
      <3> QED
        BY <2>1, <2>2, SubsetsFromEmpty
    <2> QED
      BY <2>3
  <1>3. \A s \in SUBSET S : \A x \in s : g[s] = f[x] + g[s \ {x}]
    <2> DEFINE P == {k \in Nat : \A s \in SUBSET S : Cardinality(s) = k
                                   => \A x \in s : g[s] = f[x] + g[s \ {x}]}
    <2>0. \A s \in SUBSET S : IsFiniteSet(s) /\ Cardinality(s) \in Nat
      BY FS_Subset, FS_CardinalityType
    <2>1. 0 \in P
      <3>1. \A s \in SUBSET S : Cardinality(s) = 0 => s = {}
        BY <2>0, FS_EmptySet
      <3> QED
        BY <3>1
    <2>2. ASSUME NEW k \in P PROVE k + 1 \in P
      <3> SUFFICES ASSUME NEW s \in SUBSET S, Cardinality(s) = k + 1, NEW x \in s
                   PROVE  g[s] = f[x] + g[s \ {x}]
        BY <2>2
      <3>1. PICK c : c = Pick(s)
        OBVIOUS
      <3>2. c \in s /\ c \in S /\ g[s] = f[c] + g[s \ {c}]
        BY <1>1, <3>1
      <3>3. ASSUME NEW y \in s, NEW z \in s, y # z
            PROVE  g[s \ {y}] = f[z] + g[(s \ {y}) \ {z}]
        <4>1. PICK t \in SUBSET S : t = s \ {y}
          OBVIOUS
        <4>2. Cardinality(t) = Cardinality(s) - 1
          BY <2>0, <4>1, FS_RemoveElement
        <4>3. Cardinality(t) = k /\ z \in t
          BY <2>2, <3>3, <4>1, <4>2
        <4> QED
          BY <2>2, <4>1, <4>3
      <3>4. CASE x # c
        <4>1. PICK t \in SUBSET S : t = s \ {c, x}
          OBVIOUS
        <4>2. (s \ {c}) \ {x} = t /\ (s \ {x}) \ {c} = t
          BY <4>1
        <4>3. g[s \ {c}] = f[x] + g[t] /\ g[s \ {x}] = f[c] + g[t]
          <5>1. g[s \ {c}] = f[x] + g[(s \ {c}) \ {x}]
            BY <3>2, <3>3, <3>4
          <5>2. g[s \ {x}] = f[c] + g[(s \ {x}) \ {c}]
            BY <3>2, <3>3, <3>4
          <5> QED
            BY <4>2, <5>1, <5>2
        <4>4. f[x] \in Int /\ f[c] \in Int /\ g[t] \in Int
          BY <1>2, <3>2
        <4> QED
          BY <3>2, <4>3, <4>4
      <3> QED
        BY <3>2, <3>4
    <2>3. P = Nat
      <3>1. P \in SUBSET Nat
        OBVIOUS
      <3> HIDE DEF P
      <3> QED
        BY <2>1, <2>2, <3>1, NumbersFromZero
    <2> QED
      BY <2>0, <2>3
  <1>4. ASSUME \A x \in S : f[x] \in Nat
        PROVE  \A s \in SUBSET S : g[s] \in Nat
    <2> DEFINE P == {s \in SUBSET S : g[s] \in Nat}
    <2>1. {} \in P
      BY <1>1
    <2>2. \A s \in SUBSET S : s # {} /\ s \ {Pick(s)} \in P => s \in P
      BY <1>1, <1>4
    <2>3. SUBSET S \subseteq P
      <3> HIDE DEF P
      <3> QED
        BY <2>1, <2>2, SubsetsFromEmpty
    <2> QED
      BY <2>3
  <1> QED
    BY <1>1, <1>2, <1>3, <1>4

\* Only the values of f on S matter, and a set may be summed within a larger one.
LEMMA AddsSame ==
    ASSUME NEW f, NEW h, NEW S, NEW T \in SUBSET S, IsFiniteSet(S), \A x \in T : f[x] = h[x],
           NEW g, Adds(f, S, g), NEW k, Adds(h, T, k)
    PROVE  g[T] = k[T]
  <1>1. /\ g[{}] = 0 /\ k[{}] = 0
        /\ \A s \in SUBSET T : s # {} =>
              /\ Pick(s) \in T
              /\ g[s] = f[Pick(s)] + g[s \ {Pick(s)}]
              /\ k[s] = h[Pick(s)] + k[s \ {Pick(s)}]
    <2>1. \A s \in SUBSET S : g[s] = IF s = {} THEN 0 ELSE f[Pick(s)] + g[s \ {Pick(s)}]
      BY Zenon DEF Adds
    <2>2. \A s \in SUBSET T : k[s] = IF s = {} THEN 0 ELSE h[Pick(s)] + k[s \ {Pick(s)}]
      BY Zenon DEF Adds
    <2>3. \A s \in SUBSET T : s # {} => Pick(s) \in s
      BY DEF Pick
    <2> QED
      BY <2>1, <2>2, <2>3
  <1> DEFINE P == {s \in SUBSET T : g[s] = k[s]}
  <1>2. {} \in P
    BY <1>1
  <1>3. \A s \in SUBSET T : s # {} /\ s \ {Pick(s)} \in P => s \in P
    BY <1>1
  <1>4. IsFiniteSet(T)
    BY FS_Subset
  <1>5. SUBSET T \subseteq P
    <2> HIDE DEF P
    <2> QED
      BY <1>2, <1>3, <1>4, SubsetsFromEmpty
  <1> QED
    BY <1>5

-----------------------------------------------------------------------------
(* Sums.                                                                   *)

\* A sum is a value of the recursive function.
LEMMA SumAdds ==
    ASSUME NEW f, NEW S, IsFiniteSet(S), \A x \in S : f[x] \in Int
    PROVE  \E g : Adds(f, S, g) /\ SumFunctionOnSet(f, S) = g[S]
  <1> DEFINE g == CHOOSE g : Adds(f, S, g)
  <1>1. Adds(f, S, g)
    BY AddsExists
  <1>2. SumFunctionOnSet(f, S) = g[S]
    BY DEF SumFunctionOnSet, FoldFunctionOnSet, MapThenFoldSet, Adds, Pick
  <1> QED
    BY <1>1, <1>2

\* The sum over the empty set, ...
LEMMA SumEmpty == \A f : SumFunctionOnSet(f, {}) = 0
  <1> SUFFICES ASSUME NEW f PROVE SumFunctionOnSet(f, {}) = 0
    OBVIOUS
  <1>1. IsFiniteSet({})
    BY FS_EmptySet
  <1>2. PICK g : Adds(f, {}, g) /\ SumFunctionOnSet(f, {}) = g[{}]
    BY <1>1, SumAdds
  <1> QED
    BY <1>1, <1>2, AddsFacts

\* ... its type, ...
LEMMA SumType ==
    ASSUME NEW f, NEW S, IsFiniteSet(S)
    PROVE  /\ (\A x \in S : f[x] \in Int) => SumFunctionOnSet(f, S) \in Int
           /\ (\A x \in S : f[x] \in Nat) => SumFunctionOnSet(f, S) \in Nat
  <1>1. ASSUME \A x \in S : f[x] \in Int
        PROVE  \E g : Adds(f, S, g) /\ SumFunctionOnSet(f, S) = g[S]
    BY <1>1, SumAdds
  <1>2. (\A x \in S : f[x] \in Nat) => \A x \in S : f[x] \in Int
    OBVIOUS
  <1> QED
    BY <1>1, <1>2, AddsFacts

\* ... what another element adds, ...
LEMMA SumElement ==
    ASSUME NEW f, NEW S, IsFiniteSet(S), \A x \in S : f[x] \in Int, NEW x \in S
    PROVE  SumFunctionOnSet(f, S) = f[x] + SumFunctionOnSet(f, S \ {x})
  <1>1. PICK g : Adds(f, S, g) /\ SumFunctionOnSet(f, S) = g[S]
    BY SumAdds
  <1>2. PICK T \in SUBSET S : T = S \ {x}
    OBVIOUS
  <1>3. IsFiniteSet(T)
    BY FS_Subset
  <1>4. PICK k : Adds(f, T, k) /\ SumFunctionOnSet(f, T) = k[T]
    BY <1>3, SumAdds
  <1>5. g[T] = k[T]
    BY <1>1, <1>4, AddsSame
  <1>6. g[S] = f[x] + g[S \ {x}]
    BY <1>1, AddsFacts
  <1> QED
    BY <1>1, <1>2, <1>4, <1>5, <1>6

\* ... and that only the values that are summed matter.
LEMMA SumSame ==
    ASSUME NEW f, NEW h, NEW S, IsFiniteSet(S), \A x \in S : f[x] \in Int /\ f[x] = h[x]
    PROVE  SumFunctionOnSet(f, S) = SumFunctionOnSet(h, S)
  <1>1. PICK g : Adds(f, S, g) /\ SumFunctionOnSet(f, S) = g[S]
    BY SumAdds
  <1>2. PICK k : Adds(h, S, k) /\ SumFunctionOnSet(h, S) = k[S]
    BY SumAdds
  <1>3. S \in SUBSET S
    OBVIOUS
  <1> QED
    BY <1>1, <1>2, <1>3, AddsSame

\* The sum over a single element.
LEMMA SumOne ==
    ASSUME NEW f, NEW x, f[x] \in Int
    PROVE  SumFunctionOnSet(f, {x}) = f[x]
  <1>1. PICK S : S = {x}
    OBVIOUS
  <1>2. IsFiniteSet(S) /\ S \ {x} = {}
    BY <1>1, FS_Singleton
  <1>3. SumFunctionOnSet(f, S) = f[x] + SumFunctionOnSet(f, S \ {x})
    BY <1>1, <1>2, SumElement
  <1>4. SumFunctionOnSet(f, S \ {x}) = 0
    BY <1>2, SumEmpty
  <1> QED
    BY <1>1, <1>3, <1>4

\* If one value passes something on to another one, the sum is as before.
LEMMA SumShift ==
    ASSUME NEW S, IsFiniteSet(S), NEW f \in [S -> Int], NEW h \in [S -> Int],
           NEW n \in S, NEW m \in S, n # m, f[n] + f[m] = h[n] + h[m],
           \A x \in S \ {n, m} : f[x] = h[x]
    PROVE  SumFunctionOnSet(f, S) = SumFunctionOnSet(h, S)
  <1>1. PICK T \in SUBSET S : T = S \ {n}
    OBVIOUS
  <1>2. PICK U \in SUBSET S : U = T \ {m}
    BY <1>1
  <1>3. IsFiniteSet(T) /\ IsFiniteSet(U)
    BY FS_Subset
  <1>4. /\ SumFunctionOnSet(f, S) = f[n] + SumFunctionOnSet(f, T)
        /\ SumFunctionOnSet(h, S) = h[n] + SumFunctionOnSet(h, T)
    BY <1>1, SumElement
  <1>5. /\ SumFunctionOnSet(f, T) = f[m] + SumFunctionOnSet(f, U)
        /\ SumFunctionOnSet(h, T) = h[m] + SumFunctionOnSet(h, U)
    BY <1>1, <1>2, <1>3, SumElement
  <1>6. SumFunctionOnSet(f, U) = SumFunctionOnSet(h, U)
    BY <1>1, <1>2, <1>3, SumSame
  <1>7. SumFunctionOnSet(f, U) \in Int
    BY <1>3, SumType
  <1>8. f[n] \in Int /\ f[m] \in Int /\ h[n] \in Int /\ h[m] \in Int
    OBVIOUS
  <1> QED
    BY <1>4, <1>5, <1>6, <1>7, <1>8

\* If all values but one are 0, the sum is that one.
LEMMA SumOnly ==
    ASSUME NEW S, IsFiniteSet(S), NEW f \in [S -> Int], NEW n \in S,
           \A x \in S \ {n} : f[x] = 0
    PROVE  SumFunctionOnSet(f, S) = f[n]
  <1>1. PICK T \in SUBSET S : T = S \ {n}
    OBVIOUS
  <1>2. IsFiniteSet(T)
    BY FS_Subset
  <1>3. SumFunctionOnSet(f, S) = f[n] + SumFunctionOnSet(f, T)
    BY <1>1, SumElement
  <1>4. PICK g : Adds(f, T, g) /\ SumFunctionOnSet(f, T) = g[T]
    BY <1>2, SumAdds
  <1>5. \A s \in SUBSET T : g[s] = IF s = {} THEN 0 ELSE f[Pick(s)] + g[s \ {Pick(s)}]
    BY <1>4, Zenon DEF Adds
  <1> DEFINE P == {s \in SUBSET T : g[s] = 0}
  <1>6. {} \in P
    BY <1>5
  <1>7. \A s \in SUBSET T : s # {} /\ s \ {Pick(s)} \in P => s \in P
    <2> SUFFICES ASSUME NEW s \in SUBSET T, s # {}, s \ {Pick(s)} \in P PROVE g[s] = 0
      OBVIOUS
    <2>1. Pick(s) \in T
      BY DEF Pick
    <2>2. f[Pick(s)] = 0
      BY <1>1, <2>1
    <2>3. g[s] = f[Pick(s)] + g[s \ {Pick(s)}] /\ g[s \ {Pick(s)}] = 0
      BY <1>5
    <2> QED
      BY <2>2, <2>3
  <1>8. SUBSET T \subseteq P
    <2> HIDE DEF P
    <2> QED
      BY <1>2, <1>6, <1>7, SubsetsFromEmpty
  <1>9. g[T] = 0
    BY <1>8
  <1> QED
    BY <1>3, <1>4, <1>9

-----------------------------------------------------------------------------
(* Products, and sums of what an operator makes of the elements of a set.  *)

\* The product of a set of natural numbers is one.
LEMMA ProductType ==
    ASSUME NEW S \in SUBSET Nat, IsFiniteSet(S)
    PROVE  ProductSet(S) \in Nat
  <1> DEFINE step == [q \in S \X Nat |-> q[1] * q[2]]
  <1>0. \A x, k \in Nat : x * k \in Nat
    OBVIOUS
  <1>1. step \in [S \X Nat -> Nat] /\ 1 \in Nat
    BY <1>0
  <1>2. \A x \in S : \A k \in Nat : step[<<x, k>>] = x * k
    OBVIOUS
  <1> HIDE DEF step
  <1> DEFINE Multiplies(g) ==
        g = [s \in SUBSET S |-> IF s = {} THEN 1
                                ELSE (CHOOSE x \in s : TRUE) * g[s \ {CHOOSE x \in s : TRUE}]]
  <1>3. PICK g \in [SUBSET S -> Nat] : FoldsTo(step, 1, S, g)
    BY <1>1, FoldType
  <1>4. \A s \in SUBSET S : s # {} =>
           step[<<Pick(s), g[s \ {Pick(s)}]>>] = Pick(s) * g[s \ {Pick(s)}]
    BY <1>2, <1>3 DEF Pick
  <1>5. Multiplies(g)
    BY <1>3, <1>4 DEF FoldsTo, Pick
  <1>6. PICK h : h = CHOOSE k : Multiplies(k)
    OBVIOUS
  <1>7. Multiplies(h) /\ ProductSet(S) = h[S]
    <2>1. Multiplies(h)
      <3> HIDE DEF Multiplies
      <3> QED
        BY <1>5, <1>6, Zenon
    <2> QED
      BY <1>6, <2>1 DEF ProductSet, FoldSet, MapThenFoldSet
  <1>8. /\ h[{}] = 1
        /\ \A s \in SUBSET S : s # {} => h[s] = Pick(s) * h[s \ {Pick(s)}]
    <2>1. \A s \in SUBSET S : h[s] = IF s = {} THEN 1 ELSE Pick(s) * h[s \ {Pick(s)}]
      BY <1>7, Zenon DEF Pick
    <2> QED
      BY <2>1, Zenon
  <1> HIDE DEF Multiplies
  <1>9. \A s \in SUBSET S : s # {} => Pick(s) \in Nat
    BY DEF Pick
  <1> DEFINE P == {s \in SUBSET S : h[s] \in Nat}
  <1>10. {} \in P
    BY <1>8
  <1>11. \A s \in SUBSET S : s # {} /\ s \ {Pick(s)} \in P => s \in P
    BY <1>0, <1>8, <1>9
  <1>12. SUBSET S \subseteq P
    <2> HIDE DEF P
    <2> QED
      BY <1>10, <1>11, SubsetsFromEmpty
  <1> QED
    BY <1>7, <1>12

-----------------------------------------------------------------------------
(* The conversation: what every message of the exchange that Epidemic      *)
(* routing and the protocols that replicate by utility have in common      *)
(* still guarantees while it is in transmission, and that the handlers     *)
(* keep it so.                                                             *)

Vaccinated(n, p) == DelMech = "VACCINE" /\ p \in delivered[n]

\* Packet p has been received by its destination, or it will be before the
\* instant is over.
Arriving(p) ==
    \/ p \in received
    \/ \E id \in DOMAIN pool :
          /\ IsData(id) /\ p \in pool[id].ids
          /\ pool[id].next = origin[p].dst /\ Awaiting(evlist, id, pool[id].next)

\* What is stored and known, whatever is in transmission.
StoredOK ==
    /\ \A n \in Nodes : \A p \in buffer[n] :
          p \in Known /\ origin[p].dst # n /\ ~Vaccinated(n, p)
    /\ \A n \in Nodes : delivered[n] \subseteq Known
    /\ god \subseteq Known
    /\ \A p \in received :
          /\ p \in Known
          /\ KeepsDelivered => p \in delivered[origin[p].dst]
          /\ DelMech = "CATACLYSM" => p \in god
    /\ NoDuplicatesSupport => duplicates = {}
    /\ \A p \in god : Arriving(p)
    /\ \A n \in Nodes : \A p \in delivered[n] : Arriving(p)
    /\ ~halted

\* A packet that may be sent to m is stored by n.
Offered(n, p) == p \in buffer[n] /\ IsAlive(p)

\* Node m can take packet p, as its destination or as a carrier.
Welcome(m, p) ==
    IF origin[p].dst = m
    THEN ~isDelivered(m, p) /\ (NoDuplicatesSupport => p \notin received)
    ELSE p \notin buffer[m] /\ ~Vaccinated(m, p)

\* Data packet id from n to m.
DataRight(id, n, m) ==
    /\ pool[id].prev = n /\ pool[id].next = m
    /\ \E p \in Known : pool[id].ids = {p}
    /\ \A p \in pool[id].ids : IsAlive(p) /\ (Awaiting(evlist, id, m) => Welcome(m, p))
    /\ \A x \in DOMAIN pool :
          x # id /\ IsData(x) => pool[x].ids \cap pool[id].ids = {}

NoData == \A id \in DOMAIN pool : ~IsData(id)

\* What is sent so far is for m itself.
DirectOnly(m) ==
    \A id \in DOMAIN pool : IsData(id) => \A p \in pool[id].ids : origin[p].dst = m

Ask(pkt, n, m) == pkt.prev = n /\ pkt.next = m

\* What n stores and may still offer to m is not what m is vaccinated against.
Unknown(n, m) == \A p \in buffer[n] : origin[p].dst # m => ~Vaccinated(m, p)

\* The protocols of this exchange: Epidemic routing, the spraying protocols
\* without utilities, and those that compare utilities.
Replicating ==
    /\ CongestionControl = "NOCC"
    /\ RT \in {"EPIDEMIC", "SPRAYANDWAIT", "MSFSPRAYANDWAIT", "Delegation.LTS", "Delegation.Enc", "Delegation.Prophet",
               "Delegation.Bet", "Delegation.Sim",
               "CnR.LTS", "CnR.Enc", "CnR.Prophet", "CnR.Bet", "CnR.Sim"}

ByUtility == RT \notin {"EPIDEMIC", "SPRAYANDWAIT", "MSFSPRAYANDWAIT"}

\* The messages about utilities, in an exchange that n began with m.  With
\* its answer to the summary, m may name packets that it stores already, as
\* its own.
UtilityRight(pkt, n, m) ==
    /\ ByUtility /\ DirectOnly(m)
    /\ \/ pkt.type = "REQUEST_CONTACTS" /\ Ask(pkt, n, m) /\ Unknown(n, m)
       \/ pkt.type \in {"CONTACTS", "DEST_PREDICT"} /\ Ask(pkt, m, n) /\ Unknown(n, m)
       \/ /\ pkt.type = "REQUEST_PKTS_UTILS" /\ Ask(pkt, m, n)
          /\ \A p \in pkt.body.ids :
                /\ p \in Known /\ Offered(n, p) /\ origin[p].dst # m
                /\ p \notin pkt.body.owned => Welcome(m, p)

\* The other control packets.
DeliveryRight(pkt, n, m) ==
    /\ pkt.ids \subseteq Known
    /\ CASE pkt.type = "ANTIPACKET" ->
              /\ Ask(pkt, n, m) /\ DelMech = "VACCINE" /\ NoData
              /\ \A p \in pkt.ids : Arriving(p)
         [] pkt.type = "ANTIPACKET_RESPONSE" ->
              /\ Ask(pkt, m, n) /\ DelMech = "VACCINE" /\ NoData
              /\ \A p \in pkt.ids : Arriving(p)
              /\ delivered[m] \subseteq pkt.ids
         [] pkt.type = "DIRECT_SUMMARY" ->
              /\ Ask(pkt, n, m) /\ ExchangeDirectSummary /\ NoData
              /\ \A p \in pkt.ids : Offered(n, p) /\ origin[p].dst = m
         [] pkt.type = "DIRECT_REQUEST" ->
              /\ Ask(pkt, m, n) /\ ExchangeDirectSummary /\ NoData
              /\ \A p \in pkt.ids : Offered(n, p) /\ origin[p].dst = m /\ ~isDelivered(m, p)
         [] pkt.type = "SUMMARY" ->
              /\ Ask(pkt, n, m) /\ DirectOnly(m)
              /\ \A p \in pkt.ids :
                    Offered(n, p) /\ origin[p].dst # m /\ ~Vaccinated(m, p)
         [] pkt.type = "REQUEST" ->
              /\ Ask(pkt, m, n) /\ DirectOnly(m)
              /\ \A p \in pkt.ids :
                    Offered(n, p) /\ origin[p].dst # m /\ Welcome(m, p)
         [] OTHER -> FALSE

ControlRight(pkt, n, m) == DeliveryRight(pkt, n, m) \/ UtilityRight(pkt, n, m)

\* All that is in transmission belongs to an exchange that n began with m.
Exchanging(n, m) ==
    /\ n # m
    /\ \A id \in DOMAIN pool :
          IF IsData(id) THEN DataRight(id, n, m) ELSE ControlRight(pool[id], n, m)

\* The inductive invariant, on top of IInv.
Conversation ==
    /\ OneControl
    /\ StoredOK
    /\ DOMAIN pool = {} \/ \E n, m \in Nodes : Exchanging(n, m)

-----------------------------------------------------------------------------
(* What handlers leave as it is.                                           *)

\* The settings of these protocols, which run without congestion control: the
\* summary follows the direct transfers, or the messages about utilities do,
\* or there is nothing to offer.
LEMMA SettingsFacts ==
    ASSUME SetOK, Replicating
    PROVE  /\ DelMech \in {"JUSTTTL", "NODUPS", "KEEPREP", "VACCINE", "CATACLYSM"}
           /\ LeavesBuffer <=> OffloaderDeletePkt
           /\ \A n, m, b :
                 \/ Proceed(n, m, b) = <<Control("SUMMARY", n, m, NotDestinedTo(b, m))>>
                 \/ ByUtility /\ Proceed(n, m, b) = <<Control("REQUEST_CONTACTS", n, m, {})>>
                 \/ ~ByUtility /\ NotDestinedTo(b, m) = {} /\ Proceed(n, m, b) = <<>>
  <1>1. Set \in Settings
    BY RoutingAssumption DEF SetOK
  <1>2. DelMech \in {"JUSTTTL", "NODUPS", "KEEPREP", "VACCINE", "CATACLYSM"}
    BY <1>1 DEF Settings, DelMech
  <1>3. /\ ~needsBufferInformation /\ ~isSingleCopy
        /\ RT \in SummaryProtocols \/ (RT \in ContactProtocols /\ ByUtility)
              \/ RT = "MSFSPRAYANDWAIT"
        /\ RT # "BUBBLERAP" /\ RT \notin DestinationProtocols
        /\ RT \in ContactProtocols => RT \notin SummaryProtocols /\ RT # "MSFSPRAYANDWAIT"
        /\ RT = "MSFSPRAYANDWAIT" => RT \notin SummaryProtocols
    BY DEF Replicating, ByUtility, needsBufferInformation, isSingleCopy, SummaryProtocols,
       ContactProtocols, DestinationProtocols
  <1>4. ASSUME NEW n, NEW m, NEW b
        PROVE  \/ AfterDirectTransfers(n, m, b)
                     = <<Control("SUMMARY", n, m, NotDestinedTo(b, m))>>
               \/ ByUtility /\ AfterDirectTransfers(n, m, b)
                     = <<Control("REQUEST_CONTACTS", n, m, {})>>
               \/ ~ByUtility /\ NotDestinedTo(b, m) = {} /\ AfterDirectTransfers(n, m, b) = <<>>
    <2> DEFINE s == <<Control("SUMMARY", n, m, NotDestinedTo(b, m))>>
    <2> DEFINE c == <<Control("REQUEST_CONTACTS", n, m, {})>>
    <2> SUFFICES \/ AfterDirectTransfers(n, m, b) = s
                 \/ ByUtility /\ AfterDirectTransfers(n, m, b) = c
                 \/ ~ByUtility /\ NotDestinedTo(b, m) = {} /\ AfterDirectTransfers(n, m, b) = <<>>
      OBVIOUS
    <2> HIDE DEF RT, SummaryProtocols, ContactProtocols, DestinationProtocols
    <2>1. CASE RT \in SummaryProtocols
      <3>1. RT \notin ContactProtocols /\ RT # "MSFSPRAYANDWAIT"
        BY <1>3, <2>1
      <3> QED
        BY <1>3, <2>1, <3>1 DEF AfterDirectTransfers
    <2>2. CASE RT \in ContactProtocols /\ ByUtility
      <3>1. RT \notin SummaryProtocols /\ RT # "MSFSPRAYANDWAIT"
        BY <1>3, <2>2
      <3>2. AfterDirectTransfers(n, m, b) = c
        BY <1>3, <2>2, <3>1 DEF AfterDirectTransfers
      <3> QED
        BY <2>2, <3>2
    <2>3. CASE RT = "MSFSPRAYANDWAIT"
      <3>1. RT \notin SummaryProtocols /\ RT \notin ContactProtocols
        BY <1>3, <2>3
      <3>2. CASE NotDestinedTo(b, m) # {}
        <4>1. AfterDirectTransfers(n, m, b) = s
          BY <1>3, <2>3, <3>1, <3>2 DEF AfterDirectTransfers
        <4> QED
          BY <4>1
      <3>3. CASE NotDestinedTo(b, m) = {}
        <4>1. AfterDirectTransfers(n, m, b) = <<>>
          BY <1>3, <2>3, <3>1, <3>3 DEF AfterDirectTransfers
        <4>2. ~ByUtility
          BY <2>3 DEF ByUtility
        <4> QED
          BY <3>3, <4>1, <4>2
      <3> QED
        BY <3>2, <3>3
    <2> QED
      BY <1>3, <2>1, <2>2, <2>3
  <1> QED
    BY <1>2, <1>3, <1>4 DEF LeavesBuffer, Proceed

\* A packet that is on its way to its destination stays so.
LEMMA ArrivingKept ==
    ASSUME received \subseteq received', origin' = origin,
           \A id \in DOMAIN pool : IsData(id) =>
              /\ id \in DOMAIN pool' /\ pool'[id] = pool[id]
              /\ \A x : Awaiting(evlist, id, x) => Awaiting(evlist', id, x)
    PROVE  \A p : Arriving(p) => Arriving(p)'
  BY DEF Arriving, IsData

\* Buffers may lose packets.
LEMMA StoredKept ==
    ASSUME StoredOK, Frame, \A n \in Nodes : buffer'[n] \subseteq buffer[n],
           UNCHANGED <<dmVars, statVars, halted>>, \A p : Arriving(p) => Arriving(p)'
    PROVE  StoredOK'
  <1>1. UNCHANGED <<delivered, god, received, duplicates, halted>>
    BY DEF dmVars, statVars
  <1>2. \A n, p : Vaccinated(n, p)' <=> Vaccinated(n, p)
    BY <1>1, FrameFacts DEF Vaccinated
  <1> QED
    BY <1>1, <1>2, FrameFacts DEF StoredOK

-----------------------------------------------------------------------------
(* Control packets.                                                        *)

\* What node m welcomes it welcomes as long as it stores and knows no more.
LEMMA WelcomeKept ==
    ASSUME Frame, NEW m, buffer'[m] \subseteq buffer[m], delivered'[m] = delivered[m],
           received' = received
    PROVE  \A p : Welcome(m, p) => Welcome(m, p)'
  BY FrameFacts DEF Welcome, isDelivered, Vaccinated

\* A data packet that stays as it was, while m welcomes it as before.
LEMMA DataKept ==
    ASSUME Frame, NEW n, NEW m, NEW id \in DOMAIN pool, DataRight(id, n, m),
           pool'[id].prev = pool[id].prev, pool'[id].next = pool[id].next,
           pool'[id].ids = pool[id].ids,
           Awaiting(evlist', id, m) =>
              Awaiting(evlist, id, m)
              /\ \A p \in pool[id].ids : Welcome(m, p) => Welcome(m, p)',
           \A x \in DOMAIN pool' :
              x # id /\ pool'[x].type = "DATA" => pool'[x].ids \cap pool[id].ids = {}
    PROVE  DataRight(id, n, m)'
  <1>1. pool'[id].prev = n /\ pool'[id].next = m
    BY DEF DataRight
  <1>2. \E p \in Known' : pool'[id].ids = {p}
    BY FrameFacts DEF DataRight
  <1>3. \A p \in pool'[id].ids : IsAlive(p)' /\ (Awaiting(evlist', id, m) => Welcome(m, p)')
    BY FrameFacts DEF DataRight
  <1> QED
    BY <1>1, <1>2, <1>3 DEF DataRight, IsData

\* A packet that r may send back to where the packet on top came from.
AnswerTo(pkt, r) ==
    /\ IsPacket(pkt) /\ pkt.type # "DATA"
    /\ pkt.prev = r /\ pkt.next = pool[Top.id].prev

\* Node r answers the control packet on top: the data packets stay.
LEMMA RepliedBy ==
    ASSUME IInv, OneControl, NEW r, Receiving(r), pool[Top.id].type # "DATA",
           NEW pkt, AnswerTo(pkt, r), Send(<<pkt>>, {Top.id}, RestAfter(r))
    PROVE  /\ OneControl'
           /\ \A id \in DOMAIN pool :
                 /\ IsData(id) <=> id # Top.id
                 /\ IsData(id) => /\ id \in DOMAIN pool' /\ pool'[id] = pool[id]
                                  /\ \A x : Awaiting(evlist', id, x) <=> Awaiting(evlist, id, x)
           /\ \A id \in DOMAIN pool' :
                 \/ id \in DOMAIN pool /\ IsData(id)
                 \/ pool'[id] = pkt
  <1>1. r \in Nodes /\ conn' \in [Nodes -> SUBSET Nodes] /\ Top.id \in DOMAIN pool
    BY TopFacts
  <1>3. Sendable(<<pkt>>, r, conn')
    BY <1>1, ControlFacts, SendableOne DEF AnswerTo
  <1>4. /\ StackOK(RestAfter(r), [i \in DOMAIN pool \ {Top.id} |-> pool[i]],
                   conn', variousIDs)
        /\ OnlyData(RestAfter(r), pool)
        /\ \A id \in DOMAIN pool \ {Top.id} : \A x :
              Awaiting(RestAfter(r), id, x) <=> Awaiting(evlist, id, x)
    BY ControlStep
  <1>6. /\ OneControl'
        /\ \A id \in DOMAIN pool \ {Top.id} :
              /\ id \in DOMAIN pool' /\ pool'[id] = pool[id] /\ IsData(id)
              /\ \A x : Awaiting(evlist', id, x) <=> Awaiting(RestAfter(r), id, x)
        /\ \A id \in DOMAIN pool' : id \notin DOMAIN pool \ {Top.id} => pool'[id] = pkt
    BY <1>1, <1>3, <1>4, ControlView
  <1>7. ~IsData(Top.id)
    BY DEF IsData
  <1> QED
    BY <1>4, <1>6, <1>7

\* A control packet of this class is such an answer.
LEMMA ControlAnswer ==
    ASSUME IInv, NEW r, Receiving(r), pool[Top.id].type # "DATA",
           NEW type \in Types \ {"DATA"}, NEW ids \in SUBSET PktIDs
    PROVE  AnswerTo(Control(type, r, pool[Top.id].prev, ids), r)
  <1>1. r \in Nodes /\ pool[Top.id].prev \in Nodes
    BY TopFacts, ControlFacts
  <1> QED
    BY <1>1, TypeFacts DEF AnswerTo, IsPacket, Message, Control

LEMMA Replied ==
    ASSUME IInv, OneControl, NEW r, Receiving(r), pool[Top.id].type # "DATA",
           NEW type \in Types \ {"DATA"}, NEW ids \in SUBSET PktIDs,
           Send(<<Control(type, r, pool[Top.id].prev, ids)>>, {Top.id}, RestAfter(r))
    PROVE  /\ OneControl'
           /\ \A id \in DOMAIN pool :
                 /\ IsData(id) <=> id # Top.id
                 /\ IsData(id) => /\ id \in DOMAIN pool' /\ pool'[id] = pool[id]
                                  /\ \A x : Awaiting(evlist', id, x) <=> Awaiting(evlist, id, x)
           /\ \A id \in DOMAIN pool' :
                 \/ id \in DOMAIN pool /\ IsData(id)
                 \/ pool'[id] = Control(type, r, pool[Top.id].prev, ids)
  <1>1. PICK pkt : pkt = Control(type, r, pool[Top.id].prev, ids)
    OBVIOUS
  <1>2. AnswerTo(pkt, r) /\ Send(<<pkt>>, {Top.id}, RestAfter(r))
    BY <1>1, ControlAnswer
  <1> QED
    BY <1>1, <1>2, RepliedBy

\* What may be said of a control packet may be said of the packet of the pool
\* that it is.
LEMMA ControlPooled ==
    ASSUME NEW n, NEW m, NEW pkt, NEW id, pool'[id] = pkt, ControlRight(pkt, n, m)'
    PROVE  ControlRight(pool[id], n, m)'
  BY DEF ControlRight, DeliveryRight, UtilityRight, Ask

\* The conversation goes on with this answer if it is right and the node that
\* is being met stores and knows no more than before, or no data is about.
LEMMA AnsweredBy ==
    ASSUME IInv, OneControl, StoredOK', Frame,
           NEW n \in Nodes, NEW m \in Nodes, Exchanging(n, m),
           NEW r, Receiving(r), pool[Top.id].type # "DATA",
           NEW pkt, AnswerTo(pkt, r), Send(<<pkt>>, {Top.id}, RestAfter(r)),
           NoData \/ (\A p : Welcome(m, p) => Welcome(m, p)'),
           ControlRight(pkt, n, m)'
    PROVE  Conversation'
  <1>1. /\ OneControl'
        /\ \A id \in DOMAIN pool :
              IsData(id) => /\ id \in DOMAIN pool' /\ pool'[id] = pool[id]
                            /\ \A x : Awaiting(evlist', id, x) <=> Awaiting(evlist, id, x)
        /\ \A id \in DOMAIN pool' :
              \/ id \in DOMAIN pool /\ IsData(id)
              \/ pool'[id] = pkt
    BY RepliedBy
  <1>2. pkt.type # "DATA"
    BY DEF AnswerTo
  <1>3. ASSUME NEW id \in DOMAIN pool', IsData(id)'
        PROVE  id \in DOMAIN pool /\ IsData(id) /\ pool'[id] = pool[id]
    BY <1>1, <1>2, <1>3 DEF IsData
  <1>4. ASSUME NEW id \in DOMAIN pool', IsData(id)'
        PROVE  DataRight(id, n, m)'
    <2>1. id \in DOMAIN pool /\ IsData(id) /\ pool'[id] = pool[id]
      BY <1>3, <1>4
    <2>2. DataRight(id, n, m)
      BY <2>1 DEF Exchanging
    <2>3. \A p : Welcome(m, p) => Welcome(m, p)'
      BY <2>1 DEF NoData
    <2>4. \A x \in DOMAIN pool' :
             x # id /\ pool'[x].type = "DATA" => pool'[x].ids \cap pool[id].ids = {}
      BY <1>3, <2>2 DEF DataRight, IsData
    <2> QED
      BY <1>1, <2>1, <2>2, <2>3, <2>4, DataKept
  <1>5. Exchanging(n, m)'
    <2>1. ASSUME NEW id \in DOMAIN pool', ~IsData(id)'
          PROVE  ControlRight(pool[id], n, m)'
      <3>1. pool'[id] = pkt
        BY <1>1, <2>1 DEF IsData
      <3> QED
        BY <3>1, ControlPooled
    <2> QED
      BY <1>4, <2>1, SMTT(40) DEF Exchanging
  <1> QED
    BY <1>1, <1>5 DEF Conversation

LEMMA Answered ==
    ASSUME IInv, OneControl, StoredOK', Frame,
           NEW n \in Nodes, NEW m \in Nodes, Exchanging(n, m),
           NEW r, Receiving(r), pool[Top.id].type # "DATA",
           NEW type \in Types \ {"DATA"}, NEW ids \in SUBSET PktIDs,
           NEW pkt, pkt = Control(type, r, pool[Top.id].prev, ids),
           Send(<<pkt>>, {Top.id}, RestAfter(r)),
           NoData \/ (\A p : Welcome(m, p) => Welcome(m, p)'),
           ControlRight(pkt, n, m)'
    PROVE  Conversation'
  <1>1. AnswerTo(pkt, r)
    BY ControlAnswer
  <1> QED
    BY <1>1, AnsweredBy

\* The vaccine of n reaches m, which no data packet is on its way to.
LEMMA AntipacketHeard ==
    ASSUME IInv, Conversation, Frame, NEW r, Receiving(r),
           ReceptionAntipacket(r, Top.id, pool[Top.id], RestAfter(r))
    PROVE  Conversation'
  <1> DEFINE pkt == pool[Top.id]
  <1> DEFINE info == delivered[r] \cup pkt.ids
  <1>1. /\ pkt.type = "ANTIPACKET"
        /\ delivered' = [delivered EXCEPT ![r] = info]
        /\ buffer' = [buffer EXCEPT ![r] = Cleaned(@, info)]
        /\ Send(<<Control("ANTIPACKET_RESPONSE", r, pkt.prev, info)>>, {Top.id}, RestAfter(r))
        /\ UNCHANGED <<god, statVars, halted>>
    BY DEF ReceptionAntipacket
  <1>2. r \in Nodes /\ Top.id \in DOMAIN pool /\ pkt.type # "DATA"
    BY <1>1, TopFacts
  <1>3. PICK n \in Nodes, m \in Nodes : Exchanging(n, m)
    BY <1>2 DEF Conversation
  <1>4. ControlRight(pkt, n, m)
    BY <1>2, <1>3 DEF Exchanging, IsData
  <1>5. /\ pkt.prev = n /\ pkt.next = m /\ DelMech = "VACCINE" /\ NoData
        /\ pkt.ids \subseteq Known /\ \A p \in pkt.ids : Arriving(p)
    BY <1>1, <1>4 DEF ControlRight, DeliveryRight, UtilityRight, Ask
  <1>6. r = m
    BY <1>2, <1>5, ControlStep DEF Conversation
  <1>7. DataOK /\ pkt.ids \in SUBSET PktIDs /\ info \in SUBSET PktIDs
    BY <1>1, <1>2, ControlFacts, TypeFacts DEF IInv, DataOK
  <1>8. /\ info \subseteq Known /\ \A p \in info : Arriving(p)
    BY <1>2, <1>5 DEF Conversation, StoredOK
  <1>9. \A p : Arriving(p) => Arriving(p)'
    BY <1>1, <1>5, ArrivingKept DEF Frame, NoData, statVars
  <1>10. /\ \A x \in Nodes : buffer'[x] = IF x = r THEN buffer[r] \ info ELSE buffer[x]
         /\ \A x \in Nodes : delivered'[x] = IF x = r THEN info ELSE delivered[x]
    BY <1>1, <1>2, <1>5, <1>7 DEF DataOK, Cleaned
  <1> HIDE DEF info, pkt
  <1>11. StoredOK'
    <2>1. /\ god' = god /\ received' = received /\ duplicates' = duplicates /\ ~halted'
          /\ StoredOK
      BY <1>1 DEF statVars, Conversation, StoredOK
    <2>2. ASSUME NEW x \in Nodes, NEW p \in buffer'[x]
          PROVE  p \in Known' /\ origin'[p].dst # x /\ ~Vaccinated(x, p)'
      BY <1>10, <2>1, <2>2, FrameFacts DEF StoredOK, Vaccinated
    <2>3. \A x \in Nodes : delivered'[x] \subseteq Known'
      BY <1>8, <1>10, <2>1, FrameFacts DEF StoredOK
    <2>4. \A x \in Nodes : \A p \in delivered'[x] : Arriving(p)'
      BY <1>8, <1>9, <1>10, <2>1 DEF StoredOK
    <2>5. \A p \in received' :
             /\ p \in Known'
             /\ KeepsDelivered' => p \in delivered'[origin'[p].dst]
             /\ (DelMech = "CATACLYSM")' => p \in god'
      <3>1. \A x \in Nodes : delivered[x] \subseteq delivered'[x]
        BY <1>10 DEF info
      <3>2. \A p \in Known : origin[p].dst \in Nodes
        <4>1. origin \in Seq([src : Nodes, dst : Nodes, time : 0..MaxTime])
          BY DEF IInv, NetOK
        <4>2. \A p \in 1..Len(origin) :
                 origin[p] \in [src : Nodes, dst : Nodes, time : 0..MaxTime]
          BY <4>1, ElementOfSeq
        <4> QED
          BY <4>2 DEF Known
      <3> QED
        BY <2>1, <3>1, <3>2, FrameFacts DEF StoredOK
    <2> QED
      BY <1>9, <2>1, <2>2, <2>3, <2>4, <2>5, FrameFacts DEF StoredOK
  <1>12. PICK new : new = Control("ANTIPACKET_RESPONSE", r, pkt.prev, info)
    OBVIOUS
  <1>13. ControlRight(new, n, m)'
    <2>1. new.type = "ANTIPACKET_RESPONSE" /\ new.prev = m /\ new.next = n /\ new.ids = info
      BY <1>5, <1>6, <1>12 DEF Control
    <2>2. NoData'
      <3>1. "ANTIPACKET_RESPONSE" \in Types \ {"DATA"}
        BY TypeFacts
      <3>2. \A id \in DOMAIN pool' :
               \/ id \in DOMAIN pool /\ IsData(id)
               \/ pool'[id] = Control("ANTIPACKET_RESPONSE", r, pool[Top.id].prev, info)
        <4>1. /\ OneControl /\ pool[Top.id].type # "DATA"
              /\ Send(<<Control("ANTIPACKET_RESPONSE", r, pool[Top.id].prev, info)>>, {Top.id}, RestAfter(r))
          BY <1>1, <1>2 DEF Conversation, pkt
        <4> QED
          BY <1>7, <3>1, <4>1, Replied
      <3>3. \A id \in DOMAIN pool' : pool'[id] = new
        BY <1>5, <1>12, <3>2 DEF NoData, pkt
      <3> QED
        BY <2>1, <3>3 DEF NoData, IsData
    <2>3. delivered'[m] \subseteq new.ids
      BY <1>2, <1>6, <1>10, <2>1
    <2> QED
      BY <1>5, <1>8, <1>9, <2>1, <2>2, <2>3, FrameFacts DEF ControlRight, DeliveryRight, UtilityRight, Ask
  <1>14. "ANTIPACKET_RESPONSE" \in Types \ {"DATA"}
    BY TypeFacts
  <1> QED
    BY <1>1, <1>2, <1>3, <1>5, <1>7, <1>11, <1>12, <1>13, <1>14, Answered DEF Conversation, pkt

\* Node m is offered packets for itself, and asks for those it has not received.
LEMMA DirectSummaryHeard ==
    ASSUME IInv, Conversation, Frame, NEW r, Receiving(r),
           ReceptionDirectSummary(r, Top.id, pool[Top.id], RestAfter(r))
    PROVE  Conversation'
  <1> DEFINE pkt == pool[Top.id]
  <1> DEFINE live == IF pkt.ids = {} THEN buffer[r] ELSE Alive(buffer[r])
  <1> DEFINE wanted == {p \in pkt.ids : p \notin live /\ ~isDelivered(r, p)}
  <1>1. /\ pkt.type = "DIRECT_SUMMARY"
        /\ buffer' = [buffer EXCEPT ![r] = live]
        /\ Send(<<Control("DIRECT_REQUEST", r, pkt.prev, wanted)>>, {Top.id}, RestAfter(r))
        /\ UNCHANGED <<dmVars, statVars, halted>>
    BY DEF ReceptionDirectSummary
  <1>2. r \in Nodes /\ Top.id \in DOMAIN pool /\ pkt.type # "DATA"
    BY <1>1, TopFacts
  <1>3. PICK n \in Nodes, m \in Nodes : Exchanging(n, m)
    BY <1>2 DEF Conversation
  <1>4. ControlRight(pkt, n, m)
    BY <1>2, <1>3 DEF Exchanging, IsData
  <1>5. /\ pkt.prev = n /\ pkt.next = m /\ ExchangeDirectSummary /\ NoData
        /\ pkt.ids \subseteq Known /\ n # m
        /\ \A p \in pkt.ids : Offered(n, p) /\ origin[p].dst = m
    BY <1>1, <1>3, <1>4 DEF ControlRight, DeliveryRight, UtilityRight, Ask, Exchanging
  <1>6. r = m
    BY <1>2, <1>5, ControlStep DEF Conversation
  <1>7. DataOK /\ pkt.ids \in SUBSET PktIDs /\ wanted \in SUBSET PktIDs
    BY <1>1, <1>2, ControlFacts, TypeFacts DEF IInv, DataOK
  <1>8. /\ \A x \in Nodes : buffer'[x] \subseteq buffer[x]
        /\ buffer'[n] = buffer[n]
        /\ delivered' = delivered
    BY <1>1, <1>2, <1>5, <1>6, <1>7 DEF DataOK, Alive, dmVars
  <1> HIDE DEF wanted, live, pkt
  <1>9. StoredOK'
    <2>1. \A p : Arriving(p) => Arriving(p)'
      BY <1>1, <1>5, ArrivingKept DEF Frame, NoData, statVars
    <2> QED
      BY <1>1, <1>8, <2>1, StoredKept DEF Conversation
  <1>10. PICK new : new = Control("DIRECT_REQUEST", r, pkt.prev, wanted)
    OBVIOUS
  <1>11. "DIRECT_REQUEST" \in Types \ {"DATA"}
    BY TypeFacts
  <1>12. ControlRight(new, n, m)'
    <2>1. new.type = "DIRECT_REQUEST" /\ new.prev = m /\ new.next = n /\ new.ids = wanted
      BY <1>5, <1>6, <1>10 DEF Control
    <2>2. NoData'
      <3>1. \A id \in DOMAIN pool' :
               \/ id \in DOMAIN pool /\ IsData(id)
               \/ pool'[id] = Control("DIRECT_REQUEST", r, pool[Top.id].prev, wanted)
        <4>1. /\ OneControl /\ pool[Top.id].type # "DATA"
              /\ Send(<<Control("DIRECT_REQUEST", r, pool[Top.id].prev, wanted)>>, {Top.id}, RestAfter(r))
          BY <1>1, <1>2 DEF Conversation, pkt
        <4> QED
          BY <1>7, <1>11, <4>1, Replied, SMTT(40)
      <3>2. \A id \in DOMAIN pool' : pool'[id] = new
        BY <1>5, <1>10, <3>1 DEF NoData, pkt
      <3> QED
        BY <2>1, <3>2 DEF NoData, IsData
    <2>3. \A p \in wanted : Offered(n, p)' /\ origin'[p].dst = m /\ ~isDelivered(m, p)'
      BY <1>5, <1>6, <1>8, FrameFacts DEF wanted, Offered, isDelivered
    <2>4. wanted \subseteq Known'
      BY <1>5, FrameFacts DEF wanted
    <2> QED
      BY <1>5, <2>1, <2>2, <2>3, <2>4, FrameFacts DEF ControlRight, DeliveryRight, UtilityRight, Ask
  <1> QED
    BY <1>1, <1>2, <1>3, <1>5, <1>7, <1>9, <1>10, <1>11, <1>12, Answered DEF Conversation, pkt

\* Node m is offered the other packets, and asks for those it does not store.
LEMMA SummaryHeard ==
    ASSUME IInv, Conversation, Frame, NEW r, Receiving(r),
           ReceptionSummary(r, Top.id, pool[Top.id], RestAfter(r))
    PROVE  Conversation'
  <1> DEFINE pkt == pool[Top.id]
  <1> DEFINE live == IF pkt.ids = {} THEN buffer[r] ELSE Alive(buffer[r])
  <1> DEFINE wanted == pkt.ids \ live
  <1>1. /\ pkt.type = "SUMMARY"
        /\ buffer' = [buffer EXCEPT ![r] = live]
        /\ Send(<<Control("REQUEST", r, pkt.prev, wanted)>>, {Top.id}, RestAfter(r))
        /\ UNCHANGED <<dmVars, statVars, halted>>
    BY DEF ReceptionSummary
  <1>2. r \in Nodes /\ Top.id \in DOMAIN pool /\ pkt.type # "DATA"
    BY <1>1, TopFacts
  <1>3. PICK n \in Nodes, m \in Nodes : Exchanging(n, m)
    BY <1>2 DEF Conversation
  <1>4. ControlRight(pkt, n, m)
    BY <1>2, <1>3 DEF Exchanging, IsData
  <1>5. /\ pkt.prev = n /\ pkt.next = m /\ DirectOnly(m)
        /\ pkt.ids \subseteq Known /\ n # m
        /\ \A p \in pkt.ids : Offered(n, p) /\ origin[p].dst # m /\ ~Vaccinated(m, p)
    BY <1>1, <1>3, <1>4 DEF ControlRight, DeliveryRight, UtilityRight, Ask, Exchanging
  <1>6. r = m
    BY <1>2, <1>5, ControlStep DEF Conversation
  <1>7. DataOK /\ pkt.ids \in SUBSET PktIDs /\ wanted \in SUBSET PktIDs
    BY <1>1, <1>2, ControlFacts, TypeFacts DEF IInv, DataOK
  <1>8. /\ \A x \in Nodes : buffer'[x] \subseteq buffer[x]
        /\ buffer'[n] = buffer[n] /\ buffer'[m] = live
        /\ delivered' = delivered /\ received' = received
    BY <1>1, <1>2, <1>5, <1>6, <1>7 DEF DataOK, Alive, dmVars, statVars
  <1> HIDE DEF wanted, live, pkt
  <1>9. PICK new : new = Control("REQUEST", r, pkt.prev, wanted)
    OBVIOUS
  <1>10. "REQUEST" \in Types \ {"DATA"}
    BY TypeFacts
  <1>11. /\ \A id \in DOMAIN pool :
               IsData(id) => /\ id \in DOMAIN pool' /\ pool'[id] = pool[id]
                             /\ \A x : Awaiting(evlist', id, x) <=> Awaiting(evlist, id, x)
         /\ \A id \in DOMAIN pool' :
               \/ id \in DOMAIN pool /\ IsData(id)
               \/ pool'[id] = new
    <2>1. /\ \A id \in DOMAIN pool :
                IsData(id) => /\ id \in DOMAIN pool' /\ pool'[id] = pool[id]
                              /\ \A x : Awaiting(evlist', id, x) <=> Awaiting(evlist, id, x)
          /\ \A id \in DOMAIN pool' :
                \/ id \in DOMAIN pool /\ IsData(id)
                \/ pool'[id] = Control("REQUEST", r, pool[Top.id].prev, wanted)
      <3>1. /\ OneControl /\ pool[Top.id].type # "DATA"
            /\ Send(<<Control("REQUEST", r, pool[Top.id].prev, wanted)>>, {Top.id}, RestAfter(r))
        BY <1>1, <1>2 DEF Conversation, pkt
      <3> QED
        BY <1>7, <1>10, <3>1, Replied
    <2> QED
      BY <1>9, <2>1 DEF pkt
  <1>12. StoredOK'
    <2>1. \A p : Arriving(p) => Arriving(p)'
      BY <1>8, <1>11, ArrivingKept DEF Frame
    <2> QED
      BY <1>1, <1>8, <2>1, StoredKept DEF Conversation
  <1>13. ControlRight(new, n, m)'
    <2>1. new.type = "REQUEST" /\ new.prev = m /\ new.next = n /\ new.ids = wanted
      BY <1>5, <1>6, <1>9 DEF Control
    <2>2. DirectOnly(m)'
      <3>1. \A id \in DOMAIN pool' :
               IsData(id)' => id \in DOMAIN pool /\ IsData(id) /\ pool'[id] = pool[id]
        BY <1>11, <2>1 DEF IsData
      <3> QED
        BY <1>5, <3>1, FrameFacts DEF DirectOnly
    <2>3. \A p \in wanted : Offered(n, p)' /\ origin'[p].dst # m /\ Welcome(m, p)'
      BY <1>5, <1>8, FrameFacts DEF wanted, Offered, Welcome, Vaccinated
    <2>4. wanted \subseteq Known'
      BY <1>5, FrameFacts DEF wanted
    <2> QED
      BY <1>5, <2>1, <2>2, <2>3, <2>4, FrameFacts DEF ControlRight, DeliveryRight, UtilityRight, Ask
  <1>14. \A p : Welcome(m, p) => Welcome(m, p)'
    BY <1>3, <1>8, WelcomeKept
  <1> QED
    BY <1>1, <1>2, <1>3, <1>7, <1>9, <1>10, <1>12, <1>13, <1>14, Answered DEF Conversation, pkt
-----------------------------------------------------------------------------
(* Direct transfers.                                                       *)

\* With nothing else in transmission, n sends packets S to their destination
\* m, and the message that comes next.
LEMMA Direct ==
    ASSUME SetOK, Replicating, Frame, conn' \in [Nodes -> SUBSET Nodes], NEW n \in Nodes, NEW m \in Nodes,
           n # m, m \in conn'[n], NEW S \in SUBSET PktIDs, NEW order \in Orders(S),
           NEW left \in SUBSET PktIDs, NEW erased, NEW rest,
           DOMAIN pool \ erased = {},
           StackOK(rest, [i \in DOMAIN pool \ erased |-> pool[i]], conn', variousIDs),
           OnlyData(rest, pool),
           Send(DataFor(n, m, order, 1) \o Proceed(n, m, left), erased, rest),
           \A p \in S : p \in Known /\ IsAlive(p) /\ origin[p].dst = m /\ Welcome(m, p)',
           buffer'[n] = left, \A p \in left : p \in Known /\ ~Vaccinated(m, p)'
    PROVE  /\ OneControl' /\ Exchanging(n, m)'
           /\ \A p \in S : Arriving(p)'
  <1> DEFINE Opening(sum) ==
        /\ sum.prev = n /\ sum.next = m
        /\ \/ sum.type = "SUMMARY" /\ sum.ids = NotDestinedTo(left, m)
           \/ sum.type = "REQUEST_CONTACTS" /\ ByUtility
  <1>0. PICK msgs :
           /\ Proceed(n, m, left) = msgs
           /\ msgs = <<>> \/ \E sum : msgs = <<sum>> /\ Opening(sum)
    <2>1. Opening(Control("SUMMARY", n, m, NotDestinedTo(left, m)))
      BY DEF Control
    <2>2. ByUtility => Opening(Control("REQUEST_CONTACTS", n, m, {}))
      BY DEF Control
    <2> HIDE DEF Opening
    <2> QED
      BY <2>1, <2>2, SettingsFacts
  <1>1. Proceed(n, m, left) = msgs /\ Sendable(msgs, n, conn')
    BY <1>0, SendableProceed
  <1>3. Len(msgs) <= 1 /\ \A k \in 1..Len(msgs) : Opening(msgs[k])
    <2>1. CASE msgs = <<>>
      BY <2>1
    <2>2. CASE \E sum : msgs = <<sum>> /\ Opening(sum)
      <3> HIDE DEF Opening
      <3> QED
        BY <2>2
    <2> QED
      BY <1>0, <2>1, <2>2
  <1>2. \A sum : Opening(sum) => sum.type # "DATA"
    OBVIOUS
  <1> HIDE DEF Opening
  <1> DEFINE all == DataFor(n, m, order, 1) \o msgs
  <1>4. Send(all, erased, rest)
    BY <1>1
  <1> HIDE DEF all
  <1>5. /\ OneControl'
        /\ \A id \in DOMAIN pool' :
              \/ \E k \in 1..Len(msgs) : pool'[id] = msgs[k]
              \/ \E p \in S : DataOf(pool'[id], n, m, p)
        /\ \A p \in S : \E id \in DOMAIN pool' :
              DataOf(pool'[id], n, m, p) /\ Awaiting(evlist', id, m)
        /\ \A x, y \in DOMAIN pool' :
              x # y /\ pool'[x].type = "DATA" /\ pool'[y].type = "DATA"
              => pool'[x].ids \cap pool'[y].ids = {}
    <2>1. Len(msgs) <= 1 /\ \A k \in 1..Len(msgs) : msgs[k].type # "DATA"
      BY <1>2, <1>3
    <2>2. \A k \in 1..Len(msgs) : msgs[k].type # "DATA"
      BY <2>1
    <2>3. Len(msgs) <= 1 /\ Sendable(msgs, n, conn') /\ 1 \in Nat
      BY <1>1, <2>1
    <2>4. Send(DataFor(n, m, order, 1) \o msgs, erased, rest)
      BY <1>4 DEF all
    <2>5. DataSent(n, m, S, msgs, erased, rest)
      BY <2>2, <2>3, <2>4, DataView
    <2> QED
      BY <2>5 DEF DataSent
  <1>6. ASSUME NEW id \in DOMAIN pool'
        PROVE  Opening(pool'[id]) \/ \E p \in S : DataOf(pool'[id], n, m, p)
    BY <1>3, <1>5
  <1>7. ASSUME NEW id \in DOMAIN pool', IsData(id)'
        PROVE  \E p \in S : DataOf(pool'[id], n, m, p)
    BY <1>2, <1>6, <1>7 DEF IsData
  <1>8. ASSUME NEW id \in DOMAIN pool', IsData(id)'
        PROVE  DataRight(id, n, m)'
    <2>1. PICK p \in S : DataOf(pool'[id], n, m, p)
      BY <1>7, <1>8
    <2>2. p \in Known' /\ IsAlive(p)' /\ Welcome(m, p)'
      BY FrameFacts
    <2>3. \A x \in DOMAIN pool' :
             x # id /\ IsData(x)' => pool'[x].ids \cap pool'[id].ids = {}
      BY <1>5, <1>8 DEF IsData
    <2> QED
      BY <2>1, <2>2, <2>3 DEF DataRight, DataOf, IsData
  <1>9. ASSUME NEW id \in DOMAIN pool', ~IsData(id)'
        PROVE  ControlRight(pool[id], n, m)'
    <2>1. PICK sum : sum = pool'[id] /\ Opening(sum)
      BY <1>6, <1>9 DEF IsData, DataOf
    <2>2. DirectOnly(m)'
      <3>1. ASSUME NEW x \in DOMAIN pool', IsData(x)'
            PROVE  \A p \in pool'[x].ids : origin'[p].dst = m
        <4>1. PICK p \in S : DataOf(pool'[x], n, m, p)
          BY <1>7, <3>1
        <4> QED
          BY <4>1, FrameFacts DEF DataOf
      <3> QED
        BY <3>1 DEF DirectOnly
    <2>3. CASE sum.type = "SUMMARY"
      <3>1. \A p \in sum.ids : /\ p \in Known' /\ origin'[p].dst # m
                               /\ Offered(n, p)' /\ ~Vaccinated(m, p)'
        BY <2>1, <2>3, FrameFacts DEF Opening, NotDestinedTo, Alive, Offered
      <3> QED
        BY <2>1, <2>2, <2>3, <3>1 DEF Opening, ControlRight, DeliveryRight, Ask
    <2>4. CASE sum.type = "REQUEST_CONTACTS"
      <3>1. Unknown(n, m)' /\ ByUtility'
        BY <2>1, <2>4, FrameFacts DEF Opening, Unknown, Frame, ByUtility, RT
      <3> QED
        BY <2>1, <2>2, <2>4, <3>1 DEF Opening, ControlRight, UtilityRight, Ask
    <2> QED
      BY <2>1, <2>3, <2>4 DEF Opening
  <1>10. ASSUME NEW p \in S PROVE Arriving(p)'
    <2>1. PICK id \in DOMAIN pool' :
             DataOf(pool'[id], n, m, p) /\ Awaiting(evlist', id, m)
      BY <1>5
    <2>2. pool'[id].next = m /\ origin'[p].dst = m /\ p \in pool'[id].ids /\ IsData(id)'
      BY <2>1, FrameFacts DEF DataOf, IsData
    <2> QED
      BY <2>1, <2>2 DEF Arriving
  <1> QED
    BY <1>5, <1>8, <1>9, <1>10 DEF Exchanging

\* The direct transfers of a mechanism that does not ask beforehand, when
\* node n has learnt "info" and forgotten about these packets.
LEMMA DirectPacketsSent ==
    ASSUME SetOK, Replicating, Frame, IInv, StoredOK, NoData,
           conn' \in [Nodes -> SUBSET Nodes], NEW n \in Nodes, NEW m \in Nodes,
           n # m, m \in conn'[n], NEW b \in SUBSET PktIDs, NEW info \in SUBSET PktIDs,
           NEW erased, NEW rest, DOMAIN pool \ erased = {},
           StackOK(rest, [i \in DOMAIN pool \ erased |-> pool[i]], conn', variousIDs),
           OnlyData(rest, pool),
           SendDirectPackets(n, m, b, info, erased, rest),
           ~ExchangeDirectSummary, b \subseteq buffer[n], info \subseteq Known,
           \A p \in info : Arriving(p), delivered[n] \subseteq info,
           DelMech = "VACCINE" => delivered[m] \subseteq info /\ b \cap info = {},
           DelMech = "CATACLYSM" => b \cap god = {}
    PROVE  Conversation'
  <1> DEFINE out == {p \in DestinedTo(b, m) : ~(KeepsDelivered /\ p \in info)}
  <1> DEFINE left == IF LeavesBuffer THEN Alive(b) \ out ELSE Alive(b)
  <1>1. PICK order \in Orders(out) :
           Send(DataFor(n, m, order, 1) \o Proceed(n, m, left), erased, rest)
    BY DEF SendDirectPackets
  <1>2. /\ SetAsDelivered(n, info \cup out)
        /\ buffer' = [buffer EXCEPT ![n] = left]
        /\ UNCHANGED <<statVars, halted>>
    BY DEF SendDirectPackets
  <1>3. out \in SUBSET PktIDs /\ left \in SUBSET PktIDs
    BY BufferParts
  <1>4. /\ \A p \in out : /\ p \in b /\ IsAlive(p) /\ origin[p].dst = m
                          /\ ~(KeepsDelivered /\ p \in info)
        /\ left \subseteq b
        /\ DelMech = "VACCINE" => left \cap out = {}
    BY SettingsFacts DEF DestinedTo, Alive, OffloaderDeletePkt
  <1> HIDE DEF out, left
  <1>5. DelMech \in {"JUSTTTL", "VACCINE", "CATACLYSM"}
    BY SettingsFacts DEF ExchangeDirectSummary
  <1>6. DataOK
    BY DEF IInv
  <1>7. /\ \A x \in Nodes : buffer'[x] = IF x = n THEN left ELSE buffer[x]
        /\ \A x \in Nodes : delivered'[x] = IF x = n /\ KeepsDelivered
                                            THEN delivered[n] \cup info \cup out
                                            ELSE delivered[x]
        /\ god' = IF DelMech = "CATACLYSM" THEN god \cup info \cup out ELSE god
        /\ received' = received /\ duplicates' = duplicates /\ halted' = halted
    BY <1>2, <1>3, <1>6 DEF DataOK, SetAsDelivered, statVars
  <1>8. \A p \in b : p \in Known /\ origin[p].dst # n
    BY DEF StoredOK
  <1>9. \A p \in out : Welcome(m, p)'
    <2> SUFFICES ASSUME NEW p \in out PROVE Welcome(m, p)'
      OBVIOUS
    <2>1. origin'[p].dst = m /\ p \in b /\ delivered'[m] = delivered[m] /\ received' = received
      BY <1>4, <1>7, FrameFacts
    <2>2. ~(KeepsDelivered /\ p \in delivered[m])
      BY <1>4, <1>5, <2>1 DEF KeepsDelivered
    <2>3. NoDuplicatesSupport => p \notin received
      <3>1. CASE DelMech = "VACCINE"
        <4>1. p \in received => p \in delivered[origin[p].dst]
          BY <3>1 DEF StoredOK, KeepsDelivered
        <4> QED
          BY <1>4, <2>2, <3>1, <4>1 DEF KeepsDelivered
      <3>2. CASE DelMech = "CATACLYSM"
        BY <2>1, <3>2 DEF StoredOK
      <3> QED
        BY <1>5, <3>1, <3>2 DEF NoDuplicatesSupport
    <2> QED
      BY <2>1, <2>2, <2>3, FrameFacts DEF Welcome, isDelivered
  <1>10. buffer'[n] = left /\ \A p \in left : p \in Known /\ ~Vaccinated(m, p)'
    BY <1>4, <1>7, <1>8, FrameFacts DEF Vaccinated
  <1>11. \A p \in out : p \in Known /\ IsAlive(p) /\ origin[p].dst = m
    BY <1>4, <1>8
  <1>12. OneControl' /\ Exchanging(n, m)' /\ \A p \in out : Arriving(p)'
    BY <1>1, <1>3, <1>9, <1>10, <1>11, Direct
  <1>13. \A p : Arriving(p) => Arriving(p)'
    BY <1>7, ArrivingKept DEF NoData, Frame
  <1>14. StoredOK'
    <2>1. ASSUME NEW x \in Nodes, NEW p \in buffer'[x]
          PROVE  p \in Known' /\ origin'[p].dst # x /\ ~Vaccinated(x, p)'
      <3>1. CASE x = n
        <4>1. p \in left /\ p \in b
          BY <1>4, <1>7, <2>1, <3>1
        <4>2. ~Vaccinated(n, p)'
          BY <1>4, <1>7, <4>1, FrameFacts DEF Vaccinated, KeepsDelivered
        <4> QED
          BY <1>8, <3>1, <4>1, <4>2, FrameFacts
      <3>2. CASE x # n
        BY <1>7, <2>1, <3>2, FrameFacts DEF StoredOK, Vaccinated
      <3> QED
        BY <3>1, <3>2
    <2>2. ASSUME NEW x \in Nodes, NEW p \in delivered'[x]
          PROVE  p \in Known' /\ Arriving(p)'
      <3>1. p \in delivered[x] \/ p \in info \/ p \in out
        BY <1>7, <2>2
      <3> QED
        BY <1>11, <1>12, <1>13, <3>1, FrameFacts DEF StoredOK
    <2>3. ASSUME NEW p \in god' PROVE p \in Known' /\ Arriving(p)'
      <3>1. p \in god \/ p \in info \/ p \in out
        BY <1>7, <2>3
      <3> QED
        BY <1>11, <1>12, <1>13, <3>1, FrameFacts DEF StoredOK
    <2>4. ASSUME NEW p \in received'
          PROVE  /\ p \in Known'
                 /\ KeepsDelivered' => p \in delivered'[origin'[p].dst]
                 /\ DelMech' = "CATACLYSM" => p \in god'
      <3>1. /\ p \in Known /\ (KeepsDelivered => p \in delivered[origin[p].dst])
            /\ DelMech = "CATACLYSM" => p \in god
        BY <1>7, <2>4 DEF StoredOK
      <3>2. origin[p].dst \in Nodes
        <4>1. origin \in Seq([src : Nodes, dst : Nodes, time : 0..MaxTime])
          BY DEF IInv, NetOK
        <4>2. origin[p] \in [src : Nodes, dst : Nodes, time : 0..MaxTime]
          BY <3>1, <4>1, ElementOfSeq DEF Known
        <4> QED
          BY <4>2
      <3> QED
        BY <1>7, <3>1, <3>2, FrameFacts
    <2>5. (NoDuplicatesSupport' => duplicates' = {}) /\ ~halted'
      BY <1>7, FrameFacts DEF StoredOK
    <2> QED
      BY <2>1, <2>2, <2>3, <2>4, <2>5 DEF StoredOK
  <1> QED
    BY <1>12, <1>14 DEF Conversation
\* With its vaccine, m told n what need not be carried on.
LEMMA AntipacketResponseHeard ==
    ASSUME IInv, SetOK, Replicating, Conversation, Frame, NEW r, Receiving(r),
           ReceptionAntipacketResponse(r, Top.id, pool[Top.id], RestAfter(r))
    PROVE  Conversation'
  <1> DEFINE pkt == pool[Top.id]
  <1> DEFINE info == delivered[r] \cup pkt.ids
  <1>1. /\ pkt.type = "ANTIPACKET_RESPONSE"
        /\ SendDirectPackets(r, pkt.prev, Cleaned(buffer[r], info), info, {Top.id},
                             RestAfter(r))
    BY DEF ReceptionAntipacketResponse
  <1>2. r \in Nodes /\ Top.id \in DOMAIN pool /\ pkt.type # "DATA"
    BY <1>1, TopFacts
  <1>3. PICK n \in Nodes, m \in Nodes : Exchanging(n, m)
    BY <1>2 DEF Conversation
  <1>4. ControlRight(pkt, n, m)
    BY <1>2, <1>3 DEF Exchanging, IsData
  <1>5. /\ pkt.prev = m /\ pkt.next = n /\ DelMech = "VACCINE" /\ NoData /\ n # m
        /\ pkt.ids \subseteq Known /\ \A p \in pkt.ids : Arriving(p)
        /\ delivered[m] \subseteq pkt.ids
    BY <1>1, <1>3, <1>4 DEF ControlRight, DeliveryRight, UtilityRight, Ask, Exchanging
  <1>6. r = n
    BY <1>2, <1>5, ControlStep DEF Conversation
  <1>7. DataOK /\ info \in SUBSET PktIDs /\ buffer[n] \in SUBSET PktIDs
    BY <1>1, <1>2, ControlFacts, TypeFacts DEF IInv, DataOK
  <1>8. /\ info \subseteq Known /\ \A p \in info : Arriving(p)
        /\ delivered[n] \subseteq info /\ delivered[m] \subseteq info
    BY <1>2, <1>5, <1>6 DEF Conversation, StoredOK
  <1>9. /\ m \in conn'[n] /\ conn' \in [Nodes -> SUBSET Nodes]
        /\ StackOK(RestAfter(r), [i \in DOMAIN pool \ {Top.id} |-> pool[i]],
                   conn', variousIDs)
        /\ OnlyData(RestAfter(r), pool)
    BY <1>2, <1>5, <1>6, TopFacts, ControlFacts, ControlStep DEF Conversation
  <1>10. DOMAIN pool \ {Top.id} = {}
    <2>1. \A id \in DOMAIN pool \ {Top.id} : IsData(id)
      BY <1>9, ControlData
    <2> QED
      BY <1>5, <2>1 DEF NoData
  <1> DEFINE b == Cleaned(buffer[n], info)
  <1>11. /\ b \in SUBSET PktIDs /\ b \subseteq buffer[n] /\ b \cap info = {}
         /\ SendDirectPackets(n, m, b, info, {Top.id}, RestAfter(r))
    BY <1>1, <1>5, <1>6, <1>7 DEF Cleaned
  <1>12. ~ExchangeDirectSummary /\ StoredOK
    BY <1>5 DEF ExchangeDirectSummary, Conversation
  <1> HIDE DEF info, b, pkt
  <1>13. \A p \in info : Arriving(p)
    BY <1>8
  <1> QED
    BY <1>5, <1>7, <1>8, <1>9, <1>10, <1>11, <1>12, <1>13, DirectPacketsSent

\* Node n sends what m asked for, and what follows the direct transfers.
LEMMA DirectRequestHeard ==
    ASSUME IInv, SetOK, Replicating, Conversation, Frame, NEW r, Receiving(r),
           ReceptionDirectRequest(r, Top.id, pool[Top.id], RestAfter(r))
    PROVE  Conversation'
  <1> DEFINE pkt == pool[Top.id]
  <1> DEFINE live == Alive(buffer[r])
  <1> DEFINE left == IF LeavesBuffer THEN live \ DestinedTo(live, pkt.prev) ELSE live
  <1>1. pkt.type = "DIRECT_REQUEST"
    BY DEF ReceptionDirectRequest
  <1>2. r \in Nodes /\ Top.id \in DOMAIN pool /\ pkt.type # "DATA"
    BY <1>1, TopFacts
  <1>3. PICK n \in Nodes, m \in Nodes : Exchanging(n, m)
    BY <1>2 DEF Conversation
  <1>4. ControlRight(pkt, n, m)
    BY <1>2, <1>3 DEF Exchanging, IsData
  <1>5. /\ pkt.prev = m /\ pkt.next = n /\ ExchangeDirectSummary /\ NoData /\ n # m
        /\ pkt.ids \subseteq Known
        /\ \A p \in pkt.ids : Offered(n, p) /\ origin[p].dst = m /\ ~isDelivered(m, p)
    BY <1>1, <1>3, <1>4 DEF ControlRight, DeliveryRight, UtilityRight, Ask, Exchanging
  <1>6. r = n
    BY <1>2, <1>5, ControlStep DEF Conversation
  <1>7. DataOK /\ pkt.ids \in SUBSET PktIDs /\ buffer[n] \in SUBSET PktIDs
    BY <1>1, <1>2, ControlFacts, TypeFacts DEF IInv, DataOK
  <1>8. pkt.ids \subseteq live
    BY <1>5, <1>6 DEF Offered, Alive
  <1>9. /\ \E order \in Orders(pkt.ids) :
               Send(DataFor(r, pkt.prev, order, 1) \o Proceed(r, pkt.prev, left),
                    {Top.id}, RestAfter(r))
        /\ buffer' = [buffer EXCEPT ![r] = left]
        /\ UNCHANGED <<dmVars, statVars, halted>>
    BY <1>8 DEF ReceptionDirectRequest
  <1>10. left \subseteq buffer[n] /\ left \in SUBSET PktIDs
    BY <1>6, <1>7 DEF Alive
  <1>11. /\ m \in conn'[n] /\ conn' \in [Nodes -> SUBSET Nodes]
         /\ StackOK(RestAfter(r), [i \in DOMAIN pool \ {Top.id} |-> pool[i]],
                    conn', variousIDs)
         /\ OnlyData(RestAfter(r), pool)
    BY <1>2, <1>5, <1>6, TopFacts, ControlFacts, ControlStep DEF Conversation
  <1>12. DOMAIN pool \ {Top.id} = {}
    <2>1. \A id \in DOMAIN pool \ {Top.id} : IsData(id)
      BY <1>11, ControlData
    <2> QED
      BY <1>5, <2>1 DEF NoData
  <1>13. PICK order \in Orders(pkt.ids) :
            Send(DataFor(n, m, order, 1) \o Proceed(n, m, left), {Top.id}, RestAfter(r))
    BY <1>5, <1>6, <1>9
  <1> HIDE DEF live, left, pkt
  <1>14. /\ \A x \in Nodes : buffer'[x] = IF x = n THEN left ELSE buffer[x]
         /\ \A x \in Nodes : buffer'[x] \subseteq buffer[x]
         /\ delivered' = delivered /\ received' = received
    BY <1>6, <1>7, <1>9, <1>10 DEF DataOK, dmVars, statVars
  <1>15. StoredOK'
    <2>1. \A p : Arriving(p) => Arriving(p)'
      BY <1>5, <1>14, ArrivingKept DEF Frame, NoData
    <2> QED
      BY <1>9, <1>14, <2>1, StoredKept DEF Conversation
  <1>16. \A p \in pkt.ids :
            p \in Known /\ IsAlive(p) /\ origin[p].dst = m /\ Welcome(m, p)'
    <2>1. ASSUME NEW p \in pkt.ids, NoDuplicatesSupport
          PROVE  p \notin received
      BY <1>5, <2>1 DEF Conversation, StoredOK, isDelivered, KeepsDelivered,
         ExchangeDirectSummary
    <2> QED
      BY <1>5, <1>14, <2>1, FrameFacts DEF Offered, Welcome, isDelivered
  <1>17. buffer'[n] = left /\ \A p \in left : p \in Known /\ ~Vaccinated(m, p)'
    <2>1. DelMech # "VACCINE"
      BY <1>5 DEF ExchangeDirectSummary
    <2> QED
      BY <1>10, <1>14, <2>1, FrameFacts DEF Conversation, StoredOK, Vaccinated
  <1>18. OneControl' /\ Exchanging(n, m)'
    BY <1>5, <1>7, <1>10, <1>11, <1>12, <1>13, <1>16, <1>17, Direct
  <1> QED
    BY <1>15, <1>18 DEF Conversation
\* What is in transmission then: packets S from n to m, and what was before,
\* which is for m itself.
Forwarded(S, n, m) ==
    \A id \in DOMAIN pool' :
       \/ \E p \in S : DataOf(pool'[id], n, m, p)
       \/ /\ id \in DOMAIN pool /\ pool'[id] = pool[id] /\ IsData(id)
          /\ pool[id].next = m /\ \A p \in pool[id].ids : origin[p].dst = m

\* Node n answers m, which asked for packets that are not for m itself, and
\* sends S of them; those for m may be on their way still.
LEMMA AnswerShipped ==
    ASSUME IInv, Conversation, Frame, NEW r, Receiving(r), pool[Top.id].type # "DATA",
           NEW n \in Nodes, NEW m \in Nodes, Exchanging(n, m), DirectOnly(m),
           pool[Top.id].prev = m, pool[Top.id].next = n,
           NEW S \in SUBSET PktIDs,
           \A p \in S : p \in Known /\ Offered(n, p) /\ origin[p].dst # m /\ Welcome(m, p),
           DataSent(n, m, S, <<>>, {Top.id}, RestAfter(r)),
           \A x \in Nodes : buffer'[x] \subseteq buffer[x],
           UNCHANGED <<dmVars, statVars, halted>>
    PROVE  Conversation' /\ Forwarded(S, n, m)
  <1> DEFINE pkt == pool[Top.id]
  <1> DEFINE old == DOMAIN pool \ {Top.id}
  <1>2. r \in Nodes /\ Top.id \in DOMAIN pool /\ pkt.type # "DATA"
    BY TopFacts
  <1>3. Exchanging(n, m)
    OBVIOUS
  <1>5. pkt.prev = m /\ pkt.next = n /\ DirectOnly(m) /\ n # m
    BY DEF Exchanging
  <1>6. r = n
    BY <1>2, <1>5, ControlStep DEF Conversation
  <1>11. /\ m \in conn'[n] /\ conn' \in [Nodes -> SUBSET Nodes]
         /\ StackOK(RestAfter(r), [i \in DOMAIN pool \ {Top.id} |-> pool[i]],
                    conn', variousIDs)
         /\ OnlyData(RestAfter(r), pool)
         /\ \A id \in old : \A x : Awaiting(RestAfter(r), id, x) <=> Awaiting(evlist, id, x)
    BY <1>2, <1>5, <1>6, TopFacts, ControlFacts, ControlStep DEF Conversation
  <1>12. /\ \A x \in Nodes : buffer'[x] \subseteq buffer[x]
         /\ delivered' = delivered /\ received' = received
    BY DEF dmVars, statVars
  <1> HIDE DEF pkt
  <1>13. /\ OneControl'
         /\ \A id \in old :
               /\ id \in DOMAIN pool' /\ pool'[id] = pool[id] /\ IsData(id)
               /\ \A x : Awaiting(evlist', id, x) <=> Awaiting(evlist, id, x)
         /\ \A id \in DOMAIN pool' : id \notin old =>
               \E p \in S : DataOf(pool'[id], n, m, p)
         /\ \A x, y \in DOMAIN pool' :
               /\ x # y /\ x \notin old /\ y \notin old
               /\ pool'[x].type = "DATA" /\ pool'[y].type = "DATA"
               => pool'[x].ids \cap pool'[y].ids = {}
    BY <1>11 DEF DataSent
  <1>14. ~IsData(Top.id) /\ \A id \in DOMAIN pool : IsData(id) <=> id \in old
    BY <1>2, <1>13 DEF IsData, pkt
  <1> HIDE DEF old
  <1>15. StoredOK'
    <2>1. \A p : Arriving(p) => Arriving(p)'
      BY <1>12, <1>13, <1>14, ArrivingKept DEF Frame
    <2> QED
      BY <1>12, <2>1, StoredKept DEF Conversation
  <1>16. \A p : Welcome(m, p) => Welcome(m, p)'
    BY <1>12, WelcomeKept
  <1>17. ASSUME NEW id \in DOMAIN pool', id \in old
         PROVE  /\ DataRight(id, n, m)' /\ pool[id].next = m
                /\ \A p \in pool'[id].ids : origin[p].dst = m
    <2>1. id \in DOMAIN pool /\ IsData(id) /\ pool'[id] = pool[id] /\ DataRight(id, n, m)
      BY <1>3, <1>13, <1>14, <1>17 DEF Exchanging, old
    <2>2. \A p \in pool[id].ids : origin[p].dst = m
      BY <1>5, <2>1 DEF DirectOnly
    <2>3. \A x \in DOMAIN pool' :
             x # id /\ pool'[x].type = "DATA" => pool'[x].ids \cap pool[id].ids = {}
      <3> SUFFICES ASSUME NEW x \in DOMAIN pool', x # id
                   PROVE  pool'[x].ids \cap pool[id].ids = {}
        OBVIOUS
      <3>1. CASE x \in old
        BY <1>13, <1>14, <2>1, <3>1 DEF DataRight, old
      <3>2. CASE x \notin old
        <4>1. PICK p \in S : DataOf(pool'[x], n, m, p)
          BY <1>13, <3>2
        <4> QED
          BY <1>5, <2>2, <4>1 DEF DataOf
      <3> QED
        BY <3>1, <3>2
    <2>4. DataRight(id, n, m)'
      BY <1>13, <1>16, <1>17, <2>1, <2>3, DataKept
    <2> QED
      BY <2>1, <2>2, <2>4 DEF DataRight
  <1>18. ASSUME NEW id \in DOMAIN pool', id \notin old
         PROVE  DataRight(id, n, m)' /\ IsData(id)'
    <2>1. PICK p \in S : DataOf(pool'[id], n, m, p)
      BY <1>13, <1>18
    <2>2. p \in Known' /\ IsAlive(p)' /\ Welcome(m, p)' /\ origin[p].dst # m
      BY <1>5, <1>16, FrameFacts DEF Offered
    <2>3. \A x \in DOMAIN pool' :
             x # id /\ pool'[x].type = "DATA" => pool'[x].ids \cap pool'[id].ids = {}
      <3> SUFFICES ASSUME NEW x \in DOMAIN pool', x # id, pool'[x].type = "DATA"
                   PROVE  pool'[x].ids \cap pool'[id].ids = {}
        OBVIOUS
      <3>1. CASE x \in old
        BY <1>17, <2>1, <2>2, <3>1 DEF DataOf
      <3>2. CASE x \notin old
        BY <1>13, <1>18, <2>1, <3>2 DEF DataOf
      <3> QED
        BY <3>1, <3>2
    <2> QED
      BY <2>1, <2>2, <2>3 DEF DataRight, DataOf, IsData
  <1>19. Exchanging(n, m)'
    <2>1. \A id \in DOMAIN pool' : IsData(id)' /\ DataRight(id, n, m)'
      <3>1. \A id \in DOMAIN pool' : id \in old => IsData(id)'
        BY <1>13 DEF IsData
      <3> QED
        BY <1>17, <1>18, <3>1
    <2> QED
      BY <1>5, <2>1 DEF Exchanging
  <1> QED
    BY <1>13, <1>14, <1>15, <1>17, <1>19 DEF Conversation, Forwarded, old

\* The same, when each packet is sent as one replica.
LEMMA PacketsSent ==
    ASSUME IInv, Conversation, Frame, NEW r, Receiving(r), pool[Top.id].type # "DATA",
           NEW n \in Nodes, NEW m \in Nodes, Exchanging(n, m), DirectOnly(m),
           pool[Top.id].prev = m, pool[Top.id].next = n,
           NEW S \in SUBSET PktIDs,
           \A p \in S : p \in Known /\ Offered(n, p) /\ origin[p].dst # m /\ Welcome(m, p),
           NEW order \in Orders(S), Send(DataFor(n, m, order, 1), {Top.id}, RestAfter(r)),
           \A x \in Nodes : buffer'[x] \subseteq buffer[x],
           UNCHANGED <<dmVars, statVars, halted>>
    PROVE  Conversation' /\ Forwarded(S, n, m)
  <1>1. r \in Nodes /\ Top.id \in DOMAIN pool /\ pool[Top.id].type # "DATA"
    BY TopFacts
  <1>2. r = n
    BY <1>1, ControlStep DEF Conversation
  <1>3. /\ m \in conn'[n] /\ conn' \in [Nodes -> SUBSET Nodes]
        /\ StackOK(RestAfter(r), [i \in DOMAIN pool \ {Top.id} |-> pool[i]],
                   conn', variousIDs)
        /\ OnlyData(RestAfter(r), pool)
        /\ 1 \in Nat
    BY <1>1, <1>2, TopFacts, ControlFacts, ControlStep DEF Conversation
  <1>4. DataSent(n, m, S, <<>>, {Top.id}, RestAfter(r))
    BY <1>3, DataAlone
  <1> QED
    BY <1>4, AnswerShipped

-----------------------------------------------------------------------------
(* Data packets.                                                           *)

\* Node r reads the data packet on top: of the packets in transmission all
\* the others stay right if m, the next hop, welcomes them as before.
LEMMA DataRead ==
    ASSUME IInv, Conversation, Frame, NEW n \in Nodes, NEW m \in Nodes, Exchanging(n, m),
           NEW r, Receiving(r), pool[Top.id].type = "DATA", Access(Top.id, RestAfter(r)),
           \A p : Welcome(m, p) =>
              Welcome(m, p)' \/ (r = m /\ p \in pool[Top.id].ids)
    PROVE  OneControl' /\ Exchanging(n, m)'
  <1>1. /\ OneControl'
        /\ \A id \in DOMAIN pool' :
              /\ id \in DOMAIN pool /\ IsData(id) /\ IsData(id)'
              /\ pool'[id].prev = pool[id].prev /\ pool'[id].next = pool[id].next
              /\ pool'[id].ids = pool[id].ids
        /\ \A id, x : Awaiting(evlist', id, x)
              <=> Awaiting(evlist, id, x) /\ ~(id = Top.id /\ x = r)
    BY AccessView DEF Conversation
  <1>2. Top.id \in DOMAIN pool /\ IsData(Top.id)
    BY TopFacts DEF IsData
  <1>3. ASSUME NEW id \in DOMAIN pool' PROVE DataRight(id, n, m)'
    <2>1. DataRight(id, n, m) /\ id \in DOMAIN pool
      BY <1>1 DEF Exchanging
    <2>2. ASSUME Awaiting(evlist', id, m), NEW p \in pool[id].ids, Welcome(m, p)
          PROVE  Welcome(m, p)'
      <3>1. ~(r = m /\ p \in pool[Top.id].ids)
        BY <1>1, <1>2, <2>1, <2>2 DEF DataRight
      <3> QED
        BY <2>2, <3>1
    <2>3. \A x \in DOMAIN pool' :
             x # id /\ pool'[x].type = "DATA" => pool'[x].ids \cap pool[id].ids = {}
      BY <1>1, <2>1 DEF DataRight
    <2> QED
      BY <1>1, <2>1, <2>2, <2>3, DataKept
  <1> QED
    BY <1>1, <1>3 DEF Exchanging

\* The data packet on top is right, and m, its next hop, is to receive it.
LEMMA DataTop ==
    ASSUME IInv, Conversation, NEW r, Receiving(r), pool[Top.id].type = "DATA"
    PROVE  \E n, m \in Nodes :
              /\ Exchanging(n, m) /\ DataRight(Top.id, n, m)
              /\ pool[Top.id].next = m /\ r \in Nodes
              /\ Awaiting(evlist, Top.id, r)
  <1>1. /\ r \in Nodes /\ Top.id \in DOMAIN pool /\ Top = evlist[1] /\ evlist # <<>>
        /\ 1 \in 1..Len(evlist) /\ Top.ev = "TX" /\ r \in Top.rcv
    BY TopFacts DEF Receiving, TopIs
  <1>2. PICK n \in Nodes, m \in Nodes : Exchanging(n, m)
    BY <1>1 DEF Conversation
  <1>3. DataRight(Top.id, n, m)
    BY <1>1, <1>2 DEF Exchanging, IsData
  <1>4. Awaiting(evlist, Top.id, r)
    BY <1>1 DEF Awaiting
  <1> QED
    BY <1>1, <1>2, <1>3, <1>4 DEF DataRight

\* What is on its way to its destination is so still, but for the packet on
\* top if r is its destination.
LEMMA ArrivingRead ==
    ASSUME IInv, OneControl, Frame, NEW r, Receiving(r), pool[Top.id].type = "DATA",
           Access(Top.id, RestAfter(r)), received \subseteq received'
    PROVE  \A p : Arriving(p) =>
              Arriving(p)'
              \/ (pool[Top.id].next = r /\ origin[p].dst = r /\ p \in pool[Top.id].ids)
  <1>1. /\ \A id \in DOMAIN pool' :
              /\ IsData(id)'
              /\ pool'[id].next = pool[id].next /\ pool'[id].ids = pool[id].ids
        /\ \A id, x : Awaiting(evlist', id, x)
              <=> Awaiting(evlist, id, x) /\ ~(id = Top.id /\ x = r)
        /\ \A id, x : Awaiting(evlist', id, x) => id \in DOMAIN pool'
    BY AccessView
  <1> SUFFICES ASSUME NEW p, Arriving(p),
                      ~(pool[Top.id].next = r /\ origin[p].dst = r /\ p \in pool[Top.id].ids)
               PROVE  Arriving(p)'
    OBVIOUS
  <1>2. CASE p \in received
    BY <1>2 DEF Arriving
  <1>3. CASE p \notin received
    <2>1. PICK id \in DOMAIN pool :
             /\ IsData(id) /\ p \in pool[id].ids
             /\ pool[id].next = origin[p].dst /\ Awaiting(evlist, id, pool[id].next)
      BY <1>3 DEF Arriving
    <2>2. Awaiting(evlist', id, pool[id].next)
      BY <1>1, <2>1
    <2>3. id \in DOMAIN pool' /\ origin' = origin
      BY <1>1, <2>2 DEF Frame
    <2> QED
      BY <1>1, <2>1, <2>2, <2>3 DEF Arriving
  <1> QED
    BY <1>2, <1>3

\* A node that the packet is not for.
LEMMA OverhearHeard ==
    ASSUME IInv, Conversation, Frame, NEW r, Receiving(r), pool[Top.id].type = "DATA",
           Overhear(r, Top.id, pool[Top.id], RestAfter(r))
    PROVE  Conversation'
  <1>1. /\ pool[Top.id].next # r /\ Access(Top.id, RestAfter(r))
        /\ UNCHANGED <<buffer, dmVars, statVars, halted>>
    BY DEF Overhear
  <1>2. PICK n \in Nodes, m \in Nodes : Exchanging(n, m)
    BY DataTop
  <1>3. \A p : Welcome(m, p) => Welcome(m, p)'
    BY <1>1, WelcomeKept DEF dmVars, statVars
  <1>4. OneControl' /\ Exchanging(n, m)'
    BY <1>1, <1>2, <1>3, DataRead
  <1>5. \A p : Arriving(p) => Arriving(p)'
    BY <1>1, ArrivingRead DEF Conversation, statVars
  <1>6. StoredOK'
    BY <1>1, <1>5, StoredKept DEF Conversation
  <1> QED
    BY <1>4, <1>6 DEF Conversation

\* The destination.
LEMMA DeliverHeard ==
    ASSUME IInv, SetOK, Conversation, Frame, NEW r, Receiving(r), pool[Top.id].type = "DATA",
           NEW p \in pool[Top.id].ids, Deliver(r, Top.id, pool[Top.id], RestAfter(r), p)
    PROVE  Conversation'
  <1>1. pool[Top.id].next = r /\ origin[p].dst = r
    BY DEF Deliver
  <1>2. PICK n \in Nodes, m \in Nodes :
           /\ Exchanging(n, m) /\ DataRight(Top.id, n, m)
           /\ pool[Top.id].next = m /\ r \in Nodes /\ Awaiting(evlist, Top.id, r)
    BY DataTop
  <1>3. /\ r = m /\ pool[Top.id].ids = {p} /\ p \in Known /\ Welcome(m, p)
    BY <1>1, <1>2 DEF DataRight
  <1>4. ~isDelivered(m, p) /\ (NoDuplicatesSupport => p \notin received)
    BY <1>1, <1>3 DEF Welcome
  <1>5. /\ SetAsDelivered(m, delivered[m] \cup {p}) /\ PktRec(p)
        /\ Access(Top.id, RestAfter(r)) /\ UNCHANGED <<buffer, halted>>
    BY <1>3, <1>4 DEF Deliver
  <1>6. DataOK /\ StoredOK /\ OneControl
    BY DEF IInv, Conversation
  <1>7. /\ \A x \in Nodes : delivered'[x] = IF x = m /\ KeepsDelivered
                                            THEN delivered[m] \cup {p} ELSE delivered[x]
        /\ god' = IF DelMech = "CATACLYSM" THEN god \cup delivered[m] \cup {p} ELSE god
        /\ received' = received \cup {p}
        /\ NoDuplicatesSupport => duplicates' = duplicates
    BY <1>2, <1>4, <1>5, <1>6 DEF DataOK, SetAsDelivered, PktRec
  <1>8. \A q : Welcome(m, q) => Welcome(m, q)' \/ q = p
    <2> SUFFICES ASSUME NEW q, Welcome(m, q), q # p PROVE Welcome(m, q)'
      OBVIOUS
    <2> QED
      BY <1>5, <1>7, FrameFacts DEF Welcome, isDelivered, Vaccinated
  <1>9. OneControl' /\ Exchanging(n, m)'
    BY <1>2, <1>3, <1>5, <1>8, DataRead
  <1>10. \A q : Arriving(q) => Arriving(q)'
    <2>1. \A q : Arriving(q) => Arriving(q)' \/ q \in pool[Top.id].ids
      BY <1>5, <1>6, <1>7, ArrivingRead
    <2>2. p \in received'
      BY <1>7
    <2> QED
      BY <1>3, <2>1, <2>2 DEF Arriving
  <1>11. StoredOK'
    <2>1. Arriving(p)'
      BY <1>7 DEF Arriving
    <2>2. ASSUME NEW x \in Nodes, NEW q \in buffer'[x]
          PROVE  q \in Known' /\ origin'[q].dst # x /\ ~Vaccinated(x, q)'
      <3>1. q \in buffer[x]
        BY <1>5, <2>2
      <3>2. q \in Known /\ origin[q].dst # x /\ ~Vaccinated(x, q)
        BY <1>6, <3>1 DEF StoredOK
      <3> QED
        BY <1>1, <1>3, <1>7, <3>2, FrameFacts DEF Vaccinated
    <2>3. ASSUME NEW x \in Nodes, NEW q \in delivered'[x]
          PROVE  q \in Known' /\ Arriving(q)'
      BY <1>3, <1>6, <1>7, <1>10, <2>1, <2>3, FrameFacts DEF StoredOK
    <2>4. ASSUME NEW q \in god' PROVE q \in Known' /\ Arriving(q)'
      <3>1. q \in god \/ q \in delivered[m] \/ q = p
        BY <1>7, <2>4
      <3> QED
        BY <1>3, <1>6, <1>10, <2>1, <3>1, FrameFacts DEF StoredOK
    <2>5. ASSUME NEW q \in received'
          PROVE  /\ q \in Known'
                 /\ KeepsDelivered' => q \in delivered'[origin'[q].dst]
                 /\ DelMech' = "CATACLYSM" => q \in god'
      <3>1. CASE q = p
        BY <1>1, <1>2, <1>3, <1>7, <3>1, FrameFacts
      <3>2. CASE q # p
        <4>1. /\ q \in Known /\ (KeepsDelivered => q \in delivered[origin[q].dst])
              /\ DelMech = "CATACLYSM" => q \in god
          BY <1>6, <1>7, <2>5, <3>2 DEF StoredOK
        <4>2. origin[q].dst \in Nodes
          <5>1. origin \in Seq([src : Nodes, dst : Nodes, time : 0..MaxTime])
            BY DEF IInv, NetOK
          <5>2. origin[q] \in [src : Nodes, dst : Nodes, time : 0..MaxTime]
            BY <4>1, <5>1, ElementOfSeq DEF Known
          <5> QED
            BY <5>2
        <4> QED
          BY <1>7, <4>1, <4>2, FrameFacts
      <3> QED
        BY <3>1, <3>2
    <2>6. (NoDuplicatesSupport' => duplicates' = {}) /\ ~halted'
      BY <1>5, <1>6, <1>7, FrameFacts DEF StoredOK
    <2> QED
      BY <2>2, <2>3, <2>4, <2>5, <2>6 DEF StoredOK
  <1> QED
    BY <1>9, <1>11 DEF Conversation

\* A node that stores the packet and carries it on.
LEMMA PacketStored ==
    ASSUME IInv, Conversation, Frame, NEW r, Receiving(r), pool[Top.id].type = "DATA",
           NEW p \in pool[Top.id].ids, pool[Top.id].next = r, origin[p].dst # r
    PROVE  /\ r \in Nodes /\ p \notin buffer[r] /\ p \in Known
           /\ (/\ \E b \in Added(buffer[r], p) : buffer' = [buffer EXCEPT ![r] = b]
               /\ Access(Top.id, RestAfter(r)) /\ UNCHANGED <<dmVars, statVars, halted>>)
              => Conversation'
  <1>1. pool[Top.id].next = r /\ origin[p].dst # r
    OBVIOUS
  <1>2. PICK n \in Nodes, m \in Nodes :
           /\ Exchanging(n, m) /\ DataRight(Top.id, n, m)
           /\ pool[Top.id].next = m /\ r \in Nodes /\ Awaiting(evlist, Top.id, r)
    BY DataTop
  <1>3. r = m /\ pool[Top.id].ids = {p} /\ p \in Known /\ Welcome(m, p)
    BY <1>1, <1>2 DEF DataRight
  <1>4. p \notin buffer[m] /\ ~Vaccinated(m, p)
    BY <1>1, <1>3 DEF Welcome
  <1> SUFFICES ASSUME \E b \in Added(buffer[r], p) : buffer' = [buffer EXCEPT ![r] = b],
                      Access(Top.id, RestAfter(r)), UNCHANGED <<dmVars, statVars, halted>>
               PROVE  Conversation'
    BY <1>2, <1>3, <1>4
  <1>5. /\ \E b \in Added(buffer[m], p) : buffer' = [buffer EXCEPT ![m] = b]
        /\ Access(Top.id, RestAfter(r)) /\ UNCHANGED <<dmVars, statVars, halted>>
    BY <1>3
  <1>6. DataOK /\ StoredOK /\ OneControl
    BY DEF IInv, Conversation
  <1>7. /\ \A x \in Nodes \ {m} : buffer'[x] = buffer[x]
        /\ buffer'[m] \subseteq buffer[m] \cup {p}
        /\ delivered' = delivered /\ god' = god /\ received' = received
        /\ duplicates' = duplicates /\ halted' = halted
    BY <1>5, <1>6 DEF DataOK, Added, Alive, dmVars, statVars
  <1>8. \A q : Welcome(m, q) => Welcome(m, q)' \/ q = p
    BY <1>7, FrameFacts DEF Welcome, isDelivered, Vaccinated
  <1>9. OneControl' /\ Exchanging(n, m)'
    BY <1>2, <1>3, <1>5, <1>8, DataRead
  <1>10. \A q : Arriving(q) => Arriving(q)'
    <2>1. \A q : Arriving(q) =>
             Arriving(q)' \/ (origin[q].dst = r /\ q \in pool[Top.id].ids)
      BY <1>5, <1>6, <1>7, ArrivingRead
    <2> QED
      BY <1>1, <1>3, <2>1
  <1>11. StoredOK'
    <2>1. ASSUME NEW x \in Nodes, NEW q \in buffer'[x]
          PROVE  q \in Known' /\ origin'[q].dst # x /\ ~Vaccinated(x, q)'
      <3>1. q \in buffer[x] \/ (q = p /\ x = m)
        BY <1>7, <2>1
      <3> QED
        BY <1>1, <1>3, <1>4, <1>6, <1>7, <3>1, FrameFacts DEF StoredOK, Vaccinated
    <2> QED
      BY <1>6, <1>7, <1>10, <2>1, FrameFacts DEF StoredOK
  <1> QED
    BY <1>9, <1>11 DEF Conversation
-----------------------------------------------------------------------------
(* Contacts, packets of the application, the environment.                  *)

\* Nothing is in transmission, before the step and after it.
Idle == DOMAIN pool = {}

LEMMA IdleFacts ==
    ASSUME IInv, Idle
    PROVE  /\ NoData /\ OneControl /\ \A p : Arriving(p) <=> p \in received
           /\ \A i \in 1..Len(evlist) : evlist[i].ev # "TX"
  <1>1. \A i \in 1..Len(evlist) : evlist[i].ev # "TX"
    BY DEF IInv, StackOK, InTransit, Idle
  <1>2. OneControl
    BY <1>1 DEF OneControl, IInv, StackOK
  <1> QED
    BY <1>1, <1>2 DEF NoData, Arriving, Idle

\* In an idle state only what is stored and known matters.
LEMMA IdleConversation ==
    ASSUME IInv', Idle', StoredOK'
    PROVE  Conversation'
  <1>1. \A i \in 1..Len(evlist') : evlist'[i].ev # "TX"
    BY DEF IInv, StackOK, InTransit, Idle
  <1>2. OneControl'
    BY <1>1 DEF OneControl, IInv, StackOK
  <1> QED
    BY <1>2 DEF Conversation, Idle

\* When nothing of what is stored and known changes.
LEMMA IdleKept ==
    ASSUME IInv, IInv', Idle, Idle', Conversation,
           UNCHANGED <<Set, origin, buffer, dmVars, statVars, halted>>
    PROVE  Conversation'
  <1>1. \A p : Arriving(p) => Arriving(p)'
    BY IdleFacts DEF Arriving, statVars
  <1>2. \A n, p : Vaccinated(n, p)' <=> Vaccinated(n, p)
    BY DEF Vaccinated, dmVars, DelMech
  <1>3. /\ (KeepsDelivered' <=> KeepsDelivered) /\ DelMech' = DelMech /\ Known' = Known
        /\ (NoDuplicatesSupport' <=> NoDuplicatesSupport)
    BY DEF KeepsDelivered, NoDuplicatesSupport, DelMech, Known
  <1>4. StoredOK'
    BY <1>1, <1>2, <1>3 DEF Conversation, StoredOK, dmVars, statVars
  <1> QED
    BY <1>4, IdleConversation

LEMMA ContactUpHeard ==
    ASSUME IInv, SetOK, Replicating, Conversation, ContactUp, UNCHANGED Set
    PROVE  Conversation'
  <1>0. PICK a, b : a = Top.a /\ b = Top.b
    OBVIOUS
  <1> DEFINE rest == Tail(evlist)
  <1>1. TopIs("UP") /\ Connect(a, b) /\ UNCHANGED <<now, origin>> /\ Contact(a, b, rest)
    BY <1>0 DEF ContactUp
  <1>2. Frame /\ StoredOK /\ DataOK
    BY <1>1 DEF Frame, IInv, Conversation
  <1>3. a \in Nodes /\ b \in Nodes /\ a # b /\ evlist # <<>> /\ Head(evlist).ev # "TX"
    BY <1>0, <1>1, ContactFacts
  <1>4. conn' \in [Nodes -> SUBSET Nodes] /\ b \in conn'[a]
    BY <1>1, <1>3, LinkFacts DEF IInv
  <1>5. /\ DOMAIN pool = {}
        /\ StackOK(rest, [i \in DOMAIN pool \ {} |-> pool[i]], conn', variousIDs)
    BY <1>3, NoTransmission DEF IInv
  <1>6. OnlyData(rest, pool)
    <2>1. \A i \in 1..Len(evlist) : evlist[i].ev # "TX"
      BY <1>5, IdleFacts DEF Idle
    <2>2. \A i \in 1..Len(rest) : i + 1 \in 1..Len(evlist) /\ rest[i] = evlist[i + 1]
      BY <1>3 DEF IInv, StackOK
    <2> QED
      BY <2>1, <2>2 DEF OnlyData
  <1>7. NoData /\ \A p : Arriving(p) <=> p \in received
    BY <1>5, IdleFacts DEF Idle
  <1>8. buffer[a] \in SUBSET PktIDs /\ delivered[a] \in SUBSET PktIDs
    BY <1>2, <1>3 DEF DataOK
  <1> HIDE DEF rest
  <1>9. ASSUME NEW type \in Types \ {"DATA"}, NEW ids \in SUBSET PktIDs,
               Send(<<Control(type, a, b, ids)>>, {}, rest), StoredOK',
               NoData' => \A pkt : pkt = Control(type, a, b, ids)
                             => ControlRight(pkt, a, b)'
        PROVE  Conversation'
    <2>1. PICK pkt : pkt = Control(type, a, b, ids)
      OBVIOUS
    <2>2. pkt.type # "DATA" /\ Send(<<pkt>>, {}, rest) /\ Sendable(<<pkt>>, a, conn')
      BY <1>3, <1>4, <1>9, <2>1, TypeFacts, SendableControl DEF Control
    <2>3. OneControl' /\ \A id \in DOMAIN pool' : pool'[id] = pkt
      BY <1>3, <1>4, <1>5, <1>6, <2>2, ControlView
    <2>4. NoData'
      BY <2>2, <2>3 DEF NoData, IsData
    <2>5. ControlRight(pkt, a, b)'
      BY <1>9, <2>1, <2>4
    <2>6. \A id \in DOMAIN pool' : ~IsData(id)' /\ ControlRight(pool[id], a, b)'
      BY <2>3, <2>4, <2>5, ControlPooled DEF NoData
    <2>7. Exchanging(a, b)'
      BY <1>3, <2>6 DEF Exchanging
    <2> QED
      BY <1>3, <1>9, <2>3, <2>7 DEF Conversation
  <1>10. ASSUME UNCHANGED <<dmVars, statVars, halted>>,
                \A x \in Nodes : buffer'[x] \subseteq buffer[x]
         PROVE  StoredOK' /\ \A p : Arriving(p) => Arriving(p)'
    <2>1. \A p : Arriving(p) => Arriving(p)'
      BY <1>2, <1>7, <1>10, ArrivingKept DEF NoData, Frame, statVars
    <2> QED
      BY <1>2, <1>10, <2>1, StoredKept
  <1>11. CASE DelMech = "VACCINE"
    <2>1. SendVaccine(a, b, rest)
      BY <1>1, <1>11 DEF Contact
    <2>2. /\ Send(<<Control("ANTIPACKET", a, b, delivered[a])>>, {}, rest)
          /\ UNCHANGED <<buffer, dmVars, statVars, halted>>
      BY <2>1 DEF SendVaccine
    <2>3. StoredOK' /\ \A p : Arriving(p) => Arriving(p)'
      BY <1>10, <2>2
    <2>4. PICK ids : ids = delivered[a]
      OBVIOUS
    <2>5. ids \in SUBSET PktIDs /\ ids \subseteq Known /\ \A p \in ids : Arriving(p)
      BY <1>2, <1>3, <1>8, <2>4 DEF StoredOK
    <2>6. ASSUME NoData', NEW pkt, pkt = Control("ANTIPACKET", a, b, ids)
          PROVE  ControlRight(pkt, a, b)'
      <3>1. pkt.type = "ANTIPACKET" /\ pkt.prev = a /\ pkt.next = b /\ pkt.ids = ids
        BY <2>6 DEF Control
      <3> QED
        BY <1>2, <1>11, <2>3, <2>5, <2>6, <3>1, FrameFacts DEF ControlRight, DeliveryRight, UtilityRight, Ask
    <2>7. "ANTIPACKET" \in Types \ {"DATA"}
      BY TypeFacts
    <2> QED
      BY <1>9, <2>2, <2>3, <2>4, <2>5, <2>6, <2>7
  <1>12. CASE ExchangeDirectSummary
    <2>1. DelMech # "VACCINE" /\ SendDirectSummary(a, b, rest)
      BY <1>1, <1>12 DEF Contact, ExchangeDirectSummary
    <2>2. /\ Send(<<Control("DIRECT_SUMMARY", a, b, DestinedTo(buffer[a], b))>>, {}, rest)
          /\ buffer' = [buffer EXCEPT ![a] = Alive(@)]
          /\ UNCHANGED <<dmVars, statVars, halted>>
      BY <2>1 DEF SendDirectSummary
    <2>3. /\ \A x \in Nodes : buffer'[x] = IF x = a THEN Alive(buffer[a]) ELSE buffer[x]
          /\ \A x \in Nodes : buffer'[x] \subseteq buffer[x]
      BY <1>2, <1>3, <2>2 DEF DataOK, Alive
    <2>4. StoredOK'
      BY <1>10, <2>2, <2>3
    <2>5. PICK ids : ids = DestinedTo(buffer[a], b)
      OBVIOUS
    <2>6. /\ ids \in SUBSET PktIDs
          /\ \A p \in ids : /\ p \in Known /\ p \in buffer'[a] /\ IsAlive(p)
                            /\ origin[p].dst = b
      BY <1>2, <1>3, <1>8, <2>3, <2>5, BufferParts DEF StoredOK, DestinedTo, Alive
    <2>7. ASSUME NoData', NEW pkt, pkt = Control("DIRECT_SUMMARY", a, b, ids)
          PROVE  ControlRight(pkt, a, b)'
      <3>1. pkt.type = "DIRECT_SUMMARY" /\ pkt.prev = a /\ pkt.next = b /\ pkt.ids = ids
        BY <2>7 DEF Control
      <3> QED
        BY <1>2, <1>12, <2>6, <2>7, <3>1, FrameFacts DEF ControlRight, DeliveryRight, UtilityRight, Ask, Offered
    <2>8. "DIRECT_SUMMARY" \in Types \ {"DATA"}
      BY TypeFacts
    <2> QED
      BY <1>9, <2>2, <2>4, <2>5, <2>6, <2>7, <2>8
  <1>13. CASE DelMech # "VACCINE" /\ ~ExchangeDirectSummary
    <2> DEFINE kept == Cleaned(buffer[a], delivered[a])
    <2>1. SendDirectPackets(a, b, kept, delivered[a], {}, rest)
      BY <1>1, <1>13 DEF Contact
    <2>2. /\ kept \subseteq buffer[a] /\ kept \in SUBSET PktIDs
          /\ DelMech = "CATACLYSM" => kept \cap god = {}
      BY <1>8, <1>13 DEF Cleaned
    <2>3. delivered[a] \subseteq Known /\ \A p \in delivered[a] : Arriving(p)
      BY <1>2, <1>3 DEF StoredOK
    <2> HIDE DEF kept
    <2>4. DOMAIN pool \ {} = {}
      BY <1>5
    <2> QED
      BY <1>2, <1>3, <1>4, <1>5, <1>6, <1>7, <1>8, <1>13, <2>1, <2>2, <2>3, <2>4,
         DirectPacketsSent
  <1> QED
    BY <1>11, <1>12, <1>13

LEMMA ContactDownHeard ==
    ASSUME IInv, IInv', Conversation, ContactDown, UNCHANGED Set
    PROVE  Conversation'
  <1>1. /\ TopIs("DOWN") /\ UNCHANGED <<now, origin, pool, buffer, dmVars, statVars, halted>>
    BY DEF ContactDown
  <1>2. evlist # <<>> /\ Head(evlist).ev # "TX"
    BY <1>1, ContactFacts
  <1>3. Idle
    BY <1>2, NoTransmission DEF IInv, Idle
  <1>4. Idle'
    BY <1>1, <1>3 DEF Idle
  <1> QED
    BY <1>1, <1>3, <1>4, IdleKept

\* The packet is new to everybody.
LEMMA RecvFromAppHeard ==
    ASSUME IInv, IInv', Conversation, RecvFromApp, UNCHANGED Set
    PROVE  Conversation'
  <1> DEFINE p == Len(origin) + 1
  <1> DEFINE pkt == [src |-> Top.a, dst |-> Top.b, time |-> now]
  <1>1. /\ TopIs("APP") /\ origin' = Append(origin, pkt)
        /\ UNCHANGED <<now, pool, dmVars, statVars, halted>>
    BY DEF RecvFromApp
  <1>2. PICK b \in Added(buffer[Top.a], p) : buffer' = [buffer EXCEPT ![Top.a] = b]
    BY DEF RecvFromApp
  <1>3. Top.a \in Nodes /\ Top.b \in Nodes /\ Top.a # Top.b /\ evlist # <<>>
        /\ Head(evlist).ev # "TX"
    BY <1>1, ContactFacts
  <1>4. Idle
    BY <1>3, NoTransmission DEF IInv, Idle
  <1>5. Idle' /\ received' = received /\ delivered' = delivered /\ god' = god
        /\ duplicates' = duplicates
    BY <1>1, <1>4 DEF Idle, dmVars, statVars
  <1>6. \A q : Arriving(q) => Arriving(q)'
    BY <1>4, <1>5, IdleFacts DEF Arriving
  <1>7. /\ \A q \in Known : q \in Known' /\ origin'[q] = origin[q] /\ q # p
        /\ p \in Known' /\ p \notin Known /\ origin'[p] = pkt
    BY <1>1 DEF IInv, NetOK, Known
  <1>8. b \subseteq buffer[Top.a] \cup {p}
    BY <1>2 DEF Added, Alive
  <1>9. \A x \in Nodes : buffer'[x] = IF x = Top.a THEN b ELSE buffer[x]
    BY <1>2, <1>3 DEF IInv, DataOK
  <1> HIDE DEF p
  <1>10. /\ (KeepsDelivered' <=> KeepsDelivered) /\ DelMech' = DelMech
         /\ (NoDuplicatesSupport' <=> NoDuplicatesSupport)
         /\ \A n, q : Vaccinated(n, q)' <=> Vaccinated(n, q)
    BY <1>5 DEF KeepsDelivered, NoDuplicatesSupport, DelMech, Vaccinated
  <1>11. StoredOK'
    <2>1. StoredOK
      BY DEF Conversation
    <2>2. ASSUME NEW x \in Nodes, NEW q \in buffer'[x]
          PROVE  q \in Known' /\ origin'[q].dst # x /\ ~Vaccinated(x, q)'
      <3>1. CASE q = p
        <4>1. x = Top.a
          BY <1>7, <1>9, <2>1, <2>2, <3>1 DEF StoredOK
        <4>2. p \notin delivered[x]
          BY <1>7, <2>1 DEF StoredOK
        <4> QED
          BY <1>3, <1>7, <1>10, <3>1, <4>1, <4>2 DEF Vaccinated
      <3>2. CASE q # p
        <4>1. q \in buffer[x]
          BY <1>8, <1>9, <2>2, <3>2
        <4> QED
          BY <1>7, <1>10, <2>1, <4>1 DEF StoredOK
      <3> QED
        BY <3>1, <3>2
    <2>3. \A q \in received' :
             /\ q \in Known'
             /\ KeepsDelivered' => q \in delivered'[origin'[q].dst]
             /\ DelMech' = "CATACLYSM" => q \in god'
      BY <1>5, <1>7, <1>10, <2>1 DEF StoredOK
    <2>4. \A x \in Nodes : delivered'[x] \subseteq Known'
      BY <1>5, <1>7, <2>1 DEF StoredOK
    <2>5. god' \subseteq Known'
      BY <1>5, <1>7, <2>1 DEF StoredOK
    <2>6. \A q \in god' : Arriving(q)'
      BY <1>5, <1>6, <2>1 DEF StoredOK
    <2>7. \A x \in Nodes : \A q \in delivered'[x] : Arriving(q)'
      BY <1>5, <1>6, <2>1 DEF StoredOK
    <2>8. (NoDuplicatesSupport' => duplicates' = {}) /\ ~halted'
      BY <1>1, <1>5, <1>10, <2>1 DEF StoredOK
    <2> QED
      BY <2>2, <2>3, <2>4, <2>5, <2>6, <2>7, <2>8 DEF StoredOK
  <1> QED
    BY <1>5, <1>11, IdleConversation

LEMMA EnvironmentHeard ==
    ASSUME IInv, IInv', Conversation, Environment, UNCHANGED Set
    PROVE  Conversation'
  <1>1. Quiet /\ UNCHANGED <<pool, origin, buffer, dmVars, statVars, halted>>
    BY DEF Environment, Tick, BeginContact, EndContact, TouchContact, Generate, Schedule,
       netVars, msgVars
  <1>2. Idle
    <2>1. 1..Len(evlist) = {}
      BY <1>1 DEF Quiet
    <2> QED
      BY <2>1 DEF IInv, StackOK, Idle
  <1>3. Idle'
    BY <1>1, <1>2 DEF Idle
  <1> QED
    BY <1>1, <1>2, <1>3, IdleKept

-----------------------------------------------------------------------------
(* At the beginning, and what all this means.                              *)

LEMMA ConversationInit == Init => Conversation
  <1> SUFFICES ASSUME Init PROVE Conversation
    OBVIOUS
  <1>1. /\ DOMAIN pool = {} /\ evlist = <<>> /\ god = {} /\ received = {}
        /\ duplicates = {} /\ ~halted
        /\ \A n \in Nodes : buffer[n] = {} /\ delivered[n] = {}
    BY DEF Init
  <1>2. OneControl
    <2>1. Len(evlist) = 0 /\ 2..0 = {}
      BY <1>1
    <2> QED
      BY <2>1 DEF OneControl
  <1>3. StoredOK
    BY <1>1 DEF StoredOK
  <1> QED
    BY <1>1, <1>2, <1>3 DEF Conversation

\* The conversation depends on the variables of the exchange only.
LEMMA ConversationStill ==
    ASSUME Conversation, UNCHANGED vars
    PROVE  Conversation'
  <1>1. UNCHANGED <<Set, now, origin, evlist, pool, buffer, delivered, god, received,
                    duplicates, halted>>
    BY DEF vars, netVars, msgVars, dmVars, statVars
  <1> QED
    BY <1>1 DEF Conversation, OneControl, IsData, StoredOK, Known, Vaccinated, Arriving,
       Exchanging, DataRight, ControlRight, DeliveryRight, UtilityRight, Ask, NoData, DirectOnly,
       Offered, Welcome, Unknown, ByUtility, RT,
       isDelivered, IsAlive, TTL, DelMech, KeepsDelivered, NoDuplicatesSupport,
       ExchangeDirectSummary

\* What the invariant says in the terms of the properties.
LEMMA ConversationImplies ==
    IInv /\ SetOK /\ Conversation
       => NoError /\ NoDuplicates /\ Immunity /\ Truthful /\ NothingStale
  <1> SUFFICES ASSUME IInv, SetOK, Conversation
               PROVE  NoError /\ NoDuplicates /\ Immunity /\ Truthful /\ NothingStale
    OBVIOUS
  <1>1. StoredOK
    BY DEF Conversation
  <1>2. NoError /\ NoDuplicates /\ Immunity
    BY <1>1 DEF StoredOK, NoError, NoDuplicates, Immunity, Vaccinated
  <1>3. Truthful
    <2> SUFFICES ASSUME Quiet
                 PROVE  /\ god \subseteq received
                        /\ \A n \in Nodes : delivered[n] \subseteq received
      BY DEF Truthful
    <2>1. Idle
      <3>1. 1..Len(evlist) = {}
        BY DEF Quiet
      <3> QED
        BY <3>1 DEF IInv, StackOK, Idle
    <2> QED
      BY <1>1, <2>1, IdleFacts DEF StoredOK
  <1>4. NothingStale
    BY DEF NothingStale, Conversation, Exchanging, DataRight, IsData
  <1> QED
    BY <1>2, <1>3, <1>4

-----------------------------------------------------------------------------
(***************************************************************************)
(* An exchange without utilities leaves nothing out.  Of what the node     *)
(* that begins it stores and does not keep to itself the other has, is     *)
(* being sent, or is still owed each packet; and in the second direction   *)
(* of a contact what the first brought about stands.                       *)
(***************************************************************************)

\* The protocols that send whatever the other node does not store.
Flooding == SetOK /\ Replicating /\ ~ByUtility

\* What may be said of a packet p with m's contact: m has it, or has received it;
Served(p, m) == IF origin[p].dst = m THEN p \in received ELSE p \in buffer[m]

\* it is on its way to m;
Inbound(p, m) ==
    \E id \in DOMAIN pool :
        /\ IsData(id) /\ p \in pool[id].ids
        /\ pool[id].next = m /\ Awaiting(evlist, id, m)

\* or m is still to be told of it, or to be sent it, after control packet pkt.
Owed(pkt, p, m) ==
    CASE pkt.type \in {"ANTIPACKET", "ANTIPACKET_RESPONSE"} -> TRUE
      [] pkt.type \in {"DIRECT_SUMMARY", "DIRECT_REQUEST"} -> origin[p].dst = m => p \in pkt.ids
      [] OTHER -> p \in pkt.ids

Pending(p, m) == \E id \in DOMAIN pool : ~IsData(id) /\ Owed(pool[id], p, m)

\* Node n keeps packets W[n] to itself, unless they are for m: what it owes m.
Due(n, m, W) == {p \in Alive(buffer[n]) : origin[p].dst = m \/ p \notin W[n]}

Offering(n, m, W) == \A p \in Due(n, m, W) : Served(p, m) \/ Inbound(p, m) \/ Pending(p, m)

\* All that node n owes it node m has.
Over(n, m, W) == \A p \in Due(n, m, W) : Served(p, m)

\* It is n that began the exchange.
Directed(n, m) ==
    \A id \in DOMAIN pool :
        IF pool[id].type \in {"DATA", "ANTIPACKET", "DIRECT_SUMMARY", "SUMMARY"}
        THEN Ask(pool[id], n, m) ELSE Ask(pool[id], m, n)

\* Of a packet on its way to m node n keeps a copy, if it is not for m; and
\* what n is about to forget m does not store.
Backed(n, m) ==
    /\ \A id \in DOMAIN pool : IsData(id) =>
          \A p \in pool[id].ids :
             IF origin[p].dst = m THEN DelMech = "CATACLYSM" => p \in god
             ELSE p \in buffer[n]
    /\ \A id \in DOMAIN pool :
          pool[id].type = "ANTIPACKET" => delivered[n] \subseteq pool[id].ids
    /\ \A id \in DOMAIN pool :
          pool[id].type = "ANTIPACKET_RESPONSE" =>
             delivered[n] \subseteq pool[id].ids /\ buffer[m] \cap pool[id].ids = {}
    /\ DelMech = "CATACLYSM" => buffer[n] \cap god = {}

\* The exchange that n began with m will leave nothing out.
Meeting(n, m, W) == n # m /\ Directed(n, m) /\ Offering(n, m, W) /\ Backed(n, m)

\* The mechanism that spreads what it knows at once records nothing in nodes.
Unrecorded == DelMech = "CATACLYSM" => \A x \in Nodes : delivered[x] = {}

\* A step of the exchange that n began with m.
GoesOn(n, m, W) == Meeting(n, m, W)' /\ (Over(m, n, W) => Over(m, n, W)')

\* Node r hears a packet of the exchange that n began with m.
Hears(r, n, m, W) ==
    /\ IInv /\ Flooding /\ Conversation /\ Frame /\ Receiving(r)
    /\ n \in Nodes /\ m \in Nodes /\ Meeting(n, m, W)

-----------------------------------------------------------------------------
\* What is sent last is in the pool.
LEMMA Posted ==
    ASSUME NEW msgs, Len(msgs) \in Nat \ {0}, variousIDs \in Nat, NEW erased, NEW rest,
           Send(msgs, erased, rest)
    PROVE  \E id \in DOMAIN pool' : pool'[id] = msgs[Len(msgs)]
  <1> DEFINE id == variousIDs + Len(msgs)
  <1>1. id \in NewIDs(msgs) /\ id - variousIDs = Len(msgs)
    BY DEF NewIDs
  <1>2. id \in DOMAIN pool' /\ pool'[id] = msgs[id - variousIDs]
    BY <1>1 DEF Send, PoolWith
  <1> QED
    BY <1>1, <1>2

\* The exchange is the one that n began with m.
LEMMA SameExchange ==
    ASSUME Flooding, Conversation, NEW n \in Nodes, NEW m \in Nodes, Directed(n, m),
           DOMAIN pool # {}
    PROVE  Exchanging(n, m)
  <1>1. PICK x \in Nodes, y \in Nodes : Exchanging(x, y)
    BY DEF Conversation
  <1>2. PICK id \in DOMAIN pool : TRUE
    OBVIOUS
  <1>3. ~ByUtility
    BY DEF Flooding
  <1>4. CASE IsData(id)
    <2>1. pool[id].prev = x /\ pool[id].next = y
      BY <1>1, <1>4 DEF Exchanging, DataRight
    <2>2. pool[id].prev = n /\ pool[id].next = m
      BY <1>4 DEF Directed, IsData, Ask
    <2> QED
      BY <1>1, <2>1, <2>2
  <1>5. CASE ~IsData(id)
    <2>1. DeliveryRight(pool[id], x, y)
      BY <1>1, <1>3, <1>5 DEF Exchanging, ControlRight, UtilityRight
    <2>2. IF pool[id].type \in {"ANTIPACKET", "DIRECT_SUMMARY", "SUMMARY"}
          THEN Ask(pool[id], x, y) ELSE Ask(pool[id], y, x)
      BY <2>1 DEF DeliveryRight
    <2>3. IF pool[id].type \in {"ANTIPACKET", "DIRECT_SUMMARY", "SUMMARY"}
          THEN Ask(pool[id], n, m) ELSE Ask(pool[id], m, n)
      BY <1>5 DEF Directed, IsData
    <2>4. n = x /\ m = y
      BY <2>2, <2>3 DEF Ask
    <2> QED
      BY <1>1, <2>4
  <1> QED
    BY <1>4, <1>5

\* The packet on top, in the exchange of n with m.
LEMMA HearsFacts ==
    ASSUME NEW W, NEW r, NEW n, NEW m, Hears(r, n, m, W)
    PROVE  /\ Top.id \in DOMAIN pool /\ r \in Nodes /\ Exchanging(n, m) /\ n # m
           /\ OneControl /\ StoredOK /\ DataOK /\ variousIDs \in Nat
           /\ pool[Top.id].type # "DATA" =>
                 r = pool[Top.id].next /\ DeliveryRight(pool[Top.id], n, m)
  <1>1. Top.id \in DOMAIN pool /\ r \in Nodes
    BY TopFacts DEF Hears
  <1>2. Exchanging(n, m) /\ n # m
    BY <1>1, SameExchange DEF Hears, Meeting
  <1>3. OneControl /\ StoredOK /\ DataOK /\ variousIDs \in Nat
    BY DEF Hears, Conversation, IInv, StackOK
  <1>4. ~ByUtility
    BY DEF Hears, Flooding
  <1>5. pool[Top.id].type # "DATA" =>
           r = pool[Top.id].next /\ DeliveryRight(pool[Top.id], n, m)
    BY <1>1, <1>2, <1>3, <1>4, ControlStep DEF Hears, Exchanging, IsData, ControlRight, UtilityRight
  <1> QED
    BY <1>1, <1>2, <1>3, <1>5

\* Node r answers: data packets are as before, and the answer takes the place
\* of the packet on top.
LEMMA AnswerPosted ==
    ASSUME NEW W, NEW r, NEW n, NEW m, Hears(r, n, m, W), pool[Top.id].type # "DATA",
           NEW type \in Types \ {"DATA"}, NEW ids \in SUBSET PktIDs,
           Send(<<Control(type, r, pool[Top.id].prev, ids)>>, {Top.id}, RestAfter(r))
    PROVE  /\ \A p, x : Inbound(p, x) => Inbound(p, x)'
           /\ \E id \in DOMAIN pool' : pool'[id] = Control(type, r, pool[Top.id].prev, ids)
           /\ \A id \in DOMAIN pool : IsData(id) <=> id # Top.id
           /\ \A id \in DOMAIN pool' :
                 \/ id \in DOMAIN pool /\ IsData(id) /\ pool'[id] = pool[id]
                 \/ pool'[id] = Control(type, r, pool[Top.id].prev, ids)
  <1>1. IInv /\ OneControl /\ Receiving(r) /\ variousIDs \in Nat
    BY HearsFacts DEF Hears
  <1>2. /\ \A id \in DOMAIN pool :
              /\ IsData(id) <=> id # Top.id
              /\ IsData(id) => /\ id \in DOMAIN pool' /\ pool'[id] = pool[id]
                               /\ \A x : Awaiting(evlist', id, x) <=> Awaiting(evlist, id, x)
        /\ \A id \in DOMAIN pool' :
              \/ id \in DOMAIN pool /\ IsData(id)
              \/ pool'[id] = Control(type, r, pool[Top.id].prev, ids)
    BY <1>1, Replied
  <1>3. ASSUME NEW p, NEW x, Inbound(p, x) PROVE Inbound(p, x)'
    BY <1>2, <1>3 DEF Inbound, IsData
  <1>4. \E id \in DOMAIN pool' : pool'[id] = Control(type, r, pool[Top.id].prev, ids)
    <2>1. PICK msgs : msgs = <<Control(type, r, pool[Top.id].prev, ids)>>
      OBVIOUS
    <2>2. PICK erased, rest : erased = {Top.id} /\ rest = RestAfter(r)
      OBVIOUS
    <2>3. Send(msgs, erased, rest)
      BY <2>1, <2>2
    <2>4. Len(msgs) = 1 /\ msgs[1] = Control(type, r, pool[Top.id].prev, ids)
      BY <2>1
    <2>5. \E id \in DOMAIN pool' : pool'[id] = msgs[Len(msgs)]
      <3>1. variousIDs \in Nat /\ Len(msgs) \in Nat \ {0}
        BY <1>1, <2>4
      <3> QED
        BY ONLY <2>3, <3>1, Posted
    <2> QED
      BY <2>4, <2>5
  <1> QED
    BY <1>2, <1>3, <1>4

\* After an answer, with no buffer larger than before and as much received,
\* the exchange goes on if the answer still owes what the packet did.
LEMMA AnswerGoesOn ==
    ASSUME NEW W, NEW r, NEW n, NEW m, Hears(r, n, m, W), pool[Top.id].type # "DATA",
           NEW type \in {"ANTIPACKET_RESPONSE", "DIRECT_REQUEST", "REQUEST"},
           NEW ids \in SUBSET PktIDs,
           Send(<<Control(type, r, pool[Top.id].prev, ids)>>, {Top.id}, RestAfter(r)),
           r = m, pool[Top.id].prev = n, buffer'[n] = buffer[n], buffer'[m] \subseteq buffer[m],
           received' = received, god' = god,
           NEW pkt, pkt = Control(type, m, n, ids),
           \A p \in Due(n, m, W) :
              \/ Served(p, m)' \/ Inbound(p, m)
              \/ Owed(pkt, p, m),
           type = "ANTIPACKET_RESPONSE" => delivered'[n] \subseteq ids /\ buffer'[m] \cap ids = {}
    PROVE  GoesOn(n, m, W)
  <1>1. /\ n # m /\ n \in Nodes /\ m \in Nodes /\ Frame /\ Directed(n, m) /\ Backed(n, m)
    BY DEF Hears, Meeting
  <1>2. type \in Types \ {"DATA"}
    BY TypeFacts
  <1>3. /\ \A p, x : Inbound(p, x) => Inbound(p, x)'
        /\ \E id \in DOMAIN pool' : pool'[id] = pkt
        /\ \A id \in DOMAIN pool' :
              \/ id \in DOMAIN pool /\ IsData(id) /\ pool'[id] = pool[id]
              \/ pool'[id] = pkt
    BY <1>2, AnswerPosted
  <1>4. pkt.type = type /\ pkt.prev = m /\ pkt.next = n /\ pkt.ids = ids
    BY DEF Control
  <1>5. Directed(n, m)'
    <2> SUFFICES ASSUME NEW id \in DOMAIN pool'
                 PROVE  IF pool'[id].type \in {"DATA", "ANTIPACKET", "DIRECT_SUMMARY", "SUMMARY"}
                        THEN Ask(pool'[id], n, m) ELSE Ask(pool'[id], m, n)
      BY DEF Directed, Ask
    <2>1. CASE pool'[id] = pkt
      BY <1>4, <2>1 DEF Ask
    <2>2. CASE id \in DOMAIN pool /\ IsData(id) /\ pool'[id] = pool[id]
      BY <1>1, <2>2 DEF Directed, IsData
    <2> QED
      BY <1>3, <2>1, <2>2
  <1>6. Alive(buffer[n])' = Alive(buffer[n]) /\ Alive(buffer[m])' \subseteq Alive(buffer[m])
        /\ Due(n, m, W)' = Due(n, m, W) /\ Due(m, n, W)' \subseteq Due(m, n, W)
    BY <1>1, FrameFacts DEF Alive, Due
  <1>7. Offering(n, m, W)'
    <2> SUFFICES ASSUME NEW p \in Due(n, m, W)
                 PROVE  Served(p, m)' \/ Inbound(p, m)' \/ Pending(p, m)'
      BY <1>6 DEF Offering
    <2>1. CASE Owed(pkt, p, m)
      <3>1. PICK id \in DOMAIN pool' : pool'[id] = pkt
        BY <1>3
      <3>2. ~IsData(id)' /\ Owed(pool'[id], p, m)
        BY <1>4, <2>1, <3>1 DEF IsData
      <3>3. Owed(pool[id], p, m)'
        BY <1>1, <3>2, FrameFacts DEF Owed
      <3> QED
        BY <3>2, <3>3 DEF Pending
    <2> QED
      BY <1>3, <2>1
  <1>8. Backed(n, m)'
    <2>1. \A id \in DOMAIN pool' : IsData(id)' => id \in DOMAIN pool /\ IsData(id) /\ pool'[id] = pool[id]
      BY <1>3, <1>4 DEF IsData
    <2>2. \A id \in DOMAIN pool' : IsData(id)' =>
             \A p \in pool'[id].ids :
                IF origin'[p].dst = m THEN DelMech' = "CATACLYSM" => p \in god' ELSE p \in buffer'[n]
      BY <1>1, <2>1, FrameFacts DEF Backed
    <2>3. \A id \in DOMAIN pool' :
             pool'[id].type \in {"ANTIPACKET", "ANTIPACKET_RESPONSE"} => pool'[id] = pkt
      BY <1>3 DEF IsData
    <2>4. DelMech' = "CATACLYSM" => buffer'[n] \cap god' = {}
      BY <1>1, FrameFacts DEF Backed
    <2> QED
      BY <1>4, <2>2, <2>3, <2>4 DEF Backed
  <1>9. Over(m, n, W) => Over(m, n, W)'
    <2> SUFFICES ASSUME Over(m, n, W), NEW p \in Due(m, n, W)' PROVE Served(p, n)'
      BY DEF Over
    <2>1. Served(p, n)
      BY <1>6 DEF Over
    <2> QED
      BY <1>1, <2>1, FrameFacts DEF Served
  <1> QED
    BY <1>1, <1>5, <1>7, <1>8, <1>9 DEF GoesOn, Meeting

\* What the packet on top does not owe m has, or it is on its way to m.
LEMMA NotOwed ==
    ASSUME NEW W, NEW r, NEW n, NEW m, Hears(r, n, m, W), pool[Top.id].type # "DATA",
           NEW p \in Due(n, m, W), ~Owed(pool[Top.id], p, m)
    PROVE  Served(p, m) \/ Inbound(p, m)
  <1>1. \A id \in DOMAIN pool : ~IsData(id) => id = Top.id
    <2>1. /\ StackOK(RestAfter(r), [i \in DOMAIN pool \ {Top.id} |-> pool[i]], conn', variousIDs)
          /\ OnlyData(RestAfter(r), pool)
      BY HearsFacts, ControlStep DEF Hears
    <2> QED
      BY <2>1, ControlData
  <1>2. Served(p, m) \/ Inbound(p, m) \/ Pending(p, m)
    BY DEF Hears, Meeting, Offering
  <1> QED
    BY <1>1, <1>2 DEF Pending

\* What m forgets with its vaccine n is about to forget.
LEMMA AntipacketMeets ==
    ASSUME NEW W, NEW r, NEW n, NEW m, Hears(r, n, m, W),
           ReceptionAntipacket(r, Top.id, pool[Top.id], RestAfter(r))
    PROVE  GoesOn(n, m, W)
  <1> DEFINE pkt == pool[Top.id]
  <1> DEFINE info == delivered[r] \cup pkt.ids
  <1>1. /\ pkt.type = "ANTIPACKET"
        /\ delivered' = [delivered EXCEPT ![r] = info]
        /\ buffer' = [buffer EXCEPT ![r] = Cleaned(@, info)]
        /\ Send(<<Control("ANTIPACKET_RESPONSE", r, pkt.prev, info)>>, {Top.id}, RestAfter(r))
        /\ UNCHANGED <<god, statVars, halted>>
    BY DEF ReceptionAntipacket
  <1>2. /\ Top.id \in DOMAIN pool /\ pkt.type # "DATA" /\ n # m
        /\ pkt.prev = n /\ r = m /\ DelMech = "VACCINE" /\ n \in Nodes /\ m \in Nodes
    BY <1>1, HearsFacts DEF DeliveryRight, Ask, Hears
  <1>3. DataOK /\ pkt.ids \in SUBSET PktIDs /\ info \in SUBSET PktIDs
    BY <1>1, <1>2, HearsFacts, ControlFacts, TypeFacts DEF Hears, DataOK
  <1>4. /\ buffer'[n] = buffer[n] /\ buffer'[m] = buffer[m] \ info
        /\ delivered'[n] = delivered[n] /\ received' = received /\ god' = god
    BY <1>1, <1>2, <1>3 DEF DataOK, Cleaned, statVars
  <1>5. delivered[n] \subseteq pkt.ids
    BY <1>1, <1>2 DEF Hears, Meeting, Backed
  <1>6. PICK new : new = Control("ANTIPACKET_RESPONSE", m, n, info)
    OBVIOUS
  <1>7. \A p : Owed(new, p, m)
    <2>1. new.type = "ANTIPACKET_RESPONSE"
      BY <1>6 DEF Control
    <2> QED
      BY <2>1 DEF Owed
  <1>8. delivered'[n] \subseteq info /\ buffer'[m] \cap info = {} /\ buffer'[m] \subseteq buffer[m]
    BY <1>4, <1>5
  <1> HIDE DEF info
  <1> QED
    BY <1>1, <1>2, <1>3, <1>4, <1>6, <1>7, <1>8, AnswerGoesOn

\* What m does not ask for it has received.
LEMMA DirectSummaryMeets ==
    ASSUME NEW W, NEW r, NEW n, NEW m, Hears(r, n, m, W),
           ReceptionDirectSummary(r, Top.id, pool[Top.id], RestAfter(r))
    PROVE  GoesOn(n, m, W)
  <1> DEFINE pkt == pool[Top.id]
  <1> DEFINE live == IF pkt.ids = {} THEN buffer[r] ELSE Alive(buffer[r])
  <1> DEFINE wanted == {p \in pkt.ids : p \notin live /\ ~isDelivered(r, p)}
  <1>1. /\ pkt.type = "DIRECT_SUMMARY"
        /\ buffer' = [buffer EXCEPT ![r] = live]
        /\ Send(<<Control("DIRECT_REQUEST", r, pkt.prev, wanted)>>, {Top.id}, RestAfter(r))
        /\ UNCHANGED <<dmVars, statVars, halted>>
    BY DEF ReceptionDirectSummary
  <1>2. /\ Top.id \in DOMAIN pool /\ pkt.type # "DATA" /\ n # m
        /\ pkt.prev = n /\ r = m /\ n \in Nodes /\ m \in Nodes /\ NoData
        /\ \A p \in pkt.ids : origin[p].dst = m
    BY <1>1, HearsFacts DEF DeliveryRight, Ask, Hears
  <1>3. DataOK /\ StoredOK /\ pkt.ids \in SUBSET PktIDs /\ wanted \in SUBSET PktIDs
    BY <1>1, <1>2, HearsFacts, ControlFacts, TypeFacts DEF Hears, DataOK
  <1>4. /\ buffer'[n] = buffer[n] /\ buffer'[m] = live /\ live \subseteq buffer[m]
        /\ received' = received /\ god' = god
        /\ \A p \in buffer[m] : IsAlive(p) => p \in live
    BY <1>1, <1>2, <1>3 DEF DataOK, Alive, dmVars, statVars
  <1>5. PICK new : new = Control("DIRECT_REQUEST", m, n, wanted)
    OBVIOUS
  <1>6. new.type = "DIRECT_REQUEST" /\ new.ids = wanted
    BY <1>5 DEF Control
  <1>7. ASSUME NEW p \in Due(n, m, W)
        PROVE  Served(p, m)' \/ Inbound(p, m) \/ Owed(new, p, m)
    <2>1. IsAlive(p) /\ p \in buffer[n] /\ Frame
      BY DEF Due, Alive, Hears
    <2>2. CASE origin[p].dst # m
      BY <1>6, <2>2 DEF Owed
    <2>3. CASE origin[p].dst = m /\ p \in wanted
      BY <1>6, <2>3 DEF Owed
    <2>4. CASE origin[p].dst = m /\ p \in pkt.ids /\ p \notin wanted
      <3>1. p \notin live
        BY <1>2, <1>3, <1>4, <2>4 DEF StoredOK
      <3>2. p \in delivered[m]
        BY <1>2, <2>4, <3>1 DEF isDelivered
      <3>3. Arriving(p)
        BY <1>2, <1>3, <3>2 DEF StoredOK
      <3>4. p \in received
        BY <1>2, <3>3 DEF Arriving, NoData
      <3> QED
        BY <1>4, <2>1, <2>4, <3>4, FrameFacts DEF Served
    <2>5. CASE origin[p].dst = m /\ p \notin pkt.ids
      <3>1. ~Owed(pkt, p, m)
        BY <1>1, <2>5 DEF Owed
      <3>2. Served(p, m) \/ Inbound(p, m)
        BY <1>2, <3>1, NotOwed
      <3> QED
        BY <1>4, <2>1, <2>5, <3>2, FrameFacts DEF Served
    <2> QED
      BY <2>2, <2>3, <2>4, <2>5
  <1> HIDE DEF wanted, live
  <1> QED
    BY <1>1, <1>2, <1>3, <1>4, <1>5, <1>7, AnswerGoesOn

\* What m does not ask for it stores.
LEMMA SummaryMeets ==
    ASSUME NEW W, NEW r, NEW n, NEW m, Hears(r, n, m, W),
           ReceptionSummary(r, Top.id, pool[Top.id], RestAfter(r))
    PROVE  GoesOn(n, m, W)
  <1> DEFINE pkt == pool[Top.id]
  <1> DEFINE live == IF pkt.ids = {} THEN buffer[r] ELSE Alive(buffer[r])
  <1> DEFINE wanted == pkt.ids \ live
  <1>1. /\ pkt.type = "SUMMARY"
        /\ buffer' = [buffer EXCEPT ![r] = live]
        /\ Send(<<Control("REQUEST", r, pkt.prev, wanted)>>, {Top.id}, RestAfter(r))
        /\ UNCHANGED <<dmVars, statVars, halted>>
    BY DEF ReceptionSummary
  <1>2. /\ Top.id \in DOMAIN pool /\ pkt.type # "DATA" /\ n # m
        /\ pkt.prev = n /\ r = m /\ n \in Nodes /\ m \in Nodes
        /\ \A p \in pkt.ids : origin[p].dst # m
    BY <1>1, HearsFacts DEF DeliveryRight, Ask, Hears
  <1>3. DataOK /\ pkt.ids \in SUBSET PktIDs /\ wanted \in SUBSET PktIDs
    BY <1>1, <1>2, HearsFacts, ControlFacts, TypeFacts DEF Hears, DataOK
  <1>4. /\ buffer'[n] = buffer[n] /\ buffer'[m] = live /\ live \subseteq buffer[m]
        /\ received' = received /\ god' = god
        /\ \A p \in buffer[m] : IsAlive(p) => p \in live
    BY <1>1, <1>2, <1>3 DEF DataOK, Alive, dmVars, statVars
  <1>5. PICK new : new = Control("REQUEST", m, n, wanted)
    OBVIOUS
  <1>6. new.type = "REQUEST" /\ new.ids = wanted
    BY <1>5 DEF Control
  <1>7. ASSUME NEW p \in Due(n, m, W)
        PROVE  Served(p, m)' \/ Inbound(p, m) \/ Owed(new, p, m)
    <2>1. IsAlive(p) /\ p \in buffer[n] /\ Frame
      BY DEF Due, Alive, Hears
    <2>2. CASE p \in wanted
      BY <1>6, <2>2 DEF Owed
    <2>3. CASE p \in pkt.ids /\ p \in live
      BY <1>2, <1>4, <2>1, <2>3, FrameFacts DEF Served
    <2>4. CASE p \notin pkt.ids
      <3>1. ~Owed(pkt, p, m)
        BY <1>1, <2>4 DEF Owed
      <3>2. Served(p, m) \/ Inbound(p, m)
        BY <1>2, <3>1, NotOwed
      <3> QED
        BY <1>4, <2>1, <3>2, FrameFacts DEF Served
    <2> QED
      BY <2>2, <2>3, <2>4
  <1> HIDE DEF wanted, live
  <1> QED
    BY <1>1, <1>2, <1>3, <1>4, <1>5, <1>7, AnswerGoesOn

-----------------------------------------------------------------------------
(* The packets of the exchange, in turn.                                   *)

\* A handler of n, which packet "erased" ends for, may send to m: nothing else is
\* in transmission, and the events "rest" remain.
Clear(n, m, erased, rest) ==
    /\ n \in Nodes /\ m \in Nodes /\ n # m
    /\ conn' \in [Nodes -> SUBSET Nodes] /\ m \in conn'[n]
    /\ DOMAIN pool \ erased = {}
    /\ StackOK(rest, [i \in DOMAIN pool \ erased |-> pool[i]], conn', variousIDs)
    /\ OnlyData(rest, pool)

\* With nothing else in transmission, n has sent packets S to m, for which
\* they are, and the summary of what it has left.
LEMMA DirectMeets ==
    ASSUME NEW W, Flooding, Frame, NEW n, NEW m, NEW erased, NEW rest, Clear(n, m, erased, rest),
           NEW S \in SUBSET PktIDs, NEW order \in Orders(S), NEW left \in SUBSET PktIDs,
           Send(DataFor(n, m, order, 1) \o Proceed(n, m, left), erased, rest),
           \A p \in S : origin[p].dst = m /\ (DelMech = "CATACLYSM" => p \in god'),
           buffer'[n] = left,
           \A p \in left : IsAlive(p) /\ origin[p].dst = m => p \in S \/ p \in received',
           DelMech = "CATACLYSM" => left \cap god' = {}
    PROVE  Meeting(n, m, W)'
  <1> USE DEF Clear
  <1> DEFINE data == DataFor(n, m, order, 1)
  <1> DEFINE msgs == Proceed(n, m, left)
  <1> DEFINE sum == Control("SUMMARY", n, m, NotDestinedTo(left, m))
  <1>0. \/ msgs = <<sum>>
        \/ msgs = <<>> /\ NotDestinedTo(left, m) = {}
    BY SettingsFacts DEF Flooding
  <1>1. Sendable(data, n, conn') /\ Sendable(msgs, n, conn') /\ variousIDs \in Nat
    BY SendableData, SendableProceed DEF StackOK
  <1>2. sum.prev = n /\ sum.next = m /\ sum.type = "SUMMARY" /\ sum.ids = NotDestinedTo(left, m)
    BY DEF Control
  <1>3. Send(data \o msgs, erased, rest)
    OBVIOUS
  <1> HIDE DEF sum
  <1>4. /\ Len(msgs) \in {0, 1} /\ \A k \in 1..Len(msgs) : msgs[k] = sum
        /\ Len(msgs) = 0 => NotDestinedTo(left, m) = {}
    BY <1>0
  <1> HIDE DEF msgs, data
  <1>5. DataSent(n, m, S, msgs, erased, rest)
    <2>1. Len(msgs) <= 1 /\ \A k \in 1..Len(msgs) : msgs[k].type # "DATA"
      BY <1>2, <1>4
    <2>2. \A k \in 1..Len(msgs) : msgs[k].type # "DATA"
      BY <2>1
    <2>3. Len(msgs) <= 1 /\ Sendable(msgs, n, conn') /\ 1 \in Nat
      BY <1>1, <2>1
    <2>4. Send(DataFor(n, m, order, 1) \o msgs, erased, rest)
      BY <1>3 DEF data
    <2> QED
      BY <2>2, <2>3, <2>4, DataView
  <1>6. /\ \A id \in DOMAIN pool' :
              \/ pool'[id] = sum
              \/ \E p \in S : DataOf(pool'[id], n, m, p)
        /\ \A p \in S : \E id \in DOMAIN pool' :
              DataOf(pool'[id], n, m, p) /\ Awaiting(evlist', id, m)
    BY <1>4, <1>5 DEF DataSent
  <1>7. ASSUME NEW q \in NotDestinedTo(left, m) PROVE \E id \in DOMAIN pool' : pool'[id] = sum
    <2> DEFINE all == data \o msgs
    <2>1. PICK T1 : data \in Seq(T1)
      BY <1>1 DEF Sendable
    <2>2. PICK T2 : msgs \in Seq(T2)
      BY <1>1 DEF Sendable
    <2>3. /\ Len(data) \in Nat /\ Len(all) = Len(data) + 1
          /\ all[Len(data) + 1] = msgs[1]
      <3>1. data \in Seq(T1 \cup T2) /\ msgs \in Seq(T1 \cup T2) /\ Len(data) \in Nat
        BY <2>1, <2>2
      <3>2. /\ Len(all) = Len(data) + Len(msgs)
            /\ \A i \in 1..(Len(data) + Len(msgs)) :
                  all[i] = IF i <= Len(data) THEN data[i] ELSE msgs[i - Len(data)]
        BY <3>1, ConcatProperties
      <3>3. Len(data) + 1 \in 1..(Len(data) + 1) /\ ~(Len(data) + 1 <= Len(data))
            /\ (Len(data) + 1) - Len(data) = 1 /\ Len(msgs) = 1
        BY <1>4, <1>7, <3>1
      <3> QED
        BY <3>1, <3>2, <3>3
    <2>4. Len(all) \in Nat \ {0} /\ all[Len(all)] = sum
      <3>1. Len(msgs) = 1 /\ msgs[1] = sum
        BY <1>4, <1>7
      <3> QED
        BY <2>3, <3>1
    <2>5. Send(all, erased, rest)
      BY <1>3
    <2> HIDE DEF all
    <2> QED
      BY <1>1, <2>4, <2>5, Posted
  <1>8. \A p \in S : Inbound(p, m)'
    BY <1>6 DEF Inbound, DataOf, IsData
  <1>9. Directed(n, m)'
    BY <1>2, <1>6 DEF Directed, Ask, DataOf
  <1>10. Offering(n, m, W)'
    <2> SUFFICES ASSUME NEW p \in left, IsAlive(p)
                 PROVE  Served(p, m)' \/ Inbound(p, m)' \/ Pending(p, m)'
      BY FrameFacts DEF Offering, Due, Alive
    <2>1. CASE origin[p].dst = m
      BY <1>8, <2>1, FrameFacts DEF Served
    <2>2. CASE origin[p].dst # m
      <3>1. p \in sum.ids /\ p \in NotDestinedTo(left, m)
        BY <1>2, <2>2 DEF NotDestinedTo, Alive
      <3>2. PICK id \in DOMAIN pool' : pool'[id] = sum
        BY <1>7, <3>1
      <3>3. ~IsData(id)' /\ Owed(pool[id], p, m)'
        BY <1>2, <3>1, <3>2 DEF IsData, Owed
      <3> QED
        BY <3>3 DEF Pending
    <2> QED
      BY <2>1, <2>2
  <1>11. Backed(n, m)'
    <2>1. ASSUME NEW id \in DOMAIN pool', IsData(id)', NEW p \in pool'[id].ids
          PROVE  origin'[p].dst = m /\ (DelMech' = "CATACLYSM" => p \in god')
      <3>1. PICK q \in S : DataOf(pool'[id], n, m, q)
        BY <1>2, <1>6, <2>1 DEF IsData
      <3> QED
        BY <2>1, <3>1, FrameFacts DEF DataOf
    <2>2. \A id \in DOMAIN pool' : pool'[id].type \in {"DATA", "SUMMARY"}
      BY <1>2, <1>6 DEF DataOf
    <2>3. DelMech' = "CATACLYSM" => buffer'[n] \cap god' = {}
      BY FrameFacts
    <2> QED
      BY <2>1, <2>2, <2>3 DEF Backed
  <1> QED
    BY <1>9, <1>10, <1>11 DEF Meeting

\* What direct transfers from n to m, out of buffer b, bring about.
Transferred(n, m, b, W) ==
    /\ Meeting(n, m, W)'
    /\ buffer'[n] \subseteq b
    /\ \A p \in b : IsAlive(p) /\ origin[p].dst # m => p \in buffer'[n]
    /\ \A x \in Nodes : x # n => buffer'[x] = buffer[x]
    /\ received' = received
    /\ DelMech = "CATACLYSM" => delivered' = delivered

\* Buffer b is clean, by what the deletion mechanism knows.
CleanOf(b, info) ==
    /\ b \in SUBSET PktIDs /\ info \in SUBSET PktIDs
    /\ DelMech = "VACCINE" => b \cap info = {}
    /\ DelMech = "CATACLYSM" => b \cap god = {} /\ info = {}

\* The direct transfers of a mechanism that does not ask beforehand.
LEMMA DirectPacketsMeet ==
    ASSUME NEW W, Flooding, Frame, DataOK,
           NEW n, NEW m, NEW erased, NEW rest, Clear(n, m, erased, rest),
           NEW b, NEW info, CleanOf(b, info),
           SendDirectPackets(n, m, b, info, erased, rest),
           ~ExchangeDirectSummary
    PROVE  Transferred(n, m, b, W)
  <1>0. /\ b \in SUBSET PktIDs /\ info \in SUBSET PktIDs
        /\ DelMech = "VACCINE" => b \cap info = {}
        /\ DelMech = "CATACLYSM" => b \cap god = {} /\ info = {}
    BY DEF CleanOf
  <1> DEFINE out == {p \in DestinedTo(b, m) : ~(KeepsDelivered /\ p \in info)}
  <1> DEFINE left == IF LeavesBuffer THEN Alive(b) \ out ELSE Alive(b)
  <1>1. PICK order \in Orders(out) :
           Send(DataFor(n, m, order, 1) \o Proceed(n, m, left), erased, rest)
    BY DEF SendDirectPackets
  <1>2. /\ SetAsDelivered(n, info \cup out)
        /\ buffer' = [buffer EXCEPT ![n] = left]
        /\ UNCHANGED <<statVars, halted>>
    BY DEF SendDirectPackets
  <1>3. out \in SUBSET PktIDs /\ left \in SUBSET PktIDs
    BY <1>0, BufferParts
  <1>4. /\ DelMech \in {"JUSTTTL", "VACCINE", "CATACLYSM"}
        /\ LeavesBuffer <=> OffloaderDeletePkt
    BY SettingsFacts DEF Flooding, ExchangeDirectSummary
  <1>5. /\ \A p \in out : p \in b /\ IsAlive(p) /\ origin[p].dst = m
        /\ \A p \in b : IsAlive(p) /\ origin[p].dst = m => p \in out
        /\ left \subseteq b
        /\ DelMech = "CATACLYSM" => left \cap out = {}
        /\ \A p \in b : IsAlive(p) /\ origin[p].dst # m => p \in left
    BY <1>0, <1>4 DEF DestinedTo, Alive, KeepsDelivered, OffloaderDeletePkt
  <1>6. /\ buffer'[n] = left /\ \A x \in Nodes : x # n => buffer'[x] = buffer[x]
        /\ received' = received
        /\ DelMech = "CATACLYSM" => delivered' = delivered /\ god' = god \cup out
    BY <1>0, <1>2, <1>3 DEF DataOK, SetAsDelivered, statVars, KeepsDelivered, Clear
  <1> HIDE DEF out, left
  <1>7. \A p \in out : origin[p].dst = m /\ (DelMech = "CATACLYSM" => p \in god')
    BY <1>5, <1>6
  <1>8. \A p \in left : IsAlive(p) /\ origin[p].dst = m => p \in out \/ p \in received'
    BY <1>5
  <1>9. DelMech = "CATACLYSM" => left \cap god' = {}
    BY <1>0, <1>5, <1>6
  <1>10. Meeting(n, m, W)'
    BY <1>1, <1>3, <1>6, <1>7, <1>8, <1>9, DirectMeets
  <1> QED
    BY <1>5, <1>6, <1>10 DEF Transferred

\* A control packet on top that comes to n, with no data below it.
LEMMA NothingBelow ==
    ASSUME NEW W, NEW r, NEW n, NEW m, Hears(r, n, m, W), pool[Top.id].type # "DATA", NoData,
           pool[Top.id].prev = m, r = n
    PROVE  Clear(n, m, {Top.id}, RestAfter(r))
  <1>1. /\ m \in conn'[n] /\ conn' \in [Nodes -> SUBSET Nodes]
        /\ StackOK(RestAfter(r), [i \in DOMAIN pool \ {Top.id} |-> pool[i]],
                   conn', variousIDs)
        /\ OnlyData(RestAfter(r), pool)
    BY HearsFacts, TopFacts, ControlFacts, ControlStep DEF Hears
  <1>2. DOMAIN pool \ {Top.id} = {}
    <2>1. \A id \in DOMAIN pool \ {Top.id} : IsData(id)
      BY <1>1, ControlData
    <2> QED
      BY <2>1 DEF NoData
  <1> QED
    BY <1>1, <1>2, HearsFacts DEF Clear, Hears

\* Node n forgets nothing that m stores.
LEMMA AntipacketResponseMeets ==
    ASSUME NEW W, NEW r, NEW n, NEW m, Hears(r, n, m, W),
           ReceptionAntipacketResponse(r, Top.id, pool[Top.id], RestAfter(r))
    PROVE  GoesOn(n, m, W)
  <1> DEFINE pkt == pool[Top.id]
  <1> DEFINE info == delivered[r] \cup pkt.ids
  <1>1. /\ pkt.type = "ANTIPACKET_RESPONSE"
        /\ SendDirectPackets(r, pkt.prev, Cleaned(buffer[r], info), info, {Top.id},
                             RestAfter(r))
    BY DEF ReceptionAntipacketResponse
  <1>2. /\ Top.id \in DOMAIN pool /\ pkt.type # "DATA" /\ n # m
        /\ pkt.prev = m /\ r = n /\ n \in Nodes /\ m \in Nodes /\ NoData /\ DelMech = "VACCINE"
    BY <1>1, HearsFacts DEF DeliveryRight, Ask, Hears
  <1>3. /\ DataOK /\ StoredOK /\ pkt.ids \in SUBSET PktIDs /\ info \in SUBSET PktIDs
        /\ buffer[n] \in SUBSET PktIDs
    BY <1>1, <1>2, HearsFacts, ControlFacts, TypeFacts DEF Hears, DataOK
  <1>4. delivered[n] \subseteq pkt.ids /\ buffer[m] \cap pkt.ids = {}
    BY <1>1, <1>2 DEF Hears, Meeting, Backed
  <1>5. buffer[m] \cap info = {}
    BY <1>2, <1>4
  <1> DEFINE b == Cleaned(buffer[n], info)
  <1>6. /\ b \in SUBSET PktIDs /\ b = buffer[n] \ info
        /\ SendDirectPackets(n, m, b, info, {Top.id}, RestAfter(r))
    BY <1>1, <1>2, <1>3 DEF Cleaned
  <1>7. ~ExchangeDirectSummary /\ b \cap info = {} /\ DelMech # "CATACLYSM"
    BY <1>2, <1>6 DEF ExchangeDirectSummary
  <1> HIDE DEF info, b, pkt
  <1>8. Flooding /\ Frame
    BY DEF Hears
  <1>9. Clear(n, m, {Top.id}, RestAfter(r))
    BY <1>2, NothingBelow DEF pkt
  <1>10. /\ Meeting(n, m, W)'
         /\ \A p \in b : IsAlive(p) /\ origin[p].dst # m => p \in buffer'[n]
         /\ \A x \in Nodes : x # n => buffer'[x] = buffer[x]
         /\ received' = received
    <2>1. CleanOf(b, info) /\ DataOK
      BY <1>3, <1>6, <1>7 DEF CleanOf
    <2>2. Transferred(n, m, b, W)
      BY <1>6, <1>7, <1>8, <1>9, <2>1, DirectPacketsMeet
    <2> QED
      BY <2>2 DEF Transferred
  <1>11. ASSUME Over(m, n, W), NEW p \in Due(m, n, W)' PROVE Served(p, n)'
    <2>1. p \in buffer[m] /\ IsAlive(p) /\ p \in Due(m, n, W)
      BY <1>2, <1>8, <1>10, <1>11, FrameFacts DEF Alive, Due
    <2>2. Served(p, n)
      BY <1>11, <2>1 DEF Over
    <2>3. CASE origin[p].dst = n
      BY <1>8, <1>10, <2>2, <2>3, FrameFacts DEF Served
    <2>4. CASE origin[p].dst # n
      <3>1. p \in buffer[n] /\ p \notin info /\ origin[p].dst # m
        BY <1>2, <1>3, <1>5, <2>1, <2>2, <2>4 DEF Served, StoredOK
      <3>2. p \in buffer'[n]
        BY <1>6, <1>10, <2>1, <3>1
      <3> QED
        BY <1>8, <2>4, <3>2, FrameFacts DEF Served
    <2> QED
      BY <2>3, <2>4
  <1> QED
    BY <1>10, <1>11 DEF GoesOn, Over

\* Node n sends all that m asked for, and the rest has been received or leaves.
LEMMA DirectRequestMeets ==
    ASSUME NEW W, NEW r, NEW n, NEW m, Hears(r, n, m, W),
           ReceptionDirectRequest(r, Top.id, pool[Top.id], RestAfter(r))
    PROVE  GoesOn(n, m, W)
  <1> DEFINE pkt == pool[Top.id]
  <1> DEFINE live == Alive(buffer[r])
  <1> DEFINE left == IF LeavesBuffer THEN live \ DestinedTo(live, pkt.prev) ELSE live
  <1>1. pkt.type = "DIRECT_REQUEST"
    BY DEF ReceptionDirectRequest
  <1>2. /\ Top.id \in DOMAIN pool /\ pkt.type # "DATA" /\ n # m
        /\ pkt.prev = m /\ r = n /\ n \in Nodes /\ m \in Nodes /\ NoData
        /\ ExchangeDirectSummary
        /\ \A p \in pkt.ids : Offered(n, p) /\ origin[p].dst = m
    BY <1>1, HearsFacts DEF DeliveryRight, Ask, Hears
  <1>3. /\ DataOK /\ StoredOK /\ pkt.ids \in SUBSET PktIDs /\ buffer[n] \in SUBSET PktIDs
        /\ Flooding /\ Frame
    BY <1>1, <1>2, HearsFacts, ControlFacts, TypeFacts DEF Hears, DataOK
  <1>4. pkt.ids \subseteq live
    BY <1>2 DEF Offered, Alive
  <1>5. /\ \E order \in Orders(pkt.ids) :
               Send(DataFor(r, pkt.prev, order, 1) \o Proceed(r, pkt.prev, left),
                    {Top.id}, RestAfter(r))
        /\ buffer' = [buffer EXCEPT ![r] = left]
        /\ UNCHANGED <<dmVars, statVars, halted>>
    BY <1>4 DEF ReceptionDirectRequest
  <1>6. PICK order \in Orders(pkt.ids) :
            Send(DataFor(n, m, order, 1) \o Proceed(n, m, left), {Top.id}, RestAfter(r))
    BY <1>2, <1>5
  <1>7. /\ left \in SUBSET PktIDs /\ DelMech # "CATACLYSM"
        /\ \A p \in left : p \in Alive(buffer[n])
        /\ \A p \in buffer[n] : IsAlive(p) /\ origin[p].dst # m => p \in left
    BY <1>2, <1>3 DEF Alive, DestinedTo, ExchangeDirectSummary
  <1> HIDE DEF live, left, pkt
  <1>8. /\ buffer'[n] = left /\ \A x \in Nodes : x # n => buffer'[x] = buffer[x]
        /\ received' = received
    BY <1>2, <1>3, <1>5 DEF DataOK, statVars
  <1>9. Clear(n, m, {Top.id}, RestAfter(r))
    BY <1>2, NothingBelow DEF pkt
  <1>10. ASSUME NEW p \in left, origin[p].dst = m
         PROVE  p \in pkt.ids \/ p \in received'
    <2> SUFFICES ASSUME p \notin pkt.ids PROVE p \in received'
      OBVIOUS
    <2>1. ~Owed(pkt, p, m)
      BY <1>1, <1>10 DEF Owed
    <2>2. Served(p, m) \/ Inbound(p, m)
      <3>1. p \in Due(n, m, W)
        BY <1>7, <1>10 DEF Due
      <3> QED
        BY <1>2, <2>1, <3>1, NotOwed DEF pkt
    <2> QED
      BY <1>2, <1>8, <1>10, <2>2 DEF Served, Inbound, NoData
  <1>11. Meeting(n, m, W)'
    <2>1. \A p \in pkt.ids : origin[p].dst = m /\ (DelMech = "CATACLYSM" => p \in god')
      BY <1>2, <1>7
    <2>2. \A p \in left : IsAlive(p) /\ origin[p].dst = m => p \in pkt.ids \/ p \in received'
      BY <1>10
    <2>3. DelMech = "CATACLYSM" => left \cap god' = {}
      BY <1>7
    <2> QED
      BY <1>2, <1>3, <1>6, <1>7, <1>8, <1>9, <2>1, <2>2, <2>3, DirectMeets
  <1>12. ASSUME Over(m, n, W), NEW p \in Due(m, n, W)' PROVE Served(p, n)'
    <2>1. p \in buffer[m] /\ IsAlive(p) /\ p \in Due(m, n, W)
      BY <1>2, <1>3, <1>8, <1>12, FrameFacts DEF Alive, Due
    <2>2. Served(p, n)
      BY <1>12, <2>1 DEF Over
    <2>3. CASE origin[p].dst = n
      BY <1>3, <1>8, <2>2, <2>3, FrameFacts DEF Served
    <2>4. CASE origin[p].dst # n
      <3>1. p \in buffer[n] /\ origin[p].dst # m
        BY <1>2, <1>3, <2>1, <2>2, <2>4 DEF Served, StoredOK
      <3>2. p \in buffer'[n]
        BY <1>7, <1>8, <2>1, <3>1
      <3> QED
        BY <1>3, <2>4, <3>2, FrameFacts DEF Served
    <2> QED
      BY <2>3, <2>4
  <1> QED
    BY <1>11, <1>12 DEF GoesOn, Over

\* Node n sends those of the packets m asked for that it does not keep to itself.
LEMMA SentMeets ==
    ASSUME NEW W, NEW r, NEW n, NEW m, Hears(r, n, m, W), pool[Top.id].type = "REQUEST",
           NEW out \in SUBSET pool[Top.id].ids, \A p \in pool[Top.id].ids \ out : p \in W[n],
           DataSent(n, m, out, <<>>, {Top.id}, RestAfter(r)),
           NEW live \in SUBSET buffer[n], \A p \in buffer[n] : IsAlive(p) => p \in live,
           buffer' = [buffer EXCEPT ![n] = live], received' = received, god' = god
    PROVE  GoesOn(n, m, W)
  <1> DEFINE pkt == pool[Top.id]
  <1>1. pkt.type = "REQUEST"
    OBVIOUS
  <1>2. /\ Top.id \in DOMAIN pool /\ pkt.type # "DATA" /\ n # m
        /\ pkt.prev = m /\ r = n /\ n \in Nodes /\ m \in Nodes
        /\ \A p \in pkt.ids : Offered(n, p) /\ origin[p].dst # m
    BY <1>1, HearsFacts DEF DeliveryRight, Ask, Hears
  <1>3. /\ DataOK /\ Frame /\ Directed(n, m) /\ Backed(n, m)
    BY <1>1, <1>2, HearsFacts DEF Hears, DataOK, Meeting
  <1>7. /\ live \subseteq buffer[n] /\ out \subseteq pkt.ids
        /\ \A p \in buffer[n] : IsAlive(p) => p \in live
    OBVIOUS
  <1> HIDE DEF pkt
  <1>8. /\ buffer'[n] = live /\ \A x \in Nodes : x # n => buffer'[x] = buffer[x]
        /\ received' = received /\ god' = god
    BY <1>2, <1>3 DEF DataOK
  <1>9. /\ OnlyData(RestAfter(r), pool)
        /\ StackOK(RestAfter(r), [i \in DOMAIN pool \ {Top.id} |-> pool[i]],
                   conn', variousIDs)
        /\ \A id \in DOMAIN pool \ {Top.id} : \A x :
              Awaiting(RestAfter(r), id, x) <=> Awaiting(evlist, id, x)
    BY <1>2, HearsFacts, ControlStep DEF Hears, pkt
  <1>10. /\ \A id \in DOMAIN pool \ {Top.id} :
              /\ id \in DOMAIN pool' /\ pool'[id] = pool[id] /\ IsData(id)
              /\ \A x : Awaiting(evlist', id, x) <=> Awaiting(evlist, id, x)
         /\ \A id \in DOMAIN pool' :
              \/ id \in DOMAIN pool \ {Top.id}
              \/ \E p \in out : DataOf(pool'[id], n, m, p)
         /\ \A p \in out : \E id \in DOMAIN pool' :
              DataOf(pool'[id], n, m, p) /\ Awaiting(evlist', id, m)
    <2>1. \A id \in DOMAIN pool \ {Top.id} : IsData(id)
      BY <1>9, ControlData
    <2> QED
      BY <1>9, <2>1 DEF DataSent
  <1>11. \A p : Inbound(p, m) => Inbound(p, m)'
    BY <1>2, <1>10 DEF Inbound, IsData, pkt
  <1>12. \A p \in out : Inbound(p, m)'
    BY <1>10 DEF Inbound, DataOf, IsData
  <1>13. Directed(n, m)'
    <2> SUFFICES ASSUME NEW id \in DOMAIN pool'
                 PROVE  IF pool'[id].type \in {"DATA", "ANTIPACKET", "DIRECT_SUMMARY", "SUMMARY"}
                        THEN Ask(pool'[id], n, m) ELSE Ask(pool'[id], m, n)
      BY DEF Directed, Ask
    <2>1. CASE \E p \in out : DataOf(pool'[id], n, m, p)
      BY <2>1 DEF Ask, DataOf
    <2>2. CASE id \in DOMAIN pool \ {Top.id}
      BY <1>3, <1>10, <2>2 DEF Directed
    <2> QED
      BY <1>10, <2>1, <2>2
  <1>14. Offering(n, m, W)'
    <2> SUFFICES ASSUME NEW p \in live, IsAlive(p), p \in Due(n, m, W)
                 PROVE  Served(p, m)' \/ Inbound(p, m)'
      BY <1>3, <1>7, <1>8, FrameFacts DEF Offering, Due, Alive
    <2>1. CASE p \notin pkt.ids
      <3>1. ~Owed(pkt, p, m)
        BY <1>1, <2>1 DEF Owed, pkt
      <3>2. Served(p, m) \/ Inbound(p, m)
        BY <1>2, <3>1, NotOwed DEF pkt
      <3> QED
        BY <1>2, <1>3, <1>8, <1>11, <3>2, FrameFacts DEF Served
    <2>2. CASE p \in pkt.ids
      <3>1. p \in out
        BY <1>2, <2>2 DEF Due, pkt
      <3> QED
        BY <1>12, <3>1
    <2> QED
      BY <2>1, <2>2
  <1>15. Backed(n, m)'
    <2>1. \A id \in DOMAIN pool' : pool'[id].type = "DATA"
      BY <1>10 DEF IsData, DataOf
    <2>2. ASSUME NEW id \in DOMAIN pool', NEW p \in pool'[id].ids
          PROVE  IF origin'[p].dst = m THEN DelMech' = "CATACLYSM" => p \in god'
                 ELSE p \in buffer'[n]
      <3>1. CASE id \in DOMAIN pool \ {Top.id}
        <4>1. IF origin[p].dst = m THEN DelMech = "CATACLYSM" => p \in god
              ELSE p \in buffer[n]
          BY <1>3, <1>10, <2>2, <3>1 DEF Backed
        <4>2. IsAlive(p)
          <5>1. Exchanging(n, m)
            BY HearsFacts
          <5>2. DataRight(id, n, m) /\ pool'[id] = pool[id]
            BY <1>10, <3>1, <5>1 DEF Exchanging
          <5> QED
            BY <2>2, <5>2 DEF DataRight
        <4> QED
          BY <1>3, <1>7, <1>8, <4>1, <4>2, FrameFacts
      <3>2. CASE \E q \in out : DataOf(pool'[id], n, m, q)
        BY <1>2, <1>3, <1>7, <1>8, <2>2, <3>2, FrameFacts DEF DataOf, Offered
      <3> QED
        BY <1>10, <3>1, <3>2
    <2>3. DelMech' = "CATACLYSM" => buffer'[n] \cap god' = {}
      BY <1>3, <1>7, <1>8, FrameFacts DEF Backed
    <2> QED
      BY <2>1, <2>2, <2>3 DEF Backed
  <1>16. ASSUME Over(m, n, W), NEW p \in Due(m, n, W)' PROVE Served(p, n)'
    <2>1. p \in buffer[m] /\ IsAlive(p) /\ p \in Due(m, n, W)
      BY <1>2, <1>3, <1>8, <1>16, FrameFacts DEF Alive, Due
    <2>2. Served(p, n)
      BY <1>16, <2>1 DEF Over
    <2> QED
      BY <1>3, <1>7, <1>8, <2>1, <2>2, FrameFacts DEF Served
  <1> QED
    BY <1>2, <1>13, <1>14, <1>15, <1>16 DEF GoesOn, Over, Meeting

\* After the reception of a data packet the exchange goes on, if m has the
\* packet when it is the one that received it.
LEMMA ReadGoesOn ==
    ASSUME NEW W, NEW r, NEW n, NEW m, Hears(r, n, m, W), pool[Top.id].type = "DATA",
           Access(Top.id, RestAfter(r)),
           buffer'[n] = buffer[n], received \subseteq received', god \subseteq god',
           \A q \in buffer[m] : IsAlive(q) => q \in buffer'[m],
           \A q \in buffer'[m] : q \in buffer[m] \/ q \in buffer[n],
           r = m => \A q \in pool[Top.id].ids : Served(q, m)',
           DelMech = "CATACLYSM" => buffer[n] \cap god' = {}
    PROVE  GoesOn(n, m, W)
  <1>1. /\ n # m /\ n \in Nodes /\ m \in Nodes /\ Frame /\ Directed(n, m) /\ Backed(n, m)
        /\ Offering(n, m, W) /\ OneControl /\ StoredOK
    BY HearsFacts DEF Hears, Meeting
  <1>2. /\ \A id \in DOMAIN pool' :
              /\ id \in DOMAIN pool /\ IsData(id) /\ IsData(id)'
              /\ pool'[id].prev = pool[id].prev /\ pool'[id].next = pool[id].next
              /\ pool'[id].ids = pool[id].ids
        /\ \A id, x : Awaiting(evlist', id, x)
              <=> Awaiting(evlist, id, x) /\ ~(id = Top.id /\ x = r)
        /\ \A id, x : Awaiting(evlist', id, x) => id \in DOMAIN pool'
    BY <1>1, AccessView DEF Hears
  <1>3. \A id \in DOMAIN pool : IsData(id)
    BY <1>1, AllData DEF Hears
  <1>4. Directed(n, m)'
    <2> SUFFICES ASSUME NEW id \in DOMAIN pool' PROVE Ask(pool'[id], n, m) /\ pool'[id].type = "DATA"
      BY DEF Directed, Ask
    <2> QED
      BY <1>1, <1>2 DEF Directed, IsData, Ask
  <1>5. ASSUME NEW q, IsAlive(q), Served(q, m) PROVE Served(q, m)'
    BY <1>1, <1>5, FrameFacts DEF Served
  <1>6. Offering(n, m, W)'
    <2> SUFFICES ASSUME NEW q \in buffer[n], IsAlive(q), q \in Due(n, m, W)
                 PROVE  Served(q, m)' \/ Inbound(q, m)'
      BY <1>1, FrameFacts DEF Offering, Due, Alive
    <2>1. Served(q, m) \/ Inbound(q, m)
      BY <1>1, <1>3 DEF Offering, Pending
    <2>2. CASE Inbound(q, m)
      <3>1. PICK id \in DOMAIN pool :
               /\ IsData(id) /\ q \in pool[id].ids
               /\ pool[id].next = m /\ Awaiting(evlist, id, m)
        BY <2>2 DEF Inbound
      <3>2. CASE id = Top.id /\ r = m
        BY <3>1, <3>2
      <3>3. CASE ~(id = Top.id /\ r = m)
        <4>1. Awaiting(evlist', id, m) /\ id \in DOMAIN pool'
          BY <1>2, <3>1, <3>3
        <4> QED
          BY <1>2, <3>1, <4>1 DEF Inbound
      <3> QED
        BY <3>2, <3>3
    <2> QED
      BY <1>5, <2>1, <2>2
  <1>7. Backed(n, m)'
    <2>1. \A id \in DOMAIN pool' : pool'[id].type = "DATA"
      BY <1>2 DEF IsData
    <2>2. \A id \in DOMAIN pool' : \A q \in pool'[id].ids :
             IF origin'[q].dst = m THEN DelMech' = "CATACLYSM" => q \in god'
             ELSE q \in buffer'[n]
      BY <1>1, <1>2, FrameFacts DEF Backed
    <2>3. DelMech' = "CATACLYSM" => buffer'[n] \cap god' = {}
      BY <1>1, FrameFacts
    <2> QED
      BY <2>1, <2>2, <2>3 DEF Backed
  <1>8. ASSUME Over(m, n, W), NEW q \in Due(m, n, W)' PROVE Served(q, n)'
    <2>1. /\ q \in buffer'[m] /\ IsAlive(q)
          /\ q \in buffer[m] => q \in Due(m, n, W)
      BY <1>1, <1>8, FrameFacts DEF Alive, Due
    <2>2. CASE q \in buffer[m]
      <3>1. Served(q, n)
        BY <1>8, <2>1, <2>2 DEF Over
      <3> QED
        BY <1>1, <3>1, FrameFacts DEF Served
    <2>3. CASE q \in buffer[n]
      <3>1. origin[q].dst # n
        BY <1>1, <2>3 DEF StoredOK
      <3> QED
        BY <1>1, <2>3, <3>1, FrameFacts DEF Served
    <2> QED
      BY <2>1, <2>2, <2>3
  <1> QED
    BY <1>1, <1>4, <1>6, <1>7, <1>8 DEF GoesOn, Over, Meeting

\* The data packet on top, in the exchange of n with m.
LEMMA DataHeard ==
    ASSUME NEW W, NEW r, NEW n, NEW m, Hears(r, n, m, W), pool[Top.id].type = "DATA"
    PROVE  /\ pool[Top.id].next = m /\ \E p \in Known : pool[Top.id].ids = {p}
           /\ Top.id \in DOMAIN pool /\ IsData(Top.id)
           /\ \A p \in pool[Top.id].ids :
                 IF origin[p].dst = m THEN DelMech = "CATACLYSM" => p \in god
                 ELSE p \in buffer[n]
           /\ DelMech = "CATACLYSM" => buffer[n] \cap god = {}
  <1>1. Top.id \in DOMAIN pool /\ IsData(Top.id) /\ Exchanging(n, m) /\ Backed(n, m)
    BY HearsFacts DEF IsData, Hears, Meeting
  <1>2. DataRight(Top.id, n, m)
    BY <1>1 DEF Exchanging
  <1> QED
    BY <1>1, <1>2 DEF DataRight, Backed

\* A node that the packet is not for.
LEMMA OverhearMeets ==
    ASSUME NEW W, NEW r, NEW n, NEW m, Hears(r, n, m, W), pool[Top.id].type = "DATA",
           Overhear(r, Top.id, pool[Top.id], RestAfter(r))
    PROVE  GoesOn(n, m, W)
  <1>1. /\ pool[Top.id].next # r /\ Access(Top.id, RestAfter(r))
        /\ buffer' = buffer /\ god' = god /\ received' = received
    BY DEF Overhear, dmVars, statVars
  <1>2. r # m /\ (DelMech = "CATACLYSM" => buffer[n] \cap god = {})
    BY <1>1, DataHeard
  <1> QED
    BY <1>1, <1>2, ReadGoesOn

\* The destination.
LEMMA DeliverMeets ==
    ASSUME NEW W, NEW r, NEW n, NEW m, Hears(r, n, m, W), pool[Top.id].type = "DATA", Unrecorded, ~halted',
           NEW p \in pool[Top.id].ids, Deliver(r, Top.id, pool[Top.id], RestAfter(r), p)
    PROVE  GoesOn(n, m, W)
  <1>1. /\ pool[Top.id].next = m /\ pool[Top.id].ids = {p}
        /\ IF origin[p].dst = m THEN DelMech = "CATACLYSM" => p \in god ELSE p \in buffer[n]
        /\ DelMech = "CATACLYSM" => buffer[n] \cap god = {}
    BY DataHeard
  <1>2. r = m /\ origin[p].dst = m /\ m \in Nodes
    BY <1>1 DEF Deliver, Hears
  <1>3. /\ SetAsDelivered(m, delivered[m] \cup {p}) /\ PktRec(p)
        /\ Access(Top.id, RestAfter(r)) /\ buffer' = buffer
    BY <1>2 DEF Deliver, Exit
  <1>4. /\ god' = IF DelMech = "CATACLYSM" THEN god \cup delivered[m] \cup {p} ELSE god
        /\ received' = received \cup {p}
    BY <1>3 DEF SetAsDelivered, PktRec
  <1>5. DelMech = "CATACLYSM" => buffer[n] \cap god' = {}
    BY <1>1, <1>2, <1>4 DEF Unrecorded
  <1>6. \A q \in pool[Top.id].ids : Served(q, m)'
    <2>1. origin' = origin
      BY FrameFacts DEF Hears
    <2> QED
      BY <1>1, <1>2, <1>4, <2>1 DEF Served
  <1> QED
    BY <1>3, <1>4, <1>5, <1>6, ReadGoesOn

\* A node that stores the packet and carries it on; its buffer is never full.
LEMMA StoredMeets ==
    ASSUME NEW W, NEW r, NEW n, NEW m, Hears(r, n, m, W), pool[Top.id].type = "DATA", BufferSize = 0,
           NEW p \in pool[Top.id].ids, pool[Top.id].next = r, origin[p].dst # r,
           \E b \in Added(buffer[r], p) : buffer' = [buffer EXCEPT ![r] = b],
           Access(Top.id, RestAfter(r)), UNCHANGED <<dmVars, statVars, halted>>
    PROVE  GoesOn(n, m, W)
  <1>1. /\ pool[Top.id].next = m /\ pool[Top.id].ids = {p}
        /\ IF origin[p].dst = m THEN DelMech = "CATACLYSM" => p \in god ELSE p \in buffer[n]
        /\ DelMech = "CATACLYSM" => buffer[n] \cap god = {}
    BY DataHeard
  <1>2. r = m /\ origin[p].dst # m /\ m \in Nodes /\ n \in Nodes /\ n # m /\ DataOK
    BY <1>1, HearsFacts DEF Hears
  <1>3. \E b \in Added(buffer[m], p) : buffer' = [buffer EXCEPT ![m] = b]
    BY <1>2
  <1>4. Added(buffer[m], p) \in {{Alive(buffer[m])}, {Alive(buffer[m]) \cup {p}}}
        /\ (Added(buffer[m], p) = {Alive(buffer[m])} => p \in Alive(buffer[m]))
    BY DEF Added, isFull
  <1>5. buffer' = [buffer EXCEPT ![m] = Alive(buffer[m]) \cup {p}]
    <2>1. CASE Added(buffer[m], p) = {Alive(buffer[m])}
      <3>1. Alive(buffer[m]) \cup {p} = Alive(buffer[m])
        BY <1>4, <2>1
      <3> QED
        BY <1>3, <2>1, <3>1
    <2> QED
      BY <1>3, <1>4, <2>1
  <1>6. buffer'[n] = buffer[n] /\ buffer'[m] = Alive(buffer[m]) \cup {p}
        /\ god' = god /\ received' = received
    BY <1>2, <1>5 DEF DataOK, dmVars, statVars
  <1>7. \A q \in pool[Top.id].ids : Served(q, m)'
    <2>1. origin' = origin
      BY FrameFacts DEF Hears
    <2> QED
      BY <1>1, <1>2, <1>6, <2>1 DEF Served
  <1>8. /\ \A q \in buffer[m] : IsAlive(q) => q \in buffer'[m]
        /\ \A q \in buffer'[m] : q \in buffer[m] \/ q \in buffer[n]
    BY <1>1, <1>2, <1>6 DEF Alive
  <1> QED
    BY <1>1, <1>6, <1>7, <1>8, ReadGoesOn

\* With nothing else in transmission, n has begun the exchange with m.
LEMMA GreetingMeets ==
    ASSUME NEW W, Flooding, Frame, NEW n, NEW m, NEW rest, Clear(n, m, {}, rest),
           NEW type \in {"ANTIPACKET", "DIRECT_SUMMARY"}, NEW ids \in SUBSET PktIDs,
           Send(<<Control(type, n, m, ids)>>, {}, rest),
           type = "ANTIPACKET" => delivered'[n] \subseteq ids /\ DelMech # "CATACLYSM",
           type = "DIRECT_SUMMARY" =>
              /\ DelMech # "CATACLYSM"
              /\ \A p \in buffer'[n] : IsAlive(p) /\ origin[p].dst = m => p \in ids
    PROVE  Meeting(n, m, W)'
  <1>1. PICK pkt : pkt = Control(type, n, m, ids)
    OBVIOUS
  <1>2. /\ pkt.type = type /\ pkt.prev = n /\ pkt.next = m /\ pkt.ids = ids
        /\ pkt.type # "DATA"
    BY <1>1 DEF Control
  <1>3. /\ n \in Nodes /\ m \in Nodes /\ n # m /\ DOMAIN pool = {} /\ variousIDs \in Nat
        /\ conn' \in [Nodes -> SUBSET Nodes] /\ m \in conn'[n]
        /\ StackOK(rest, [i \in DOMAIN pool \ {} |-> pool[i]], conn', variousIDs)
        /\ OnlyData(rest, pool)
    BY DEF Clear, StackOK
  <1>4. Sendable(<<pkt>>, n, conn') /\ Send(<<pkt>>, {}, rest)
    <2>1. type \in Types \ {"DATA"}
      BY TypeFacts
    <2> QED
      BY <1>1, <1>3, <2>1, SendableControl
  <1>5. \A id \in DOMAIN pool' : pool'[id] = pkt
    BY <1>2, <1>3, <1>4, ControlView
  <1>6. \E id \in DOMAIN pool' : pool'[id] = pkt
    <2> DEFINE msgs == <<pkt>>
    <2>1. Len(msgs) = 1 /\ msgs[1] = pkt /\ Send(msgs, {}, rest)
      BY <1>4
    <2> HIDE DEF msgs
    <2> QED
      BY <1>3, <2>1, Posted
  <1>7. Directed(n, m)'
    BY <1>2, <1>5 DEF Directed, Ask
  <1>8. Offering(n, m, W)'
    <2> SUFFICES ASSUME NEW p \in buffer'[n], IsAlive(p) PROVE Pending(p, m)'
      BY FrameFacts DEF Offering, Due, Alive
    <2>1. Owed(pkt, p, m)
      BY <1>2 DEF Owed
    <2>2. PICK id \in DOMAIN pool' : pool'[id] = pkt
      BY <1>6
    <2>3. ~IsData(id)' /\ Owed(pool'[id], p, m)
      BY <1>2, <2>1, <2>2 DEF IsData
    <2>4. Owed(pool[id], p, m)'
      BY <2>3, FrameFacts DEF Owed
    <2> QED
      BY <2>3, <2>4 DEF Pending
  <1>9. Backed(n, m)'
    BY <1>2, <1>5, FrameFacts DEF Backed, IsData
  <1> QED
    BY <1>3, <1>7, <1>8, <1>9 DEF Meeting

\* A contact begins an exchange that will leave nothing out; what the one
\* before, in the other direction, has brought about remains.
LEMMA ContactMeets ==
    ASSUME NEW W, IInv, Flooding, Conversation, ContactUp, UNCHANGED Set, Unrecorded,
           NEW a, NEW b, a = Top.a, b = Top.b
    PROVE  Meeting(a, b, W)' /\ (Meeting(b, a, W) => Over(b, a, W)')
  <1> DEFINE rest == Tail(evlist)
  <1>1. TopIs("UP") /\ Connect(a, b) /\ UNCHANGED <<now, origin>> /\ Contact(a, b, rest)
    BY DEF ContactUp
  <1>2. Frame /\ StoredOK /\ DataOK
    BY <1>1 DEF Frame, IInv, Conversation
  <1>3. a \in Nodes /\ b \in Nodes /\ a # b /\ evlist # <<>> /\ Head(evlist).ev # "TX"
    BY <1>1, ContactFacts
  <1>4. conn' \in [Nodes -> SUBSET Nodes] /\ b \in conn'[a]
    BY <1>1, <1>3, LinkFacts DEF IInv
  <1>5. /\ DOMAIN pool = {}
        /\ StackOK(rest, [i \in DOMAIN pool \ {} |-> pool[i]], conn', variousIDs)
    BY <1>3, NoTransmission DEF IInv
  <1>6. OnlyData(rest, pool)
    <2>1. \A i \in 1..Len(evlist) : evlist[i].ev # "TX"
      BY <1>5, IdleFacts DEF Idle
    <2>2. \A i \in 1..Len(rest) : i + 1 \in 1..Len(evlist) /\ rest[i] = evlist[i + 1]
      BY <1>3 DEF IInv, StackOK
    <2> QED
      BY <2>1, <2>2 DEF OnlyData
  <1>7. buffer[a] \in SUBSET PktIDs /\ delivered[a] \in SUBSET PktIDs
    BY <1>2, <1>3 DEF DataOK
  <1> HIDE DEF rest
  <1>8. Clear(a, b, {}, rest)
    <2>1. DOMAIN pool \ {} = {}
      BY <1>5
    <2> QED
      BY <1>3, <1>4, <1>5, <1>6, <2>1 DEF Clear
  <1>9. DelMech \in {"JUSTTTL", "NODUPS", "KEEPREP", "VACCINE", "CATACLYSM"}
    BY SettingsFacts DEF Flooding
  <1>10. ASSUME Meeting(b, a, W), buffer'[b] = buffer[b], received' = received,
                \A p \in buffer[b] \cap buffer[a] : IsAlive(p) => p \in buffer'[a]
         PROVE  Over(b, a, W)'
    <2> SUFFICES ASSUME NEW p \in Due(b, a, W), IsAlive(p), p \in buffer[b] PROVE Served(p, a)'
      BY <1>2, <1>10, FrameFacts DEF Over, Due, Alive
    <2>1. Served(p, a)
      BY <1>5, <1>10 DEF Meeting, Offering, Inbound, Pending
    <2> QED
      BY <1>2, <1>10, <2>1, FrameFacts DEF Served
  <1>11. CASE DelMech = "VACCINE"
    <2>1. /\ Send(<<Control("ANTIPACKET", a, b, delivered[a])>>, {}, rest)
          /\ UNCHANGED <<buffer, dmVars, statVars, halted>>
      BY <1>1, <1>11 DEF Contact, SendVaccine
    <2>2. buffer' = buffer /\ delivered' = delivered /\ received' = received
      BY <2>1 DEF dmVars, statVars
    <2>3. Meeting(a, b, W)'
      <3>1. "ANTIPACKET" \in {"ANTIPACKET", "DIRECT_SUMMARY"}
            /\ delivered'[a] \subseteq delivered[a]
        BY <2>2
      <3> QED
        BY <1>2, <1>7, <1>8, <1>11, <2>1, <3>1, GreetingMeets
    <2> QED
      BY <1>10, <2>2, <2>3
  <1>12. CASE ExchangeDirectSummary
    <2>1. /\ Send(<<Control("DIRECT_SUMMARY", a, b, DestinedTo(buffer[a], b))>>, {}, rest)
          /\ buffer' = [buffer EXCEPT ![a] = Alive(@)]
          /\ UNCHANGED <<dmVars, statVars, halted>>
      BY <1>1, <1>12 DEF Contact, ExchangeDirectSummary, SendDirectSummary
    <2>2. buffer'[a] = Alive(buffer[a]) /\ buffer'[b] = buffer[b] /\ received' = received
      BY <1>2, <1>3, <2>1 DEF DataOK, statVars
    <2>3. PICK ids : ids = DestinedTo(buffer[a], b)
      OBVIOUS
    <2>4. /\ ids \in SUBSET PktIDs
          /\ \A p \in buffer'[a] : IsAlive(p) /\ origin[p].dst = b => p \in ids
      BY <1>7, <2>2, <2>3 DEF DestinedTo, Alive
    <2>5. Meeting(a, b, W)'
      <3>1. DelMech # "CATACLYSM"
            /\ "DIRECT_SUMMARY" \in {"ANTIPACKET", "DIRECT_SUMMARY"}
        BY <1>12 DEF ExchangeDirectSummary
      <3> QED
        BY <1>2, <1>8, <2>1, <2>3, <2>4, <3>1, GreetingMeets
    <2>6. \A p \in buffer[b] \cap buffer[a] : IsAlive(p) => p \in buffer'[a]
      BY <2>2 DEF Alive
    <2> QED
      BY <1>10, <2>2, <2>5, <2>6
  <1>13. CASE DelMech # "VACCINE" /\ ~ExchangeDirectSummary
    <2> DEFINE kept == Cleaned(buffer[a], delivered[a])
    <2>1. SendDirectPackets(a, b, kept, delivered[a], {}, rest)
      BY <1>1, <1>13 DEF Contact
    <2>2. /\ kept = IF DelMech = "CATACLYSM" THEN buffer[a] \ god ELSE buffer[a]
      BY <1>13 DEF Cleaned
    <2>3. CleanOf(kept, delivered[a])
      BY <1>3, <1>7, <1>13, <2>2 DEF CleanOf, Unrecorded
    <2> HIDE DEF kept
    <2>4. Transferred(a, b, kept, W)
      BY <1>2, <1>8, <1>13, <2>1, <2>3, DirectPacketsMeet
    <2>5. /\ Meeting(a, b, W)' /\ received' = received /\ buffer'[b] = buffer[b]
          /\ \A p \in kept : IsAlive(p) /\ origin[p].dst # b => p \in buffer'[a]
      BY <1>3, <2>4 DEF Transferred
    <2>6. ASSUME Meeting(b, a, W), NEW p \in buffer[b] \cap buffer[a], IsAlive(p)
          PROVE  p \in buffer'[a]
      <3>1. p \in kept
        BY <2>2, <2>6 DEF Meeting, Backed
      <3>2. origin[p].dst # b
        BY <1>2, <1>3, <2>6 DEF StoredOK
      <3> QED
        BY <2>5, <2>6, <3>1, <3>2
    <2> QED
      BY <1>10, <2>5, <2>6
  <1> QED
    BY <1>11, <1>12, <1>13

-----------------------------------------------------------------------------
(* Above the contacts of an instant there are only transmissions.          *)

-----------------------------------------------------------------------------
\* A list of transmissions.
OnAir(T) == \E S : T \in Seq(S) /\ \A e \in S : e.ev = "TX"

\* The step has put transmissions on top of the events "rest".
Onto(rest) == \E T : OnAir(T) /\ evlist' = T \o rest

\* Nothing but transmissions lies above the contacts "base".
Stacked(base) == base \in Seq(Contact_) /\ \E T : OnAir(T) /\ evlist = T \o base

LEMMA SentOnto ==
    ASSUME NEW msgs, NEW U, msgs \in Seq(U), NEW erased, NEW rest, Send(msgs, erased, rest)
    PROVE  Onto(rest)
  <1> DEFINE T == Transmissions(msgs)
  <1> DEFINE E(k) == [ev |-> "TX", a |-> msgs[k].prev, id |-> variousIDs + k,
                      rcv |-> IF msgs[k].type = "DATA" THEN conn'[msgs[k].prev]
                              ELSE {msgs[k].next}]
  <1> DEFINE S == {E(Len(msgs) + 1 - i) : i \in 1..Len(msgs)}
  <1>1. \A k : E(k).ev = "TX"
    OBVIOUS
  <1>2. T = [i \in 1..Len(msgs) |-> E(Len(msgs) + 1 - i)]
    BY DEF Transmissions
  <1> HIDE DEF E
  <1>3. \A e \in S : e.ev = "TX"
    BY <1>1
  <1>4. Len(msgs) \in Nat /\ T \in [1..Len(msgs) -> S]
    BY <1>2
  <1> HIDE DEF S
  <1>5. T \in Seq(S)
    BY <1>4
  <1>6. evlist' = T \o rest
    BY DEF Send
  <1> QED
    BY <1>3, <1>5, <1>6 DEF Onto, OnAir

LEMMA DataOnto ==
    ASSUME NEW n, NEW m, NEW S \in SUBSET PktIDs, NEW order \in Orders(S)
    PROVE  \E U : DataFor(n, m, order, 1) \in Seq(U)
  <1>1. Len(order) \in Nat
    BY OrderFacts
  <1>2. CASE conn'[n] = {}
    BY <1>2 DEF DataFor
  <1>3. CASE conn'[n] # {}
    <2> DEFINE D(i) == Data(n, m, order[i], 1)
    <2> DEFINE U == {D(i) : i \in 1..Len(order)}
    <2>1. DataFor(n, m, order, 1) = [i \in 1..Len(order) |-> D(i)]
      BY <1>3 DEF DataFor
    <2> HIDE DEF D
    <2>2. DataFor(n, m, order, 1) \in Seq(U)
      BY <1>1, <2>1
    <2> QED
      BY <2>2
  <1> QED
    BY <1>2, <1>3

\* Data packets and what follows the direct transfers.
LEMMA ProceedOnto ==
    ASSUME Flooding, NEW n, NEW m, NEW S \in SUBSET PktIDs, NEW order \in Orders(S), NEW left,
           NEW erased, NEW rest,
           Send(DataFor(n, m, order, 1) \o Proceed(n, m, left), erased, rest)
    PROVE  Onto(rest)
  <1> DEFINE s == DataFor(n, m, order, 1)
  <1> DEFINE t == Proceed(n, m, left)
  <1>1. PICK U : s \in Seq(U)
    BY DataOnto
  <1>2. t = <<>> \/ \E c : t = <<c>>
    BY SettingsFacts DEF Flooding
  <1> HIDE DEF s, t
  <1>3. PICK V : t \in Seq(V)
    <2>1. ASSUME NEW c, t = <<c>> PROVE t \in Seq({c})
      BY <2>1
    <2>2. t = <<>> => t \in Seq({})
      OBVIOUS
    <2> QED
      BY <1>2, <2>1, <2>2
  <1>4. s \in Seq(U \cup V) /\ t \in Seq(U \cup V)
    BY <1>1, <1>3
  <1>5. s \o t \in Seq(U \cup V)
    BY <1>4, ConcatProperties
  <1>6. Send(s \o t, erased, rest)
    BY DEF s, t
  <1> QED
    BY <1>5, <1>6, SentOnto

LEMMA DirectOnto ==
    ASSUME Flooding, NEW n, NEW m, NEW b \in SUBSET PktIDs, NEW info, NEW erased, NEW rest,
           SendDirectPackets(n, m, b, info, erased, rest)
    PROVE  Onto(rest)
  <1> DEFINE out == {p \in DestinedTo(b, m) : ~(KeepsDelivered /\ p \in info)}
  <1> DEFINE left == IF LeavesBuffer THEN Alive(b) \ out ELSE Alive(b)
  <1>1. PICK order \in Orders(out) :
           Send(DataFor(n, m, order, 1) \o Proceed(n, m, left), erased, rest)
    BY DEF SendDirectPackets
  <1>2. out \in SUBSET PktIDs
    BY DEF DestinedTo, Alive
  <1> HIDE DEF out, left
  <1> QED
    BY <1>1, <1>2, ProceedOnto

LEMMA ControlOnto ==
    ASSUME NEW c, NEW erased, NEW rest, Send(<<c>>, erased, rest)
    PROVE  Onto(rest)
  <1> DEFINE msgs == <<c>>
  <1>1. msgs \in Seq({c}) /\ Send(msgs, erased, rest)
    OBVIOUS
  <1> HIDE DEF msgs
  <1> QED
    BY <1>1, SentOnto

\* A contact, ...
LEMMA ContactOnto ==
    ASSUME IInv, Flooding, ContactUp
    PROVE  Onto(Tail(evlist))
  <1>1. TopIs("UP") /\ Contact(Top.a, Top.b, Tail(evlist))
    BY DEF ContactUp
  <1>2. buffer[Top.a] \in SUBSET PktIDs
    BY <1>1, ContactFacts DEF IInv, DataOK
  <1>3. Cleaned(buffer[Top.a], delivered[Top.a]) \in SUBSET PktIDs
    BY <1>2 DEF Cleaned
  <1> QED
    BY <1>1, <1>3, ControlOnto, DirectOnto DEF Contact, SendVaccine, SendDirectSummary

\* The event on top is a transmission, or one of the contacts.
LEMMA StackedTop ==
    ASSUME NEW base, Stacked(base), evlist # <<>>
    PROVE  IF Top.ev = "TX"
           THEN \E T : OnAir(T) /\ T # <<>> /\ evlist = T \o base
           ELSE evlist = base
  <1>1. PICK T : OnAir(T) /\ evlist = T \o base
    BY DEF Stacked
  <1>2. PICK S : T \in Seq(S) /\ \A e \in S : e.ev = "TX"
    BY <1>1 DEF OnAir
  <1>3. base \in Seq(Contact_)
    BY DEF Stacked
  <1>4. CASE T = <<>>
    <2>1. evlist = base
      BY <1>1, <1>3, <1>4, ConcatEmptySeq
    <2>2. Top \in Contact_
      BY <1>3, <2>1 DEF Top
    <2> QED
      BY <2>1, <2>2 DEF Contact_
  <1>5. CASE T # <<>>
    <2> DEFINE U == S \cup Contact_
    <2>1. T \in Seq(U) /\ base \in Seq(U) /\ Len(T) \in Nat \ {0} /\ Len(base) \in Nat
      BY <1>2, <1>3, <1>5
    <2> HIDE DEF U
    <2>2. evlist \in Seq(U) /\ evlist[1] = T[1]
      BY <1>1, <2>1, ConcatProperties
    <2>3. Top = T[1] /\ T[1] \in S
      BY <1>2, <1>5, <2>1, <2>2 DEF Top
    <2> QED
      BY <1>1, <1>2, <1>5, <2>3
  <1> QED
    BY <1>4, <1>5

\* Transmissions on top of transmissions.
LEMMA OnAirConcat ==
    ASSUME NEW T, OnAir(T), NEW V, OnAir(V), NEW base \in Seq(Contact_)
    PROVE  OnAir(T \o V) /\ (T \o V) \o base = T \o (V \o base)
  <1>1. PICK S : T \in Seq(S) /\ \A e \in S : e.ev = "TX"
    BY DEF OnAir
  <1>2. PICK R : V \in Seq(R) /\ \A e \in R : e.ev = "TX"
    BY DEF OnAir
  <1>3. PICK U : U = S \cup R
    OBVIOUS
  <1>4. PICK W : W = U \cup Contact_
    OBVIOUS
  <1>5. T \in Seq(U) /\ V \in Seq(U) /\ \A e \in U : e.ev = "TX"
    BY <1>1, <1>2, <1>3
  <1>6. T \in Seq(W) /\ V \in Seq(W) /\ base \in Seq(W)
    BY <1>4, <1>5
  <1>7. T \o V \in Seq(U)
    BY <1>5, ConcatProperties
  <1> QED
    BY <1>5, <1>6, <1>7, ConcatAssociative DEF OnAir

\* A reception leaves the contacts where they are.
LEMMA StackedRead ==
    ASSUME NEW base, Stacked(base), NEW r, Receiving(r), Onto(RestAfter(r))
    PROVE  Stacked(base)'
  <1>1. base \in Seq(Contact_) /\ evlist # <<>> /\ Top.ev = "TX"
    BY DEF Stacked, Receiving, TopIs
  <1>2. PICK T : OnAir(T) /\ T # <<>> /\ evlist = T \o base
    BY <1>1, StackedTop
  <1>3. PICK S : T \in Seq(S) /\ \A e \in S : e.ev = "TX"
    BY <1>2 DEF OnAir
  <1>4. PICK e : e = [Top EXCEPT !.rcv = @ \ {r}]
    OBVIOUS
  <1>5. e.ev = "TX" \/ Top.rcv = {r}
    <2>1. CASE "ev" \in DOMAIN Top
      BY <1>1, <1>4, <2>1
    <2>2. CASE "ev" \notin DOMAIN Top
      BY <1>1, <1>4, <2>2
    <2> QED
      BY <2>1, <2>2
  <1>6. \E V : OnAir(V) /\ RestAfter(r) = V \o base
    <2>1. PICK U : U = S \cup Contact_
      OBVIOUS
    <2>2. T \in Seq(U) /\ base \in Seq(U) /\ Len(T) \in Nat \ {0} /\ Tail(T) \in Seq(S)
          /\ Len(base) \in Nat
      BY <1>1, <1>2, <1>3, <2>1
    <2>3. Tail(evlist) = Tail(T) \o base
      BY <1>2, <2>2
    <2>4. OnAir(Tail(T))
      BY <1>3, <2>2 DEF OnAir
    <2>5. CASE Top.rcv = {r}
      BY <2>3, <2>4, <2>5 DEF RestAfter
    <2>6. CASE Top.rcv # {r}
      <3>1. RestAfter(r) = <<e>> \o (Tail(T) \o base)
        BY <1>4, <2>3, <2>6 DEF RestAfter
      <3>2. OnAir(<<e>>)
        <4>1. PICK E : E = {e}
          OBVIOUS
        <4>2. <<e>> \in Seq(E) /\ \A x \in E : x.ev = "TX"
          BY <1>5, <2>6, <4>1
        <4> QED
          BY <4>2 DEF OnAir
      <3>3. OnAir(<<e>> \o Tail(T)) /\ (<<e>> \o Tail(T)) \o base = <<e>> \o (Tail(T) \o base)
        <4>1. PICK H, V : H = <<e>> /\ V = Tail(T)
          OBVIOUS
        <4>2. OnAir(H \o V) /\ (H \o V) \o base = H \o (V \o base)
          <5>1. OnAir(H) /\ OnAir(V) /\ base \in Seq(Contact_)
            BY <1>1, <2>4, <3>2, <4>1
          <5> QED
            BY ONLY <5>1, OnAirConcat
        <4> QED
          BY ONLY <4>1, <4>2
      <3> QED
        BY <3>1, <3>3
    <2> QED
      BY <2>5, <2>6
  <1>7. PICK V : OnAir(V) /\ RestAfter(r) = V \o base
    BY <1>6
  <1>8. PICK N : OnAir(N) /\ evlist' = N \o RestAfter(r)
    BY DEF Onto
  <1>9. OnAir(N \o V) /\ evlist' = (N \o V) \o base
    BY <1>1, <1>7, <1>8, OnAirConcat
  <1> QED
    BY <1>1, <1>9 DEF Stacked

\* Where the trace is, with events left at this instant.  With packets in
\* transmission, the exchange of which they are will leave nothing out; and
\* in the second direction of a contact, what the first has brought about
\* stands.
Underway(W) ==
    \/ evlist = <<>>
    \/ \E base \in Seq(Contact_) :
          /\ Stacked(base) /\ base # <<>> /\ base[Len(base)].ev \in {"DOWN", "APP"}
    \/ \E n, m \in Nodes :
          /\ n # m
          /\ \/ evlist = <<ContactEvent("UP", n, m), ContactEvent("UP", m, n)>>
             \/ Stacked(<<ContactEvent("UP", n, m)>>) /\ Meeting(m, n, W)
             \/ Stacked(<<>>) /\ Meeting(n, m, W) /\ Over(m, n, W)

\* The contact on top is taken off.
LEMMA StackedUp ==
    ASSUME NEW base, Stacked(base), evlist # <<>>, Top.ev # "TX", Onto(Tail(evlist))
    PROVE  Stacked(Tail(base))'
  <1>1. evlist = base /\ base \in Seq(Contact_)
    BY StackedTop DEF Stacked
  <1>2. Tail(base) \in Seq(Contact_)
    BY <1>1
  <1> QED
    BY <1>1, <1>2 DEF Stacked, Onto

\* A list of contacts alone.
LEMMA StackedAlone ==
    ASSUME NEW base \in Seq(Contact_)
    PROVE  /\ evlist = base => Stacked(base)
           /\ evlist' = base => Stacked(base)'
  <1>1. <<>> \o base = base
    BY ConcatEmptySeq
  <1>2. OnAir(<<>>)
    <2>1. PICK S : S = {e \in Event : e.ev = "TX"}
      OBVIOUS
    <2>2. <<>> \in Seq(S) /\ \A e \in S : e.ev = "TX"
      BY <2>1
    <2> QED
      BY <2>2 DEF OnAir
  <1>3. \E T : OnAir(T) /\ base = T \o base
    BY <1>1, <1>2
  <1> QED
    BY <1>3 DEF Stacked

\* Taking an event off the list leaves its end.
LEMMA EndKept ==
    ASSUME NEW base \in Seq(Contact_), Len(base) # 1, base # <<>>
    PROVE  Tail(base) \in Seq(Contact_) /\ Tail(base) # <<>>
           /\ Tail(base)[Len(Tail(base))] = base[Len(base)]
  <1>1. Len(base) \in Nat /\ Len(base) > 1
    BY EmptySeq
  <1>2. /\ Tail(base) \in Seq(Contact_) /\ Len(Tail(base)) = Len(base) - 1
        /\ \A i \in 1..(Len(base) - 1) : Tail(base)[i] = base[i + 1]
    BY <1>1
  <1>3. Len(base) - 1 \in 1..(Len(base) - 1) /\ (Len(base) - 1) + 1 = Len(base)
    BY <1>1
  <1>4. Tail(base)[Len(base) - 1] = base[Len(base)]
    BY <1>2, <1>3
  <1>5. Tail(base) # <<>>
    <2>1. Len(base) - 1 # 0 /\ Len(<<>>) = 0
      BY <1>1
    <2> QED
      BY <1>2, <2>1
  <1> QED
    BY <1>2, <1>4, <1>5

\* The environment schedules a contact in both directions, or ends one.
LEMMA EnvironmentTalks ==
    ASSUME NEW W, Environment, ~(evlist' = <<>>)
    PROVE  Underway(W)'
  <1>1. ASSUME NEW ev \in {"UP", "DOWN", "APP"}, NEW a \in Nodes, NEW b \in Nodes, a # b
        PROVE  ContactEvent(ev, a, b) \in Contact_ /\ ContactEvent(ev, a, b).ev = ev
    BY <1>1 DEF ContactEvent, Contact_
  <1>2. ASSUME NEW base \in Seq(Contact_), evlist' = base, base # <<>>,
               base[Len(base)].ev \in {"DOWN", "APP"}
        PROVE  Underway(W)'
    <2>1. Stacked(base)'
      BY <1>2, StackedAlone
    <2> QED
      BY <1>2, <2>1 DEF Underway
  <1>3. CASE Tick
    BY <1>3 DEF Tick, Quiet, msgVars
  <1>4. ASSUME NEW c \in Encounters,
               \/ BeginContact(c[1], c[2]) \/ EndContact(c[1], c[2])
               \/ TouchContact(c[1], c[2])
        PROVE  Underway(W)'
    <2>1. PICK a, b : a = c[1] /\ b = c[2] /\ a \in Nodes /\ b \in Nodes /\ a # b
      BY RoutingAssumption
    <2>2. PICK up1, up2, down1, down2 :
             /\ up1 = ContactEvent("UP", b, a) /\ up2 = ContactEvent("UP", a, b)
             /\ down1 = ContactEvent("DOWN", b, a) /\ down2 = ContactEvent("DOWN", a, b)
      OBVIOUS
    <2>3. /\ up1 \in Contact_ /\ up2 \in Contact_ /\ down1 \in Contact_ /\ down2 \in Contact_
          /\ down2.ev = "DOWN"
      BY <1>1, <2>1, <2>2
    <2>4. CASE BeginContact(c[1], c[2])
      <3>1. evlist' = <<ContactEvent("UP", b, a), ContactEvent("UP", a, b)>>
        BY <2>1, <2>4 DEF BeginContact, Schedule
      <3> QED
        BY <2>1, <3>1 DEF Underway
    <2>5. CASE EndContact(c[1], c[2])
      <3>1. evlist' = <<down1, down2>>
        BY <2>1, <2>2, <2>5 DEF EndContact, Schedule
      <3>2. <<down1, down2>> \in Seq(Contact_) /\ Len(<<down1, down2>>) = 2
            /\ <<down1, down2>>[2] = down2 /\ <<down1, down2>> # <<>>
        BY <2>3
      <3> QED
        BY <1>2, <2>3, <3>1, <3>2
    <2>6. CASE TouchContact(c[1], c[2])
      <3>1. evlist' = <<up1, down1, up2, down2>>
        BY <2>1, <2>2, <2>6 DEF TouchContact, Schedule
      <3>2. <<up1, down1, up2, down2>> \in Seq(Contact_)
            /\ Len(<<up1, down1, up2, down2>>) = 4
            /\ <<up1, down1, up2, down2>>[4] = down2
            /\ <<up1, down1, up2, down2>> # <<>>
        BY <2>3
      <3> QED
        BY <1>2, <2>3, <3>1, <3>2
    <2> QED
      BY <1>4, <2>4, <2>5, <2>6
  <1>5. ASSUME NEW f \in Flows, Generate(f[1], f[2])
        PROVE  Underway(W)'
    <2>1. PICK e : e = ContactEvent("APP", f[1], f[2])
      OBVIOUS
    <2>2. e \in Contact_ /\ e.ev = "APP"
      BY <1>1, <2>1, RoutingAssumption
    <2>3. evlist' = <<e>>
      BY <1>5, <2>1 DEF Generate, Schedule
    <2>4. <<e>> \in Seq(Contact_) /\ Len(<<e>>) = 1 /\ <<e>>[1] = e /\ <<e>> # <<>>
      BY <2>2
    <2> QED
      BY <1>2, <2>2, <2>3, <2>4
  <1> QED
    BY <1>3, <1>4, <1>5 DEF Environment

-----------------------------------------------------------------------------
(* The exchange from its beginning to its end.                             *)

\* What is said of an exchange depends on the variables of the exchange only.
LEMMA MeetingStill ==
    ASSUME NEW W, UNCHANGED vars
    PROVE  /\ \A n, m : Meeting(n, m, W) => Meeting(n, m, W)'
           /\ \A n, m : Over(n, m, W) => Over(n, m, W)'
           /\ \A base : Stacked(base) => Stacked(base)'
  <1>1. UNCHANGED <<Set, now, origin, evlist, pool, buffer, delivered, god, received>>
    BY DEF vars, netVars, msgVars, dmVars, statVars
  <1> QED
    BY <1>1 DEF Meeting, Directed, Offering, Due, Backed, Over, Served, Inbound, Pending, Owed, IsData,
       Awaiting, Ask, Alive, IsAlive, TTL, DelMech, Stacked

\* The last event of an instant that is not an exchange is never a contact
\* that begins.
LEMMA EndTalks ==
    ASSUME NEW W, IInv, Flooding, NEW base \in Seq(Contact_), Stacked(base), base # <<>>,
           base[Len(base)].ev \in {"DOWN", "APP"}, ContactUp \/ ContactDown \/ RecvFromApp
    PROVE  Underway(W)'
  <1>1. evlist # <<>> /\ Top.ev \in {"UP", "DOWN", "APP"}
    BY DEF ContactUp, ContactDown, RecvFromApp, TopIs
  <1>2. evlist = base /\ Top = base[1]
    BY <1>1, StackedTop DEF Top
  <1>3. CASE Len(base) = 1
    <2>1. Top.ev # "UP" /\ Tail(base) = <<>>
      <3>1. Tail(base) \in Seq(Contact_) /\ Len(Tail(base)) = 0
        BY <1>3
      <3> QED
        BY <1>2, <1>3, <3>1, EmptySeq
    <2>2. evlist' = Tail(base)
      BY <1>2, <2>1 DEF ContactUp, ContactDown, RecvFromApp, TopIs
    <2> QED
      BY <2>1, <2>2 DEF Underway
  <1>4. CASE Len(base) # 1
    <2>1. PICK rest : rest = Tail(base)
      OBVIOUS
    <2>2. rest \in Seq(Contact_) /\ rest # <<>> /\ rest[Len(rest)].ev \in {"DOWN", "APP"}
      BY <1>4, <2>1, EndKept
    <2>3. Stacked(rest)'
      <3>1. CASE ContactUp
        BY <1>1, <2>1, <3>1, ContactOnto, StackedUp
      <3>2. CASE ContactDown \/ RecvFromApp
        <4>1. evlist' = rest
          BY <1>2, <2>1, <3>2 DEF ContactDown, RecvFromApp
        <4> QED
          BY <2>2, <4>1, StackedAlone
      <3> QED
        BY <3>1, <3>2
    <2> QED
      BY <2>2, <2>3 DEF Underway
  <1> QED
    BY <1>3, <1>4

LEMMA ContactTalks ==
    ASSUME NEW W, IInv, Flooding, Conversation, ContactUp \/ ContactDown \/ RecvFromApp, UNCHANGED Set,
           Unrecorded, Underway(W)
    PROVE  Underway(W)'
  <1>1. evlist # <<>> /\ Top.ev \in {"UP", "DOWN", "APP"}
    BY DEF ContactUp, ContactDown, RecvFromApp, TopIs
  <1>2. ASSUME NEW base \in Seq(Contact_), Stacked(base), base # <<>>,
               base[Len(base)].ev \in {"DOWN", "APP"}
        PROVE  Underway(W)'
    BY <1>2, EndTalks
  <1>3. ASSUME NEW n \in Nodes, NEW m \in Nodes, n # m,
               evlist = <<ContactEvent("UP", n, m), ContactEvent("UP", m, n)>>
        PROVE  Underway(W)'
    <2>1. PICK u, v : u = ContactEvent("UP", n, m) /\ v = ContactEvent("UP", m, n)
      OBVIOUS
    <2>2. u.ev = "UP" /\ u.a = n /\ u.b = m /\ u \in Contact_ /\ v \in Contact_
      BY <1>3, <2>1 DEF ContactEvent, Contact_
    <2>3. Top = u /\ Tail(evlist) = <<v>> /\ evlist \in Seq(Contact_)
      BY <1>3, <2>1, <2>2 DEF Top
    <2>4. ContactUp
      BY <2>2, <2>3 DEF ContactDown, RecvFromApp, TopIs
    <2>5. Meeting(n, m, W)'
      BY <2>2, <2>3, <2>4, ContactMeets
    <2>6. Stacked(<<v>>)'
      <3>1. PICK base : base = evlist /\ Tail(base) = <<v>>
        BY <2>3
      <3>2. Stacked(base)
        BY <2>3, <3>1, StackedAlone
      <3>3. Stacked(Tail(base))'
        BY <1>1, <2>2, <2>3, <2>4, <3>2, ContactOnto, StackedUp
      <3> QED
        BY <3>1, <3>3
    <2> QED
      BY <1>3, <2>1, <2>5, <2>6 DEF Underway
  <1>4. ASSUME NEW n \in Nodes, NEW m \in Nodes, n # m,
               Stacked(<<ContactEvent("UP", n, m)>>), Meeting(m, n, W)
        PROVE  Underway(W)'
    <2>1. PICK u : u = ContactEvent("UP", n, m)
      OBVIOUS
    <2>2. u.ev = "UP" /\ u.a = n /\ u.b = m
      BY <2>1 DEF ContactEvent
    <2>3. PICK base : base = <<u>> /\ Stacked(base)
      BY <1>4, <2>1
    <2>4. evlist = base
      BY <1>1, <2>3, StackedTop
    <2>5. Top = u /\ Tail(base) = <<>>
      BY <2>3, <2>4 DEF Top
    <2>6. ContactUp
      BY <2>2, <2>5 DEF ContactDown, RecvFromApp, TopIs
    <2>7. Meeting(n, m, W)' /\ Over(m, n, W)'
      BY <1>4, <2>2, <2>5, <2>6, ContactMeets
    <2>8. Stacked(<<>>)'
      <3>1. Stacked(Tail(base))'
        BY <1>1, <2>2, <2>3, <2>5, <2>6, ContactOnto, StackedUp
      <3> QED
        BY <2>5, <3>1
    <2> QED
      BY <1>4, <2>7, <2>8 DEF Underway
  <1>5. ASSUME NEW n \in Nodes, NEW m \in Nodes, n # m, Stacked(<<>>)
        PROVE  Underway(W)'
    BY <1>1, <1>5, StackedTop
  <1> QED
    BY <1>1, <1>2, <1>3, <1>4, <1>5 DEF Underway

LEMMA ReadTalks ==
    ASSUME NEW W, Underway(W), NEW r, Receiving(r), Onto(RestAfter(r)),
           \A n, m \in Nodes : Meeting(n, m, W) => GoesOn(n, m, W)
    PROVE  Underway(W)'
  <1>1. evlist # <<>> /\ Top.ev = "TX"
    BY DEF Receiving, TopIs
  <1>3. \A base : Stacked(base) => Stacked(base)'
    BY StackedRead
  <1>4. \A n, m \in Nodes : Meeting(n, m, W) => Meeting(n, m, W)' /\ (Over(m, n, W) => Over(m, n, W)')
    BY DEF GoesOn
  <1>5. ASSUME NEW n \in Nodes, NEW m \in Nodes, n # m,
               evlist = <<ContactEvent("UP", n, m), ContactEvent("UP", m, n)>>
        PROVE  FALSE
    BY <1>1, <1>5 DEF Top, ContactEvent
  <1>6. CASE \E base \in Seq(Contact_) :
               Stacked(base) /\ base # <<>> /\ base[Len(base)].ev \in {"DOWN", "APP"}
    BY <1>3, <1>6 DEF Underway
  <1>7. CASE \E n, m \in Nodes :
               n # m /\ Stacked(<<ContactEvent("UP", n, m)>>) /\ Meeting(m, n, W)
    BY <1>3, <1>4, <1>7 DEF Underway
  <1>8. CASE \E n, m \in Nodes : n # m /\ Stacked(<<>>) /\ Meeting(n, m, W) /\ Over(m, n, W)
    BY <1>3, <1>4, <1>8 DEF Underway
  <1> QED
    BY <1>1, <1>5, <1>6, <1>7, <1>8 DEF Underway

LEMMA TalkingStill ==
    ASSUME NEW W, UNCHANGED vars, Underway(W)
    PROVE  Underway(W)'
  <1>1. evlist' = evlist
    BY DEF vars, msgVars
  <1>2. CASE evlist = <<>>
    BY <1>1, <1>2 DEF Underway
  <1>3. CASE \E base \in Seq(Contact_) :
               Stacked(base) /\ base # <<>> /\ base[Len(base)].ev \in {"DOWN", "APP"}
    BY <1>3, MeetingStill DEF Underway
  <1>4. CASE \E n, m \in Nodes :
               n # m /\ evlist = <<ContactEvent("UP", n, m), ContactEvent("UP", m, n)>>
    BY <1>1, <1>4 DEF Underway
  <1>5. CASE \E n, m \in Nodes :
               n # m /\ Stacked(<<ContactEvent("UP", n, m)>>) /\ Meeting(m, n, W)
    BY <1>5, MeetingStill DEF Underway
  <1>6. CASE \E n, m \in Nodes : n # m /\ Stacked(<<>>) /\ Meeting(n, m, W) /\ Over(m, n, W)
    BY <1>6, MeetingStill DEF Underway
  <1> QED
    BY <1>2, <1>3, <1>4, <1>5, <1>6 DEF Underway

\* When nothing is left of an exchange, each of the two nodes has what the
\* other owes it.
LEMMA ExchangeEnds ==
    ASSUME NEW W, IInv, IInv', Underway(W), NEW r, Receiving(r), Onto(RestAfter(r)),
           \A n, m \in Nodes : Meeting(n, m, W) => GoesOn(n, m, W), evlist' = <<>>
    PROVE  \E n, m \in Nodes :
              /\ Over(n, m, W)' /\ Over(m, n, W)'
              /\ \/ pool[Top.id].prev = n /\ pool[Top.id].next = m
                 \/ pool[Top.id].prev = m /\ pool[Top.id].next = n
  <1>1. evlist # <<>> /\ Top.ev = "TX"
    BY DEF Receiving, TopIs
  <1>4. \A base : Stacked(base) => Stacked(base)'
    BY StackedRead
  <1>5. \A base : Stacked(base)' => base = <<>>
    <2> SUFFICES ASSUME NEW base, Stacked(base)' PROVE base = <<>>
      OBVIOUS
    <2>1. base \in Seq(Contact_) /\ \E T : OnAir(T) /\ <<>> = T \o base
      BY DEF Stacked
    <2>2. PICK T, S : T \in Seq(S) /\ <<>> = T \o base
      BY <2>1 DEF OnAir
    <2>3. PICK U : U = S \cup Contact_
      OBVIOUS
    <2>4. T \in Seq(U) /\ base \in Seq(U)
      BY <2>1, <2>2, <2>3
    <2>5. Len(<<>>) = Len(T) + Len(base) /\ Len(T) \in Nat /\ Len(base) \in Nat
      <3>1. Len(T \o base) = Len(T) + Len(base)
        BY ONLY <2>4, ConcatProperties
      <3> QED
        BY ONLY <2>2, <2>4, <3>1
    <2>6. Len(base) = 0
      BY <2>5
    <2> QED
      BY <2>1, <2>6, EmptySeq
  <1>6. PICK n \in Nodes, m \in Nodes : n # m /\ Stacked(<<>>) /\ Meeting(n, m, W) /\ Over(m, n, W)
    <2>1. ASSUME NEW n \in Nodes, NEW m \in Nodes,
                 evlist = <<ContactEvent("UP", n, m), ContactEvent("UP", m, n)>>
          PROVE  FALSE
      BY <1>1, <2>1 DEF Top, ContactEvent
    <2>2. \A n, m : ~Stacked(<<ContactEvent("UP", n, m)>>)
      BY <1>4, <1>5
    <2>3. ~ \E base \in Seq(Contact_) : Stacked(base) /\ base # <<>>
      BY <1>4, <1>5
    <2> QED
      BY <1>1, <2>1, <2>2, <2>3 DEF Underway
  <1>7. Meeting(n, m, W)' /\ Over(m, n, W)'
    BY <1>6 DEF GoesOn
  <1>8. DOMAIN pool' = {}
    <2>1. 1..Len(evlist') = {}
      OBVIOUS
    <2> QED
      BY <2>1 DEF IInv, StackOK
  <1>9. Over(n, m, W)'
    BY <1>7, <1>8 DEF Meeting, Offering, Inbound, Pending, Over
  <1>10. Top.id \in DOMAIN pool /\ Directed(n, m)
    BY <1>6, TopFacts DEF Meeting
  <1>11. \/ pool[Top.id].prev = n /\ pool[Top.id].next = m
         \/ pool[Top.id].prev = m /\ pool[Top.id].next = n
    BY <1>10 DEF Directed, Ask
  <1> QED
    BY <1>7, <1>9, <1>11
=============================================================================
