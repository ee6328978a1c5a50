-------------------------- MODULE SprayWait_proofs --------------------------
(***************************************************************************)
(* Proofs about the spraying protocols, for every network, traffic load,   *)
(* buffer size, time to live, deletion mechanism and number of replicas:   *)
(* the handlers implement quota-based replication, and where nothing is    *)
(* deleted the replicas of a packet add up to the number it was created    *)
(* with, at every moment of every exchange.  The last section is about the *)
(* two protocols of which no utility decides what they offer: what holds   *)
(* of Epidemic's exchange holds of theirs, which leaves out nothing but    *)
(* packets in their wait phase.                                            *)
(*                                                                         *)
(* Encounter-Based Routing divides 0 by 0 in the first contact after the   *)
(* window of its encounter values (run EBR), and what holds of the other   *)
(* protocols is false of it then.  So the theorems suppose that, where     *)
(* that protocol is among the configurations, the trace ends within the    *)
(* first window.                                                           *)
(***************************************************************************)
EXTENDS SprayWait, Exchange_proofs

\* The trace does not go beyond the window of the encounter values.
WithinWindow == \A s \in Configurations : s.RT = "EBR" => MaxTime <= EncWindow

-----------------------------------------------------------------------------
(* The inductive invariant.                                                *)

\* What is stored has been created, and has a number of replicas.
StockOK ==
    /\ DOMAIN reps = Nodes
    /\ \A x \in Nodes : buffer[x] \subseteq Known /\ reps[x] \in [buffer[x] -> Nat]

\* The utilities; the first window of the encounter values is never over.
UtilOK ==
    /\ betterDests \in [Nodes -> SUBSET Destinations]
    /\ enc \in [Nodes -> [stage : BOOLEAN, CWC : BOOLEAN, EV : BOOLEAN]]
    /\ \A x \in Nodes : enc[x].stage = FALSE

\* Packets are for the destinations of the traffic.
FlowOK ==
    /\ \A p \in Known : origin[p].dst \in Destinations
    /\ \A i \in 1..Len(evlist) : evlist[i].ev = "APP" => evlist[i].b \in Destinations

\* A data packet in an exchange that n began with m: if it is not for m, then
\* m does not store the packet it is a copy of before it has received this
\* copy, the only one in transmission.
SprayDataRight(id, n, m) ==
    /\ pool[id].prev = n /\ pool[id].next = m
    /\ \E p \in Known : pool[id].ids = {p}
    /\ \A p \in pool[id].ids : origin[p].dst # m =>
          /\ Awaiting(evlist, id, m) => p \notin buffer[m]
          /\ \A x \in DOMAIN pool : x # id /\ IsData(x) => p \notin pool[x].ids

\* What is sent so far is for m itself.
SprayDirectOnly(m) ==
    \A id \in DOMAIN pool : IsData(id) => \A p \in pool[id].ids : origin[p].dst = m

\* Packets that node m may ask for, to carry them on.
Carried(S, m) == \A p \in S : p \in Known /\ origin[p].dst # m /\ p \notin buffer[m]

\* The control packet, in an exchange that n began with m.
SprayControlRight(pkt, n, m) ==
    CASE pkt.type = "ANTIPACKET" -> Ask(pkt, n, m)
      [] pkt.type = "ANTIPACKET_RESPONSE" -> Ask(pkt, m, n)
      [] pkt.type = "DIRECT_SUMMARY" ->
            Ask(pkt, n, m) /\ \A p \in pkt.ids : p \in Known /\ origin[p].dst = m
      [] pkt.type = "DIRECT_REQUEST" ->
            Ask(pkt, m, n) /\ \A p \in pkt.ids : p \in Known /\ origin[p].dst = m
      [] pkt.type \in {"SUMMARY", "UTIL_DEST"} ->
            Ask(pkt, n, m) /\ \A p \in pkt.ids : p \in Known /\ origin[p].dst # m
      [] pkt.type = "REQUEST_CONTACTS" -> Ask(pkt, n, m)
      [] pkt.type = "AVAIL_DEST" ->
            /\ pkt = Reply("AVAIL_DEST", m, n, pkt.body)
            /\ pkt.body \subseteq Destinations /\ m \notin pkt.body
      [] pkt.type = "DEST_PREDICT" -> pkt = Reply("DEST_PREDICT", m, n, {})
      [] pkt.type = "REQUEST" -> Ask(pkt, m, n) /\ Carried(pkt.ids, m)
      [] pkt.type = "EBR_REQ" ->
            /\ RT = "EBR" /\ Carried(pkt.body.ids, m) /\ pkt.body.enc \in BOOLEAN
            /\ pkt = Reply("EBR_REQ", m, n,
                           [ids |-> pkt.body.ids, enc |-> pkt.body.enc])
      [] OTHER -> FALSE

\* All that is in transmission belongs to an exchange that n began with m,
\* and n has counted the encounter.
SprayExchanging(n, m) ==
    /\ n # m
    /\ RT = "EBR" => enc[n].CWC
    /\ \A id \in DOMAIN pool :
          IF IsData(id) THEN SprayDataRight(id, n, m)
          ELSE SprayControlRight(pool[id], n, m) /\ SprayDirectOnly(m)

SprayConversation ==
    /\ OneControl
    /\ DOMAIN pool = {} \/ \E n, m \in Nodes : SprayExchanging(n, m)

SInv == IInv /\ SetOK /\ StockOK /\ UtilOK /\ FlowOK /\ SprayConversation

-----------------------------------------------------------------------------
(* The settings, and what nodes hold.                                      *)

\* No protocol here is a single copy protocol or has congestion control.
LEMMA SpraySettingsFacts ==
    ASSUME SetOK
    PROVE  /\ Set \in Configurations /\ Replicas \in Nat
           /\ RT \in {"SPRAYANDWAIT", "LSFSPRAYANDWAIT", "MSFSPRAYANDWAIT",
                      "PROPHETSPRAY", "LSFSPRAYFOCUS", "EBR"}
           /\ ~needsBufferInformation
           /\ LeavesBuffer <=> OffloaderDeletePkt
           /\ DelMech \in {"JUSTTTL", "NODUPS", "KEEPREP", "VACCINE", "CATACLYSM"}
  <1>1. /\ Set \in Settings /\ CongestionControl = "NOCC" /\ Set \in Configurations
        /\ RT \in {"SPRAYANDWAIT", "LSFSPRAYANDWAIT", "MSFSPRAYANDWAIT",
                   "PROPHETSPRAY", "LSFSPRAYFOCUS", "EBR"}
    BY RoutingAssumption, SprayAssumption DEF SetOK, RT, CongestionControl
  <1>2. Replicas \in Nat /\ DelMech \in {"JUSTTTL", "NODUPS", "KEEPREP", "VACCINE", "CATACLYSM"}
    BY <1>1 DEF Settings, DelMech, Replicas
  <1>3. ~needsBufferInformation /\ ~isSingleCopy
    BY <1>1 DEF needsBufferInformation, isSingleCopy
  <1> QED
    BY <1>1, <1>2, <1>3 DEF LeavesBuffer

\* What follows the direct transfers is nothing or one control packet.
LEMMA ProceedForm ==
    ASSUME SetOK, NEW n, NEW m, NEW b
    PROVE  \/ Proceed(n, m, b) = <<>>
           \/ \E type \in {"SUMMARY", "UTIL_DEST"} :
                 Proceed(n, m, b) = <<Control(type, n, m, NotDestinedTo(b, m))>>
           \/ Proceed(n, m, b) = <<Control("REQUEST_CONTACTS", n, m, {})>>
  <1>1. RT \in {"SPRAYANDWAIT", "LSFSPRAYANDWAIT", "MSFSPRAYANDWAIT",
                "PROPHETSPRAY", "LSFSPRAYFOCUS", "EBR"}
        /\ Proceed(n, m, b) = AfterDirectTransfers(n, m, b)
    BY SpraySettingsFacts DEF Proceed
  <1> DEFINE sum == <<Control("SUMMARY", n, m, NotDestinedTo(b, m))>>
  <1> DEFINE util == <<Control("UTIL_DEST", n, m, NotDestinedTo(b, m))>>
  <1> DEFINE con == <<Control("REQUEST_CONTACTS", n, m, {})>>
  <1> SUFFICES AfterDirectTransfers(n, m, b) \in {<<>>, sum, util, con}
    BY <1>1
  <1> HIDE DEF RT
  <1>2. CASE RT \in {"SPRAYANDWAIT", "EBR"}
    <2>1. /\ RT \in SummaryProtocols /\ RT # "MSFSPRAYANDWAIT" /\ RT # "BUBBLERAP"
          /\ RT \notin DestinationProtocols /\ RT \notin ContactProtocols
      BY <1>2 DEF SummaryProtocols, DestinationProtocols, ContactProtocols
    <2> QED
      BY <2>1 DEF AfterDirectTransfers
  <1>3. CASE RT = "MSFSPRAYANDWAIT"
    <2>1. /\ RT \notin SummaryProtocols /\ RT # "BUBBLERAP"
          /\ RT \notin DestinationProtocols /\ RT \notin ContactProtocols
      BY <1>3 DEF SummaryProtocols, DestinationProtocols, ContactProtocols
    <2> QED
      BY <1>3, <2>1 DEF AfterDirectTransfers
  <1>4. CASE RT \in {"LSFSPRAYANDWAIT", "LSFSPRAYFOCUS"}
    <2>1. /\ RT \notin SummaryProtocols /\ RT # "MSFSPRAYANDWAIT" /\ RT # "BUBBLERAP"
          /\ RT \in DestinationProtocols /\ RT \notin ContactProtocols
      BY <1>4 DEF SummaryProtocols, DestinationProtocols, ContactProtocols
    <2> QED
      BY <2>1 DEF AfterDirectTransfers
  <1>5. CASE RT = "PROPHETSPRAY"
    <2>1. /\ RT \notin SummaryProtocols /\ RT # "MSFSPRAYANDWAIT" /\ RT # "BUBBLERAP"
          /\ RT \notin DestinationProtocols /\ RT \in ContactProtocols
      BY <1>5 DEF SummaryProtocols, DestinationProtocols, ContactProtocols
    <2> QED
      BY <2>1 DEF AfterDirectTransfers
  <1> QED
    BY <1>1, <1>2, <1>3, <1>4, <1>5

\* What is on its way to a node and what that node is still to receive.
LEMMA OnTheWayFacts ==
    IInv => \A s, y :
       OnTheWay(s, y) = {i \in DOMAIN pool :
                            /\ IsData(i) /\ pool[i].ids = {s} /\ pool[i].next = y
                            /\ origin[s].dst # y /\ Awaiting(evlist, i, y)}
  <1> SUFFICES ASSUME IInv, NEW p, NEW x, NEW id \in DOMAIN pool
               PROVE  (\E i \in DOMAIN evlist : IsTX(i) /\ evlist[i].id = id /\ x \in evlist[i].rcv)
                         <=> Awaiting(evlist, id, x)
    BY ZenonT(40) DEF OnTheWay, IsData
  <1>1. DOMAIN evlist = 1..Len(evlist)
    BY DEF IInv, StackOK
  <1> QED
    BY <1>1 DEF IsTX, Awaiting

\* Nothing or one packet may be on the way, and that is what is sent.
LEMMA SentNone == \A s, y : OnTheWay(s, y) = {} => Sent(s, y) = 0
  BY SumEmpty DEF Sent

LEMMA SentOne ==
    \A s, y : \A i : OnTheWay(s, y) = {i} /\ pool[i].rep \in Nat => Sent(s, y) = pool[i].rep
  <1> SUFFICES ASSUME NEW p, NEW x, NEW id, OnTheWay(p, x) = {id}, pool[id].rep \in Nat
               PROVE  Sent(p, x) = pool[id].rep
    OBVIOUS
  <1> DEFINE f == [i \in {id} |-> pool[i].rep]
  <1>1. Sent(p, x) = SumFunctionOnSet(f, {id})
    BY Zenon DEF Sent
  <1>2. f[id] = pool[id].rep /\ f[id] \in Int
    OBVIOUS
  <1> HIDE DEF f
  <1> QED
    BY <1>1, <1>2, SumOne

\* While everything is as it was, so is what is sent.
LEMMA SentSame ==
    ASSUME NEW p, NEW x, OnTheWay(p, x)' = OnTheWay(p, x),
           \A id \in OnTheWay(p, x) : pool'[id].rep = pool[id].rep
    PROVE  Sent(p, x)' = Sent(p, x)
  <1> DEFINE f == [id \in OnTheWay(p, x) |-> pool[id].rep]
  <1> DEFINE g == [id \in OnTheWay(p, x)' |-> pool'[id].rep]
  <1>1. f = g
    OBVIOUS
  <1>2. Sent(p, x) = SumFunctionOnSet(f, OnTheWay(p, x))
    BY Zenon DEF Sent
  <1>3. Sent(p, x)' = SumFunctionOnSet(g, OnTheWay(p, x)')
    BY Zenon DEF Sent
  <1> HIDE DEF f, g
  <1> QED
    BY <1>1, <1>2, <1>3

\* In an exchange with m at most one copy of a packet is on its way to be
\* stored, and then by m, which does not store the packet yet.
LEMMA ExchangeCarry ==
    IInv => \A a, b \in Nodes : SprayExchanging(a, b) => \A s, y :
       \/ OnTheWay(s, y) = {}
       \/ /\ y = b /\ origin[s].dst # b /\ s \notin buffer[b]
          /\ \E i \in DOMAIN pool :
                /\ OnTheWay(s, y) = {i} /\ pool[i].rep \in Nat
                /\ IsData(i) /\ pool[i].ids = {s} /\ Awaiting(evlist, i, b)
  <1> SUFFICES ASSUME IInv, NEW n \in Nodes, NEW m \in Nodes, SprayExchanging(n, m), NEW p, NEW x,
                      NEW id \in OnTheWay(p, x)
               PROVE  /\ x = m /\ origin[p].dst # m /\ p \notin buffer[m]
                      /\ \E i \in DOMAIN pool :
                            /\ OnTheWay(p, x) = {i} /\ pool[i].rep \in Nat
                            /\ IsData(i) /\ pool[i].ids = {p} /\ Awaiting(evlist, i, m)
    OBVIOUS
  <1>1. OnTheWay(p, x) = {i \in DOMAIN pool :
                             /\ IsData(i) /\ pool[i].ids = {p} /\ pool[i].next = x
                             /\ origin[p].dst # x /\ Awaiting(evlist, i, x)}
    BY OnTheWayFacts
  <1>2. /\ id \in DOMAIN pool /\ IsData(id) /\ pool[id].ids = {p} /\ pool[id].next = x
        /\ origin[p].dst # x /\ Awaiting(evlist, id, x)
    BY <1>1
  <1>3. SprayDataRight(id, n, m)
    BY <1>2 DEF SprayExchanging
  <1>4. /\ x = m /\ p \notin buffer[m]
        /\ \A i \in DOMAIN pool : i # id /\ IsData(i) => p \notin pool[i].ids
    BY <1>2, <1>3 DEF SprayDataRight
  <1>5. OnTheWay(p, x) = {id}
    BY <1>1, <1>2, <1>4
  <1>6. pool[id].rep \in Nat
    BY <1>2, TypeFacts DEF IInv, StackOK, IsPacket, IsData, Message
  <1> QED
    BY <1>2, <1>4, <1>5, <1>6

\* Nothing is on its way to be stored while what is sent is for m itself.
LEMMA NoCarry ==
    IInv => \A a, b \in Nodes : SprayExchanging(a, b) /\ SprayDirectOnly(b)
               => \A p, x : OnTheWay(p, x) = {}
  <1> SUFFICES ASSUME IInv, NEW n \in Nodes, NEW m \in Nodes, SprayExchanging(n, m), SprayDirectOnly(m),
                      NEW p, NEW x, OnTheWay(p, x) # {}
               PROVE  FALSE
    OBVIOUS
  <1>1. origin[p].dst # m /\ \E id \in DOMAIN pool : IsData(id) /\ pool[id].ids = {p}
    BY ExchangeCarry
  <1> QED
    BY <1>1 DEF SprayDirectOnly

LEMMA EmptyCarry == IInv => (DOMAIN pool = {} => \A p, x : OnTheWay(p, x) = {})
  BY DEF OnTheWay

\* A number of replicas, of packets that exist.
LEMMA HeldNat ==
    IInv /\ StockOK /\ SprayConversation =>
       \A s : \A x \in Nodes :
          /\ Held(s, x) \in Nat /\ Stored(s, x) \in Nat /\ Sent(s, x) \in Nat
          /\ s \notin Known => Held(s, x) = 0
          /\ s \in buffer[x] => Sent(s, x) = 0
  <1> SUFFICES ASSUME IInv, StockOK, SprayConversation, NEW p, NEW x \in Nodes
               PROVE  /\ Held(p, x) \in Nat /\ Stored(p, x) \in Nat /\ Sent(p, x) \in Nat
                      /\ p \notin Known => Held(p, x) = 0
                      /\ p \in buffer[x] => Sent(p, x) = 0
    OBVIOUS
  <1>1. Stored(p, x) \in Nat /\ (p \notin Known => Stored(p, x) = 0)
    BY DEF Stored, StockOK
  <1>2. /\ Sent(p, x) \in Nat /\ (p \notin Known => Sent(p, x) = 0)
        /\ p \in buffer[x] => Sent(p, x) = 0
    <2>1. CASE OnTheWay(p, x) = {}
      BY <2>1, SentNone
    <2>2. CASE OnTheWay(p, x) # {}
      <3>1. PICK n \in Nodes, m \in Nodes : SprayExchanging(n, m)
        BY <2>2, EmptyCarry DEF SprayConversation
      <3>2. x = m /\ p \notin buffer[m]
        BY <2>2, <3>1, ExchangeCarry
      <3>3. PICK id \in DOMAIN pool : /\ OnTheWay(p, x) = {id} /\ pool[id].rep \in Nat
                                      /\ IsData(id) /\ pool[id].ids = {p}
        BY <2>2, <3>1, ExchangeCarry
      <3>4. p \in Known
        BY <3>1, <3>3 DEF SprayExchanging, SprayDataRight
      <3>5. Sent(p, x) = pool[id].rep
        BY <3>3, SentOne
      <3> QED
        BY <3>2, <3>3, <3>4, <3>5
    <2> QED
      BY <2>1, <2>2
  <1> QED
    BY <1>1, <1>2 DEF Held

-----------------------------------------------------------------------------
(* What a step may do with the replicas of packet p.                       *)

\* Nothing is deleted.
Spared == DelMech = "JUSTTTL" /\ BufferSize = 0 /\ TTL = 0

\* Nodes have the replicas they had, or lose them all.
Less(p) ==
    \A x \in Nodes : Held(p, x)' = Held(p, x) \/ (Held(p, x)' = 0 /\ ~Spared)

\* One node hands some of them to another one.
Passed(p) ==
    \E n, m \in Nodes : \E part \in 1..Held(p, n) :
       /\ n # m
       /\ Held(p, n)' = Held(p, n) - part
       /\ Held(p, m)' = Held(p, m) + part
       /\ \A x \in Nodes \ {n, m} : Held(p, x)' = Held(p, x)

\* Buffers only lose packets.
Shrinks ==
    \A x \in Nodes : buffer'[x] \subseteq buffer[x] /\ (Spared => buffer'[x] = buffer[x])

\* What a handler leaves behind, with the replicas as they should be.
Done == Kept /\ SprayConversation' /\ StockOK' /\ \A p : Less(p) \/ Passed(p)

\* Buffers shrink, and packets that stay keep their replicas.
LEMMA StockKept ==
    ASSUME StockOK, Frame, Shrinks, KeepReps
    PROVE  /\ StockOK'
           /\ \A p : \A x \in Nodes :
                 \/ Stored(p, x)' = Stored(p, x)
                 \/ p \in buffer[x] /\ Stored(p, x)' = 0 /\ ~Spared
  <1>1. /\ DOMAIN reps' = Nodes
        /\ \A x \in Nodes : reps'[x] = [p \in buffer'[x] |-> reps[x][p]]
    BY DEF KeepReps
  <1>2. ASSUME NEW x \in Nodes
        PROVE  /\ buffer'[x] \subseteq buffer[x] /\ (Spared => buffer'[x] = buffer[x])
               /\ \A p \in buffer'[x] : reps'[x][p] = reps[x][p] /\ reps[x][p] \in Nat
               /\ reps'[x] \in [buffer'[x] -> Nat]
    BY <1>1 DEF Shrinks, StockOK
  <1>3. StockOK'
    BY <1>1, <1>2, FrameFacts DEF StockOK
  <1>4. ASSUME NEW p, NEW x \in Nodes
        PROVE  \/ Stored(p, x)' = Stored(p, x)
               \/ p \in buffer[x] /\ Stored(p, x)' = 0 /\ ~Spared
    BY <1>2 DEF Stored
  <1> QED
    BY <1>3, <1>4

\* With nothing on its way to be stored, before and after.
LEMMA IdleStep ==
    ASSUME StockOK, Frame, Shrinks, KeepReps,
           \A p, x : OnTheWay(p, x) = {}, \A p, x : OnTheWay(p, x)' = {}
    PROVE  StockOK' /\ \A p : Less(p)
  <1>0. (\A s, y : OnTheWay(s, y) = {} => Sent(s, y) = 0)'
    BY SentNone, PTL
  <1>1. ASSUME NEW p, NEW x \in Nodes
        PROVE  Held(p, x)' = Held(p, x) \/ (Held(p, x)' = 0 /\ ~Spared)
    <2>1. Sent(p, x) = 0
      BY SentNone
    <2>2. Sent(p, x)' = 0
      BY <1>0
    <2>3. \/ Stored(p, x)' = Stored(p, x)
          \/ Stored(p, x)' = 0 /\ ~Spared
      BY StockKept
    <2> QED
      BY <2>1, <2>2, <2>3 DEF Held
  <1> QED
    BY <1>1, StockKept DEF Less

-----------------------------------------------------------------------------
(* Control packets.                                                        *)

LEMMA FrameMore ==
    ASSUME Frame
    PROVE  RT' = RT /\ TTL' = TTL /\ BufferSize' = BufferSize /\ Replicas' = Replicas
  BY DEF Frame, RT, TTL, BufferSize, Replicas

\* What may be said of a control packet may be said of the packet of the pool
\* that it is.
LEMMA SprayControlPooled ==
    ASSUME NEW n, NEW m, NEW pkt, NEW id, pool'[id] = pkt, SprayControlRight(pkt, n, m)'
    PROVE  SprayControlRight(pool[id], n, m)'
  BY DEF SprayControlRight, Ask, Carried

\* A data packet for m itself stays right if it stays as it was.
LEMMA DirectKept ==
    ASSUME Frame, NEW n, NEW m, NEW id \in DOMAIN pool, SprayDataRight(id, n, m),
           \A p \in pool[id].ids : origin[p].dst = m, pool'[id] = pool[id]
    PROVE  SprayDataRight(id, n, m)'
  BY FrameFacts DEF SprayDataRight

\* What a reception leaves as it is of the invariant.
LEMMA ReceivedInv ==
    ASSUME IInv, NEW r, Receiving(r), Kept
    PROVE  IInv'
  <1>1. NetOK'
    BY DEF IInv, NetOK, netVars, Receiving
  <1>2. AppOK'
    BY DEF Kept, NoApp, AppOK
  <1> QED
    BY <1>1, <1>2 DEF Kept, IInv

\* Node r answers the control packet on top, and drops packets at most.  All
\* that has been sent before is for m itself.
LEMMA AnswerStep ==
    ASSUME IInv, OneControl, StockOK, Frame,
           NEW n \in Nodes, NEW m \in Nodes, SprayExchanging(n, m),
           NEW r, Receiving(r), pool[Top.id].type # "DATA",
           NEW pkt, pkt.type # "DATA", Sendable(<<pkt>>, r, conn'),
           Send(<<pkt>>, {Top.id}, RestAfter(r)),
           SprayControlRight(pkt, n, m)',
           DataOK', Shrinks, KeepReps, enc' = enc
    PROVE  Done
  <1>1. r \in Nodes /\ conn' \in [Nodes -> SUBSET Nodes] /\ Top.id \in DOMAIN pool
    BY TopFacts
  <1>2. /\ StackOK(RestAfter(r), [i \in DOMAIN pool \ {Top.id} |-> pool[i]],
                   conn', variousIDs)
        /\ OnlyData(RestAfter(r), pool) /\ NoApp(RestAfter(r))
    BY ControlStep, ControlFacts
  <1>3. Kept
    BY <1>1, <1>2, SendStack DEF Kept
  <1>4. /\ OneControl'
        /\ \A id \in DOMAIN pool \ {Top.id} :
              id \in DOMAIN pool' /\ pool'[id] = pool[id] /\ IsData(id)
        /\ \A id \in DOMAIN pool' : id \notin DOMAIN pool \ {Top.id} => pool'[id] = pkt
    BY <1>1, <1>2, ControlView
  <1>5. SprayDirectOnly(m)
    BY <1>1 DEF SprayExchanging, IsData
  <1>6. ASSUME NEW id \in DOMAIN pool', IsData(id)'
        PROVE  id \in DOMAIN pool /\ IsData(id) /\ pool'[id] = pool[id]
    BY <1>4, <1>6 DEF IsData
  <1>7. SprayDirectOnly(m)'
    BY <1>5, <1>6, FrameFacts DEF SprayDirectOnly
  <1>8. ASSUME NEW id \in DOMAIN pool', IsData(id)'
        PROVE  SprayDataRight(id, n, m)'
    <2>1. /\ id \in DOMAIN pool /\ pool'[id] = pool[id] /\ SprayDataRight(id, n, m)
          /\ \A p \in pool[id].ids : origin[p].dst = m
      BY <1>5, <1>6, <1>8 DEF SprayExchanging, SprayDirectOnly
    <2> QED
      BY <2>1, DirectKept
  <1>9. ASSUME NEW id \in DOMAIN pool', ~IsData(id)'
        PROVE  SprayControlRight(pool[id], n, m)'
    <2>1. pool'[id] = pkt
      BY <1>4, <1>9 DEF IsData
    <2> QED
      BY <2>1, SprayControlPooled
  <1>10. SprayExchanging(n, m)'
    <2>1. n # m /\ (RT' = "EBR" => enc'[n].CWC)
      BY FrameMore DEF SprayExchanging
    <2> QED
      BY <1>7, <1>8, <1>9, <2>1, Zenon DEF SprayExchanging
  <1>11. SprayConversation'
    BY <1>4, <1>10 DEF SprayConversation
  <1>12. \A p, x : OnTheWay(p, x) = {}
    BY <1>5, NoCarry
  <1>13. \A p, x : OnTheWay(p, x)' = {}
    <2>1. (IInv => \A a, b \in Nodes : SprayExchanging(a, b) /\ SprayDirectOnly(b)
                       => \A p, x : OnTheWay(p, x) = {})'
      BY NoCarry, PTL
    <2>2. IInv'
      BY <1>3, ReceivedInv
    <2> QED
      BY <1>7, <1>10, <2>1, <2>2
  <1>14. StockOK' /\ \A p : Less(p)
    BY <1>12, <1>13, IdleStep
  <1> QED
    BY <1>3, <1>11, <1>14 DEF Done

-----------------------------------------------------------------------------
(* Direct transfers.                                                       *)

\* Packets S are for m.
DestinedFor(S, m) == \A p \in S : p \in Known /\ origin[p].dst = m

\* The data packets ids are right, and for m itself.
SentDirectly(ids, n, m) ==
    \A id \in ids : SprayDataRight(id, n, m) /\ \A p \in pool[id].ids : origin[p].dst = m

\* Node n sends m packets S that are for m, and what follows; all that has
\* been sent before was for m itself, too.
LEMMA DirectSent ==
    ASSUME IInv', SetOK, Frame, conn' \in [Nodes -> SUBSET Nodes],
           NEW n \in Nodes, NEW m \in Nodes, n # m, m \in conn'[n],
           RT = "EBR" => enc'[n].CWC,
           NEW S \in SUBSET PktIDs, NEW order \in Orders(S), NEW left \in SUBSET PktIDs,
           NEW erased, NEW rest,
           StackOK(rest, [i \in DOMAIN pool \ erased |-> pool[i]], conn', variousIDs),
           OnlyData(rest, pool),
           Send(DataFor(n, m, order, 1) \o Proceed(n, m, left), erased, rest),
           SentDirectly(DOMAIN pool \ erased, n, m), DestinedFor(S, m), left \subseteq Known
    PROVE  SprayConversation' /\ \A p, x : OnTheWay(p, x)' = {}
  <1>0. PICK msgs : msgs = Proceed(n, m, left)
    OBVIOUS
  <1>1. Sendable(msgs, n, conn')
    BY <1>0, SendableProceed
  <1>2. \/ msgs = <<>>
        \/ \E pkt : msgs = <<pkt>> /\ pkt.type # "DATA" /\ SprayControlRight(pkt, n, m)'
    <2>1. CASE \E type \in {"SUMMARY", "UTIL_DEST"} :
                  msgs = <<Control(type, n, m, NotDestinedTo(left, m))>>
      <3>1. PICK type \in {"SUMMARY", "UTIL_DEST"} :
                msgs = <<Control(type, n, m, NotDestinedTo(left, m))>>
        BY <2>1
      <3>2. PICK pkt : pkt = Control(type, n, m, NotDestinedTo(left, m))
        OBVIOUS
      <3>3. /\ pkt.type = type /\ pkt.prev = n /\ pkt.next = m
            /\ pkt.ids = NotDestinedTo(left, m)
        BY <3>2 DEF Control
      <3>4. \A p \in pkt.ids : p \in Known' /\ origin'[p].dst # m
        BY <3>3, FrameFacts DEF NotDestinedTo, Alive
      <3> QED
        BY <3>1, <3>2, <3>3, <3>4 DEF SprayControlRight, Ask
    <2>2. CASE msgs = <<Control("REQUEST_CONTACTS", n, m, {})>>
      <3>1. PICK pkt : pkt = Control("REQUEST_CONTACTS", n, m, {})
        OBVIOUS
      <3>2. pkt.type = "REQUEST_CONTACTS" /\ pkt.prev = n /\ pkt.next = m
        BY <3>1 DEF Control
      <3> QED
        BY <2>2, <3>1, <3>2 DEF SprayControlRight, Ask
    <2> QED
      BY <1>0, <2>1, <2>2, ProceedForm
  <1>3. Send(DataFor(n, m, order, 1) \o msgs, erased, rest)
    BY <1>0
  <1>4. /\ Len(msgs) <= 1
        /\ \A k \in 1..Len(msgs) : msgs[k].type # "DATA"
        /\ \A k \in 1..Len(msgs) : SprayControlRight(msgs[k], n, m)'
    <2>1. CASE msgs = <<>>
      BY <2>1
    <2>2. CASE msgs # <<>>
      <3>1. PICK pkt : msgs = <<pkt>> /\ pkt.type # "DATA" /\ SprayControlRight(pkt, n, m)'
        BY <1>2, <2>2
      <3>2. Len(msgs) = 1 /\ msgs[1] = pkt
        BY <3>1
      <3>3. \A k \in 1..Len(msgs) : msgs[k] = pkt
        BY <3>2
      <3>4. \A k \in 1..Len(msgs) : SprayControlRight(msgs[k], n, m)'
        BY <3>1, <3>3
      <3> QED
        BY <3>1, <3>2, <3>3, <3>4
    <2> QED
      BY <2>1, <2>2
  <1>5. DataSent(n, m, S, msgs, erased, rest)
    <2>1. Len(msgs) <= 1 /\ Sendable(msgs, n, conn') /\ 1 \in Nat
      BY <1>1, <1>4
    <2>2. \A k \in 1..Len(msgs) : msgs[k].type # "DATA"
      BY <1>4
    <2> QED
      BY <1>3, <2>1, <2>2, DataView
  <1> DEFINE old == DOMAIN pool \ erased
  <1>6. /\ OneControl'
        /\ \A id \in old : id \in DOMAIN pool' /\ pool'[id] = pool[id] /\ IsData(id)
        /\ \A id \in DOMAIN pool' : id \notin old =>
              \/ \E k \in 1..Len(msgs) : pool'[id] = msgs[k]
              \/ \E p \in S : DataOf(pool'[id], n, m, p)
    BY <1>5 DEF DataSent
  <1>7. ASSUME NEW id \in DOMAIN pool', IsData(id)'
        PROVE  SprayDataRight(id, n, m)' /\ \A p \in pool'[id].ids : origin'[p].dst = m
    <2>1. CASE id \in old
      <3>1. /\ SprayDataRight(id, n, m) /\ \A p \in pool[id].ids : origin[p].dst = m
            /\ id \in DOMAIN pool /\ pool'[id] = pool[id]
        BY <1>6, <2>1 DEF SentDirectly
      <3>2. SprayDataRight(id, n, m)'
        BY <3>1, DirectKept
      <3> QED
        BY <3>1, <3>2, FrameFacts
    <2>2. CASE id \notin old
      <3>1. PICK p \in S : DataOf(pool'[id], n, m, p)
        BY <1>4, <1>6, <1>7, <2>2 DEF IsData
      <3>2. /\ pool'[id].prev = n /\ pool'[id].next = m /\ pool'[id].ids = {p}
            /\ p \in Known' /\ origin'[p].dst = m
        BY <3>1, FrameFacts DEF DataOf, DestinedFor
      <3> QED
        BY <3>2 DEF SprayDataRight
    <2> QED
      BY <2>1, <2>2
  <1>8. SprayDirectOnly(m)'
    BY <1>7 DEF SprayDirectOnly
  <1>9. ASSUME NEW id \in DOMAIN pool', ~IsData(id)'
        PROVE  SprayControlRight(pool[id], n, m)'
    <2>1. id \notin old
      BY <1>6, <1>9 DEF IsData
    <2>2. PICK k \in 1..Len(msgs) : pool'[id] = msgs[k]
      BY <1>6, <1>9, <2>1 DEF IsData, DataOf
    <2>3. PICK pkt : pkt = msgs[k]
      OBVIOUS
    <2>4. pool'[id] = pkt /\ SprayControlRight(pkt, n, m)'
      BY <1>4, <2>2, <2>3
    <2> QED
      BY <2>4, SprayControlPooled
  <1>10. SprayExchanging(n, m)'
    <2>1. n # m /\ (RT' = "EBR" => enc'[n].CWC)
      BY FrameMore
    <2> QED
      BY <1>7, <1>8, <1>9, <2>1, Zenon DEF SprayExchanging
  <1>11. \A p, x : OnTheWay(p, x)' = {}
    <2>1. (IInv => \A a, b \in Nodes : SprayExchanging(a, b) /\ SprayDirectOnly(b)
                      => \A p, x : OnTheWay(p, x) = {})'
      BY NoCarry, PTL
    <2> QED
      BY <1>8, <1>10, <2>1
  <1> QED
    BY <1>6, <1>10, <1>11 DEF SprayConversation

-----------------------------------------------------------------------------
(* The handlers of control packets.                                        *)

\* Node r receives the packet on top.
Hearing(r) == SInv /\ Frame /\ Receiving(r)

LEMMA ControlTop ==
    ASSUME NEW r, Hearing(r), pool[Top.id].type # "DATA"
    PROVE  /\ r \in Nodes /\ r = pool[Top.id].next /\ Top.id \in DOMAIN pool
           /\ pool[Top.id].prev \in conn'[r] /\ pool[Top.id].prev \in Nodes
           /\ IInv /\ OneControl /\ StockOK /\ DataOK /\ conn' \in [Nodes -> SUBSET Nodes]
           /\ buffer[r] \in SUBSET PktIDs /\ delivered[r] \in SUBSET PktIDs
           /\ pool[Top.id].type \in Types => pool[Top.id].ids \in SUBSET PktIDs
           /\ \E n, m \in Nodes :
                 /\ SprayExchanging(n, m) /\ SprayControlRight(pool[Top.id], n, m) /\ SprayDirectOnly(m)
                 /\ n # m
  <1>1. /\ IInv /\ OneControl /\ StockOK /\ Receiving(r) /\ SprayConversation
        /\ DataOK
    BY DEF Hearing, SInv, SprayConversation, IInv
  <1>2. r \in Nodes /\ Top.id \in DOMAIN pool /\ conn' \in [Nodes -> SUBSET Nodes]
    BY <1>1, TopFacts
  <1>3. r = pool[Top.id].next
    BY <1>1, ControlStep
  <1>4. /\ pool[Top.id].prev \in conn'[r] /\ pool[Top.id].prev \in Nodes
        /\ pool[Top.id].type \in Types => pool[Top.id].ids \in SUBSET PktIDs
    BY <1>1, ControlFacts
  <1>5. PICK n \in Nodes, m \in Nodes : SprayExchanging(n, m)
    BY <1>1, <1>2 DEF SprayConversation
  <1>6. SprayControlRight(pool[Top.id], n, m) /\ SprayDirectOnly(m) /\ n # m
    BY <1>2, <1>5 DEF SprayExchanging, IsData
  <1>7. buffer[r] \in SUBSET PktIDs /\ delivered[r] \in SUBSET PktIDs
    BY <1>1, <1>2 DEF DataOK
  <1> QED
    BY <1>1, <1>2, <1>3, <1>4, <1>5, <1>6, <1>7

\* Only node r loses packets.
LEMMA OneShrinks ==
    ASSUME DataOK, NEW r \in Nodes, NEW b, b \subseteq buffer[r], Spared => b = buffer[r],
           buffer' = [buffer EXCEPT ![r] = b]
    PROVE  Shrinks
  BY DEF DataOK, Shrinks

\* What is alive of a buffer.
LEMMA AliveFacts ==
    ASSUME NEW b
    PROVE  Alive(b) \subseteq b /\ (Spared => Alive(b) = b)
  BY DEF Alive, IsAlive, Spared

LEMMA SprayAntipacketHeard ==
    ASSUME NEW r, Hearing(r), ReceptionAntipacket(r, Top.id, pool[Top.id], RestAfter(r)),
           KeepReps, UNCHANGED utilVars
    PROVE  Done
  <1> DEFINE top == pool[Top.id]
  <1> DEFINE info == delivered[r] \cup top.ids
  <1>1. /\ top.type = "ANTIPACKET"
        /\ buffer' = [buffer EXCEPT ![r] = Cleaned(@, info)]
        /\ Send(<<Control("ANTIPACKET_RESPONSE", r, top.prev, info)>>, {Top.id}, RestAfter(r))
    BY DEF ReceptionAntipacket
  <1>2. /\ r \in Nodes /\ r = top.next /\ top.prev \in Nodes /\ top.prev \in conn'[r]
        /\ IInv /\ OneControl /\ StockOK /\ DataOK /\ info \in SUBSET PktIDs
    BY <1>1, ControlTop, TypeFacts
  <1>3. PICK n \in Nodes, m \in Nodes : SprayExchanging(n, m) /\ SprayControlRight(top, n, m)
    BY <1>1, ControlTop
  <1>4. top.prev = n /\ top.next = m
    BY <1>1, <1>3 DEF SprayControlRight, Ask
  <1>5. PICK pkt : pkt = Control("ANTIPACKET_RESPONSE", r, top.prev, info)
    OBVIOUS
  <1>6. Sendable(<<pkt>>, r, conn') /\ pkt.type # "DATA" /\ SprayControlRight(pkt, n, m)'
    <2>1. Sendable(<<pkt>>, r, conn')
      BY <1>2, <1>5, TypeFacts, SendableControl
    <2>2. pkt.type = "ANTIPACKET_RESPONSE" /\ pkt.prev = m /\ pkt.next = n
      BY <1>2, <1>4, <1>5 DEF Control
    <2> QED
      BY <2>1, <2>2 DEF SprayControlRight, Ask
  <1>7. Shrinks
    <2>1. /\ Cleaned(buffer[r], info) \subseteq buffer[r]
          /\ Spared => Cleaned(buffer[r], info) = buffer[r]
      BY DEF Cleaned, Spared
    <2>2. buffer' = [buffer EXCEPT ![r] = Cleaned(buffer[r], info)]
      BY <1>1, <1>2 DEF DataOK
    <2> QED
      BY <1>2, <2>1, <2>2, OneShrinks
  <1>8. DataOK'
    BY <1>2, AntipacketKept DEF Kept, Hearing
  <1> HIDE DEF info
  <1>9. Frame /\ Receiving(r) /\ enc' = enc /\ Send(<<pkt>>, {Top.id}, RestAfter(r))
    BY <1>1, <1>5 DEF Hearing, utilVars
  <1> QED
    BY <1>1, <1>2, <1>3, <1>6, <1>7, <1>8, <1>9, AnswerStep

LEMMA SprayDirectSummaryHeard ==
    ASSUME NEW r, Hearing(r), ReceptionDirectSummary(r, Top.id, pool[Top.id], RestAfter(r)),
           KeepReps, UNCHANGED utilVars
    PROVE  Done
  <1> DEFINE top == pool[Top.id]
  <1> DEFINE live == IF top.ids = {} THEN buffer[r] ELSE Alive(buffer[r])
  <1> DEFINE wanted == {p \in top.ids : p \notin live /\ ~isDelivered(r, p)}
  <1>1. /\ top.type = "DIRECT_SUMMARY"
        /\ buffer' = [buffer EXCEPT ![r] = live]
        /\ Send(<<Control("DIRECT_REQUEST", r, top.prev, wanted)>>, {Top.id}, RestAfter(r))
    BY DEF ReceptionDirectSummary
  <1>2. /\ r \in Nodes /\ r = top.next /\ top.prev \in Nodes /\ top.prev \in conn'[r]
        /\ IInv /\ OneControl /\ StockOK /\ DataOK /\ wanted \in SUBSET PktIDs
    BY <1>1, ControlTop, TypeFacts
  <1>3. PICK n \in Nodes, m \in Nodes : SprayExchanging(n, m) /\ SprayControlRight(top, n, m)
    BY <1>1, ControlTop
  <1>4. /\ top.prev = n /\ top.next = m
        /\ \A p \in top.ids : p \in Known /\ origin[p].dst = m
    BY <1>1, <1>3 DEF SprayControlRight, Ask
  <1>5. PICK pkt : pkt = Control("DIRECT_REQUEST", r, top.prev, wanted)
    OBVIOUS
  <1>6. Sendable(<<pkt>>, r, conn') /\ pkt.type # "DATA" /\ SprayControlRight(pkt, n, m)'
    <2>1. Sendable(<<pkt>>, r, conn')
      BY <1>2, <1>5, TypeFacts, SendableControl
    <2>2. pkt.type = "DIRECT_REQUEST" /\ pkt.prev = m /\ pkt.next = n /\ pkt.ids = wanted
      BY <1>2, <1>4, <1>5 DEF Control
    <2>3. \A p \in wanted : p \in Known' /\ origin'[p].dst = m
      BY <1>4, FrameFacts, SMTT(40) DEF Hearing
    <2> QED
      BY <2>1, <2>2, <2>3 DEF SprayControlRight, Ask
  <1>7. Shrinks
    <2>1. live \subseteq buffer[r] /\ (Spared => live = buffer[r])
      BY AliveFacts, ZenonT(40)
    <2> QED
      BY <1>1, <1>2, <2>1, OneShrinks, ZenonT(60)
  <1>8. DataOK'
    BY <1>2, DirectSummaryKept DEF Kept, Hearing
  <1> HIDE DEF wanted, live
  <1>9. Frame /\ Receiving(r) /\ enc' = enc /\ Send(<<pkt>>, {Top.id}, RestAfter(r))
    BY <1>1, <1>5 DEF Hearing, utilVars
  <1> QED
    BY <1>1, <1>2, <1>3, <1>6, <1>7, <1>8, <1>9, AnswerStep

LEMMA SpraySummaryHeard ==
    ASSUME NEW r, Hearing(r), ReceptionSummary(r, Top.id, pool[Top.id], RestAfter(r)),
           KeepReps, UNCHANGED utilVars
    PROVE  Done
  <1> DEFINE top == pool[Top.id]
  <1> DEFINE live == IF top.ids = {} THEN buffer[r] ELSE Alive(buffer[r])
  <1> DEFINE wanted == top.ids \ live
  <1>1. /\ top.type = "SUMMARY"
        /\ buffer' = [buffer EXCEPT ![r] = live]
        /\ Send(<<Control("REQUEST", r, top.prev, wanted)>>, {Top.id}, RestAfter(r))
    BY DEF ReceptionSummary
  <1>2. /\ r \in Nodes /\ r = top.next /\ top.prev \in Nodes /\ top.prev \in conn'[r]
        /\ IInv /\ OneControl /\ StockOK /\ DataOK /\ wanted \in SUBSET PktIDs
    BY <1>1, ControlTop, TypeFacts
  <1>3. PICK n \in Nodes, m \in Nodes : SprayExchanging(n, m) /\ SprayControlRight(top, n, m)
    BY <1>1, ControlTop
  <1>4. /\ top.prev = n /\ top.next = m
        /\ \A p \in top.ids : p \in Known /\ origin[p].dst # m
    BY <1>1, <1>3 DEF SprayControlRight, Ask
  <1>5. PICK pkt : pkt = Control("REQUEST", r, top.prev, wanted)
    OBVIOUS
  <1>6. Sendable(<<pkt>>, r, conn') /\ pkt.type # "DATA" /\ SprayControlRight(pkt, n, m)'
    <2>1. Sendable(<<pkt>>, r, conn')
      BY <1>2, <1>5, TypeFacts, SendableControl
    <2>2. pkt.type = "REQUEST" /\ pkt.prev = m /\ pkt.next = n /\ pkt.ids = wanted
      BY <1>2, <1>4, <1>5 DEF Control
    <2>3. buffer'[m] = live
      BY <1>1, <1>2, <1>4 DEF DataOK
    <2>4. \A p \in wanted : p \in Known' /\ origin'[p].dst # m /\ p \notin buffer'[m]
      BY <1>4, <2>3, FrameFacts, SMTT(40) DEF Hearing
    <2> QED
      BY <2>1, <2>2, <2>4 DEF SprayControlRight, Ask, Carried
  <1>7. Shrinks
    <2>1. live \subseteq buffer[r] /\ (Spared => live = buffer[r])
      BY AliveFacts, ZenonT(40)
    <2> QED
      BY <1>1, <1>2, <2>1, OneShrinks, ZenonT(60)
  <1>8. DataOK'
    BY <1>2, SummaryKept DEF Kept, Hearing
  <1> HIDE DEF wanted, live
  <1>9. Frame /\ Receiving(r) /\ enc' = enc /\ Send(<<pkt>>, {Top.id}, RestAfter(r))
    BY <1>1, <1>5 DEF Hearing, utilVars
  <1> QED
    BY <1>1, <1>2, <1>3, <1>6, <1>7, <1>8, <1>9, AnswerStep

\* The answers of the variants; no deletion mechanism takes part in them.
LEMMA SummaryEBRHeard ==
    ASSUME NEW r, Hearing(r), RT = "EBR",
           ReceptionSummaryEBR(r, Top.id, pool[Top.id], RestAfter(r)), KeepReps
    PROVE  Done
  <1> DEFINE top == pool[Top.id]
  <1> DEFINE live == IF top.ids = {} THEN buffer[r] ELSE Alive(buffer[r])
  <1> DEFINE wanted == top.ids \ live
  <1> DEFINE body == [ids |-> wanted, enc |-> EncPositive(r)]
  <1>1. /\ top.type = "SUMMARY"
        /\ buffer' = [buffer EXCEPT ![r] = live]
        /\ Send(<<Reply("EBR_REQ", r, top.prev, body)>>, {Top.id}, RestAfter(r))
        /\ UNCHANGED <<dmVars, statVars, halted, utilVars>>
    BY DEF ReceptionSummaryEBR
  <1>2. /\ r \in Nodes /\ r = top.next /\ top.prev \in Nodes /\ top.prev \in conn'[r]
        /\ IInv /\ OneControl /\ StockOK /\ DataOK /\ buffer[r] \in SUBSET PktIDs
    BY <1>1, ControlTop
  <1>3. PICK n \in Nodes, m \in Nodes : SprayExchanging(n, m) /\ SprayControlRight(top, n, m)
    BY <1>1, ControlTop
  <1>4. /\ top.prev = n /\ top.next = m
        /\ \A p \in top.ids : p \in Known /\ origin[p].dst # m
    BY <1>1, <1>3 DEF SprayControlRight, Ask
  <1>5. EncPositive(r) \in BOOLEAN
    BY <1>2 DEF Hearing, SInv, UtilOK, EncPositive
  <1>6. PICK pkt : pkt = Reply("EBR_REQ", r, top.prev, body)
    OBVIOUS
  <1>7. Sendable(<<pkt>>, r, conn') /\ pkt.type # "DATA" /\ SprayControlRight(pkt, n, m)'
    <2>1. Sendable(<<pkt>>, r, conn')
      BY <1>2, <1>6, TypeFacts, SendableReply
    <2>2. /\ pkt.type = "EBR_REQ" /\ pkt.body.ids = wanted /\ pkt.body.enc \in BOOLEAN
          /\ pkt = Reply("EBR_REQ", m, n, [ids |-> pkt.body.ids, enc |-> pkt.body.enc])
      BY <1>2, <1>4, <1>5, <1>6 DEF Reply
    <2>3. buffer'[m] = live
      BY <1>1, <1>2, <1>4 DEF DataOK
    <2>4. \A p \in wanted : p \in Known' /\ origin'[p].dst # m /\ p \notin buffer'[m]
      BY <1>4, <2>3, FrameFacts, SMTT(40) DEF Hearing
    <2>5. RT' = "EBR"
      BY FrameMore DEF Hearing
    <2> QED
      BY <2>1, <2>2, <2>4, <2>5 DEF SprayControlRight, Carried
  <1>8. live \subseteq buffer[r] /\ (Spared => live = buffer[r])
    BY AliveFacts, ZenonT(40)
  <1>9. Shrinks
    BY <1>1, <1>2, <1>8, OneShrinks, ZenonT(60)
  <1>10. DataOK'
    <2>1. live \in SUBSET PktIDs
      BY <1>2, <1>8
    <2> QED
      BY <1>1, <1>2, <2>1, BufferData
  <1> HIDE DEF body, wanted, live
  <1>11. Frame /\ Receiving(r) /\ enc' = enc /\ Send(<<pkt>>, {Top.id}, RestAfter(r))
    BY <1>1, <1>6 DEF Hearing, utilVars
  <1> QED
    BY <1>1, <1>2, <1>3, <1>7, <1>9, <1>10, <1>11, AnswerStep

\* An answer that leaves the buffers alone.
LEMMA ReplyHeard ==
    ASSUME NEW r, Hearing(r), NEW n \in Nodes, NEW m \in Nodes, SprayExchanging(n, m),
           pool[Top.id].type # "DATA", NEW type, type \notin Types, NEW body, NEW pkt,
           pkt = Reply(type, r, pool[Top.id].prev, body),
           SprayControlRight(pkt, n, m)', Send(<<pkt>>, {Top.id}, RestAfter(r)),
           UNCHANGED <<buffer, dmVars, statVars, halted, utilVars>>, KeepReps
    PROVE  Done
  <1>1. /\ r \in Nodes /\ pool[Top.id].prev \in Nodes /\ pool[Top.id].prev \in conn'[r]
        /\ IInv /\ OneControl /\ StockOK /\ DataOK
    BY ControlTop
  <1>2. Sendable(<<pkt>>, r, conn') /\ pkt.type # "DATA"
    <2>1. Sendable(<<pkt>>, r, conn')
      BY <1>1, SendableReply
    <2>2. pkt.type = type
      BY DEF Reply
    <2> QED
      BY <2>1, <2>2, TypeFacts
  <1>3. Shrinks /\ DataOK'
    BY <1>1 DEF Shrinks, DataOK, dmVars, statVars
  <1>4. Frame /\ Receiving(r) /\ enc' = enc
    BY DEF Hearing, utilVars
  <1> QED
    BY <1>1, <1>2, <1>3, <1>4, AnswerStep

LEMMA UtilDestHeard ==
    ASSUME NEW r, Hearing(r), ReceptionUtilDest(r, Top.id, pool[Top.id], RestAfter(r)), KeepReps
    PROVE  Done
  <1> DEFINE top == pool[Top.id]
  <1>1. top.type = "UTIL_DEST" /\ UNCHANGED <<buffer, dmVars, statVars, halted, utilVars>>
    BY DEF ReceptionUtilDest
  <1>2. PICK better \in SUBSET {origin[p].dst : p \in top.ids} :
           Send(<<Reply("AVAIL_DEST", r, top.prev, better)>>, {Top.id}, RestAfter(r))
    BY DEF ReceptionUtilDest
  <1>3. r = top.next
    BY <1>1, ControlTop
  <1>4. PICK n \in Nodes, m \in Nodes : SprayExchanging(n, m) /\ SprayControlRight(top, n, m)
    BY <1>1, ControlTop
  <1>5. /\ top.prev = n /\ top.next = m
        /\ \A p \in top.ids : p \in Known /\ origin[p].dst # m
    BY <1>1, <1>4 DEF SprayControlRight, Ask
  <1>6. better \subseteq Destinations /\ m \notin better
    BY <1>5 DEF Hearing, SInv, FlowOK
  <1>7. PICK pkt : pkt = Reply("AVAIL_DEST", r, top.prev, better)
    OBVIOUS
  <1>8. SprayControlRight(pkt, n, m)'
    <2>1. /\ pkt.type = "AVAIL_DEST" /\ pkt.body = better
          /\ pkt = Reply("AVAIL_DEST", m, n, pkt.body)
      BY <1>3, <1>5, <1>7 DEF Reply
    <2> QED
      BY <1>6, <2>1 DEF SprayControlRight
  <1>9. "AVAIL_DEST" \notin Types /\ Send(<<pkt>>, {Top.id}, RestAfter(r))
    BY <1>2, <1>7, TypeFacts
  <1> QED
    BY <1>1, <1>4, <1>7, <1>8, <1>9, ReplyHeard

LEMMA RequestContactsHeard ==
    ASSUME NEW r, Hearing(r), ReceptionRequestContacts(r, Top.id, pool[Top.id], RestAfter(r)),
           KeepReps
    PROVE  Done
  <1> DEFINE top == pool[Top.id]
  <1>1. /\ top.type = "REQUEST_CONTACTS"
        /\ UNCHANGED <<buffer, dmVars, statVars, halted, utilVars>>
        /\ Send(<<Reply("DEST_PREDICT", r, top.prev, {})>>, {Top.id}, RestAfter(r))
    BY DEF ReceptionRequestContacts
  <1>2. r = top.next
    BY <1>1, ControlTop
  <1>3. PICK n \in Nodes, m \in Nodes : SprayExchanging(n, m) /\ SprayControlRight(top, n, m)
    BY <1>1, ControlTop
  <1>4. top.prev = n /\ top.next = m
    BY <1>1, <1>3 DEF SprayControlRight, Ask
  <1>5. PICK pkt : pkt = Reply("DEST_PREDICT", r, top.prev, {})
    OBVIOUS
  <1>6. SprayControlRight(pkt, n, m)'
    <2>1. pkt.type = "DEST_PREDICT" /\ pkt = Reply("DEST_PREDICT", m, n, {})
      BY <1>2, <1>4, <1>5 DEF Reply
    <2> QED
      BY <2>1 DEF SprayControlRight
  <1>7. "DEST_PREDICT" \notin Types /\ Send(<<pkt>>, {Top.id}, RestAfter(r))
    BY <1>1, <1>5, TypeFacts
  <1> QED
    BY <1>1, <1>3, <1>5, <1>6, <1>7, ReplyHeard

\* Node n offers some of the packets that are not for m.
LEMMA OfferHeard ==
    ASSUME NEW r, Hearing(r), NEW n \in Nodes, NEW m \in Nodes, SprayExchanging(n, m),
           pool[Top.id].type # "DATA", r = n, pool[Top.id].prev = m, NEW offered,
           offered \subseteq Alive(buffer[r]), \A p \in offered : origin[p].dst # m,
           Offer(r, Top.id, pool[Top.id], RestAfter(r), Alive(buffer[r]), offered), KeepReps
    PROVE  Done
  <1> DEFINE live == Alive(buffer[r])
  <1>1. /\ buffer' = [buffer EXCEPT ![r] = live]
        /\ Send(<<Control("SUMMARY", r, m, offered)>>, {Top.id}, RestAfter(r))
        /\ UNCHANGED <<dmVars, statVars, halted, enc>>
    BY DEF Offer
  <1>2. /\ r \in Nodes /\ m \in conn'[r]
        /\ IInv /\ OneControl /\ StockOK /\ DataOK /\ buffer[r] \in SUBSET PktIDs
    BY ControlTop
  <1>3. live \subseteq buffer[r] /\ (Spared => live = buffer[r])
    BY AliveFacts, ZenonT(40)
  <1> HIDE DEF live
  <1>4. live \in SUBSET PktIDs /\ offered \in SUBSET PktIDs
    BY <1>2, <1>3 DEF live
  <1>5. Shrinks /\ DataOK'
    BY <1>1, <1>2, <1>3, <1>4, OneShrinks, BufferData
  <1>6. PICK pkt : pkt = Control("SUMMARY", r, m, offered)
    OBVIOUS
  <1>7. Sendable(<<pkt>>, r, conn') /\ pkt.type # "DATA" /\ SprayControlRight(pkt, n, m)'
    <2>1. Sendable(<<pkt>>, r, conn')
      BY <1>2, <1>4, <1>6, TypeFacts, SendableControl
    <2>2. pkt.type = "SUMMARY" /\ pkt.prev = n /\ pkt.next = m /\ pkt.ids = offered
      BY <1>6 DEF Control
    <2>3. \A p \in offered : p \in Known' /\ origin'[p].dst # m
      BY <1>2, <1>3, FrameFacts DEF Hearing, StockOK, live
    <2> QED
      BY <2>1, <2>2, <2>3 DEF SprayControlRight, Ask
  <1>8. Frame /\ Receiving(r) /\ Send(<<pkt>>, {Top.id}, RestAfter(r)) /\ enc' = enc
    BY <1>1, <1>6 DEF Hearing
  <1> QED
    BY <1>1, <1>2, <1>5, <1>7, <1>8, AnswerStep

LEMMA AvailDestHeard ==
    ASSUME NEW r, Hearing(r), ReceptionAvailDest(r, Top.id, pool[Top.id], RestAfter(r)), KeepReps
    PROVE  Done
  <1> DEFINE top == pool[Top.id]
  <1> DEFINE live == Alive(buffer[r])
  <1> DEFINE offered == IF RT = "LSFSPRAYFOCUS" THEN NotDestinedTo(live, top.prev)
                        ELSE {p \in live : origin[p].dst \in top.body}
  <1>1. /\ top.type = "AVAIL_DEST"
        /\ Offer(r, Top.id, top, RestAfter(r), live, offered)
    BY DEF ReceptionAvailDest
  <1>2. r = top.next
    BY <1>1, ControlTop
  <1>3. PICK n \in Nodes, m \in Nodes : SprayExchanging(n, m) /\ SprayControlRight(top, n, m)
    BY <1>1, ControlTop
  <1>4. top.prev = m /\ top.next = n /\ m \notin top.body
    <2>1. top = Reply("AVAIL_DEST", m, n, top.body) /\ m \notin top.body
      BY <1>1, <1>3 DEF SprayControlRight
    <2> HIDE DEF top
    <2> QED
      BY <2>1 DEF Reply
  <1>5. offered \subseteq live /\ \A p \in offered : origin[p].dst # m
    BY <1>4 DEF NotDestinedTo, Alive
  <1> HIDE DEF offered
  <1> QED
    BY <1>1, <1>2, <1>3, <1>4, <1>5, OfferHeard

LEMMA DPTHeard ==
    ASSUME NEW r, Hearing(r), ReceptionDPT(r, Top.id, pool[Top.id], RestAfter(r)), KeepReps
    PROVE  Done
  <1> DEFINE top == pool[Top.id]
  <1> DEFINE live == Alive(buffer[r])
  <1>1. top.type = "DEST_PREDICT"
    BY DEF ReceptionDPT
  <1>2. PICK better \in SUBSET (Destinations \ {top.prev}) :
           Offer(r, Top.id, top, RestAfter(r), live, {p \in live : origin[p].dst \in better})
    BY DEF ReceptionDPT
  <1>3. r = top.next
    BY <1>1, ControlTop
  <1>4. PICK n \in Nodes, m \in Nodes : SprayExchanging(n, m) /\ SprayControlRight(top, n, m)
    BY <1>1, ControlTop
  <1>5. top.prev = m /\ top.next = n
    <2>1. top = Reply("DEST_PREDICT", m, n, {})
      BY <1>1, <1>4 DEF SprayControlRight
    <2> HIDE DEF top
    <2> QED
      BY <2>1 DEF Reply
  <1> DEFINE offered == {p \in live : origin[p].dst \in better}
  <1>6. offered \subseteq live /\ \A p \in offered : origin[p].dst # m
    BY <1>5
  <1>7. Offer(r, Top.id, top, RestAfter(r), live, offered)
    BY <1>2
  <1> HIDE DEF offered
  <1> QED
    BY <1>1, <1>3, <1>4, <1>5, <1>6, <1>7, OfferHeard

\* With the buffers as they were, so are the replicas.
LEMMA SameStock ==
    ASSUME StockOK, Frame, buffer' = buffer, KeepReps \/ reps' = reps
    PROVE  StockOK' /\ \A p : \A x \in Nodes : Stored(p, x)' = Stored(p, x)
  <1>1. DOMAIN reps' = Nodes
    BY DEF KeepReps, StockOK
  <1>2. \A x \in Nodes : reps'[x] = reps[x]
    <2>1. CASE reps' = reps
      BY <2>1
    <2>2. CASE KeepReps
      <3>1. \A x \in Nodes : reps'[x] = [p \in buffer[x] |-> reps[x][p]]
        BY <2>2 DEF KeepReps
      <3> QED
        BY <3>1 DEF StockOK
    <2> QED
      BY <2>1, <2>2
  <1>3. StockOK'
    BY <1>1, <1>2, FrameFacts DEF StockOK
  <1> QED
    BY <1>2, <1>3 DEF Stored

\* The program ends: nothing else changes.
LEMMA ExitHeard ==
    ASSUME NEW r, Hearing(r), Exit, KeepReps \/ reps' = reps, UNCHANGED utilVars
    PROVE  Done
  <1>1. /\ IInv /\ StockOK /\ SprayConversation /\ Receiving(r) /\ Frame
    BY DEF Hearing, SInv
  <1>2. UNCHANGED <<evlist, pool, buffer, origin, Set, enc>>
    BY <1>1 DEF Exit, msgVars, Frame, utilVars
  <1>3. Kept
    BY <1>1, ExitKept
  <1>4. SprayConversation'
    BY <1>1, <1>2 DEF SprayConversation, OneControl, IsData, SprayExchanging,
                SprayDataRight, SprayControlRight,
       SprayDirectOnly, Carried, Ask, Known, Awaiting, RT
  <1>5. \A p, x : OnTheWay(p, x)' = OnTheWay(p, x)
    BY <1>2 DEF OnTheWay, IsTX
  <1>6. ASSUME NEW p, NEW x \in Nodes PROVE Held(p, x)' = Held(p, x)
    <2>1. \A id \in OnTheWay(p, x) : pool'[id].rep = pool[id].rep
      BY <1>2
    <2>2. Sent(p, x)' = Sent(p, x)
      BY <1>5, <2>1, SentSame
    <2>3. Stored(p, x)' = Stored(p, x)
      BY <1>1, <1>2, SameStock
    <2> QED
      BY <2>2, <2>3 DEF Held
  <1>7. StockOK'
    BY <1>1, <1>2, SameStock
  <1> QED
    BY <1>3, <1>4, <1>6, <1>7 DEF Done, Less

\* After direct transfers.
LEMMA DirectDone ==
    ASSUME NEW r, Hearing(r), pool[Top.id].type # "DATA", Kept, Shrinks, KeepReps,
           SprayConversation', \A p, x : OnTheWay(p, x)' = {}
    PROVE  Done
  <1>1. \A p, x : OnTheWay(p, x) = {}
    <2>1. IInv /\ \E n, m \in Nodes : SprayExchanging(n, m) /\ SprayDirectOnly(m)
      BY ControlTop
    <2> QED
      BY <2>1, NoCarry
  <1>2. StockOK' /\ \A p : Less(p)
    BY <1>1, IdleStep DEF Hearing, SInv
  <1> QED
    BY <1>2 DEF Done

LEMMA SprayAntipacketResponseHeard ==
    ASSUME NEW r, Hearing(r),
           ReceptionAntipacketResponse(r, Top.id, pool[Top.id], RestAfter(r)),
           KeepReps, UNCHANGED utilVars
    PROVE  Done
  <1> DEFINE top == pool[Top.id]
  <1> DEFINE info == delivered[r] \cup top.ids
  <1> DEFINE b == Cleaned(buffer[r], info)
  <1> DEFINE out == {p \in DestinedTo(b, top.prev) : ~(KeepsDelivered /\ p \in info)}
  <1> DEFINE left == IF LeavesBuffer THEN Alive(b) \ out ELSE Alive(b)
  <1>1. /\ top.type = "ANTIPACKET_RESPONSE"
        /\ SendDirectPackets(r, top.prev, b, info, {Top.id}, RestAfter(r))
    BY DEF ReceptionAntipacketResponse
  <1>2. /\ r \in Nodes /\ r = top.next /\ top.prev \in Nodes /\ top.prev \in conn'[r]
        /\ IInv /\ OneControl /\ StockOK /\ DataOK /\ buffer[r] \in SUBSET PktIDs
        /\ conn' \in [Nodes -> SUBSET Nodes] /\ Frame /\ Receiving(r) /\ SetOK
    BY <1>1, ControlTop DEF Hearing, SInv
  <1>3. PICK n \in Nodes, m \in Nodes :
           SprayExchanging(n, m) /\ SprayControlRight(top, n, m) /\ SprayDirectOnly(m) /\ n # m
    BY <1>1, ControlTop
  <1>4. top.prev = m /\ top.next = n
    BY <1>1, <1>3 DEF SprayControlRight, Ask
  <1>5. PICK order \in Orders(out) :
           Send(DataFor(r, m, order, 1) \o Proceed(r, m, left), {Top.id}, RestAfter(r))
    BY <1>1, <1>4 DEF SendDirectPackets
  <1>6. buffer' = [buffer EXCEPT ![r] = left]
    BY <1>1 DEF SendDirectPackets
  <1>7. b \subseteq buffer[r] /\ (Spared => b = buffer[r])
    BY DEF Cleaned, Spared
  <1> HIDE DEF b, info
  <1>8. /\ out \subseteq b /\ (\A p \in out : origin[p].dst = m)
        /\ left \subseteq b /\ (Spared => left = b)
    <2>1. Alive(b) \subseteq b /\ (Spared => Alive(b) = b)
      BY AliveFacts
    <2>2. Spared => ~LeavesBuffer
      BY <1>2, SpraySettingsFacts DEF Spared, OffloaderDeletePkt
    <2>3. out \subseteq b /\ \A p \in out : origin[p].dst = m
      BY <1>4 DEF DestinedTo, Alive
    <2> HIDE DEF out
    <2> QED
      BY <2>1, <2>2, <2>3
  <1> HIDE DEF left, out, top
  <1>9. Shrinks
    BY <1>2, <1>6, <1>7, <1>8, OneShrinks
  <1>10. Kept
    BY <1>2, AntipacketResponseKept
  <1>11. IInv'
    BY <1>2, <1>10, ReceivedInv
  <1>12. /\ out \in SUBSET PktIDs /\ left \in SUBSET PktIDs
         /\ DestinedFor(out, m) /\ left \subseteq Known
    BY <1>2, <1>7, <1>8 DEF StockOK, DestinedFor
  <1>13. /\ StackOK(RestAfter(r), [i \in DOMAIN pool \ {Top.id} |-> pool[i]],
                    conn', variousIDs)
         /\ OnlyData(RestAfter(r), pool)
    BY <1>1, <1>2, ControlStep DEF top
  <1>14. SentDirectly(DOMAIN pool \ {Top.id}, n, m)
    BY <1>3, <1>13, ControlData DEF SprayExchanging, SprayDirectOnly, SentDirectly
  <1>15. RT = "EBR" => enc'[n].CWC
    BY <1>3 DEF SprayExchanging, utilVars
  <1>16. /\ m \in conn'[n] /\ r = n
         /\ Send(DataFor(n, m, order, 1) \o Proceed(n, m, left), {Top.id}, RestAfter(r))
    BY <1>2, <1>4, <1>5
  <1>17. SprayConversation' /\ \A p, x : OnTheWay(p, x)' = {}
    BY <1>2, <1>3, <1>11, <1>12, <1>13, <1>14, <1>15, <1>16, DirectSent
  <1> QED
    BY <1>1, <1>9, <1>10, <1>17, DirectDone DEF top

LEMMA SprayDirectRequestHeard ==
    ASSUME NEW r, Hearing(r),
           ReceptionDirectRequest(r, Top.id, pool[Top.id], RestAfter(r)),
           KeepReps, UNCHANGED utilVars
    PROVE  Done
  <1> DEFINE top == pool[Top.id]
  <1> DEFINE live == Alive(buffer[r])
  <1> DEFINE left == IF LeavesBuffer THEN live \ DestinedTo(live, top.prev) ELSE live
  <1>1. top.type = "DIRECT_REQUEST"
    BY DEF ReceptionDirectRequest
  <1>0. CASE ~(top.ids \subseteq live)
    BY <1>0, ExitHeard DEF ReceptionDirectRequest
  <1> SUFFICES ASSUME top.ids \subseteq live PROVE Done
    BY <1>0
  <1>2. /\ r \in Nodes /\ r = top.next /\ top.prev \in Nodes /\ top.prev \in conn'[r]
        /\ IInv /\ OneControl /\ StockOK /\ DataOK /\ buffer[r] \in SUBSET PktIDs
        /\ conn' \in [Nodes -> SUBSET Nodes] /\ Frame /\ Receiving(r) /\ SetOK
    BY <1>1, ControlTop DEF Hearing, SInv
  <1>3. PICK n \in Nodes, m \in Nodes :
           SprayExchanging(n, m) /\ SprayControlRight(top, n, m) /\ SprayDirectOnly(m) /\ n # m
    BY <1>1, ControlTop
  <1>4. /\ top.prev = m /\ top.next = n
        /\ DestinedFor(top.ids, m)
    BY <1>1, <1>3 DEF SprayControlRight, Ask, DestinedFor
  <1>5. PICK order \in Orders(top.ids) :
           Send(DataFor(r, m, order, 1) \o Proceed(r, m, left), {Top.id}, RestAfter(r))
    BY <1>4 DEF ReceptionDirectRequest
  <1>6. buffer' = [buffer EXCEPT ![r] = left]
    BY DEF ReceptionDirectRequest
  <1>7. live \subseteq buffer[r] /\ (Spared => live = buffer[r])
    BY AliveFacts
  <1> HIDE DEF live
  <1>8. left \subseteq live /\ (Spared => left = live)
    BY <1>2, SpraySettingsFacts DEF Spared, OffloaderDeletePkt
  <1> HIDE DEF left, top
  <1>9. Shrinks
    BY <1>2, <1>6, <1>7, <1>8, OneShrinks
  <1>10. Kept
    BY <1>2, DirectRequestKept
  <1>11. IInv'
    BY <1>2, <1>10, ReceivedInv
  <1>12. top.ids \in SUBSET PktIDs /\ left \in SUBSET PktIDs /\ left \subseteq Known
    BY <1>2, <1>7, <1>8 DEF StockOK
  <1>13. /\ StackOK(RestAfter(r), [i \in DOMAIN pool \ {Top.id} |-> pool[i]],
                    conn', variousIDs)
         /\ OnlyData(RestAfter(r), pool)
    BY <1>1, <1>2, ControlStep DEF top
  <1>14. SentDirectly(DOMAIN pool \ {Top.id}, n, m)
    BY <1>3, <1>13, ControlData DEF SprayExchanging, SprayDirectOnly, SentDirectly
  <1>15. RT = "EBR" => enc'[n].CWC
    BY <1>3 DEF SprayExchanging, utilVars
  <1>16. /\ m \in conn'[n] /\ r = n
         /\ Send(DataFor(n, m, order, 1) \o Proceed(n, m, left), {Top.id}, RestAfter(r))
    BY <1>2, <1>4, <1>5
  <1>17. SprayConversation' /\ \A p, x : OnTheWay(p, x)' = {}
    BY <1>2, <1>3, <1>4, <1>11, <1>12, <1>13, <1>14, <1>15, <1>16, DirectSent
  <1> QED
    BY <1>1, <1>9, <1>10, <1>17, DirectDone DEF top

-----------------------------------------------------------------------------
(* Data packets.                                                           *)

\* The data packet on top is right, and below it there is nothing but data.
LEMMA SprayDataTop ==
    ASSUME NEW r, Hearing(r), pool[Top.id].type = "DATA"
    PROVE  /\ r \in Nodes /\ Top.id \in DOMAIN pool /\ Awaiting(evlist, Top.id, r)
           /\ IInv /\ OneControl /\ StockOK /\ DataOK /\ Receiving(r) /\ Frame
           /\ \A id \in DOMAIN pool : IsData(id)
           /\ \E n, m \in Nodes : SprayExchanging(n, m) /\ SprayDataRight(Top.id, n, m)
  <1>1. /\ IInv /\ OneControl /\ StockOK /\ Receiving(r) /\ Frame /\ SprayConversation
        /\ DataOK
    BY DEF Hearing, SInv, SprayConversation, IInv
  <1>2. /\ r \in Nodes /\ Top.id \in DOMAIN pool /\ Top = evlist[1] /\ 1 \in 1..Len(evlist)
        /\ Top.ev = "TX" /\ r \in Top.rcv
    BY <1>1, TopFacts DEF Receiving, TopIs
  <1>3. Awaiting(evlist, Top.id, r)
    BY <1>2 DEF Awaiting
  <1>4. \A id \in DOMAIN pool : IsData(id)
    BY <1>1, AllData
  <1>5. PICK n \in Nodes, m \in Nodes : SprayExchanging(n, m)
    BY <1>1, <1>2 DEF SprayConversation
  <1>6. SprayDataRight(Top.id, n, m)
    BY <1>2, <1>4, <1>5 DEF SprayExchanging
  <1> QED
    BY <1>1, <1>2, <1>3, <1>4, <1>5, <1>6

\* Node r reads the data packet on top, which is no longer on its way to r.
LEMMA SprayDataRead ==
    ASSUME NEW r, Hearing(r), pool[Top.id].type = "DATA", Access(Top.id, RestAfter(r)), Kept,
           UNCHANGED utilVars, NEW n \in Nodes, NEW m \in Nodes, SprayExchanging(n, m),
           \A p \in buffer'[m] : p \in buffer[m] \/ (r = m /\ p \in pool[Top.id].ids)
    PROVE  /\ SprayConversation'
           /\ \A p, x : OnTheWay(p, x)' = {id \in OnTheWay(p, x) : ~(id = Top.id /\ x = r)}
           /\ \A p, x : \A id \in OnTheWay(p, x)' : pool'[id].rep = pool[id].rep
  <1>1. /\ r \in Nodes /\ Top.id \in DOMAIN pool
        /\ IInv /\ OneControl /\ Receiving(r) /\ Frame
        /\ \A id \in DOMAIN pool : IsData(id)
    BY SprayDataTop
  <1>2. /\ OneControl'
        /\ \A id \in DOMAIN pool' :
              /\ id \in DOMAIN pool /\ IsData(id) /\ IsData(id)'
              /\ pool'[id].prev = pool[id].prev /\ pool'[id].next = pool[id].next
              /\ pool'[id].ids = pool[id].ids /\ pool'[id].rep = pool[id].rep
        /\ \A id, x : Awaiting(evlist', id, x)
              <=> Awaiting(evlist, id, x) /\ ~(id = Top.id /\ x = r)
        /\ \A id, x : Awaiting(evlist', id, x) => id \in DOMAIN pool'
    BY <1>1, AccessView
  <1>3. ASSUME NEW id \in DOMAIN pool' PROVE SprayDataRight(id, n, m)'
    <2>1. id \in DOMAIN pool /\ SprayDataRight(id, n, m)
      BY <1>2 DEF SprayExchanging
    <2>2. /\ pool'[id].prev = n /\ pool'[id].next = m
          /\ \E p \in Known' : pool'[id].ids = {p}
      BY <1>1, <1>2, <2>1, FrameFacts DEF SprayDataRight
    <2>3. ASSUME NEW p \in pool'[id].ids, origin'[p].dst # m
          PROVE  /\ Awaiting(evlist', id, m) => p \notin buffer'[m]
                 /\ \A x \in DOMAIN pool' : x # id /\ IsData(x)' => p \notin pool'[x].ids
      <3>1. /\ Awaiting(evlist, id, m) => p \notin buffer[m]
            /\ \A x \in DOMAIN pool : x # id /\ IsData(x) => p \notin pool[x].ids
        BY <1>1, <1>2, <2>1, <2>3, FrameFacts DEF SprayDataRight
      <3> QED
        BY <1>1, <1>2, <3>1
    <2> QED
      BY <2>2, <2>3 DEF SprayDataRight
  <1>4. SprayExchanging(n, m)'
    <2>1. n # m /\ (RT' = "EBR" => enc'[n].CWC)
      BY <1>1, FrameMore DEF SprayExchanging, utilVars
    <2> QED
      BY <1>2, <1>3, <2>1 DEF SprayExchanging
  <1>5. (IInv => \A s, y :
           OnTheWay(s, y) = {i \in DOMAIN pool :
                                /\ IsData(i) /\ pool[i].ids = {s} /\ pool[i].next = y
                                /\ origin[s].dst # y /\ Awaiting(evlist, i, y)})'
    BY OnTheWayFacts, PTL
  <1>6. IInv'
    BY <1>1, ReceivedInv
  <1>7. ASSUME NEW p, NEW x
        PROVE  /\ OnTheWay(p, x)' = {id \in OnTheWay(p, x) : ~(id = Top.id /\ x = r)}
               /\ \A id \in OnTheWay(p, x)' : pool'[id].rep = pool[id].rep
    <2>1. OnTheWay(p, x) = {id \in DOMAIN pool :
                               /\ IsData(id) /\ pool[id].ids = {p} /\ pool[id].next = x
                               /\ origin[p].dst # x /\ Awaiting(evlist, id, x)}
      BY <1>1, OnTheWayFacts
    <2>2. OnTheWay(p, x)' = {id \in DOMAIN pool' :
                                /\ IsData(id)' /\ pool'[id].ids = {p} /\ pool'[id].next = x
                                /\ origin'[p].dst # x /\ Awaiting(evlist', id, x)}
      BY <1>5, <1>6
    <2>3. ASSUME NEW id
          PROVE  id \in OnTheWay(p, x)' <=> id \in OnTheWay(p, x) /\ ~(id = Top.id /\ x = r)
      BY <1>1, <1>2, <2>1, <2>2, FrameFacts
    <2> QED
      BY <1>2, <2>2, <2>3
  <1> QED
    BY <1>2, <1>4, <1>7 DEF SprayConversation

\* A step that changes neither what nodes store nor what is on its way.
LEMMA SameHeld ==
    ASSUME StockOK, Frame, buffer' = buffer, KeepReps,
           \A p, x : OnTheWay(p, x)' = OnTheWay(p, x),
           \A p, x : \A id \in OnTheWay(p, x)' : pool'[id].rep = pool[id].rep
    PROVE  StockOK' /\ \A p : Less(p)
  <1>1. ASSUME NEW p, NEW x \in Nodes PROVE Held(p, x)' = Held(p, x)
    <2>1. Sent(p, x)' = Sent(p, x)
      BY SentSame
    <2>2. Stored(p, x)' = Stored(p, x)
      BY SameStock
    <2> QED
      BY <2>1, <2>2 DEF Held
  <1>2. StockOK'
    BY SameStock
  <1> QED
    BY <1>1, <1>2 DEF Less

LEMMA SprayOverhearHeard ==
    ASSUME NEW r, Hearing(r), pool[Top.id].type = "DATA",
           Overhear(r, Top.id, pool[Top.id], RestAfter(r)), KeepReps, UNCHANGED utilVars
    PROVE  Done
  <1>1. /\ pool[Top.id].next # r /\ Access(Top.id, RestAfter(r)) /\ buffer' = buffer
    BY DEF Overhear
  <1>2. PICK n \in Nodes, m \in Nodes : SprayExchanging(n, m)
    BY SprayDataTop
  <1>3. /\ r \in Nodes /\ IInv /\ StockOK /\ Receiving(r) /\ Frame
    BY SprayDataTop
  <1>4. Kept
    BY <1>3, OverhearKept
  <1>5. /\ SprayConversation'
        /\ \A p, x : OnTheWay(p, x)' = {id \in OnTheWay(p, x) : ~(id = Top.id /\ x = r)}
        /\ \A p, x : \A id \in OnTheWay(p, x)' : pool'[id].rep = pool[id].rep
    BY <1>1, <1>2, <1>4, SprayDataRead
  <1>6. \A p, x : OnTheWay(p, x)' = OnTheWay(p, x)
    <2>1. ASSUME NEW p, NEW x, Top.id \in OnTheWay(p, x) PROVE x # r
      BY <1>1, <2>1 DEF OnTheWay
    <2> QED
      BY <1>5, <2>1
  <1> QED
    BY <1>1, <1>3, <1>4, <1>5, <1>6, SameHeld DEF Done

LEMMA SprayDeliverHeard ==
    ASSUME NEW r, Hearing(r), pool[Top.id].type = "DATA", NEW q \in pool[Top.id].ids,
           Deliver(r, Top.id, pool[Top.id], RestAfter(r), q), KeepReps, UNCHANGED utilVars
    PROVE  Done
  <1>1. CASE NoDuplicatesSupport /\ isDelivered(r, q)
    BY <1>1, ExitHeard DEF Deliver
  <1>2. CASE ~(NoDuplicatesSupport /\ isDelivered(r, q))
    <2>1. /\ origin[q].dst = r /\ Access(Top.id, RestAfter(r)) /\ buffer' = buffer
      BY <1>2 DEF Deliver
    <2>2. PICK n \in Nodes, m \in Nodes : SprayExchanging(n, m) /\ SprayDataRight(Top.id, n, m)
      BY SprayDataTop
    <2>3. /\ r \in Nodes /\ IInv /\ StockOK /\ Receiving(r) /\ Frame
      BY SprayDataTop
    <2>4. Kept
      BY <2>3, DeliverKept
    <2>5. /\ SprayConversation'
          /\ \A p, x : OnTheWay(p, x)' = {id \in OnTheWay(p, x) : ~(id = Top.id /\ x = r)}
          /\ \A p, x : \A id \in OnTheWay(p, x)' : pool'[id].rep = pool[id].rep
      BY <2>1, <2>2, <2>4, SprayDataRead
    <2>6. \A p, x : OnTheWay(p, x)' = OnTheWay(p, x)
      <3>1. ASSUME NEW p, NEW x, Top.id \in OnTheWay(p, x) PROVE x # r
        BY <2>1, <3>1 DEF OnTheWay
      <3> QED
        BY <2>5, <3>1
    <2> QED
      BY <2>1, <2>3, <2>4, <2>5, <2>6, SameHeld DEF Done
  <1> QED
    BY <1>1, <1>2


\* What addPkt makes of a buffer that does not store packet q.
LEMMA AddedFacts ==
    ASSUME NEW old, NEW q, NEW b \in Added(old, q)
    PROVE  b \subseteq old \cup {q} /\ q \in b /\ (Spared => b = old \cup {q})
  <1>1. Alive(old) \subseteq old /\ (Spared => Alive(old) = old)
    BY AliveFacts
  <1>2. Spared => ~isFull(Alive(old))
    BY DEF Spared, isFull
  <1> QED
    BY <1>1, <1>2 DEF Added

\* Node m stores packet q with the replicas r that it has received.
LEMMA StockAdded ==
    ASSUME StockOK, DataOK, NEW m \in Nodes, NEW q, Known \cup {q} \subseteq Known',
           NEW r \in Nat, q \notin buffer[m], NEW b \in Added(buffer[m], q),
           buffer' = [buffer EXCEPT ![m] = b], SetReplicas(m, q, r)
    PROVE  /\ StockOK'
           /\ \A x \in Nodes : buffer'[x] \subseteq buffer[x]
                                  \/ (x = m /\ buffer'[x] \subseteq buffer[x] \cup {q})
           /\ Stored(q, m)' = r
           /\ \A p : \A x \in Nodes : p # q \/ x # m =>
                 \/ Stored(p, x)' = Stored(p, x)
                 \/ p \in buffer[x] /\ Stored(p, x)' = 0 /\ ~Spared
  <1>1. b \subseteq buffer[m] \cup {q} /\ q \in b /\ (Spared => b = buffer[m] \cup {q})
    BY AddedFacts
  <1>2. \A x \in Nodes : buffer'[x] = IF x = m THEN b ELSE buffer[x]
    BY DEF DataOK
  <1>3. /\ DOMAIN reps' = Nodes
        /\ \A x \in Nodes :
              reps'[x] = [p \in buffer'[x] |-> IF x = m /\ p = q THEN r ELSE reps[x][p]]
    BY DEF SetReplicas
  <1>4. ASSUME NEW x \in Nodes
        PROVE  /\ buffer'[x] \subseteq Known' /\ reps'[x] \in [buffer'[x] -> Nat]
               /\ \A p \in buffer'[x] : p # q \/ x # m =>
                     p \in buffer[x] /\ reps'[x][p] = reps[x][p]
               /\ \A p \in buffer[x] : p \in buffer'[x] \/ ~Spared
    <2>1. buffer[x] \subseteq Known /\ \A p \in buffer[x] : reps[x][p] \in Nat
      BY DEF StockOK
    <2>2. CASE x = m
      BY <1>1, <1>2, <1>3, <2>1, <2>2
    <2>3. CASE x # m
      BY <1>2, <1>3, <2>1, <2>3
    <2> QED
      BY <2>2, <2>3
  <1>5. StockOK'
    BY <1>3, <1>4 DEF StockOK
  <1>6. Stored(q, m)' = r
    BY <1>1, <1>2, <1>3 DEF Stored
  <1>7. ASSUME NEW p, NEW x \in Nodes, p # q \/ x # m
        PROVE  \/ Stored(p, x)' = Stored(p, x)
               \/ p \in buffer[x] /\ Stored(p, x)' = 0 /\ ~Spared
    <2>1. CASE p \in buffer'[x]
      BY <1>4, <1>7, <2>1 DEF Stored
    <2>2. CASE p \notin buffer'[x]
      BY <1>4, <2>2 DEF Stored
    <2> QED
      BY <2>1, <2>2
  <1> QED
    BY <1>1, <1>2, <1>5, <1>6, <1>7

LEMMA RelayHeard ==
    ASSUME NEW r, Hearing(r), pool[Top.id].type = "DATA", NEW q \in pool[Top.id].ids,
           Relay(r, Top.id, pool[Top.id], RestAfter(r), q), UNCHANGED utilVars
    PROVE  Done
  <1> DEFINE top == pool[Top.id]
  <1>1. /\ top.next = r /\ origin[q].dst # r /\ Access(Top.id, RestAfter(r))
        /\ UNCHANGED <<dmVars, statVars, halted>>
    BY DEF Relay
  <1>2. PICK n \in Nodes, m \in Nodes : SprayExchanging(n, m) /\ SprayDataRight(Top.id, n, m)
    BY SprayDataTop
  <1>3. /\ r \in Nodes /\ Top.id \in DOMAIN pool /\ Awaiting(evlist, Top.id, r) /\ IsData(Top.id)
        /\ IInv /\ StockOK /\ DataOK /\ Receiving(r) /\ Frame
        /\ SprayConversation
    BY SprayDataTop DEF Hearing, SInv
  <1>4. /\ r = m /\ top.ids = {q} /\ q \in Known /\ q \notin buffer[m]
    BY <1>1, <1>2, <1>3 DEF SprayDataRight
  <1>5. top.rep \in Nat /\ q \in PktIDs
    <2>1. top \in Message
      BY <1>3, TypeFacts DEF IInv, StackOK, IsPacket, IsData
    <2> QED
      BY <2>1 DEF Message
  <1>6. PICK b \in Added(buffer[m], q) : buffer' = [buffer EXCEPT ![m] = b]
    BY <1>4 DEF Relay
  <1>7. SetReplicas(m, q, top.rep)
    <2>1. q \notin Alive(buffer[m])
      BY <1>4 DEF Alive
    <2> QED
      BY <1>4, <2>1 DEF Relay
  <1> HIDE DEF top
  <1>8. /\ StockOK'
        /\ \A x \in Nodes : buffer'[x] \subseteq buffer[x]
                               \/ (x = m /\ buffer'[x] \subseteq buffer[x] \cup {q})
        /\ Stored(q, m)' = top.rep
        /\ \A p : \A x \in Nodes : p # q \/ x # m =>
              \/ Stored(p, x)' = Stored(p, x)
              \/ p \in buffer[x] /\ Stored(p, x)' = 0 /\ ~Spared
    <2>1. Known \cup {q} \subseteq Known'
      BY <1>3, <1>4, FrameFacts
    <2> QED
      BY <1>3, <1>4, <1>5, <1>6, <1>7, <2>1, StockAdded
  <1>9. Kept
    <2>1. b \in SUBSET PktIDs
      <3>1. buffer[m] \in SUBSET PktIDs
        BY <1>3 DEF DataOK
      <3> QED
        BY <1>5, <3>1, BufferParts
    <2>2. DataOK'
      BY <1>1, <1>3, <1>6, <2>1, BufferData
    <2> QED
      BY <1>1, <1>3, <2>2, AccessStack DEF Kept
  <1>10. /\ SprayConversation'
         /\ \A p, x : OnTheWay(p, x)' = {id \in OnTheWay(p, x) : ~(id = Top.id /\ x = r)}
         /\ \A p, x : \A id \in OnTheWay(p, x)' : pool'[id].rep = pool[id].rep
    <2>1. \A p \in buffer'[m] : p \in buffer[m] \/ (r = m /\ p \in pool[Top.id].ids)
      BY <1>4, <1>8 DEF top
    <2> QED
      BY <1>1, <1>2, <1>9, <2>1, SprayDataRead
  <1>11. ASSUME NEW p, NEW x \in Nodes, p # q \/ x # m
         PROVE  Held(p, x)' = Held(p, x) \/ (Held(p, x)' = 0 /\ ~Spared)
    <2>1. Top.id \in OnTheWay(p, x) => p = q
      BY <1>4 DEF OnTheWay, top
    <2>2. OnTheWay(p, x)' = OnTheWay(p, x)
      BY <1>4, <1>10, <1>11, <2>1
    <2>3. Sent(p, x)' = Sent(p, x)
      BY <1>10, <2>2, SentSame
    <2>4. CASE Stored(p, x)' = Stored(p, x)
      BY <2>3, <2>4 DEF Held
    <2>5. CASE p \in buffer[x] /\ Stored(p, x)' = 0 /\ ~Spared
      <3>1. Sent(p, x) = 0
        BY <1>3, <2>5, HeldNat
      <3> QED
        BY <2>3, <2>5, <3>1 DEF Held
    <2> QED
      BY <1>8, <1>11, <2>4, <2>5
  <1>12. Held(q, m)' = Held(q, m)
    <2>1. Top.id \in OnTheWay(q, m)
      <3>1. OnTheWay(q, m) = {id \in DOMAIN pool :
                                 /\ IsData(id) /\ pool[id].ids = {q} /\ pool[id].next = m
                                 /\ origin[q].dst # m /\ Awaiting(evlist, id, m)}
        BY <1>3, OnTheWayFacts
      <3> QED
        BY <1>1, <1>3, <1>4, <3>1 DEF top
    <2>2. OnTheWay(q, m) = {Top.id}
      <3>1. PICK id \in DOMAIN pool : OnTheWay(q, m) = {id}
        BY <1>2, <1>3, <2>1, ExchangeCarry
      <3> QED
        BY <2>1, <3>1
    <2>3. Sent(q, m) = top.rep /\ Stored(q, m) = 0
      <3>1. Sent(q, m) = pool[Top.id].rep
        BY <1>5, <2>2, SentOne DEF top
      <3> QED
        BY <1>4, <3>1 DEF Stored, top
    <2>4. OnTheWay(q, m)' = {}
      BY <1>4, <1>10, <2>2
    <2>5. Sent(q, m)' = 0
      <3>1. (\A s, y : OnTheWay(s, y) = {} => Sent(s, y) = 0)'
        BY SentNone, PTL
      <3> QED
        BY <2>4, <3>1
    <2> QED
      BY <1>5, <1>8, <2>3, <2>5 DEF Held
  <1>13. \A p : Less(p)
    BY <1>11, <1>12 DEF Less
  <1> QED
    BY <1>8, <1>9, <1>10, <1>13 DEF Done

-----------------------------------------------------------------------------
(* A request: the replicas of each packet are divided.                     *)

\* Packets ids are stored by n, and share says what leaves n of each.
Divided(n, ids, share) ==
    /\ ids \subseteq buffer[n] /\ DOMAIN share = ids
    /\ \A p \in ids : share[p] \in 0..reps[n][p]

\* Of no packet more is shared than there is.
LEMMA SharesDivide ==
    ASSUME StockOK, NEW n \in Nodes, NEW pkt, NEW ids, ids \subseteq buffer[n],
           \/ pkt.type = "REQUEST" /\ ids = pkt.ids
           \/ /\ pkt.type = "EBR_REQ" /\ ids = pkt.body.ids
              /\ EncPositive(n) = TRUE /\ pkt.body.enc \in BOOLEAN,
           NEW share \in Shares(n, pkt)
    PROVE  Divided(n, ids, share)
  <1>1. \A p \in ids : reps[n][p] \in Nat
    BY DEF StockOK
  <1>2. CASE pkt.type = "REQUEST"
    <2>1. share = [p \in ids |-> Share(n, p)]
      BY <1>2 DEF Shares
    <2>2. ASSUME NEW p \in ids PROVE Share(n, p) \in 0..reps[n][p]
      <3>1. \A k \in Nat : k \div 2 \in 0..k
        OBVIOUS
      <3>2. PICK k \in Nat : k = reps[n][p]
        BY <1>1
      <3> QED
        BY <3>1, <3>2 DEF Share, Waits
    <2> QED
      BY <2>1, <2>2 DEF Divided
  <1>3. CASE pkt.type # "REQUEST"
    <2>1. /\ DOMAIN share = ids
          /\ \A p \in ids : share[p] \in EncShares(reps[n][p], TRUE, pkt.body.enc)
      BY <1>3 DEF Shares
    <2>2. \A k \in Nat : \A other \in BOOLEAN : EncShares(k, TRUE, other) \subseteq 0..k
      BY DEF EncShares
    <2> QED
      BY <1>1, <1>3, <2>1, <2>2 DEF Divided
  <1> QED
    BY <1>2, <1>3

\* The data packets may be sent.
LEMMA SendableSpray ==
    ASSUME NEW n \in Nodes, NEW m \in Nodes, conn' \in [Nodes -> SUBSET Nodes],
           NEW S \in SUBSET PktIDs, NEW order \in Orders(S), NEW share,
           \A p \in S : share[p] \in Nat, m \in conn'[n]
    PROVE  /\ Sendable(Sprayed(n, m, order, share), n, conn')
           /\ Len(Sprayed(n, m, order, share)) = Len(order)
           /\ \A i \in 1..Len(order) :
                 LET pkt == Sprayed(n, m, order, share)[i]
                 IN  DataOf(pkt, n, m, order[i]) /\ pkt.rep = share[order[i]]
  <1>1. /\ order \in Seq(S) /\ Len(order) \in Nat /\ Cardinality(conn'[n]) \in Nat
        /\ conn'[n] # {}
    BY OrderFacts, PktFacts
  <1>2. PICK d : d = [p \in S |-> Data(n, m, p, share[p])]
    OBVIOUS
  <1>3. ASSUME NEW p \in S
        PROVE  /\ d[p] \in Message /\ IsPacket(d[p]) /\ d[p].prev = n
               /\ DataOf(d[p], n, m, p) /\ d[p].rep = share[p]
               /\ d[p].access = Cardinality(conn'[n])
    <2>1. d[p] = Data(n, m, p, share[p])
      BY <1>2
    <2>2. d[p] \in Message
      BY <1>1, <2>1 DEF Data, Message, Types
    <2> QED
      BY <2>1, <2>2 DEF Data, IsPacket, DataOf
  <1>4. Sprayed(n, m, order, share) = [i \in 1..Len(order) |-> d[order[i]]]
    <2>1. \A i \in 1..Len(order) : d[order[i]] = Data(n, m, order[i], share[order[i]])
      BY <1>1, <1>2
    <2> QED
      BY <1>1, <2>1 DEF Sprayed
  <1>5. PICK msgs : msgs = Sprayed(n, m, order, share)
    OBVIOUS
  <1>6. PICK L \in Nat : L = Len(order)
    BY <1>1
  <1>7. /\ msgs \in Seq(Message) /\ Len(msgs) = L
        /\ \A i \in 1..L : msgs[i] = d[order[i]] /\ order[i] \in S
    <2>1. \A i \in 1..L : order[i] \in S /\ d[order[i]] \in Message
      BY <1>1, <1>3, <1>6
    <2> QED
      BY <1>4, <1>5, <1>6, <2>1, SMTT(30)
  <1>8. Sendable(msgs, n, conn')
    BY <1>1, <1>3, <1>7 DEF Sendable, DataOf
  <1> QED
    BY <1>3, <1>5, <1>6, <1>7, <1>8

\* What is in transmission when n has sent m its share of packets S.
SpraySent(n, m, S, share, erased, rest) ==
    /\ OneControl'
    /\ \A id \in DOMAIN pool \ erased :
          /\ id \in DOMAIN pool' /\ pool'[id] = pool[id] /\ IsData(id)
          /\ \A x : Awaiting(evlist', id, x) <=> Awaiting(rest, id, x)
    /\ \A id \in DOMAIN pool' : id \notin DOMAIN pool \ erased =>
          \E p \in S : DataOf(pool'[id], n, m, p) /\ pool'[id].rep = share[p]
    /\ \A p \in S : \E id \in DOMAIN pool' :
          /\ id \notin DOMAIN pool \ erased
          /\ DataOf(pool'[id], n, m, p) /\ Awaiting(evlist', id, m)
    /\ \A x, y \in DOMAIN pool' :
          x # y /\ x \notin DOMAIN pool \ erased /\ y \notin DOMAIN pool \ erased
          => pool'[x].ids \cap pool'[y].ids = {}

LEMMA SprayView ==
    ASSUME NEW n \in Nodes, NEW m \in Nodes, conn' \in [Nodes -> SUBSET Nodes],
           NEW S \in SUBSET PktIDs, NEW order \in Orders(S), NEW share,
           \A p \in S : share[p] \in Nat, m \in conn'[n],
           NEW erased, NEW rest,
           StackOK(rest, [i \in DOMAIN pool \ erased |-> pool[i]], conn', variousIDs),
           OnlyData(rest, pool),
           Send(Sprayed(n, m, order, share), erased, rest)
    PROVE  SpraySent(n, m, S, share, erased, rest)
  <1>1. PICK msgs : msgs = Sprayed(n, m, order, share)
    OBVIOUS
  <1>2. /\ order \in Seq(S)
        /\ \A i, j \in 1..Len(order) : order[i] = order[j] => i = j
        /\ \A p \in S : \E i \in 1..Len(order) : order[i] = p
    BY OrderFacts
  <1>3. /\ Sendable(msgs, n, conn') /\ Len(msgs) = Len(order)
        /\ \A i \in 1..Len(order) :
              DataOf(msgs[i], n, m, order[i]) /\ msgs[i].rep = share[order[i]]
    BY <1>1, SendableSpray
  <1>4. \A k \in 1..Len(msgs) : k < Len(msgs) => msgs[k].type = "DATA"
    BY <1>3 DEF DataOf
  <1>5. /\ OneControl'
        /\ \A id \in DOMAIN pool \ erased :
              /\ id \in DOMAIN pool' /\ pool'[id] = pool[id] /\ IsData(id)
              /\ \A x : Awaiting(evlist', id, x) <=> Awaiting(rest, id, x)
        /\ \A id \in DOMAIN pool' : id \notin DOMAIN pool \ erased =>
              \E k \in 1..Len(msgs) : id = variousIDs + k /\ pool'[id] = msgs[k]
        /\ \A k \in 1..Len(msgs) :
              /\ variousIDs + k \in DOMAIN pool'
              /\ variousIDs + k \notin DOMAIN pool \ erased
              /\ pool'[variousIDs + k] = msgs[k]
              /\ msgs[k].type = "DATA" =>
                    \A x \in conn'[n] : Awaiting(evlist', variousIDs + k, x)
    <2>1. Send(msgs, erased, rest)
      BY <1>1
    <2> QED
      BY <1>3, <1>4, <2>1, SendView, ZenonT(40)
  <1>6. \A i \in 1..Len(order) : order[i] \in S
    BY <1>2
  <1>7. ASSUME NEW id \in DOMAIN pool', id \notin DOMAIN pool \ erased
        PROVE  \E k \in 1..Len(order) :
                  /\ id = variousIDs + k /\ DataOf(pool'[id], n, m, order[k])
                  /\ pool'[id].rep = share[order[k]]
    BY <1>3, <1>5, <1>7
  <1>8. ASSUME NEW p \in S
        PROVE  \E id \in DOMAIN pool' :
                  /\ id \notin DOMAIN pool \ erased
                  /\ DataOf(pool'[id], n, m, p) /\ Awaiting(evlist', id, m)
    <2>1. PICK k \in 1..Len(order) : order[k] = p
      BY <1>2
    <2>2. /\ variousIDs + k \in DOMAIN pool' /\ variousIDs + k \notin DOMAIN pool \ erased
          /\ DataOf(pool'[variousIDs + k], n, m, p)
          /\ Awaiting(evlist', variousIDs + k, m)
      BY <1>3, <1>5, <2>1 DEF DataOf
    <2> QED
      BY <2>2
  <1>9. ASSUME NEW x \in DOMAIN pool', NEW y \in DOMAIN pool', x # y,
               x \notin DOMAIN pool \ erased, y \notin DOMAIN pool \ erased
        PROVE  pool'[x].ids \cap pool'[y].ids = {}
    <2>1. PICK i \in 1..Len(order) : x = variousIDs + i /\ DataOf(pool'[x], n, m, order[i])
      BY <1>7, <1>9
    <2>2. PICK j \in 1..Len(order) : y = variousIDs + j /\ DataOf(pool'[y], n, m, order[j])
      BY <1>7, <1>9
    <2>3. order[i] # order[j]
      BY <1>2, <1>9, <2>1, <2>2
    <2> QED
      BY <2>1, <2>2, <2>3 DEF DataOf
  <1>10. \A id \in DOMAIN pool' : id \notin DOMAIN pool \ erased =>
            \E p \in S : DataOf(pool'[id], n, m, p) /\ pool'[id].rep = share[p]
    BY <1>6, <1>7
  <1> QED
    BY <1>5, <1>8, <1>9, <1>10 DEF SpraySent

\* Without its replicas that is what any answer to a request is.
LEMMA ShareSent ==
    ASSUME NEW n, NEW m, NEW S, NEW share, NEW erased, NEW rest,
           SpraySent(n, m, S, share, erased, rest)
    PROVE  DataSent(n, m, S, <<>>, erased, rest)
  <1>1. \A id \in DOMAIN pool' : id \notin DOMAIN pool \ erased =>
           \E p \in S : DataOf(pool'[id], n, m, p)
    BY DEF SpraySent
  <1> QED
    BY <1>1 DEF SpraySent, DataSent

\* What is on its way after a share of packets S, all of them to be stored by
\* m, was sent: that share.
LEMMA SprayTalk ==
    ASSUME IInv', Frame, NEW n \in Nodes, NEW m \in Nodes, n # m,
           RT = "EBR" => enc'[n].CWC,
           NEW S \in SUBSET PktIDs, Carried(S, m), buffer'[m] = buffer[m],
           NEW share, \A p \in S : share[p] \in Nat,
           NEW erased, NEW rest, SentDirectly(DOMAIN pool \ erased, n, m),
           SpraySent(n, m, S, share, erased, rest)
    PROVE  /\ SprayConversation'
           /\ \A p, x : Sent(p, x)' = IF p \in S /\ x = m THEN share[p] ELSE 0
  <1> DEFINE old == DOMAIN pool \ erased
  <1>1. /\ OneControl'
        /\ \A id \in old : id \in DOMAIN pool' /\ pool'[id] = pool[id] /\ IsData(id)
        /\ \A id \in DOMAIN pool' : id \notin old =>
              \E p \in S : DataOf(pool'[id], n, m, p) /\ pool'[id].rep = share[p]
        /\ \A p \in S : \E id \in DOMAIN pool' :
              id \notin old /\ DataOf(pool'[id], n, m, p) /\ Awaiting(evlist', id, m)
        /\ \A x, y \in DOMAIN pool' :
              x # y /\ x \notin old /\ y \notin old => pool'[x].ids \cap pool'[y].ids = {}
    BY DEF SpraySent
  <1>2. ASSUME NEW id \in old
        PROVE  /\ id \in DOMAIN pool /\ SprayDataRight(id, n, m) /\ pool'[id] = pool[id]
               /\ \A p \in pool'[id].ids : origin[p].dst = m
    BY <1>1 DEF SentDirectly
  <1> HIDE DEF old
  <1>3. ASSUME NEW id \in DOMAIN pool' PROVE SprayDataRight(id, n, m)'
    <2>1. CASE id \in old
      <3>1. /\ id \in DOMAIN pool /\ SprayDataRight(id, n, m) /\ pool'[id] = pool[id]
            /\ \A p \in pool[id].ids : origin[p].dst = m
        BY <1>2, <2>1
      <3> QED
        BY <3>1, DirectKept
    <2>2. CASE id \notin old
      <3>1. PICK p \in S : DataOf(pool'[id], n, m, p)
        BY <1>1, <2>2
      <3>2. pool'[id].ids = {p} /\ pool'[id].prev = n /\ pool'[id].next = m
        BY <3>1 DEF DataOf
      <3>3. p \in Known /\ origin[p].dst # m /\ p \notin buffer[m]
        BY DEF Carried
      <3>4. ASSUME NEW x \in DOMAIN pool', x # id PROVE p \notin pool'[x].ids
        <4>1. CASE x \in old
          BY <1>2, <3>3, <4>1
        <4>2. CASE x \notin old
          BY <1>1, <2>2, <3>2, <3>4, <4>2
        <4> QED
          BY <4>1, <4>2
      <3> QED
        BY <3>2, <3>3, <3>4, FrameFacts DEF SprayDataRight
    <2> QED
      BY <2>1, <2>2
  <1>4. \A id \in DOMAIN pool' : IsData(id)'
    BY <1>1 DEF IsData, DataOf
  <1>5. SprayExchanging(n, m)'
    <2>1. n # m /\ (RT' = "EBR" => enc'[n].CWC)
      BY FrameMore
    <2> QED
      BY <1>3, <1>4, <2>1 DEF SprayExchanging
  <1>6. SprayConversation'
    BY <1>1, <1>5 DEF SprayConversation
  <1>7. ASSUME NEW p, NEW x
        PROVE  Sent(p, x)' = IF p \in S /\ x = m THEN share[p] ELSE 0
    <2>1. (IInv => \A a, b \in Nodes : SprayExchanging(a, b) => \A s, y :
             \/ OnTheWay(s, y) = {}
             \/ /\ y = b /\ origin[s].dst # b /\ s \notin buffer[b]
                /\ \E i \in DOMAIN pool :
                      /\ OnTheWay(s, y) = {i} /\ pool[i].rep \in Nat
                      /\ IsData(i) /\ pool[i].ids = {s} /\ Awaiting(evlist, i, b))'
      BY ExchangeCarry, PTL
    <2>2. CASE OnTheWay(p, x)' = {}
      <3>1. (\A s, y : OnTheWay(s, y) = {} => Sent(s, y) = 0)'
        BY SentNone, PTL
      <3>2. Sent(p, x)' = 0
        BY <2>2, <3>1
      <3>3. ~(p \in S /\ x = m)
        <4> SUFFICES ASSUME p \in S, x = m PROVE FALSE
          OBVIOUS
        <4>1. PICK id \in DOMAIN pool' :
                  DataOf(pool'[id], n, m, p) /\ Awaiting(evlist', id, m)
          BY <1>1
        <4>2. origin'[p].dst # m
          BY FrameFacts DEF Carried
        <4>3. (IInv => \A s, y :
                 OnTheWay(s, y) = {i \in DOMAIN pool :
                                      /\ IsData(i) /\ pool[i].ids = {s} /\ pool[i].next = y
                                      /\ origin[s].dst # y /\ Awaiting(evlist, i, y)})'
          BY OnTheWayFacts, PTL
        <4>4. OnTheWay(p, m)' = {i \in DOMAIN pool' :
                                    /\ IsData(i)' /\ pool'[i].ids = {p} /\ pool'[i].next = m
                                    /\ origin'[p].dst # m /\ Awaiting(evlist', i, m)}
          BY <4>3
        <4>5. id \in OnTheWay(p, m)'
          BY <4>1, <4>2, <4>4 DEF IsData, DataOf
        <4> QED
          BY <2>2, <4>5
      <3> QED
        BY <3>2, <3>3
    <2>3. CASE OnTheWay(p, x)' # {}
      <3>1. /\ x = m /\ origin'[p].dst # m
            /\ \E id \in DOMAIN pool' :
                  OnTheWay(p, x)' = {id} /\ pool'[id].rep \in Nat /\ pool'[id].ids = {p}
        BY <1>5, <2>1, <2>3
      <3>2. PICK id \in DOMAIN pool' :
               OnTheWay(p, x)' = {id} /\ pool'[id].rep \in Nat /\ pool'[id].ids = {p}
        BY <3>1
      <3>3. id \notin old
        BY <1>2, <3>1, <3>2, FrameFacts
      <3>4. PICK q \in S : DataOf(pool'[id], n, m, q) /\ pool'[id].rep = share[q]
        BY <1>1, <3>3
      <3>5. q = p
        BY <3>2, <3>4 DEF DataOf
      <3>6. (\A s, y : \A i : OnTheWay(s, y) = {i} /\ pool[i].rep \in Nat
                                  => Sent(s, y) = pool[i].rep)'
        BY SentOne, PTL
      <3>7. Sent(p, x)' = pool'[id].rep
        BY <3>2, <3>6
      <3> QED
        BY <3>1, <3>4, <3>5, <3>7
    <2> QED
      BY <2>2, <2>3
  <1> QED
    BY <1>6, <1>7

\* Node n gives its share of packets ids away.
LEMMA SprayStock ==
    ASSUME StockOK, DataOK, Frame, NEW n \in Nodes, NEW ids, NEW share, Divided(n, ids, share),
           NEW live, live \subseteq buffer[n], Spared => live = buffer[n], ids \subseteq live,
           NEW left, left \subseteq {p \in ids : share[p] # 0 /\ reps[n][p] = 1},
           buffer' = [buffer EXCEPT ![n] = live \ left], AfterSpray(n, share)
    PROVE  /\ StockOK'
           /\ \A p : \A x \in Nodes : x # n => Stored(p, x)' = Stored(p, x)
           /\ \A p \in ids : /\ Stored(p, n) = reps[n][p] /\ reps[n][p] \in Nat
                             /\ Stored(p, n)' = reps[n][p] - share[p]
           /\ \A p : p \notin ids => \/ Stored(p, n)' = Stored(p, n)
                                     \/ Stored(p, n)' = 0 /\ ~Spared
  <1>1. \A x \in Nodes : buffer'[x] = IF x = n THEN live \ left ELSE buffer[x]
    BY DEF DataOK
  <1>2. /\ DOMAIN reps = Nodes
        /\ \A x \in Nodes : buffer[x] \subseteq Known /\ reps[x] \in [buffer[x] -> Nat]
    BY DEF StockOK
  <1>3. PICK f : f = [p \in buffer'[n] |-> IF p \in DOMAIN share
                                           THEN Difference(reps[n][p], share[p])
                                           ELSE reps[n][p]]
    OBVIOUS
  <1>4. /\ DOMAIN reps' = Nodes /\ reps'[n] = f
        /\ \A x \in Nodes : x # n => reps'[x] = reps[x]
    BY <1>2, <1>3 DEF AfterSpray
  <1>5. DOMAIN share = ids /\ \A p \in ids : share[p] \in 0..reps[n][p] /\ reps[n][p] \in Nat
    BY <1>2 DEF Divided
  <1>6. ASSUME NEW p \in live \ left
        PROVE  /\ f[p] = IF p \in ids THEN reps[n][p] - share[p] ELSE reps[n][p]
               /\ f[p] \in Nat
    <2>1. p \in buffer[n] /\ p \in buffer'[n] /\ reps[n][p] \in Nat
      BY <1>1, <1>2
    <2>2. CASE p \in ids
      <3>1. share[p] \in 0..reps[n][p] /\ p \in DOMAIN share
        BY <1>5, <2>2
      <3>2. f[p] = Difference(reps[n][p], share[p])
        BY <1>3, <2>1, <3>1
      <3>3. share[p] # NaNAsInt
        BY <2>1, <3>1 DEF NaNAsInt
      <3> QED
        BY <2>1, <2>2, <3>1, <3>2, <3>3 DEF Difference
    <2>3. CASE p \notin ids
      BY <1>3, <1>5, <2>1, <2>3
    <2> QED
      BY <2>2, <2>3
  <1>7. f \in [live \ left -> Nat]
    BY <1>1, <1>3, <1>6
  <1>8. StockOK'
    <2>1. ASSUME NEW x \in Nodes
          PROVE  buffer'[x] \subseteq Known /\ reps'[x] \in [buffer'[x] -> Nat]
      <3>1. CASE x = n
        BY <1>1, <1>2, <1>4, <1>7, <3>1
      <3>2. CASE x # n
        BY <1>1, <1>2, <1>4, <3>2
      <3> QED
        BY <3>1, <3>2
    <2> QED
      BY <1>4, <2>1, FrameFacts DEF StockOK
  <1>9. \A p : \A x \in Nodes : x # n => Stored(p, x)' = Stored(p, x)
    BY <1>1, <1>4 DEF Stored
  <1>10. ASSUME NEW p \in ids
         PROVE  /\ Stored(p, n) = reps[n][p] /\ reps[n][p] \in Nat
                /\ Stored(p, n)' = reps[n][p] - share[p]
    <2>1. p \in buffer[n] /\ reps[n][p] \in Nat /\ share[p] \in 0..reps[n][p]
      BY <1>5
    <2>2. CASE p \in left
      <3>1. share[p] = 1 /\ reps[n][p] = 1
        BY <2>1, <2>2
      <3>2. Stored(p, n)' = 0
        BY <1>1, <2>2 DEF Stored
      <3> QED
        BY <2>1, <3>1, <3>2 DEF Stored
    <2>3. CASE p \notin left
      <3>1. p \in buffer'[n] /\ reps'[n][p] = reps[n][p] - share[p]
        BY <1>1, <1>4, <1>6, <2>3
      <3> QED
        BY <2>1, <3>1 DEF Stored
    <2> QED
      BY <2>2, <2>3
  <1>11. ASSUME NEW p, p \notin ids
         PROVE  Stored(p, n)' = Stored(p, n) \/ (Stored(p, n)' = 0 /\ ~Spared)
    <2>1. p \notin left
      BY <1>11
    <2>2. CASE p \in live
      <3>1. p \in buffer'[n] /\ p \in buffer[n] /\ reps'[n][p] = reps[n][p]
        BY <1>1, <1>4, <1>6, <1>11, <2>1, <2>2
      <3> QED
        BY <3>1 DEF Stored
    <2>3. CASE p \notin live
      BY <1>1, <2>3 DEF Stored
    <2> QED
      BY <2>2, <2>3
  <1> QED
    BY <1>8, <1>9, <1>10, <1>11

\* The numbers are those of the abstract specification.
LEMMA SprayNumbers ==
    ASSUME NEW p, NEW n \in Nodes, NEW m \in Nodes, n # m, NEW a \in Nat, NEW part \in 0..a,
           \A x \in Nodes : Sent(p, x) = 0,
           \A x \in Nodes : Sent(p, x)' = IF x = m THEN part ELSE 0,
           \A x \in Nodes : Stored(p, x) \in Nat,
           \A x \in Nodes : x # n => Stored(p, x)' = Stored(p, x),
           Stored(p, n) = a, Stored(p, n)' = a - part
    PROVE  Less(p) \/ Passed(p)
  <1>1. \A x \in Nodes : Held(p, x) = Stored(p, x)
    BY DEF Held
  <1>2. /\ Held(p, n)' = Held(p, n) - part
        /\ Held(p, m)' = Held(p, m) + part
        /\ \A x \in Nodes \ {n, m} : Held(p, x)' = Held(p, x)
    BY <1>1 DEF Held
  <1>3. CASE part = 0
    <2>1. \A x \in Nodes : Held(p, x)' = Held(p, x)
      BY <1>1, <1>2, <1>3
    <2> QED
      BY <2>1 DEF Less
  <1>4. CASE part # 0
    <2>1. part \in 1..Held(p, n)
      BY <1>1, <1>4
    <2> QED
      BY <1>2, <2>1 DEF Passed
  <1> QED
    BY <1>3, <1>4

LEMMA RequestHeard ==
    ASSUME NEW r, Hearing(r), ReceptionRequest(r, Top.id, pool[Top.id], RestAfter(r))
    PROVE  Done
  <1> DEFINE top == pool[Top.id]
  <1>1. PICK ids : ids = IF top.type = "REQUEST" THEN top.ids ELSE top.body.ids
    OBVIOUS
  <1>2. PICK live : live = IF ids = {} THEN buffer[r] ELSE Alive(buffer[r])
    OBVIOUS
  <1>3. top.type \in {"REQUEST", "EBR_REQ"} /\ pool[Top.id].type # "DATA"
    BY DEF ReceptionRequest
  <1>4. CASE ~(ids \subseteq live)
    <2>1. Exit /\ UNCHANGED <<reps, utilVars>>
      BY <1>1, <1>2, <1>4 DEF ReceptionRequest
    <2> QED
      BY <2>1, ExitHeard
  <1> SUFFICES ASSUME ids \subseteq live PROVE Done
    BY <1>4
  <1>5. /\ r \in Nodes /\ r = top.next /\ top.prev \in Nodes /\ top.prev \in conn'[r]
        /\ Top.id \in DOMAIN pool
        /\ IInv /\ OneControl /\ StockOK /\ DataOK /\ buffer[r] \in SUBSET PktIDs
        /\ conn' \in [Nodes -> SUBSET Nodes] /\ Frame /\ Receiving(r) /\ UtilOK /\ SprayConversation
    BY <1>3, ControlTop DEF Hearing, SInv
  <1>6. PICK n \in Nodes, m \in Nodes :
           SprayExchanging(n, m) /\ SprayControlRight(top, n, m) /\ SprayDirectOnly(m) /\ n # m
    BY <1>3, ControlTop
  <1>7. /\ top.prev = m /\ top.next = n /\ Carried(ids, m)
        /\ top.type = "EBR_REQ" => RT = "EBR" /\ top.body.enc \in BOOLEAN
    <2>1. CASE top.type = "REQUEST"
      BY <1>1, <1>6, <2>1 DEF SprayControlRight, Ask
    <2>2. CASE top.type = "EBR_REQ"
      <3>1. /\ RT = "EBR" /\ Carried(top.body.ids, m) /\ top.body.enc \in BOOLEAN
            /\ top = Reply("EBR_REQ", m, n, [ids |-> top.body.ids, enc |-> top.body.enc])
        BY <1>6, <2>2 DEF SprayControlRight
      <3> QED
        BY <1>1, <2>2, <3>1 DEF Reply
    <2> QED
      BY <1>3, <2>1, <2>2
  <1>8. r = n /\ ids \subseteq buffer[n] /\ live \subseteq buffer[n] /\ (Spared => live = buffer[n])
    BY <1>2, <1>5, <1>7, AliveFacts
  <1>9. PICK share \in Shares(n, top) :
           LET out == Outgoing(n, ids, share)
               left == {p \in out : RT = "LSFSPRAYFOCUS" /\ Waits(n, p)}
           IN  /\ \E order \in Orders(out) :
                     Send(Sprayed(n, m, order, share), {Top.id}, RestAfter(n))
               /\ buffer' = [buffer EXCEPT ![n] = live \ left]
               /\ AfterSpray(n, share)
    <2>1. \E share \in Shares(r, top) :
             LET out == Outgoing(r, ids, share)
                 left == {p \in out : RT = "LSFSPRAYFOCUS" /\ Waits(r, p)}
             IN  /\ \E order \in Orders(out) :
                       Send(Sprayed(r, top.prev, order, share), {Top.id}, RestAfter(r))
                 /\ buffer' = [buffer EXCEPT ![r] = live \ left]
                 /\ AfterSpray(r, share)
      BY <1>1, <1>2, Zenon DEF ReceptionRequest
    <2> QED
      BY <1>7, <1>8, <2>1, ZenonT(60)
  <1>10. UNCHANGED <<dmVars, statVars, halted, enc>>
    BY <1>1, <1>2 DEF ReceptionRequest
  <1>11. Divided(n, ids, share)
    <2>1. top.type = "EBR_REQ" => EncPositive(n) = TRUE
      BY <1>5, <1>6, <1>7 DEF SprayExchanging, UtilOK, EncPositive
    <2> QED
      BY <1>1, <1>3, <1>5, <1>7, <1>8, <2>1, SharesDivide
  <1>12. PICK out : out = Outgoing(n, ids, share)
    OBVIOUS
  <1>13. PICK left : left = {p \in out : RT = "LSFSPRAYFOCUS" /\ Waits(n, p)}
    OBVIOUS
  <1>14. PICK order \in Orders(out) :
            Send(Sprayed(n, m, order, share), {Top.id}, RestAfter(n))
    BY <1>9, <1>12
  <1>15. buffer' = [buffer EXCEPT ![n] = live \ left] /\ AfterSpray(n, share)
    BY <1>9, <1>12, <1>13
  <1>16. /\ left \subseteq {p \in ids : share[p] # 0 /\ reps[n][p] = 1}
         /\ out \in SUBSET PktIDs /\ Carried(out, m)
         /\ \A p \in out : share[p] \in Nat
         /\ \A p \in ids \ out : share[p] = 0
         /\ out \subseteq ids
         /\ \A p \in ids : share[p] \in 0..reps[n][p]
    <2>1. \A p \in ids : reps[n][p] \in Nat
      BY <1>5, <1>8 DEF StockOK
    <2>2. \A p \in ids : share[p] \in 0..reps[n][p] /\ share[p] \in Nat
      BY <1>11, <2>1 DEF Divided
    <2> QED
      BY <1>5, <1>7, <1>8, <1>12, <1>13, <2>2 DEF Carried, Outgoing, Waits
  <1>17. /\ StockOK'
         /\ \A p : \A x \in Nodes : x # n => Stored(p, x)' = Stored(p, x)
         /\ \A p \in ids : /\ Stored(p, n) = reps[n][p] /\ reps[n][p] \in Nat
                           /\ Stored(p, n)' = reps[n][p] - share[p]
         /\ \A p : p \notin ids => \/ Stored(p, n)' = Stored(p, n)
                                   \/ Stored(p, n)' = 0 /\ ~Spared
    BY <1>5, <1>8, <1>11, <1>15, <1>16, SprayStock
  <1>18. /\ StackOK(RestAfter(r), [i \in DOMAIN pool \ {Top.id} |-> pool[i]],
                    conn', variousIDs)
         /\ OnlyData(RestAfter(r), pool) /\ NoApp(RestAfter(r))
    BY <1>3, <1>5, ControlStep, ControlFacts
  <1>19. Kept
    <2>1. Sendable(Sprayed(n, m, order, share), n, conn')
      BY <1>5, <1>7, <1>8, <1>16, SendableSpray
    <2>2. StackOK(evlist', pool', conn', variousIDs') /\ NoApp(evlist')
      BY <1>5, <1>8, <1>14, <1>18, <2>1, SendStack
    <2>3. DataOK'
      <3>1. live \ left \in SUBSET PktIDs
        BY <1>5, <1>8
      <3> QED
        BY <1>5, <1>10, <1>15, <3>1, BufferData
    <2> QED
      BY <2>2, <2>3 DEF Kept
  <1>20. SpraySent(n, m, out, share, {Top.id}, RestAfter(n))
    BY <1>5, <1>7, <1>8, <1>14, <1>16, <1>18, SprayView
  <1>21. SentDirectly(DOMAIN pool \ {Top.id}, n, m)
    BY <1>6, <1>18, ControlData DEF SprayExchanging, SprayDirectOnly, SentDirectly
  <1> HIDE DEF top
  <1>22. SprayConversation' /\ \A p, x : Sent(p, x)' = IF p \in out /\ x = m THEN share[p] ELSE 0
    <2>1. IInv'
      BY <1>5, <1>19, ReceivedInv
    <2>2. RT = "EBR" => enc'[n].CWC
      BY <1>6, <1>10 DEF SprayExchanging
    <2>3. buffer'[m] = buffer[m]
      BY <1>5, <1>6, <1>15 DEF DataOK
    <2>4. PICK erased, rest : erased = {Top.id} /\ rest = RestAfter(n)
      OBVIOUS
    <2>5. SpraySent(n, m, out, share, erased, rest) /\ SentDirectly(DOMAIN pool \ erased, n, m)
      BY <1>20, <1>21, <2>4
    <2> QED
      BY <1>5, <1>6, <1>16, <2>1, <2>2, <2>3, <2>5, SprayTalk
  <1>23. \A p, x : Sent(p, x) = 0
    BY <1>5, <1>6, NoCarry, SentNone
  <1>24. ASSUME NEW p PROVE Less(p) \/ Passed(p)
    <2>1. CASE p \in ids
      <3>1. \A x \in Nodes : Sent(p, x)' = IF x = m THEN share[p] ELSE 0
        BY <1>16, <1>22, <2>1
      <3>2. \A x \in Nodes : Stored(p, x) \in Nat
        BY <1>5, HeldNat
      <3>3. PICK part : part = share[p]
        OBVIOUS
      <3>4. PICK a \in Nat : a = reps[n][p]
        BY <1>17, <2>1
      <3>5. /\ part \in 0..a /\ Stored(p, n) = a /\ Stored(p, n)' = a - part
        BY <1>16, <1>17, <2>1, <3>3, <3>4
      <3>6. \A x \in Nodes : Sent(p, x)' = IF x = m THEN part ELSE 0
        BY <3>1, <3>3
      <3>7. \A x \in Nodes : x # n => Stored(p, x)' = Stored(p, x)
        BY <1>17
      <3>8. \A x \in Nodes : Sent(p, x) = 0
        BY <1>23
      <3> QED
        BY <1>6, <3>2, <3>4, <3>5, <3>6, <3>7, <3>8, SprayNumbers
    <2>2. CASE p \notin ids
      <3>1. ASSUME NEW x \in Nodes
            PROVE  Held(p, x)' = Held(p, x) \/ (Held(p, x)' = 0 /\ ~Spared)
        <4>1. Sent(p, x)' = 0 /\ Sent(p, x) = 0
          BY <1>16, <1>22, <1>23, <2>2
        <4>2. Stored(p, x)' = Stored(p, x) \/ (Stored(p, x)' = 0 /\ ~Spared)
          BY <1>17, <2>2
        <4> QED
          BY <4>1, <4>2 DEF Held
      <3> QED
        BY <3>1 DEF Less
    <2> QED
      BY <2>1, <2>2
  <1> QED
    BY <1>17, <1>19, <1>22, <1>24 DEF Done

-----------------------------------------------------------------------------
(* Contacts, the application and time.                                     *)

\* With an empty pool there is nothing on its way.
LEMMA Silence ==
    IInv /\ DOMAIN pool = {} => SprayConversation /\ \A p, x : OnTheWay(p, x) = {}
  <1> SUFFICES ASSUME IInv, DOMAIN pool = {}
               PROVE  SprayConversation /\ \A p, x : OnTheWay(p, x) = {}
    OBVIOUS
  <1>1. \A i \in 1..Len(evlist) : evlist[i].ev # "TX"
    BY DEF IInv, StackOK, InTransit
  <1>2. Len(evlist) \in Nat
    BY DEF IInv, StackOK
  <1>3. OneControl
    <2>1. \A i \in 2..Len(evlist) : i \in 1..Len(evlist)
      BY <1>2
    <2> QED
      BY <1>1, <2>1 DEF OneControl
  <1> QED
    BY <1>3 DEF SprayConversation, OnTheWay

\* Where the pool is empty and remains so, nodes lose packets at most.
LEMMA SilentStep ==
    ASSUME SInv, IInv', Frame, DOMAIN pool = {}, DOMAIN pool' = {}, Shrinks, KeepReps
    PROVE  SprayConversation' /\ StockOK' /\ \A p : Less(p)
  <1>1. \A p, x : OnTheWay(p, x) = {}
    BY Silence DEF SInv
  <1>2. (IInv /\ DOMAIN pool = {} => SprayConversation /\ \A p, x : OnTheWay(p, x) = {})'
    BY Silence, PTL
  <1>3. SprayConversation' /\ \A p, x : OnTheWay(p, x)' = {}
    BY <1>2
  <1> QED
    BY <1>1, <1>3, IdleStep DEF SInv

\* A control packet is all that is in transmission.
LEMMA GreetAlone ==
    ASSUME IInv', Frame, conn' \in [Nodes -> SUBSET Nodes], DOMAIN pool = {},
           NEW n \in Nodes, NEW m \in Nodes, n # m, RT = "EBR" => enc'[n].CWC,
           NEW pkt, pkt.type # "DATA", Sendable(<<pkt>>, n, conn'), SprayControlRight(pkt, n, m)',
           NEW rest, StackOK(rest, [i \in DOMAIN pool \ {} |-> pool[i]], conn', variousIDs),
           OnlyData(rest, pool), Send(<<pkt>>, {}, rest)
    PROVE  SprayConversation' /\ \A p, x : OnTheWay(p, x)' = {}
  <1>0. PICK erased : erased = {}
    OBVIOUS
  <1>1. OneControl' /\ \A id \in DOMAIN pool' : pool'[id] = pkt
    <2>1. /\ StackOK(rest, [i \in DOMAIN pool \ erased |-> pool[i]], conn', variousIDs)
          /\ Send(<<pkt>>, erased, rest)
      BY <1>0
    <2>2. /\ OneControl'
          /\ \A id \in DOMAIN pool' : id \notin DOMAIN pool \ erased => pool'[id] = pkt
      BY <2>1, ControlView
    <2> QED
      BY <2>2
  <1>2. ASSUME NEW id \in DOMAIN pool'
        PROVE  ~IsData(id)' /\ SprayControlRight(pool[id], n, m)'
    <2>1. pool'[id] = pkt
      BY <1>1
    <2> QED
      BY <2>1, SprayControlPooled DEF IsData
  <1>3. SprayDirectOnly(m)'
    BY <1>2 DEF SprayDirectOnly
  <1>4. SprayExchanging(n, m)'
    <2>1. n # m /\ (RT' = "EBR" => enc'[n].CWC)
      BY FrameMore
    <2> QED
      BY <1>2, <1>3, <2>1, Zenon DEF SprayExchanging
  <1>5. \A p, x : OnTheWay(p, x)' = {}
    <2>1. (IInv => \A a, b \in Nodes : SprayExchanging(a, b) /\ SprayDirectOnly(b)
                       => \A p, x : OnTheWay(p, x) = {})'
      BY NoCarry, PTL
    <2> QED
      BY <1>3, <1>4, <2>1
  <1> QED
    BY <1>1, <1>4, <1>5 DEF SprayConversation

\* The trace ends before the window of the encounter values is over.
LEMMA Counted ==
    ASSUME WithinWindow, IInv, SetOK, UtilOK, NEW n \in Nodes, Frame,
           enc' = IF RT = "EBR" THEN [enc EXCEPT ![n] = Encountered(@)] ELSE enc,
           UNCHANGED betterDests
    PROVE  UtilOK' /\ (RT = "EBR" => enc'[n].CWC)
  <1>1. CASE RT = "EBR"
    <2>1. ~(now > EncWindow)
      <3>1. MaxTime <= EncWindow
        BY <1>1 DEF WithinWindow, SetOK, RT
      <3>2. now \in 0..MaxTime /\ MaxTime \in Nat /\ EncWindow \in Nat
        BY RoutingAssumption, SprayAssumption DEF IInv, NetOK
      <3> QED
        BY <3>1, <3>2
    <2>2. enc' = [enc EXCEPT ![n] = [enc[n] EXCEPT !.CWC = TRUE]]
      BY <1>1, <2>1 DEF Encountered
    <2>3. /\ enc \in [Nodes -> [stage : BOOLEAN, CWC : BOOLEAN, EV : BOOLEAN]]
          /\ \A x \in Nodes : enc[x].stage = FALSE
      BY DEF UtilOK
    <2>4. PICK e : e = [enc[n] EXCEPT !.CWC = TRUE]
      OBVIOUS
    <2>5. /\ e \in [stage : BOOLEAN, CWC : BOOLEAN, EV : BOOLEAN]
          /\ e.stage = FALSE /\ e.CWC = TRUE
      <3>1. enc[n] \in [stage : BOOLEAN, CWC : BOOLEAN, EV : BOOLEAN] /\ enc[n].stage = FALSE
        BY <2>3
      <3> QED
        BY <2>4, <3>1
    <2>6. enc' = [enc EXCEPT ![n] = e]
      BY <2>2, <2>4
    <2>7. \A x \in Nodes : enc'[x] = IF x = n THEN e ELSE enc[x]
      BY <2>3, <2>6
    <2>8. enc' \in [Nodes -> [stage : BOOLEAN, CWC : BOOLEAN, EV : BOOLEAN]]
      BY <2>3, <2>5, <2>6
    <2> QED
      BY <2>3, <2>5, <2>7, <2>8 DEF UtilOK
  <1>2. CASE RT # "EBR"
    BY <1>2 DEF UtilOK
  <1> QED
    BY <1>1, <1>2

\* A node greets its new contact.
LEMMA ContactHeard ==
    ASSUME SInv, WithinWindow, SWContactUp, Set' = Set
    PROVE  SInv' /\ Known' = Known /\ \A p : Less(p)
  <1>0. PICK a, b, rest : a = Top.a /\ b = Top.b /\ rest = Tail(evlist)
    OBVIOUS
  <1>1. /\ TopIs("UP") /\ Connect(a, b) /\ Contact(a, b, rest) /\ ContactUp
        /\ Frame /\ KeepReps /\ UNCHANGED betterDests
        /\ enc' = IF RT = "EBR" THEN [enc EXCEPT ![a] = Encountered(@)] ELSE enc
    BY <1>0 DEF SWContactUp, ContactUp, Frame
  <1>2. /\ IInv /\ SetOK /\ StockOK /\ UtilOK /\ FlowOK /\ DataOK
    BY DEF SInv, IInv
  <1>3. /\ a \in Nodes /\ b \in Nodes /\ a # b /\ NoApp(rest)
        /\ evlist # <<>> /\ Head(evlist).ev # "TX" /\ b \in conn'[a]
        /\ conn' \in [Nodes -> SUBSET Nodes]
    <2>1. /\ a \in Nodes /\ b \in Nodes /\ a # b /\ NoApp(rest)
          /\ evlist # <<>> /\ Head(evlist).ev # "TX"
      BY <1>0, <1>1, <1>2, ContactFacts
    <2> QED
      BY <1>1, <1>2, <2>1, LinkFacts DEF IInv
  <1>4. /\ DOMAIN pool = {} /\ StackOK(rest, pool, conn', variousIDs)
        /\ StackOK(rest, [i \in DOMAIN pool \ {} |-> pool[i]], conn', variousIDs)
    BY <1>0, <1>2, <1>3, NoTransmission DEF IInv
  <1>5. OnlyData(rest, pool)
    BY <1>4 DEF StackOK, InTransit, OnlyData
  <1>6. Kept /\ IInv'
    BY <1>1, <1>2, GreetingKept, ContactUpKept
  <1>7. UtilOK' /\ (RT = "EBR" => enc'[a].CWC)
    BY <1>1, <1>2, <1>3, Counted
  <1>8. FlowOK' /\ SetOK' /\ Known' = Known
    BY <1>1, <1>2, <1>6, FrameFacts DEF FlowOK, Kept, NoApp, SetOK
  <1>9. buffer[a] \in SUBSET PktIDs /\ delivered[a] \in SUBSET PktIDs /\ buffer[a] \subseteq Known
    BY <1>2, <1>3 DEF DataOK, StockOK
  <1>10. /\ SprayConversation' /\ (\A p, x : OnTheWay(p, x)' = {})
         /\ Shrinks
    <2>1. CASE SendVaccine(a, b, rest)
      <3>1. PICK pkt : pkt = Control("ANTIPACKET", a, b, delivered[a])
        OBVIOUS
      <3>2. pkt.type = "ANTIPACKET" /\ pkt.prev = a /\ pkt.next = b
        BY <3>1 DEF Control
      <3>3. Sendable(<<pkt>>, a, conn')
        BY <1>3, <1>9, <3>1, SendableControl, TypeFacts
      <3>4. Send(<<pkt>>, {}, rest) /\ buffer' = buffer
        BY <2>1, <3>1 DEF SendVaccine
      <3>5. SprayControlRight(pkt, a, b)'
        BY <3>2 DEF SprayControlRight, Ask
      <3>6. Shrinks
        BY <3>4 DEF Shrinks
      <3> QED
        BY <1>1, <1>3, <1>4, <1>5, <1>6, <1>7, <3>2, <3>3, <3>4, <3>5, <3>6, GreetAlone
    <2>2. CASE SendDirectSummary(a, b, rest)
      <3>1. PICK pkt : pkt = Control("DIRECT_SUMMARY", a, b, DestinedTo(buffer[a], b))
        OBVIOUS
      <3>2. /\ pkt.type = "DIRECT_SUMMARY" /\ pkt.prev = a /\ pkt.next = b
            /\ pkt.ids = DestinedTo(buffer[a], b)
        BY <3>1 DEF Control
      <3>3. Sendable(<<pkt>>, a, conn')
        <4>1. DestinedTo(buffer[a], b) \in SUBSET PktIDs
          BY <1>9, BufferParts
        <4> QED
          BY <1>3, <3>1, <4>1, SendableControl, TypeFacts
      <3>4. Send(<<pkt>>, {}, rest) /\ buffer' = [buffer EXCEPT ![a] = Alive(buffer[a])]
        BY <2>2, <3>1 DEF SendDirectSummary
      <3>5. SprayControlRight(pkt, a, b)'
        <4>1. \A p \in pkt.ids : p \in Known' /\ origin'[p].dst = b
          BY <1>1, <1>9, <3>2, FrameFacts DEF DestinedTo, Alive
        <4> QED
          BY <3>2, <4>1 DEF SprayControlRight, Ask
      <3>6. Shrinks
        BY <1>2, <1>3, <3>4, AliveFacts, OneShrinks
      <3> QED
        BY <1>1, <1>3, <1>4, <1>5, <1>6, <1>7, <3>2, <3>3, <3>4, <3>5, <3>6, GreetAlone
    <2>3. CASE SendDirectPackets(a, b, Cleaned(buffer[a], delivered[a]), delivered[a], {},
                                 rest)
      <3>1. PICK c : c = Cleaned(buffer[a], delivered[a])
        OBVIOUS
      <3>2. PICK out : out = {p \in DestinedTo(c, b) : ~(KeepsDelivered /\ p \in delivered[a])}
        OBVIOUS
      <3>3. PICK left : left = IF LeavesBuffer THEN Alive(c) \ out ELSE Alive(c)
        OBVIOUS
      <3>4. PICK order \in Orders(out) :
               Send(DataFor(a, b, order, 1) \o Proceed(a, b, left), {}, rest)
        BY <2>3, <3>1, <3>2, <3>3 DEF SendDirectPackets
      <3>5. buffer' = [buffer EXCEPT ![a] = left]
        BY <2>3, <3>1, <3>2, <3>3 DEF SendDirectPackets
      <3>6. c \subseteq buffer[a] /\ (Spared => c = buffer[a])
        BY <3>1 DEF Cleaned, Spared
      <3>7. Alive(c) \subseteq c /\ (Spared => Alive(c) = c)
        BY AliveFacts
      <3>8. /\ out \subseteq c /\ DestinedFor(out, b)
            /\ left \subseteq c /\ (Spared => left = c)
        <4>1. out \subseteq Alive(c) /\ \A p \in out : origin[p].dst = b
          BY <3>2 DEF DestinedTo
        <4>2. Spared => ~LeavesBuffer
          BY <1>2, SpraySettingsFacts DEF Spared, OffloaderDeletePkt
        <4> QED
          BY <1>9, <3>3, <3>6, <3>7, <4>1, <4>2 DEF DestinedFor
      <3>9. Shrinks
        BY <1>2, <1>3, <3>5, <3>6, <3>8, OneShrinks
      <3>10. out \in SUBSET PktIDs /\ left \in SUBSET PktIDs /\ left \subseteq Known
        BY <1>9, <3>6, <3>8
      <3>11. PICK erased : erased = {}
        OBVIOUS
      <3>12. /\ StackOK(rest, [i \in DOMAIN pool \ erased |-> pool[i]], conn', variousIDs)
             /\ Send(DataFor(a, b, order, 1) \o Proceed(a, b, left), erased, rest)
             /\ SentDirectly(DOMAIN pool \ erased, a, b)
        BY <1>4, <3>4, <3>11 DEF SentDirectly
      <3>13. SprayConversation' /\ \A p, x : OnTheWay(p, x)' = {}
        BY <1>1, <1>2, <1>3, <1>5, <1>6, <1>7, <3>8, <3>10, <3>12, DirectSent
      <3> QED
        BY <3>9, <3>13
    <2> QED
      BY <1>1, <2>1, <2>2, <2>3 DEF Contact
  <1>11. \A p, x : OnTheWay(p, x) = {}
    BY <1>2, <1>4, Silence
  <1>12. StockOK' /\ \A p : Less(p)
    BY <1>1, <1>2, <1>10, <1>11, IdleStep
  <1> QED
    BY <1>6, <1>7, <1>8, <1>10, <1>12 DEF SInv

\* Time passes, or events are put on the stack.
LEMMA StillStep ==
    ASSUME SInv, IInv', DOMAIN pool = {}, pool' = pool, buffer' = buffer, reps' = reps,
           UNCHANGED <<Set, origin>>
    PROVE  SprayConversation' /\ StockOK' /\ Known' = Known /\ \A p : Less(p)
  <1>1. \A p, x : OnTheWay(p, x) = {}
    BY Silence DEF SInv
  <1>2. (IInv /\ DOMAIN pool = {} => SprayConversation /\ \A p, x : OnTheWay(p, x) = {})'
    BY Silence, PTL
  <1>3. SprayConversation' /\ \A p, x : OnTheWay(p, x)' = {}
    BY <1>2
  <1>4. (\A s, y : OnTheWay(s, y) = {} => Sent(s, y) = 0)'
    BY SentNone, PTL
  <1>5. StockOK' /\ Known' = Known
    BY DEF SInv, StockOK, Known
  <1>6. ASSUME NEW p, NEW x \in Nodes PROVE Held(p, x)' = Held(p, x)
    <2>1. Sent(p, x) = 0 /\ Sent(p, x)' = 0
      BY <1>1, <1>3, <1>4, SentNone
    <2>2. Stored(p, x)' = Stored(p, x)
      BY DEF Stored
    <2> QED
      BY <2>1, <2>2 DEF Held
  <1> QED
    BY <1>3, <1>5, <1>6 DEF Less

LEMMA SprayContactDownHeard ==
    ASSUME SInv, ContactDown, KeepReps, UNCHANGED utilVars, Set' = Set
    PROVE  SInv' /\ Known' = Known /\ \A p : Less(p)
  <1>1. /\ TopIs("DOWN") /\ evlist' = Tail(evlist)
        /\ UNCHANGED <<now, origin, pool, buffer>>
    BY DEF ContactDown
  <1>2. IInv /\ IInv' /\ SetOK /\ FlowOK /\ UtilOK /\ Frame
    BY <1>1, ContactDownKept DEF SInv, Frame
  <1>3. DOMAIN pool = {} /\ NoApp(Tail(evlist))
    <2>1. evlist # <<>> /\ Head(evlist).ev # "TX" /\ NoApp(Tail(evlist))
      BY <1>1, <1>2, ContactFacts
    <2> QED
      BY <1>2, <2>1, NoTransmission DEF IInv
  <1>4. SprayConversation' /\ StockOK' /\ \A p : Less(p)
    BY <1>1, <1>2, <1>3, SilentStep DEF Shrinks
  <1>5. FlowOK' /\ UtilOK' /\ SetOK' /\ Known' = Known
    BY <1>1, <1>2, <1>3, FrameFacts DEF FlowOK, UtilOK, utilVars, NoApp, SetOK
  <1> QED
    BY <1>2, <1>4, <1>5 DEF SInv

LEMMA SprayEnvironmentHeard ==
    ASSUME SInv, Environment, UNCHANGED <<reps, utilVars>>, Set' = Set
    PROVE  SInv' /\ Known' = Known /\ \A p : Less(p)
  <1>1. /\ evlist = <<>>
        /\ UNCHANGED <<origin, pool, buffer>>
        /\ \A i \in 1..Len(evlist') : evlist'[i].ev = "APP" => evlist'[i].b \in Destinations
    <2>1. CASE Tick
      BY <2>1 DEF Tick, Quiet, msgVars
    <2>2. ASSUME NEW events, Schedule(events)
          PROVE  /\ evlist = <<>> /\ evlist' = events
                 /\ UNCHANGED <<origin, pool, buffer>>
      BY <2>2 DEF Schedule, Quiet, netVars
    <2>3. ASSUME NEW c \in Encounters,
                 \/ BeginContact(c[1], c[2]) \/ EndContact(c[1], c[2])
                 \/ TouchContact(c[1], c[2])
          PROVE  /\ evlist = <<>>
                 /\ UNCHANGED <<origin, pool, buffer>>
                 /\ \A i \in 1..Len(evlist') : evlist'[i].ev # "APP"
      <3>1. \A a, b : /\ ContactEvent("UP", a, b).ev # "APP"
                      /\ ContactEvent("DOWN", a, b).ev # "APP"
        BY DEF ContactEvent
      <3>2. PICK up1, up2, down1, down2 :
               /\ up1 = ContactEvent("UP", c[1], c[2]) /\ up2 = ContactEvent("UP", c[2], c[1])
               /\ down1 = ContactEvent("DOWN", c[1], c[2])
               /\ down2 = ContactEvent("DOWN", c[2], c[1])
        OBVIOUS
      <3>3. \A e \in {up1, up2, down1, down2} : e.ev # "APP"
        BY <3>1, <3>2
      <3>4. CASE BeginContact(c[1], c[2])
        <4>1. Schedule(<<up2, up1>>)
          BY <3>2, <3>4 DEF BeginContact
        <4> QED
          BY <2>2, <3>3, <4>1
      <3>5. CASE EndContact(c[1], c[2])
        <4>1. Schedule(<<down2, down1>>)
          BY <3>2, <3>5 DEF EndContact
        <4> QED
          BY <2>2, <3>3, <4>1
      <3>6. CASE TouchContact(c[1], c[2])
        <4>1. Schedule(<<up2, down2, up1, down1>>)
          BY <3>2, <3>6 DEF TouchContact
        <4> QED
          BY <2>2, <3>3, <4>1
      <3> QED
        BY <2>3, <3>4, <3>5, <3>6
    <2>4. ASSUME NEW f \in Flows, Generate(f[1], f[2])
          PROVE  /\ evlist = <<>>
                 /\ UNCHANGED <<origin, pool, buffer>>
                 /\ \A i \in 1..Len(evlist') : evlist'[i].b \in Destinations
      <3>1. PICK e : e = ContactEvent("APP", f[1], f[2])
        OBVIOUS
      <3>2. e.b \in Destinations
        BY <3>1 DEF ContactEvent, Destinations
      <3>3. Schedule(<<e>>)
        BY <2>4, <3>1 DEF Generate
      <3> QED
        BY <2>2, <3>2, <3>3
    <2>5. CASE Environment /\ ~Tick
      BY <2>3, <2>4, <2>5 DEF Environment
    <2>6. FlowOK
      BY DEF SInv
    <2>7. CASE Tick
      BY <2>1, <2>6, <2>7 DEF Tick, Quiet, msgVars, FlowOK
    <2> QED
      BY <2>5, <2>7
  <1>2. IInv /\ IInv' /\ SetOK /\ FlowOK /\ UtilOK
    BY EnvironmentKept DEF SInv
  <1>3. DOMAIN pool = {}
    <2>1. 1..Len(evlist) = {}
      BY <1>1
    <2> QED
      BY <1>2, <2>1 DEF IInv, StackOK
  <1>4. SprayConversation' /\ StockOK' /\ Known' = Known /\ \A p : Less(p)
    BY <1>1, <1>2, <1>3, StillStep
  <1>5. FlowOK' /\ UtilOK' /\ SetOK'
    BY <1>1, <1>2, <1>4 DEF FlowOK, UtilOK, utilVars, SetOK
  <1> QED
    BY <1>2, <1>4, <1>5 DEF SInv

\* Packet q is created at node n; another packet may be lost there.
Made(q, n) ==
    /\ q \notin Known /\ Known' = Known \cup {q}
    /\ \A x \in Nodes : Held(q, x) = 0 /\ Held(q, x)' = IF x = n THEN Replicas ELSE 0
    /\ \A p : p # q => Less(p)

LEMMA OriginateHeard ==
    ASSUME SInv, Originate, UNCHANGED utilVars, Set' = Set
    PROVE  SInv' /\ \E q : \E n \in Nodes : Made(q, n)
  <1>0. PICK a, q : a = Top.a /\ q = Len(origin) + 1
    OBVIOUS
  <1>1. /\ TopIs("APP") /\ RecvFromApp /\ evlist' = Tail(evlist)
        /\ origin' = Append(origin, [src |-> Top.a, dst |-> Top.b, time |-> now])
        /\ SetReplicas(a, q, Replicas) /\ UNCHANGED pool
    BY <1>0 DEF Originate, RecvFromApp
  <1>2. PICK b \in Added(buffer[a], q) : buffer' = [buffer EXCEPT ![a] = b]
    BY <1>0, <1>1 DEF RecvFromApp
  <1>3. /\ IInv /\ IInv' /\ SetOK /\ StockOK /\ UtilOK /\ FlowOK /\ DataOK /\ SprayConversation
    BY <1>1, RecvFromAppKept DEF SInv, IInv
  <1>4. a \in Nodes /\ Tail(evlist) = <<>> /\ evlist # <<>> /\ Head(evlist).ev # "TX"
    BY <1>0, <1>1, <1>3, ContactFacts
  <1>5. DOMAIN pool = {}
    BY <1>3, <1>4, NoTransmission DEF IInv
  <1>6. /\ Len(origin) \in Nat /\ q \notin Known /\ Known' = Known \cup {q}
        /\ \A p \in Known : origin'[p] = origin[p]
        /\ origin'[q].dst = Top.b
    <2>1. origin \in Seq([src : Nodes, dst : Nodes, time : 0..MaxTime])
      BY <1>3 DEF IInv, NetOK
    <2>2. PICK e : e = [src |-> Top.a, dst |-> Top.b, time |-> now]
      OBVIOUS
    <2>3. origin' = Append(origin, e) /\ e.dst = Top.b
      BY <1>1, <2>2
    <2>4. /\ Len(origin) \in Nat /\ Len(origin') = q /\ origin'[q] = e
          /\ \A p \in 1..Len(origin) : origin'[p] = origin[p]
      BY <1>0, <2>1, <2>3
    <2>5. PICK L \in Nat : L = Len(origin)
      BY <2>4
    <2>6. q = L + 1 /\ q \notin 1..L /\ 1..q = 1..L \cup {q}
      BY <1>0, <2>5
    <2> QED
      BY <2>3, <2>4, <2>5, <2>6 DEF Known
  <1>7. FlowOK'
    <2>1. Top.b \in Destinations
      <3>1. Top = evlist[1] /\ Top.ev = "APP" /\ 1 \in 1..Len(evlist)
        <4>1. evlist \in Seq(Event) /\ evlist # <<>>
          BY <1>3, <1>4 DEF IInv, StackOK
        <4> QED
          BY <1>1, <4>1 DEF Top, TopIs
      <3> QED
        BY <1>3, <3>1 DEF FlowOK
    <2>2. 1..Len(evlist') = {}
      BY <1>1, <1>4
    <2> QED
      BY <1>3, <1>6, <2>1, <2>2 DEF FlowOK
  <1>8. UtilOK' /\ SetOK' /\ Replicas \in Nat
    BY <1>3, SpraySettingsFacts DEF UtilOK, utilVars, SetOK
  <1>9. /\ StockOK'
        /\ Stored(q, a)' = Replicas
        /\ \A p : \A x \in Nodes : p # q \/ x # a =>
              \/ Stored(p, x)' = Stored(p, x)
              \/ p \in buffer[x] /\ Stored(p, x)' = 0 /\ ~Spared
    <2>1. q \notin buffer[a]
      BY <1>3, <1>4, <1>6 DEF StockOK
    <2> QED
      BY <1>1, <1>2, <1>3, <1>4, <1>6, <1>8, <2>1, StockAdded, ZenonT(60)
  <1>10. (IInv /\ DOMAIN pool = {} => SprayConversation /\ \A p, x : OnTheWay(p, x) = {})'
    BY Silence, PTL
  <1>11. SprayConversation' /\ \A p, x : OnTheWay(p, x)' = {}
    BY <1>1, <1>3, <1>5, <1>10
  <1>12. (\A s, y : OnTheWay(s, y) = {} => Sent(s, y) = 0)'
    BY SentNone, PTL
  <1>13. ASSUME NEW p, NEW x \in Nodes
         PROVE  Held(p, x)' = Stored(p, x)' /\ Held(p, x) = Stored(p, x) /\ Stored(p, x) \in Nat
    <2>1. Sent(p, x) = 0 /\ Sent(p, x)' = 0
      BY <1>3, <1>5, <1>11, <1>12, Silence, SentNone
    <2>2. Stored(p, x) \in Nat
      BY <1>3, HeldNat
    <2>3. Stored(p, x)' \in Nat
      BY <1>9 DEF Stored, StockOK
    <2> QED
      BY <2>1, <2>2, <2>3 DEF Held
  <1>14. ASSUME NEW x \in Nodes
         PROVE  Held(q, x) = 0 /\ Held(q, x)' = IF x = a THEN Replicas ELSE 0
    <2>1. Held(q, x) = 0 /\ Stored(q, x) = 0
      BY <1>3, <1>6, <1>13, HeldNat
    <2> QED
      BY <1>9, <1>13, <2>1
  <1>15. ASSUME NEW p, p # q PROVE Less(p)
    BY <1>9, <1>13, <1>15 DEF Less
  <1>16. Made(q, a)
    BY <1>6, <1>14, <1>15 DEF Made
  <1> QED
    BY <1>3, <1>4, <1>7, <1>8, <1>9, <1>11, <1>16 DEF SInv

-----------------------------------------------------------------------------
(* The steps of the program.                                               *)

\* A handler changes no utility but the destinations it has learned.
LEMMA UtilKept ==
    ASSUME NEW r, Hearing(r), recv(r, Top.id, pool[Top.id], RestAfter(r))
    PROVE  UtilOK'
  <1>1. UtilOK /\ r \in Nodes /\ SetOK
    <2>1. Receiving(r) /\ IInv
      BY DEF Hearing, SInv
    <2> QED
      BY <2>1, TopFacts DEF Hearing, SInv
  <1>2. CASE UNCHANGED utilVars
    BY <1>1, <1>2 DEF UtilOK, utilVars
  <1>3. CASE ReceptionRequest(r, Top.id, pool[Top.id], RestAfter(r))
    <2>1. /\ enc' = enc
          /\ betterDests' = betterDests \/ betterDests' = [betterDests EXCEPT ![r] = {}]
      BY <1>3 DEF ReceptionRequest, Forget, utilVars
    <2> QED
      BY <1>1, <2>1 DEF UtilOK
  <1>4. CASE ReceptionAvailDest(r, Top.id, pool[Top.id], RestAfter(r))
    <2>1. PICK top : top = pool[Top.id]
      OBVIOUS
    <2>2. /\ top.type = "AVAIL_DEST" /\ enc' = enc
          /\ \/ betterDests' = betterDests
             \/ betterDests' = [betterDests EXCEPT ![r] = top.body]
      BY <1>4, <2>1 DEF ReceptionAvailDest, Offer
    <2>3. PICK n \in Nodes, m \in Nodes : SprayControlRight(top, n, m)
      BY <2>1, <2>2, ControlTop
    <2>4. top.body \subseteq Destinations
      BY <2>2, <2>3 DEF SprayControlRight
    <2> QED
      BY <1>1, <2>2, <2>4 DEF UtilOK
  <1>5. CASE ReceptionDPT(r, Top.id, pool[Top.id], RestAfter(r))
    BY <1>1, <1>5 DEF ReceptionDPT, Offer, UtilOK
  <1> QED
    BY <1>2, <1>3, <1>4, <1>5
       DEF recv, ReceptionUtilDest, ReceptionRequestContacts, Summary, ReceptionSummaryEBR

\* Every handler keeps the replicas in order.
LEMMA HandlerHeard ==
    ASSUME NEW r, Hearing(r), recv(r, Top.id, pool[Top.id], RestAfter(r))
    PROVE  Done
  <1>1. CASE ReceptionData(r, Top.id, pool[Top.id], RestAfter(r)) /\ UNCHANGED utilVars
    BY <1>1, SprayOverhearHeard, SprayDeliverHeard, RelayHeard DEF ReceptionData
  <1>2. CASE ReceptionRequest(r, Top.id, pool[Top.id], RestAfter(r))
    BY <1>2, RequestHeard
  <1>3. CASE /\ \/ ReceptionUtilDest(r, Top.id, pool[Top.id], RestAfter(r))
                \/ ReceptionAvailDest(r, Top.id, pool[Top.id], RestAfter(r))
                \/ ReceptionRequestContacts(r, Top.id, pool[Top.id], RestAfter(r))
                \/ ReceptionDPT(r, Top.id, pool[Top.id], RestAfter(r))
             /\ KeepReps
    BY <1>3, UtilDestHeard, AvailDestHeard, RequestContactsHeard, DPTHeard
  <1>4. CASE Summary(r, Top.id, pool[Top.id], RestAfter(r)) /\ KeepReps
    BY <1>4, SummaryEBRHeard, SpraySummaryHeard DEF Summary
  <1>5. CASE /\ \/ ReceptionDirectSummary(r, Top.id, pool[Top.id], RestAfter(r))
                \/ ReceptionDirectRequest(r, Top.id, pool[Top.id], RestAfter(r))
                \/ ReceptionAntipacket(r, Top.id, pool[Top.id], RestAfter(r))
                \/ ReceptionAntipacketResponse(r, Top.id, pool[Top.id], RestAfter(r))
             /\ KeepReps /\ UNCHANGED utilVars
    BY <1>5, SprayDirectSummaryHeard, SprayDirectRequestHeard, SprayAntipacketHeard,
       SprayAntipacketResponseHeard
  <1> QED
    BY <1>1, <1>2, <1>3, <1>4, <1>5 DEF recv

LEMMA ReceiveHeard ==
    ASSUME SInv, Receive, Set' = Set
    PROVE  SInv' /\ Known' = Known /\ \A p : Less(p) \/ Passed(p)
  <1>1. TopIs("TX") /\ UNCHANGED netVars
    BY DEF Receive
  <1>2. PICK r \in Top.rcv :
           IF r \notin conn[Top.a] THEN Discard(r) /\ UNCHANGED <<reps, utilVars>>
           ELSE IF Top.id \notin DOMAIN pool THEN Exit /\ UNCHANGED <<reps, utilVars>>
           ELSE recv(r, Top.id, pool[Top.id], RestAfter(r))
    BY DEF Receive
  <1>3. Hearing(r) /\ Receiving(r) /\ IInv /\ SetOK /\ FlowOK /\ Frame
    BY <1>1 DEF Receiving, Hearing, SInv, Frame, netVars
  <1>4. r \in conn[Top.a] /\ Top.id \in DOMAIN pool
    BY <1>3, TopFacts
  <1>5. recv(r, Top.id, pool[Top.id], RestAfter(r))
    BY <1>2, <1>4
  <1>6. Done
    BY <1>3, <1>5, HandlerHeard
  <1>7. UtilOK'
    BY <1>3, <1>5, UtilKept
  <1>8. IInv'
    BY <1>3, <1>6, ReceivedInv DEF Done
  <1>9. FlowOK' /\ SetOK' /\ Known' = Known
    BY <1>3, <1>6, FrameFacts DEF Done, Kept, NoApp, FlowOK, SetOK
  <1> QED
    BY <1>6, <1>7, <1>8, <1>9 DEF Done, SInv

\* What a step does to the replicas: of each packet some are handed on or all
\* of a node's are lost, or a packet is created.
Advances ==
    \/ Known' = Known /\ \A p : Less(p) \/ Passed(p)
    \/ \E q : \E n \in Nodes : Made(q, n)

LEMMA Stutters ==
    ASSUME SInv, UNCHANGED swVars
    PROVE  SInv' /\ Known' = Known /\ \A p : Less(p)
  <1>1. UNCHANGED <<Set, now, conn, evlist, origin, pool, variousIDs, buffer, delivered, god,
                    received, duplicates, halted, reps, betterDests, enc>>
    BY DEF swVars, utilVars, vars, netVars, msgVars, dmVars, statVars
  <1>2. IInv'
    BY <1>1, SMTT(30) DEF SInv, IInv, NetOK, DataOK, AppOK, StackOK, InTransit
  <1>3. StockOK' /\ UtilOK' /\ FlowOK' /\ SetOK' /\ Known' = Known
    BY <1>1 DEF SInv, StockOK, UtilOK, FlowOK, SetOK, Known
  <1>4. SprayConversation'
    BY <1>1 DEF SInv, SprayConversation, OneControl, IsData, SprayExchanging,
                SprayDataRight, SprayControlRight,
       SprayDirectOnly, Carried, Ask, Known, Awaiting, RT
  <1>5. ASSUME NEW p, NEW x \in Nodes PROVE Held(p, x)' = Held(p, x)
    <2>1. OnTheWay(p, x)' = OnTheWay(p, x)
      BY <1>1 DEF OnTheWay, IsTX
    <2>2. Sent(p, x)' = Sent(p, x)
      BY <1>1, <2>1, SentSame
    <2>3. Stored(p, x)' = Stored(p, x)
      BY <1>1 DEF Stored
    <2> QED
      BY <2>2, <2>3 DEF Held
  <1> QED
    BY <1>2, <1>3, <1>4, <1>5 DEF SInv, Less

LEMMA SprayNext ==
    ASSUME WithinWindow, SInv, [SWNext]_swVars
    PROVE  SInv' /\ Advances
  <1>1. CASE SWContactUp /\ UNCHANGED Set
    BY <1>1, ContactHeard DEF Advances
  <1>2. CASE ContactDown /\ KeepReps /\ UNCHANGED utilVars /\ UNCHANGED Set
    BY <1>2, SprayContactDownHeard DEF Advances
  <1>3. CASE Originate /\ UNCHANGED utilVars /\ UNCHANGED Set
    BY <1>3, OriginateHeard DEF Advances
  <1>4. CASE Receive /\ UNCHANGED Set
    BY <1>4, ReceiveHeard DEF Advances
  <1>5. CASE Environment /\ UNCHANGED <<reps, utilVars>> /\ UNCHANGED Set
    BY <1>5, SprayEnvironmentHeard DEF Advances
  <1>6. CASE UNCHANGED swVars
    BY <1>6, Stutters DEF Advances
  <1> QED
    BY <1>1, <1>2, <1>3, <1>4, <1>5, <1>6 DEF SWNext, SWStep

LEMMA SprayInit == SWInit => SInv
  <1> SUFFICES ASSUME SWInit PROVE SInv
    OBVIOUS
  <1>1. /\ Init /\ IInv /\ SetOK /\ origin = <<>> /\ evlist = <<>> /\ pool = <<>>
        /\ buffer = [n \in Nodes |-> {}]
        /\ reps = [n \in Nodes |-> <<>>] /\ betterDests = [n \in Nodes |-> {}]
        /\ enc = [n \in Nodes |-> [stage |-> FALSE, CWC |-> FALSE, EV |-> FALSE]]
    BY InvInit DEF SWInit, Init, SetOK
  <1>2. StockOK
    BY <1>1 DEF StockOK
  <1>3. UtilOK
    BY <1>1 DEF UtilOK
  <1>4. FlowOK
    BY <1>1 DEF FlowOK, Known
  <1>5. SprayConversation
    <2>1. DOMAIN pool = {}
      BY <1>1
    <2> QED
      BY <1>1, <2>1, Silence
  <1> QED
    BY <1>1, <1>2, <1>3, <1>4, <1>5 DEF SInv

\* The invariant holds, whatever the trace, the traffic and the settings:
\* among others, what is in transmission belongs to a single exchange, and a
\* node that is sent a packet to carry does not store it yet.
THEOREM Invariance == WithinWindow => (SWSpec => []SInv)
  <1> SUFFICES ASSUME WithinWindow PROVE SWSpec => []SInv
    OBVIOUS
  <1>1. SInv /\ [SWNext]_swVars => SInv'
    BY SprayNext
  <1> QED
    BY <1>1, SprayInit, PTL DEF SWSpec

\* The values of the variables, among them: the number of replicas of a packet
\* in a buffer is never negative, and there is none of a packet elsewhere.
THEOREM TypeCorrect == WithinWindow => (SWSpec => []SWTypeOK)
  <1> SUFFICES ASSUME WithinWindow PROVE SWSpec => []SWTypeOK
    OBVIOUS
  <1>1. SInv => SWTypeOK
    <2> SUFFICES ASSUME SInv PROVE SWTypeOK
      OBVIOUS
    <2>1. IInv /\ SetOK /\ StockOK /\ UtilOK /\ SprayConversation
      BY DEF SInv
    <2>2. Known \subseteq PktIDs
      BY <2>1, PktFacts DEF IInv, NetOK, Known, PktIDs
    <2>3. ASSUME NEW id \in DOMAIN pool, pool[id] \notin Message
          PROVE  IsAnswer(pool[id])
      <3>1. PICK pkt : pkt = pool[id]
        OBVIOUS
      <3>2. pkt.type \notin Types
        BY <2>1, <2>3, <3>1 DEF IInv, StackOK, IsPacket
      <3>3. PICK n \in Nodes, m \in Nodes : SprayExchanging(n, m)
        BY <2>1 DEF SprayConversation
      <3>4. SprayControlRight(pkt, n, m)
        BY <3>1, <3>2, <3>3, TypeFacts DEF SprayExchanging, IsData
      <3>5. CASE pkt.type = "AVAIL_DEST"
        <4>1. /\ pkt = Reply("AVAIL_DEST", m, n, pkt.body) /\ pkt.body \subseteq Destinations
          BY <3>4, <3>5 DEF SprayControlRight
        <4>2. PICK body : body = pkt.body
          OBVIOUS
        <4>3. pkt = Reply("AVAIL_DEST", m, n, body) /\ body \in SUBSET Destinations
          BY <4>1, <4>2
        <4> QED
          BY <3>1, <4>3 DEF IsAnswer, Answer, Reply
      <3>6. CASE pkt.type = "DEST_PREDICT"
        <4>1. pkt = Reply("DEST_PREDICT", m, n, {})
          BY <3>4, <3>6 DEF SprayControlRight
        <4> QED
          BY <3>1, <4>1 DEF IsAnswer, Answer, Reply
      <3>7. CASE pkt.type = "EBR_REQ"
        <4>1. /\ Carried(pkt.body.ids, m) /\ pkt.body.enc \in BOOLEAN
              /\ pkt = Reply("EBR_REQ", m, n,
                             [ids |-> pkt.body.ids, enc |-> pkt.body.enc])
          BY <3>4, <3>7 DEF SprayControlRight
        <4>2. PICK S, e : S = pkt.body.ids /\ e = pkt.body.enc
          OBVIOUS
        <4>3. S \in SUBSET PktIDs /\ e \in BOOLEAN
          BY <2>2, <4>1, <4>2 DEF Carried
        <4>4. pkt = Reply("EBR_REQ", m, n, [ids |-> S, enc |-> e])
          BY <4>1, <4>2
        <4> QED
          BY <3>1, <4>3, <4>4 DEF IsAnswer, Answer, Reply
      <3> QED
        BY <3>2, <3>4, <3>5, <3>6, <3>7, TypeFacts DEF SprayControlRight
    <2>4. CommonTypeOK
      BY <2>1, InvImplies
    <2> QED
      BY <2>1, <2>3, <2>4 DEF SWTypeOK, StockOK, UtilOK
  <1> QED
    BY <1>1, Invariance, PTL

-----------------------------------------------------------------------------
(* The abstract specification.                                             *)

\* Packets are numbered in the order of their creation.
LEMMA KnownFacts ==
    IInv => Known = DOMAIN origin /\ Known \subseteq PktIDs
  BY PktFacts DEF IInv, NetOK, Known, PktIDs

LEMMA QuotaInit == SWInit => Replication!Init
  <1> SUFFICES ASSUME SWInit PROVE Replication!Init
    OBVIOUS
  <1>1. SInv /\ origin = <<>>
    BY SprayInit DEF SWInit, Init
  <1>2. Replicas \in Nat /\ IInv /\ StockOK /\ SprayConversation /\ Known = {}
    BY <1>1, SpraySettingsFacts DEF SInv, Known
  <1>3. \A p : \A x \in Nodes : Held(p, x) = 0
    BY <1>2, HeldNat
  <1>4. DOMAIN origin = {}
    BY <1>2, KnownFacts
  <1> QED
    BY <1>2, <1>3, <1>4 DEF Replication!Init, Replication!None

\* The holdings of one packet, as the abstract specification sees them.
Holding(p) == [x \in Nodes |-> Held(p, x)]

LEMMA HandedOrLost ==
    ASSUME NEW p, Less(p) \/ Passed(p)
    PROVE  Replication!Handed(Holding(p), Holding(p)') \/ Replication!Lost(Holding(p), Holding(p)')
  <1>1. PICK h, k : h = Holding(p) /\ k = Holding(p)'
    OBVIOUS
  <1>2. /\ \A x \in Nodes : h[x] = Held(p, x) /\ k[x] = Held(p, x)'
        /\ h = [x \in Nodes |-> h[x]] /\ k = [x \in Nodes |-> k[x]]
    BY <1>1 DEF Holding
  <1>3. CASE Less(p)
    <2>1. Replication!Lost(h, k)
      BY <1>2, <1>3 DEF Less, Replication!Lost
    <2> QED
      BY <1>1, <2>1
  <1>4. CASE Passed(p)
    <2>1. PICK n \in Nodes, m \in Nodes : \E part \in 1..Held(p, n) :
             /\ n # m
             /\ Held(p, n)' = Held(p, n) - part
             /\ Held(p, m)' = Held(p, m) + part
             /\ \A x \in Nodes \ {n, m} : Held(p, x)' = Held(p, x)
      BY <1>4 DEF Passed
    <2>2. PICK part \in 1..Held(p, n) :
             /\ n # m
             /\ Held(p, n)' = Held(p, n) - part
             /\ Held(p, m)' = Held(p, m) + part
             /\ \A x \in Nodes \ {n, m} : Held(p, x)' = Held(p, x)
      BY <2>1
    <2>3. PICK g : g = [h EXCEPT ![n] = @ - part, ![m] = @ + part]
      OBVIOUS
    <2>4. /\ g = [x \in Nodes |-> g[x]]
          /\ \A x \in Nodes : g[x] = IF x = m THEN h[m] + part
                                     ELSE IF x = n THEN h[n] - part ELSE h[x]
      BY <1>2, <2>2, <2>3
    <2>5. \A x \in Nodes : g[x] = k[x]
      BY <1>2, <2>2, <2>4
    <2>6. g = k
      BY <1>2, <2>4, <2>5
    <2>7. part \in 1..h[n]
      BY <1>2, <2>2
    <2>8. Replication!Handed(h, k)
      BY <2>2, <2>3, <2>6, <2>7 DEF Replication!Handed
    <2> QED
      BY <1>1, <2>8
  <1> QED
    BY <1>3, <1>4

LEMMA QuotaNext ==
    ASSUME WithinWindow, SInv, [SWNext]_swVars
    PROVE  [Replication!Next]_(Replication!vars)
  <1>1. SInv' /\ Advances
    BY SprayNext
  <1>2. Replicas' = Replicas
    BY DEF SWNext, swVars, vars, Replicas
  <1>3. /\ Known = DOMAIN origin /\ Known \subseteq PktIDs
        /\ Known' = DOMAIN origin' /\ Known' \subseteq PktIDs
    <2>1. (IInv => Known = DOMAIN origin /\ Known \subseteq PktIDs)'
      BY KnownFacts, PTL
    <2> QED
      BY <1>1, <2>1, KnownFacts DEF SInv
  <1>4. PICK H, K : /\ H = [p \in PktIDs |-> [n \in Nodes |-> Held(p, n)]]
                    /\ K = [p \in PktIDs |-> [n \in Nodes |-> Held(p, n)]]'
    OBVIOUS
  <1>5. ASSUME NEW p \in PktIDs PROVE H[p] = Holding(p) /\ K[p] = Holding(p)'
    BY <1>4 DEF Holding
  <1>6. CASE Known' = Known /\ \A p : Less(p) \/ Passed(p)
    <2>1. \A p \in PktIDs : Replication!Handed(H[p], K[p]) \/ Replication!Lost(H[p], K[p])
      BY <1>5, <1>6, HandedOrLost
    <2>2. Replication!Hand
      BY <1>3, <1>4, <1>6, <2>1 DEF Replication!Hand
    <2> QED
      BY <1>2, <2>2 DEF Replication!Next
  <1>7. ASSUME NEW q, NEW n \in Nodes, Made(q, n)
        PROVE  Replication!Next
    <2>1. /\ q \in PktIDs /\ q \notin Known /\ Known' = Known \cup {q}
          /\ \A x \in Nodes : Held(q, x) = 0 /\ Held(q, x)' = IF x = n THEN Replicas ELSE 0
          /\ \A p : p # q => Less(p)
      BY <1>3, <1>7 DEF Made
    <2>2. Replication!Created(H[q], K[q], n)
      <3>1. /\ H[q] = [x \in Nodes |-> 0]
            /\ K[q] = [x \in Nodes |-> IF x = n THEN Replicas ELSE 0]
        BY <1>4, <2>1
      <3> QED
        BY <3>1 DEF Replication!Created, Replication!None
    <2>3. ASSUME NEW p \in PktIDs \ {q} PROVE Replication!Lost(H[p], K[p])
      <3>1. \A x \in Nodes : H[p][x] = Held(p, x) /\ K[p][x] = Held(p, x)'
        BY <1>4
      <3> QED
        BY <2>1, <3>1 DEF Less, Replication!Lost
    <2>4. Replication!Create(q)
      BY <1>3, <1>4, <2>1, <2>2, <2>3 DEF Replication!Create
    <2> QED
      BY <1>2, <2>1, <2>4 DEF Replication!Next
  <1> QED
    BY <1>1, <1>6, <1>7 DEF Advances

\* The spraying protocols implement quota-based replication: replicas are made
\* at the source only, and later on only divided between two nodes or lost.
THEOREM QuotaBased == WithinWindow => (SWSpec => ImplementsQuota)
  <1> SUFFICES ASSUME WithinWindow PROVE SWSpec => ImplementsQuota
    OBVIOUS
  <1>1. SInv /\ [SWNext]_swVars => [Replication!Next]_(Replication!vars)
    BY QuotaNext
  <1> QED
    BY <1>1, QuotaInit, Invariance, PTL DEF SWSpec, ImplementsQuota, Replication!Spec

-----------------------------------------------------------------------------
(* Where nothing is deleted, the replicas add up.                          *)

AllThere ==
    Spared => \A p \in Known : SumFunctionOnSet(Holding(p), Nodes) = Replicas

LEMMA AllThereNext ==
    ASSUME WithinWindow, SInv, AllThere, [SWNext]_swVars
    PROVE  AllThere'
  <1>1. SInv' /\ Advances
    BY SprayNext
  <1>2. Replicas' = Replicas /\ (Spared' <=> Spared)
    BY DEF SWNext, swVars, vars, Replicas, Spared, DelMech, BufferSize, TTL
  <1> SUFFICES ASSUME Spared, NEW p \in Known'
               PROVE  SumFunctionOnSet(Holding(p)', Nodes) = Replicas
    BY <1>2 DEF AllThere
  <1>3. IsFiniteSet(Nodes) /\ Replicas \in Nat
    BY RoutingAssumption, SpraySettingsFacts DEF SInv
  <1>4. PICK h, k : h = Holding(p) /\ k = Holding(p)'
    OBVIOUS
  <1>5. /\ h \in [Nodes -> Int] /\ k \in [Nodes -> Int]
        /\ \A x \in Nodes : h[x] = Held(p, x) /\ k[x] = Held(p, x)'
    <2>1. \A x \in Nodes : Held(p, x) \in Nat
      BY HeldNat DEF SInv
    <2>2. \A x \in Nodes : Held(p, x)' \in Nat
      <3>1. (IInv /\ StockOK /\ SprayConversation =>
               \A s : \A x \in Nodes :
                  /\ Held(s, x) \in Nat /\ Stored(s, x) \in Nat /\ Sent(s, x) \in Nat
                  /\ s \notin Known => Held(s, x) = 0
                  /\ s \in buffer[x] => Sent(s, x) = 0)'
        BY HeldNat, PTL
      <3> QED
        BY <1>1, <3>1 DEF SInv
    <2> QED
      BY <1>4, <2>1, <2>2 DEF Holding
  <1>6. ASSUME Less(p), p \in Known PROVE SumFunctionOnSet(k, Nodes) = Replicas
    <2>1. \A x \in Nodes : k[x] \in Int /\ k[x] = h[x]
      BY <1>5, <1>6 DEF Less
    <2>2. SumFunctionOnSet(k, Nodes) = SumFunctionOnSet(h, Nodes)
      BY <1>3, <2>1, SumSame
    <2> QED
      BY <1>4, <1>6, <2>2 DEF AllThere
  <1>7. ASSUME Passed(p), p \in Known PROVE SumFunctionOnSet(k, Nodes) = Replicas
    <2>1. PICK n \in Nodes, m \in Nodes : \E part \in 1..Held(p, n) :
             /\ n # m
             /\ Held(p, n)' = Held(p, n) - part
             /\ Held(p, m)' = Held(p, m) + part
             /\ \A x \in Nodes \ {n, m} : Held(p, x)' = Held(p, x)
      BY <1>7 DEF Passed
    <2>2. n # m /\ k[n] + k[m] = h[n] + h[m] /\ \A x \in Nodes \ {n, m} : k[x] = h[x]
      BY <1>5, <2>1
    <2>3. SumFunctionOnSet(k, Nodes) = SumFunctionOnSet(h, Nodes)
      BY <1>3, <1>5, <2>2, SumShift
    <2> QED
      BY <1>4, <1>7, <2>3 DEF AllThere
  <1>8. ASSUME NEW q, NEW n \in Nodes, Made(q, n)
        PROVE  SumFunctionOnSet(k, Nodes) = Replicas
    <2>1. CASE p = q
      <3>1. k[n] = Replicas /\ \A x \in Nodes \ {n} : k[x] = 0
        BY <1>5, <1>8, <2>1 DEF Made
      <3>2. SumFunctionOnSet(k, Nodes) = k[n]
        BY <1>3, <1>5, <3>1, SumOnly
      <3> QED
        BY <3>1, <3>2
    <2>2. CASE p # q
      BY <1>6, <1>8, <2>2 DEF Made
    <2> QED
      BY <2>1, <2>2
  <1> QED
    BY <1>1, <1>4, <1>6, <1>7, <1>8 DEF Advances

\* Where no mechanism deletes packets, no replica is ever lost: with what is on
\* its way counted where it is going, they add up to the number in the settings.
THEOREM NothingLost == WithinWindow => (SWSpec => []NoneLost)
  <1> SUFFICES ASSUME WithinWindow PROVE SWSpec => []NoneLost
    OBVIOUS
  <1>1. SWInit => AllThere
    BY DEF SWInit, Init, AllThere, Known
  <1>2. SInv /\ AllThere /\ [SWNext]_swVars => AllThere'
    BY AllThereNext
  <1>3. SInv /\ AllThere => NoneLost
    <2>1. SInv => Known = DOMAIN origin
      BY KnownFacts DEF SInv
    <2> QED
      BY <2>1 DEF AllThere, NoneLost, Spared, Holding
  <1> QED
    BY <1>1, <1>2, <1>3, Invariance, PTL DEF SWSpec

-----------------------------------------------------------------------------
(* What a node has learned of another one's utilities.                     *)

\* Nodes have learned something in LSF Spray and Focus only.
Informs == Advised /\ (RT # "LSFSPRAYFOCUS" => \A n \in Nodes : betterDests[n] = {})

\* With nothing in transmission nobody knows of better destinations.
LEMMA SilentUnadvised ==
    ASSUME Informs, DOMAIN pool = {}
    PROVE  \A n \in Nodes : betterDests[n] = {}
  BY DEF Informs, Advised

\* A packet that is no data packet is the one that is received.
LEMMA OneHeard ==
    ASSUME NEW r, Hearing(r), NEW id \in DOMAIN pool, ~IsData(id)
    PROVE  id = Top.id
  <1>1. IInv /\ OneControl /\ Receiving(r)
    BY DEF Hearing, SInv, SprayConversation
  <1>2. Top = evlist[1] /\ Len(evlist) \in Nat
    BY <1>1, TopFacts DEF IInv, StackOK
  <1>3. PICK i \in 1..Len(evlist) : evlist[i].ev = "TX" /\ evlist[i].id = id
    BY <1>1 DEF IInv, StackOK
  <1>4. ~(i \in 2..Len(evlist))
    BY <1>1, <1>3 DEF OneControl
  <1>5. i = 1
    BY <1>2, <1>3, <1>4
  <1> QED
    BY <1>2, <1>3, <1>5

\* So a node knows of better destinations only while its own offer, or the
\* request that answers it, is received.
LEMMA AdvisedTop ==
    ASSUME NEW r, Hearing(r), Informs, NEW n \in Nodes, betterDests[n] # {}
    PROVE  /\ RT = "LSFSPRAYFOCUS"
           /\ \/ pool[Top.id].type = "SUMMARY" /\ pool[Top.id].prev = n
              \/ pool[Top.id].type = "REQUEST" /\ pool[Top.id].next = n
  <1>1. PICK id \in DOMAIN pool : \/ pool[id].type = "SUMMARY" /\ pool[id].prev = n
                                  \/ pool[id].type = "REQUEST" /\ pool[id].next = n
    BY DEF Informs, Advised
  <1>2. id = Top.id
    BY <1>1, OneHeard DEF IsData
  <1> QED
    BY <1>1, <1>2 DEF Informs

\* A packet that is sent is in the pool.
LEMMA Pooled ==
    ASSUME NEW pkt, NEW erased, NEW rest, variousIDs \in Nat, Send(<<pkt>>, erased, rest)
    PROVE  \E id \in DOMAIN pool' : pool'[id] = pkt
  <1>1. NewIDs(<<pkt>>) = {variousIDs + 1}
    BY DEF NewIDs
  <1>2. pool' = [i \in (DOMAIN pool \ erased) \cup {variousIDs + 1} |->
                    IF i \in {variousIDs + 1} THEN <<pkt>>[i - variousIDs] ELSE pool[i]]
    BY <1>1 DEF Send, PoolWith
  <1>3. (variousIDs + 1) - variousIDs = 1 /\ <<pkt>>[1] = pkt
    OBVIOUS
  <1> QED
    BY <1>2, <1>3

\* Handlers leave nobody with what was said in an exchange that is over.
LEMMA InformsHeard ==
    ASSUME NEW r, Hearing(r), Informs, recv(r, Top.id, pool[Top.id], RestAfter(r))
    PROVE  Informs'
  <1> DEFINE top == pool[Top.id]
  <1>1. /\ RT' = RT /\ r \in Nodes /\ variousIDs \in Nat /\ Top.id \in DOMAIN pool
        /\ betterDests \in [Nodes -> SUBSET Destinations]
    <2>1. IInv /\ UtilOK /\ Frame /\ Receiving(r)
      BY DEF Hearing, SInv
    <2> QED
      BY <2>1, TopFacts, FrameMore DEF IInv, StackOK, UtilOK
  <1>2. ASSUME betterDests' = betterDests, top.type \notin {"SUMMARY", "REQUEST"}
        PROVE  Informs'
    <2>1. \A n \in Nodes : betterDests[n] = {}
      BY <1>2, AdvisedTop
    <2> QED
      BY <1>2, <2>1 DEF Informs, Advised
  <1>3. CASE ReceptionRequest(r, Top.id, top, RestAfter(r))
    <2>1. CASE Exit /\ UNCHANGED <<reps, utilVars>>
      <3>1. UNCHANGED <<pool, betterDests>>
        BY <2>1 DEF Exit, msgVars, utilVars
      <3> QED
        BY <1>1, <3>1 DEF Informs, Advised
    <2>2. CASE Forget(r)
      <3>1. top.type \in {"REQUEST", "EBR_REQ"}
        BY <1>3 DEF ReceptionRequest
      <3>2. top.type # "DATA" /\ top.next = r
        BY <3>1, ControlTop
      <3>3. \A n \in Nodes \ {r} : betterDests[n] = {}
        BY <3>1, <3>2, AdvisedTop
      <3>4. \A n \in Nodes : betterDests'[n] = {}
        BY <1>1, <2>2, <3>3 DEF Forget
      <3> QED
        BY <3>4 DEF Informs, Advised
    <2> QED
      BY <1>3, <2>1, <2>2 DEF ReceptionRequest
  <1>4. CASE ReceptionAvailDest(r, Top.id, top, RestAfter(r))
    <2>1. PICK offered : Offer(r, Top.id, top, RestAfter(r), Alive(buffer[r]), offered)
      BY <1>4 DEF ReceptionAvailDest
    <2>2. PICK pkt : pkt = Control("SUMMARY", r, top.prev, offered)
      OBVIOUS
    <2>3. Send(<<pkt>>, {Top.id}, RestAfter(r))
      BY <2>1, <2>2 DEF Offer
    <2>4. PICK id \in DOMAIN pool' : pool'[id] = pkt
      BY <1>1, <2>3, Pooled
    <2>5. pool'[id].type = "SUMMARY" /\ pool'[id].prev = r
      BY <2>2, <2>4 DEF Control
    <2>6. \A n \in Nodes : betterDests[n] = {}
      <3>1. top.type = "AVAIL_DEST"
        BY <1>4 DEF ReceptionAvailDest
      <3> QED
        BY <3>1, AdvisedTop
    <2>7. /\ \A n \in Nodes \ {r} : betterDests'[n] = {}
          /\ RT # "LSFSPRAYFOCUS" => \A n \in Nodes : betterDests'[n] = {}
      <3>1. \/ betterDests' = betterDests
            \/ RT = "LSFSPRAYFOCUS" /\ betterDests' = [betterDests EXCEPT ![r] = top.body]
        BY <1>4 DEF ReceptionAvailDest
      <3> QED
        BY <1>1, <2>6, <3>1
    <2> QED
      BY <1>1, <2>5, <2>7 DEF Informs, Advised
  <1>5. CASE ReceptionSummary(r, Top.id, top, RestAfter(r)) /\ UNCHANGED utilVars
    <2>1. top.type = "SUMMARY" /\ betterDests' = betterDests
      BY <1>5 DEF ReceptionSummary, utilVars
    <2>2. PICK wanted :
             Send(<<Control("REQUEST", r, top.prev, wanted)>>, {Top.id}, RestAfter(r))
      BY <1>5 DEF ReceptionSummary
    <2>3. PICK pkt : pkt = Control("REQUEST", r, top.prev, wanted)
      OBVIOUS
    <2>4. PICK id \in DOMAIN pool' : pool'[id] = pkt
      BY <1>1, <2>2, <2>3, Pooled
    <2>5. pool'[id].type = "REQUEST" /\ pool'[id].next = top.prev
      BY <2>3, <2>4 DEF Control
    <2>6. \A n \in Nodes : betterDests[n] # {} => top.prev = n /\ RT = "LSFSPRAYFOCUS"
      BY <2>1, AdvisedTop
    <2> QED
      BY <1>1, <2>1, <2>5, <2>6 DEF Informs, Advised
  <1>6. CASE RT = "EBR" /\ ReceptionSummaryEBR(r, Top.id, top, RestAfter(r))
    <2>1. betterDests' = betterDests
      BY <1>6 DEF ReceptionSummaryEBR, utilVars
    <2>2. \A n \in Nodes : betterDests[n] = {}
      BY <1>6 DEF Informs
    <2> QED
      BY <2>1, <2>2 DEF Informs, Advised
  <1>7. CASE \/ ReceptionUtilDest(r, Top.id, top, RestAfter(r))
             \/ ReceptionRequestContacts(r, Top.id, top, RestAfter(r))
             \/ ReceptionDPT(r, Top.id, top, RestAfter(r))
    <2>1. betterDests' = betterDests /\ top.type \notin {"SUMMARY", "REQUEST"}
      BY <1>7 DEF ReceptionUtilDest, ReceptionRequestContacts, ReceptionDPT, utilVars
    <2> QED
      BY <1>2, <2>1
  <1>8. CASE /\ \/ ReceptionData(r, Top.id, top, RestAfter(r))
                \/ ReceptionDirectSummary(r, Top.id, top, RestAfter(r))
                \/ ReceptionDirectRequest(r, Top.id, top, RestAfter(r))
                \/ ReceptionAntipacket(r, Top.id, top, RestAfter(r))
                \/ ReceptionAntipacketResponse(r, Top.id, top, RestAfter(r))
             /\ UNCHANGED utilVars
    <2>1. betterDests' = betterDests /\ top.type \notin {"SUMMARY", "REQUEST"}
      BY <1>8 DEF ReceptionData, ReceptionDirectSummary, ReceptionDirectRequest,
                  ReceptionAntipacket, ReceptionAntipacketResponse, utilVars
    <2> QED
      BY <1>2, <2>1
  <1> HIDE DEF top
  <1> QED
    BY <1>3, <1>4, <1>5, <1>6, <1>7, <1>8 DEF recv, Summary, top

\* Contacts, traffic and time come when nothing is in transmission.
LEMMA InformsNext ==
    ASSUME SInv, Informs, [SWNext]_swVars
    PROVE  Informs'
  <1>1. ASSUME betterDests' = betterDests, RT' = RT, evlist = <<>> \/ Head(evlist).ev # "TX"
        PROVE  Informs'
    <2>1. DOMAIN pool = {}
      <3>1. StackOK(evlist, pool, conn, variousIDs)
        BY DEF SInv, IInv
      <3>2. CASE evlist = <<>>
        BY <3>1, <3>2 DEF StackOK
      <3>3. CASE evlist # <<>>
        BY <1>1, <3>1, <3>3, NoTransmission
      <3> QED
        BY <3>2, <3>3
    <2>2. \A n \in Nodes : betterDests[n] = {}
      BY <2>1, SilentUnadvised
    <2> QED
      BY <1>1, <2>2 DEF Informs, Advised
  <1>2. CASE SWContactUp /\ UNCHANGED Set
    <2>1. evlist # <<>> /\ Head(evlist).ev = "UP" /\ betterDests' = betterDests /\ RT' = RT
      BY <1>2 DEF SWContactUp, ContactUp, TopIs, Top, RT
    <2> QED
      BY <1>1, <2>1
  <1>3. CASE ContactDown /\ UNCHANGED utilVars /\ UNCHANGED Set
    <2>1. evlist # <<>> /\ Head(evlist).ev = "DOWN" /\ betterDests' = betterDests /\ RT' = RT
      BY <1>3 DEF ContactDown, TopIs, Top, utilVars, RT
    <2> QED
      BY <1>1, <2>1
  <1>4. CASE Originate /\ UNCHANGED utilVars /\ UNCHANGED Set
    <2>1. evlist # <<>> /\ Head(evlist).ev = "APP" /\ betterDests' = betterDests /\ RT' = RT
      BY <1>4 DEF Originate, RecvFromApp, TopIs, Top, utilVars, RT
    <2> QED
      BY <1>1, <2>1
  <1>5. CASE Environment /\ UNCHANGED utilVars /\ UNCHANGED Set
    <2>1. evlist = <<>> /\ betterDests' = betterDests /\ RT' = RT
      BY <1>5 DEF Environment, Tick, BeginContact, EndContact, TouchContact, Generate,
                  Schedule, Quiet, utilVars, RT
    <2> QED
      BY <1>1, <2>1
  <1>6. CASE Receive /\ UNCHANGED Set
    <2>1. TopIs("TX") /\ UNCHANGED netVars
      BY <1>6 DEF Receive
    <2>2. PICK r \in Top.rcv :
             IF r \notin conn[Top.a] THEN Discard(r) /\ UNCHANGED <<reps, utilVars>>
             ELSE IF Top.id \notin DOMAIN pool THEN Exit /\ UNCHANGED <<reps, utilVars>>
             ELSE recv(r, Top.id, pool[Top.id], RestAfter(r))
      BY <1>6 DEF Receive
    <2>3. Hearing(r) /\ Receiving(r) /\ IInv
      BY <1>6, <2>1 DEF Receiving, Hearing, SInv, Frame, netVars
    <2>4. recv(r, Top.id, pool[Top.id], RestAfter(r))
      BY <2>2, <2>3, TopFacts
    <2> QED
      BY <2>3, <2>4, InformsHeard
  <1>7. CASE UNCHANGED swVars
    <2>1. UNCHANGED <<pool, betterDests, Set>>
      BY <1>7 DEF swVars, utilVars, vars, msgVars
    <2> QED
      BY <2>1 DEF Informs, Advised, RT
  <1> QED
    BY <1>2, <1>3, <1>4, <1>5, <1>6, <1>7 DEF SWNext, SWStep

\* What a node learns of another one's utilities it only uses in the exchange
\* in which it learns it: it is forgotten when the packets have been handed
\* over, and in between nothing else is received.
THEOREM AdviceForgotten == WithinWindow => (SWSpec => []Advised)
  <1> SUFFICES ASSUME WithinWindow PROVE SWSpec => []Advised
    OBVIOUS
  <1>1. SWInit => Informs
    BY DEF SWInit, Informs, Advised
  <1>2. SInv /\ Informs /\ [SWNext]_swVars => Informs'
    BY InformsNext
  <1>3. Informs => Advised
    BY DEF Informs
  <1> QED
    BY <1>1, <1>2, <1>3, Invariance, PTL DEF SWSpec

-----------------------------------------------------------------------------
(***************************************************************************)
(* Spray and Wait, and the variant by the most seen first.  No utility     *)
(* decides what they offer: their exchange is that of the flooding         *)
(* protocols, with packets of which one replica is left kept back.         *)
(***************************************************************************)
Unaided == RT \in {"SPRAYANDWAIT", "MSFSPRAYANDWAIT"}

LEMMA UnaidedFloods == SetOK /\ Unaided => Replicating /\ Flooding /\ ~ByUtility
  <1>1. SetOK => CongestionControl = "NOCC"
    BY SprayAssumption DEF SetOK, CongestionControl
  <1> QED
    BY <1>1 DEF Unaided, Replicating, ByUtility, Flooding

\* The packets that each node keeps to itself.
Waiting == [x \in Nodes |-> {p \in buffer[x] : reps[x][p] = 1}]

\* A single replica stays one where it is.
WaitKept == \A x \in Nodes : Waiting[x] \cap buffer'[x] \subseteq Waiting'[x]

\* What the control packet on top may be, and what it may ask for.
LEMMA UnaidedTop ==
    ASSUME IInv, SetOK, Unaided, Conversation, NEW r, Receiving(r), pool[Top.id].type # "DATA"
    PROVE  /\ pool[Top.id].type \in {"ANTIPACKET", "ANTIPACKET_RESPONSE", "DIRECT_SUMMARY",
                                     "DIRECT_REQUEST", "SUMMARY", "REQUEST"}
           /\ \E n, m \in Nodes :
                 Exchanging(n, m) /\ n # m /\ DeliveryRight(pool[Top.id], n, m)
  <1>1. Top.id \in DOMAIN pool /\ ~ByUtility
    BY TopFacts, UnaidedFloods
  <1>2. PICK n \in Nodes, m \in Nodes : Exchanging(n, m)
    BY <1>1 DEF Conversation
  <1>3. n # m /\ DeliveryRight(pool[Top.id], n, m)
    BY <1>1, <1>2 DEF Exchanging, ControlRight, UtilityRight, IsData
  <1>4. pool[Top.id].type \in {"ANTIPACKET", "ANTIPACKET_RESPONSE", "DIRECT_SUMMARY",
                               "DIRECT_REQUEST", "SUMMARY", "REQUEST"}
    BY <1>3 DEF DeliveryRight
  <1> QED
    BY <1>2, <1>3, <1>4

\* Node n answers the request of m: packets out are sent, of the others it has
\* one replica.
HandsOver(n, m, out, live) ==
    /\ out \subseteq pool[Top.id].ids
    /\ \A p \in pool[Top.id].ids \ out : p \in buffer[n] /\ reps[n][p] = 1
    /\ DataSent(n, m, out, <<>>, {Top.id}, RestAfter(n))
    /\ live \subseteq buffer[n] /\ \A p \in buffer[n] : IsAlive(p) => p \in live
    /\ buffer' = [buffer EXCEPT ![n] = live]
    /\ UNCHANGED <<dmVars, statVars, halted>>

LEMMA UnaidedRequest ==
    ASSUME NEW r, Hearing(r), Unaided, pool[Top.id].type = "REQUEST",
           \A p \in pool[Top.id].ids : Offered(r, p),
           ReceptionRequest(r, Top.id, pool[Top.id], RestAfter(r))
    PROVE  /\ \E out, live : HandsOver(r, pool[Top.id].prev, out, live)
           /\ WaitKept
  <1> DEFINE top == pool[Top.id]
  <1>1. PICK ids, live : ids = top.ids /\ live = (IF ids = {} THEN buffer[r] ELSE Alive(buffer[r]))
    OBVIOUS
  <1>2. PICK m : m = top.prev
    OBVIOUS
  <1>3. /\ r \in Nodes /\ m \in Nodes /\ m \in conn'[r] /\ Top.id \in DOMAIN pool
        /\ IInv /\ OneControl /\ StockOK /\ DataOK /\ buffer[r] \in SUBSET PktIDs
        /\ conn' \in [Nodes -> SUBSET Nodes] /\ ids \in SUBSET PktIDs /\ Receiving(r)
    BY <1>1, <1>2, ControlTop, TypeFacts DEF Hearing
  <1>4. ids \subseteq live /\ ids \subseteq buffer[r] /\ live \subseteq buffer[r]
        /\ \A p \in buffer[r] : IsAlive(p) => p \in live
    BY <1>1 DEF Offered, Alive
  <1>5. PICK share \in Shares(r, top) :
           LET out == Outgoing(r, ids, share)
               left == {p \in out : RT = "LSFSPRAYFOCUS" /\ Waits(r, p)}
           IN  /\ \E order \in Orders(out) :
                     Send(Sprayed(r, m, order, share), {Top.id}, RestAfter(r))
               /\ buffer' = [buffer EXCEPT ![r] = live \ left]
               /\ AfterSpray(r, share)
    BY <1>1, <1>2, <1>4, ZenonT(60) DEF ReceptionRequest
  <1>6. UNCHANGED <<dmVars, statVars, halted>>
    BY <1>1, <1>4 DEF ReceptionRequest
  <1>7. PICK out : out = Outgoing(r, ids, share)
    OBVIOUS
  <1>8. PICK order \in Orders(out) : Send(Sprayed(r, m, order, share), {Top.id}, RestAfter(r))
    BY <1>5, <1>7
  <1>9. buffer' = [buffer EXCEPT ![r] = live] /\ AfterSpray(r, share)
    <2>1. {p \in out : RT = "LSFSPRAYFOCUS" /\ Waits(r, p)} = {}
      BY DEF Unaided
    <2> QED
      BY <1>5, <1>7, <2>1
  <1>10. /\ DOMAIN share = ids
         /\ \A p \in ids : reps[r][p] \in Nat /\ share[p] \in Nat
         /\ \A p \in ids : reps[r][p] = 1 => share[p] = 0
    <2>1. Divided(r, ids, share)
      BY <1>1, <1>3, <1>4, SharesDivide
    <2>2. \A p \in ids : reps[r][p] \in Nat
      BY <1>3, <1>4 DEF StockOK
    <2>3. share = [p \in ids |-> Share(r, p)]
      BY <1>1 DEF Shares
    <2>4. \A p \in ids : reps[r][p] = 1 => Share(r, p) = 0
      BY DEF Share, Waits, Unaided
    <2> QED
      BY <2>1, <2>2, <2>3, <2>4 DEF Divided
  <1>11. out \subseteq ids /\ \A p \in ids \ out : reps[r][p] = 1
    BY <1>7 DEF Outgoing, Waits, Unaided
  <1>12. DataSent(r, m, out, <<>>, {Top.id}, RestAfter(r))
    <2>1. /\ StackOK(RestAfter(r), [i \in DOMAIN pool \ {Top.id} |-> pool[i]],
                     conn', variousIDs)
          /\ OnlyData(RestAfter(r), pool)
      BY <1>3, ControlStep, ControlFacts
    <2>2. SpraySent(r, m, out, share, {Top.id}, RestAfter(r))
      BY <1>3, <1>8, <1>10, <1>11, <2>1, SprayView
    <2> QED
      BY <2>2, ShareSent
  <1>13. HandsOver(r, m, out, live)
    BY <1>1, <1>4, <1>6, <1>9, <1>11, <1>12 DEF HandsOver
  <1>14. WaitKept
    <2>1. buffer \in [Nodes -> SUBSET PktIDs] /\ DOMAIN reps = Nodes
      BY <1>3 DEF DataOK, StockOK
    <2>2. \A p \in buffer'[r] : reps[r][p] = 1 => reps'[r][p] = 1
      <3>1. \A p \in buffer'[r] :
               reps'[r][p] = IF p \in ids THEN Difference(reps[r][p], share[p]) ELSE reps[r][p]
        BY <1>3, <1>9, <1>10, <2>1 DEF AfterSpray
      <3>2. Difference(1, 0) = 1
        BY DEF Difference, NaNAsInt
      <3> QED
        BY <1>10, <3>1, <3>2
    <2>3. \A x \in Nodes : x # r => reps'[x] = reps[x] /\ buffer'[x] = buffer[x]
      BY <1>9, <2>1 DEF AfterSpray
    <2> QED
      BY <2>2, <2>3 DEF WaitKept, Waiting
  <1> QED
    BY <1>2, <1>13, <1>14

LEMMA RepsWait == KeepReps \/ UNCHANGED <<reps, buffer>> => WaitKept
  BY DEF KeepReps, WaitKept, Waiting

\* A copy that is to be stored is not one of a packet stored.
LEMMA UnaidedRelay ==
    ASSUME IInv, Conversation, Frame, NEW r, Receiving(r), pool[Top.id].type = "DATA",
           NEW p \in pool[Top.id].ids, Relay(r, Top.id, pool[Top.id], RestAfter(r), p)
    PROVE  Conversation' /\ WaitKept
  <1>1. /\ pool[Top.id].next = r /\ origin[p].dst # r
        /\ \E b \in Added(buffer[r], p) : buffer' = [buffer EXCEPT ![r] = b]
        /\ Access(Top.id, RestAfter(r)) /\ UNCHANGED <<dmVars, statVars, halted>>
    BY DEF Relay
  <1>2. Conversation' /\ p \notin buffer[r] /\ r \in Nodes
    BY <1>1, PacketStored
  <1>3. PICK k : reps' = [x \in Nodes |-> [q \in buffer'[x] |->
                            IF x = r /\ q = p THEN k ELSE reps[x][q]]]
    BY DEF Relay, SetReplicas
  <1>4. \A x \in Nodes : \A q \in buffer'[x] : q \in buffer[x] => reps'[x][q] = reps[x][q]
    BY <1>2, <1>3
  <1> QED
    BY <1>2, <1>4 DEF WaitKept, Waiting

\* Node r receives the packet on top, of an exchange without utilities.
Unhindered(r) == Hearing(r) /\ Unaided /\ Conversation

\* Every handler keeps the conversation right, and single replicas single.
LEMMA UnaidedHandler ==
    ASSUME NEW r, Unhindered(r), recv(r, Top.id, pool[Top.id], RestAfter(r))
    PROVE  Conversation' /\ WaitKept
  <1> DEFINE pkt == pool[Top.id]
  <1> DEFINE rest == RestAfter(r)
  <1>1. /\ IInv /\ SetOK /\ Conversation /\ Frame /\ Receiving(r) /\ Replicating /\ Hearing(r)
        /\ Unaided /\ RT # "EBR"
    BY UnaidedFloods DEF Unhindered, Hearing, SInv, Unaided
  <1> HIDE DEF pkt, rest
  <1>2. recv(r, Top.id, pkt, rest)
    BY DEF pkt, rest
  <1>3. CASE ReceptionData(r, Top.id, pkt, rest)
    BY <1>1, <1>3, OverhearHeard, DeliverHeard, UnaidedRelay, RepsWait DEF ReceptionData, pkt, rest
  <1>4. CASE ReceptionRequest(r, Top.id, pkt, rest)
    <2>1. pkt.type # "DATA"
      BY <1>4 DEF ReceptionRequest
    <2>2. pkt.type = "REQUEST"
      BY <1>1, <1>4, <2>1, UnaidedTop DEF ReceptionRequest, pkt
    <2>3. PICK n \in Nodes, m \in Nodes : Exchanging(n, m) /\ n # m /\ DeliveryRight(pkt, n, m)
      BY <1>1, <2>1, UnaidedTop DEF pkt
    <2>4. /\ Ask(pkt, m, n) /\ DirectOnly(m) /\ pkt.ids \subseteq Known
          /\ \A p \in pkt.ids : Offered(n, p) /\ origin[p].dst # m /\ Welcome(m, p)
      BY <2>2, <2>3 DEF DeliveryRight
    <2>5. r = n /\ pkt.prev = m /\ pkt.next = n /\ OneControl
      BY <1>1, <2>1, <2>4, ControlTop DEF Ask, pkt
    <2>6. WaitKept /\ \E out, live : HandsOver(r, m, out, live)
      BY <1>1, <1>4, <2>2, <2>4, <2>5, UnaidedRequest DEF pkt, rest
    <2>7. PICK out, live : HandsOver(n, m, out, live)
      BY <2>5, <2>6
    <2>8. out \subseteq pkt.ids /\ pkt.ids \in SUBSET PktIDs /\ buffer \in [Nodes -> SUBSET PktIDs]
      BY <1>1, <2>1, <2>2, <2>7, ControlTop, TypeFacts DEF HandsOver, pkt, DataOK
    <2>9. /\ \A x \in Nodes : buffer'[x] \subseteq buffer[x]
          /\ DataSent(n, m, out, <<>>, {Top.id}, RestAfter(r))
          /\ UNCHANGED <<dmVars, statVars, halted>>
      BY <2>5, <2>7, <2>8 DEF HandsOver
    <2>10. \A p \in out : p \in Known /\ Offered(n, p) /\ origin[p].dst # m /\ Welcome(m, p)
      BY <2>4, <2>8
    <2>11. out \in SUBSET PktIDs
      BY <2>8
    <2>12. Conversation'
      BY <1>1, <2>1, <2>3, <2>4, <2>5, <2>9, <2>10, <2>11, AnswerShipped DEF pkt
    <2> QED
      BY <2>6, <2>12
  <1>5. CASE /\ \/ ReceptionUtilDest(r, Top.id, pkt, rest)
                \/ ReceptionAvailDest(r, Top.id, pkt, rest)
                \/ ReceptionRequestContacts(r, Top.id, pkt, rest)
                \/ ReceptionDPT(r, Top.id, pkt, rest)
    <2>1. pkt.type \in {"UTIL_DEST", "AVAIL_DEST", "REQUEST_CONTACTS", "DEST_PREDICT"}
      BY <1>5 DEF ReceptionUtilDest, ReceptionAvailDest, ReceptionRequestContacts, ReceptionDPT
    <2> QED
      BY <1>1, <2>1, UnaidedTop DEF pkt
  <1>6. CASE Summary(r, Top.id, pkt, rest) /\ KeepReps
    BY <1>1, <1>6, SummaryHeard, RepsWait DEF Summary, pkt, rest
  <1>7. CASE /\ \/ ReceptionDirectSummary(r, Top.id, pkt, rest)
                \/ ReceptionDirectRequest(r, Top.id, pkt, rest)
                \/ ReceptionAntipacket(r, Top.id, pkt, rest)
                \/ ReceptionAntipacketResponse(r, Top.id, pkt, rest)
             /\ KeepReps
    BY <1>1, <1>7, DirectSummaryHeard, DirectRequestHeard, AntipacketHeard,
       AntipacketResponseHeard, RepsWait DEF pkt, rest
  <1> QED
    BY <1>2, <1>3, <1>4, <1>5, <1>6, <1>7 DEF recv

\* The handler that a reception calls.
LEMMA UnaidedReceives ==
    ASSUME SInv, Unaided, Conversation, Receive, UNCHANGED Set
    PROVE  \E r : Unhindered(r) /\ recv(r, Top.id, pool[Top.id], RestAfter(r))
  <1>1. TopIs("TX") /\ UNCHANGED netVars
    BY DEF Receive
  <1>2. PICK r \in Top.rcv :
           IF r \notin conn[Top.a] THEN Discard(r) /\ UNCHANGED <<reps, utilVars>>
           ELSE IF Top.id \notin DOMAIN pool THEN Exit /\ UNCHANGED <<reps, utilVars>>
           ELSE recv(r, Top.id, pool[Top.id], RestAfter(r))
    BY DEF Receive
  <1>3. Hearing(r) /\ Receiving(r) /\ IInv
    BY <1>1 DEF Receiving, Hearing, SInv, Frame, netVars
  <1>4. r \in conn[Top.a] /\ Top.id \in DOMAIN pool
    BY <1>3, TopFacts
  <1> QED
    BY <1>2, <1>3, <1>4 DEF Unhindered

LEMMA UnaidedNext ==
    ASSUME WithinWindow, SInv, Unaided, Conversation, [SWNext]_swVars
    PROVE  Conversation' /\ WaitKept
  <1>1. IInv /\ IInv' /\ SetOK /\ Replicating
    BY SprayNext, UnaidedFloods DEF SInv
  <1>2. CASE SWContactUp /\ UNCHANGED Set
    BY <1>1, <1>2, ContactUpHeard, RepsWait DEF SWContactUp
  <1>3. CASE ContactDown /\ KeepReps /\ UNCHANGED Set
    BY <1>1, <1>3, ContactDownHeard, RepsWait
  <1>4. CASE Originate /\ UNCHANGED Set
    <2>1. Conversation'
      BY <1>1, <1>4, RecvFromAppHeard DEF Originate
    <2>2. \A x \in Nodes : \A p \in buffer[x] : p # Len(origin) + 1
      <3>1. Len(origin) \in Nat
        BY <1>1 DEF IInv, NetOK
      <3>2. Len(origin) + 1 \notin Known
        BY <3>1 DEF Known
      <3> QED
        BY <3>2 DEF SInv, StockOK
    <2>3. \A x \in Nodes : \A p \in buffer[x] : p \in buffer'[x] => reps'[x][p] = reps[x][p]
      BY <1>4, <2>2 DEF Originate, SetReplicas
    <2> QED
      BY <2>1, <2>3 DEF WaitKept, Waiting
  <1>5. CASE Receive /\ UNCHANGED Set
    <2>1. PICK r : Unhindered(r) /\ recv(r, Top.id, pool[Top.id], RestAfter(r))
      BY <1>5, UnaidedReceives
    <2> QED
      BY <2>1, UnaidedHandler
  <1>6. CASE Environment /\ UNCHANGED <<reps, utilVars>> /\ UNCHANGED Set
    <2>1. UNCHANGED buffer
      BY <1>6 DEF Environment, Tick, BeginContact, EndContact, TouchContact, Generate, Schedule
    <2> QED
      BY <1>1, <1>6, <2>1, EnvironmentHeard, RepsWait
  <1>7. CASE UNCHANGED swVars
    <2>1. UNCHANGED vars /\ UNCHANGED <<reps, buffer>>
      BY <1>7 DEF swVars, vars
    <2> QED
      BY <2>1, ConversationStill, RepsWait
  <1> QED
    BY <1>2, <1>3, <1>4, <1>5, <1>6, <1>7 DEF SWNext, SWStep

-----------------------------------------------------------------------------
(* Such an exchange leaves out nothing but single replicas.                *)

\* No handler breaks off the exchange.
LEMMA UnaidedMeets ==
    ASSUME NEW r, Unhindered(r), recv(r, Top.id, pool[Top.id], RestAfter(r)),
           BufferSize = 0, Unrecorded,
           NEW W, W = Waiting, NEW n \in Nodes, NEW m \in Nodes, Meeting(n, m, W)
    PROVE  GoesOn(n, m, W)
  <1> DEFINE pkt == pool[Top.id]
  <1> DEFINE rest == RestAfter(r)
  <1>1. Hears(r, n, m, W) /\ Hearing(r) /\ Unaided /\ RT # "EBR"
    BY UnaidedFloods DEF Unhindered, Hearing, SInv, Hears, Unaided
  <1>2. IInv /\ SetOK /\ Conversation /\ Receiving(r)
    BY DEF Unhindered, Hearing, SInv
  <1>3. ~halted'
    BY UnaidedHandler DEF Conversation, StoredOK
  <1> HIDE DEF pkt, rest
  <1>4. recv(r, Top.id, pkt, rest)
    BY DEF pkt, rest
  <1>5. CASE ReceptionData(r, Top.id, pkt, rest)
    <2>1. pkt.type = "DATA"
      BY <1>5 DEF ReceptionData
    <2>2. CASE Overhear(r, Top.id, pkt, rest)
      BY <1>1, <2>1, <2>2, OverhearMeets DEF pkt, rest
    <2>3. CASE \E p \in pkt.ids : Deliver(r, Top.id, pkt, rest, p)
      BY <1>1, <1>3, <2>1, <2>3, DeliverMeets DEF pkt, rest
    <2>4. CASE \E p \in pkt.ids : Relay(r, Top.id, pkt, rest, p)
      BY <1>1, <2>1, <2>4, StoredMeets DEF Relay, pkt, rest
    <2> QED
      BY <1>5, <2>2, <2>3, <2>4 DEF ReceptionData
  <1>6. CASE ReceptionRequest(r, Top.id, pkt, rest)
    <2>1. pkt.type = "REQUEST"
      BY <1>1, <1>2, <1>6, UnaidedTop DEF ReceptionRequest, pkt
    <2>2. pkt.prev = m /\ r = n /\ \A p \in pkt.ids : Offered(n, p)
      BY <1>1, <2>1, HearsFacts DEF DeliveryRight, Ask, pkt
    <2>3. PICK out, live : HandsOver(n, m, out, live)
      BY <1>1, <1>6, <2>1, <2>2, UnaidedRequest DEF pkt, rest
    <2>4. /\ out \in SUBSET pool[Top.id].ids /\ \A p \in pool[Top.id].ids \ out : p \in W[n]
          /\ DataSent(n, m, out, <<>>, {Top.id}, RestAfter(r))
          /\ live \in SUBSET buffer[n] /\ \A p \in buffer[n] : IsAlive(p) => p \in live
          /\ buffer' = [buffer EXCEPT ![n] = live] /\ received' = received /\ god' = god
      BY <2>2, <2>3 DEF HandsOver, Waiting, dmVars, statVars
    <2> QED
      BY <1>1, <2>1, <2>4, SentMeets DEF pkt
  <1>7. CASE /\ \/ ReceptionUtilDest(r, Top.id, pkt, rest)
                \/ ReceptionAvailDest(r, Top.id, pkt, rest)
                \/ ReceptionRequestContacts(r, Top.id, pkt, rest)
                \/ ReceptionDPT(r, Top.id, pkt, rest)
    <2>1. pkt.type \in {"UTIL_DEST", "AVAIL_DEST", "REQUEST_CONTACTS", "DEST_PREDICT"}
      BY <1>7 DEF ReceptionUtilDest, ReceptionAvailDest, ReceptionRequestContacts, ReceptionDPT
    <2> QED
      BY <1>1, <1>2, <2>1, UnaidedTop DEF pkt
  <1>8. CASE Summary(r, Top.id, pkt, rest)
    BY <1>1, <1>8, SummaryMeets DEF Summary, pkt, rest
  <1>9. CASE \/ ReceptionDirectSummary(r, Top.id, pkt, rest)
             \/ ReceptionDirectRequest(r, Top.id, pkt, rest)
             \/ ReceptionAntipacket(r, Top.id, pkt, rest)
             \/ ReceptionAntipacketResponse(r, Top.id, pkt, rest)
    BY <1>1, <1>9, DirectSummaryMeets, DirectRequestMeets, AntipacketMeets,
       AntipacketResponseMeets DEF pkt, rest
  <1> QED
    BY <1>4, <1>5, <1>6, <1>7, <1>8, <1>9 DEF recv

\* What is left of the stack by a reception is a sequence.
LEMMA RestSeq == ASSUME IInv, TopIs("TX"), NEW r PROVE \E S : RestAfter(r) \in Seq(S)
  <1>1. evlist \in Seq(Event) /\ evlist # <<>>
    BY DEF TopIs, IInv, StackOK
  <1>2. PICK e : e = [Top EXCEPT !.rcv = @ \ {r}]
    OBVIOUS
  <1>3. PICK S : S = Event \cup {e}
    OBVIOUS
  <1>4. Tail(evlist) \in Seq(S) /\ <<e>> \in Seq(S)
    BY <1>1, <1>3
  <1>5. <<e>> \o Tail(evlist) \in Seq(S)
    BY <1>4, ConcatProperties
  <1>6. RestAfter(r) = Tail(evlist) \/ RestAfter(r) = <<e>> \o Tail(evlist)
    BY <1>2 DEF RestAfter
  <1> QED
    BY <1>4, <1>5, <1>6

\* A handler puts transmissions on top of it.
LEMMA UnaidedOnto ==
    ASSUME NEW r, Unhindered(r), recv(r, Top.id, pool[Top.id], RestAfter(r))
    PROVE  Onto(RestAfter(r))
  <1> DEFINE rest == RestAfter(r)
  <1> DEFINE pkt == pool[Top.id]
  <1>1. IInv /\ SetOK /\ Flooding /\ Unaided /\ Hearing(r) /\ Receiving(r) /\ Conversation
    BY UnaidedFloods DEF Unhindered, Hearing, SInv
  <1>2. ~halted'
    BY UnaidedHandler DEF Conversation, StoredOK
  <1>3. r \in Nodes /\ buffer[r] \in SUBSET PktIDs
    BY <1>1, TopFacts DEF IInv, DataOK
  <1>4. pkt.type \in Types \ {"DATA"} => pkt.ids \in SUBSET PktIDs
    BY <1>1, ControlFacts
  <1>5. \E S : rest \in Seq(S)
    BY <1>1, RestSeq DEF Receiving
  <1> HIDE DEF rest, pkt
  <1>6. recv(r, Top.id, pkt, rest)
    BY DEF rest, pkt
  <1> SUFFICES Onto(rest)
    BY DEF rest
  <1>7. ASSUME Access(Top.id, rest) PROVE Onto(rest)
    <2>1. evlist' = <<>> \o rest
      BY <1>5, <1>7, ConcatEmptySeq DEF Access
    <2>2. OnAir(<<>>)
      <3>1. PICK S : S = {e \in Event : e.ev = "TX"}
        OBVIOUS
      <3>2. <<>> \in Seq(S) /\ \A e \in S : e.ev = "TX"
        BY <3>1
      <3> QED
        BY <3>2 DEF OnAir
    <2> QED
      BY <2>1, <2>2 DEF Onto
  <1>8. CASE ReceptionData(r, Top.id, pkt, rest)
    BY <1>2, <1>7, <1>8 DEF ReceptionData, Overhear, Deliver, Relay, Exit
  <1>9. CASE \/ ReceptionDirectSummary(r, Top.id, pkt, rest)
             \/ Summary(r, Top.id, pkt, rest)
             \/ ReceptionAntipacket(r, Top.id, pkt, rest)
    BY <1>1, <1>9, ControlOnto
       DEF Unaided, Summary, ReceptionDirectSummary, ReceptionSummary, ReceptionAntipacket
  <1>10. CASE ReceptionAntipacketResponse(r, Top.id, pkt, rest)
    <2>1. Cleaned(buffer[r], delivered[r] \cup pkt.ids) \in SUBSET PktIDs
      BY <1>3 DEF Cleaned
    <2> QED
      BY <1>1, <1>10, <2>1, DirectOnto DEF ReceptionAntipacketResponse
  <1>11. CASE ReceptionDirectRequest(r, Top.id, pkt, rest)
    <2>1. pkt.ids \in SUBSET PktIDs
      BY <1>4, <1>11, TypeFacts DEF ReceptionDirectRequest
    <2>2. \E order \in Orders(pkt.ids) : \E left :
             Send(DataFor(r, pkt.prev, order, 1) \o Proceed(r, pkt.prev, left), {Top.id}, rest)
      BY <1>2, <1>11 DEF ReceptionDirectRequest, Exit
    <2> QED
      BY <1>1, <2>1, <2>2, ProceedOnto
  <1>12. CASE ReceptionRequest(r, Top.id, pkt, rest)
    <2>1. pkt.type = "REQUEST"
      BY <1>1, <1>12, UnaidedTop DEF ReceptionRequest, pkt
    <2>2. pkt.ids \in SUBSET PktIDs
      BY <1>4, <2>1, TypeFacts
    <2>3. \E share : \E order \in Orders(Outgoing(r, pkt.ids, share)) :
             Send(Sprayed(r, pkt.prev, order, share), {Top.id}, rest)
      BY <1>2, <1>12, <2>1, Zenon DEF ReceptionRequest, Exit
    <2>4. PICK share : \E order \in Orders(Outgoing(r, pkt.ids, share)) :
             Send(Sprayed(r, pkt.prev, order, share), {Top.id}, rest)
      BY <2>3
    <2>5. PICK out \in SUBSET PktIDs : out = Outgoing(r, pkt.ids, share)
      BY <2>2 DEF Outgoing
    <2>6. PICK order \in Orders(out) : Send(Sprayed(r, pkt.prev, order, share), {Top.id}, rest)
      BY <2>4, <2>5
    <2>7. PICK L \in Nat : L = Len(order)
      BY OrderFacts
    <2>8. PICK d : d = [i \in 1..L |-> Data(r, pkt.prev, order[i], share[order[i]])]
      OBVIOUS
    <2>9. PICK U : U = {d[i] : i \in 1..L}
      OBVIOUS
    <2>10. d \in Seq(U) /\ <<>> \in Seq(U)
      BY <2>8, <2>9
    <2>11. Sprayed(r, pkt.prev, order, share) \in {d, <<>>}
      BY <2>7, <2>8 DEF Sprayed
    <2> QED
      BY <2>6, <2>10, <2>11, SentOnto
  <1>13. CASE /\ \/ ReceptionUtilDest(r, Top.id, pkt, rest)
                 \/ ReceptionAvailDest(r, Top.id, pkt, rest)
                 \/ ReceptionRequestContacts(r, Top.id, pkt, rest)
                 \/ ReceptionDPT(r, Top.id, pkt, rest)
    <2>1. pkt.type \in {"UTIL_DEST", "AVAIL_DEST", "REQUEST_CONTACTS", "DEST_PREDICT"}
      BY <1>13 DEF ReceptionUtilDest, ReceptionAvailDest, ReceptionRequestContacts, ReceptionDPT
    <2> QED
      BY <1>1, <2>1, UnaidedTop DEF pkt
  <1> QED
    BY <1>6, <1>8, <1>9, <1>10, <1>11, <1>12, <1>13 DEF recv

\* The mechanism that spreads what it knows at once goes on without records.
LEMMA UnaidedUnrecorded ==
    ASSUME SInv, Unaided, Conversation, [SWNext]_swVars, Unrecorded
    PROVE  Unrecorded'
  <1>1. Set' = Set /\ DelMech' = DelMech
    BY DEF SWNext, swVars, vars, DelMech
  <1> SUFFICES ASSUME DelMech = "CATACLYSM" PROVE delivered' = delivered
    BY <1>1 DEF Unrecorded
  <1>2. ~KeepsDelivered
    BY DEF KeepsDelivered
  <1>3. \A x, ps : SetAsDelivered(x, ps) => delivered' = delivered
    BY <1>2 DEF SetAsDelivered
  <1>4. CASE ContactUp
    BY <1>3, <1>4 DEF ContactUp, Contact, SendDirectSummary, SendDirectPackets, dmVars
  <1>5. CASE Receive /\ UNCHANGED Set
    <2>1. PICK r : Unhindered(r) /\ recv(r, Top.id, pool[Top.id], RestAfter(r))
      BY <1>5, UnaidedReceives
    <2>2. IInv /\ SetOK /\ Conversation /\ Unaided /\ Receiving(r)
      BY <2>1 DEF Unhindered, Hearing, SInv
    <2>3. pool[Top.id].type \notin {"ANTIPACKET", "ANTIPACKET_RESPONSE"}
      <3>1. CASE pool[Top.id].type # "DATA"
        <4>1. PICK n, m : DeliveryRight(pool[Top.id], n, m)
          BY <2>2, <3>1, UnaidedTop
        <4> QED
          BY <4>1 DEF DeliveryRight
      <3> QED
        BY <3>1
    <2>4. Exit => delivered' = delivered
      BY DEF Exit, dmVars
    <2> DEFINE pkt == pool[Top.id]
    <2> DEFINE rest == RestAfter(r)
    <2> HIDE DEF pkt, rest
    <2>5. recv(r, Top.id, pkt, rest) /\ pkt.type \notin {"ANTIPACKET", "ANTIPACKET_RESPONSE"}
      BY <2>1, <2>3 DEF pkt, rest
    <2>6. CASE ReceptionData(r, Top.id, pkt, rest)
      BY <1>3, <2>4, <2>6 DEF ReceptionData, Overhear, Deliver, Relay, dmVars
    <2>7. CASE ReceptionRequest(r, Top.id, pkt, rest)
      <3>1. Exit \/ UNCHANGED dmVars
        BY <2>7 DEF ReceptionRequest
      <3> QED
        BY <2>4, <3>1 DEF dmVars
    <2>8. CASE \/ ReceptionUtilDest(r, Top.id, pkt, rest)
               \/ ReceptionAvailDest(r, Top.id, pkt, rest)
               \/ ReceptionRequestContacts(r, Top.id, pkt, rest)
               \/ ReceptionDPT(r, Top.id, pkt, rest)
               \/ Summary(r, Top.id, pkt, rest)
      <3>1. UNCHANGED dmVars
        BY <2>8 DEF ReceptionUtilDest, ReceptionAvailDest, ReceptionRequestContacts,
           ReceptionDPT, Summary, ReceptionSummary, ReceptionSummaryEBR, Offer
      <3> QED
        BY <3>1 DEF dmVars
    <2>9. CASE ReceptionDirectSummary(r, Top.id, pkt, rest)
      BY <1>3, <2>9 DEF ReceptionDirectSummary, dmVars
    <2>10. CASE ReceptionDirectRequest(r, Top.id, pkt, rest)
      BY <1>3, <2>4, <2>10 DEF ReceptionDirectRequest, dmVars
    <2> QED
      BY <2>5, <2>6, <2>7, <2>8, <2>9, <2>10
         DEF recv, ReceptionAntipacket, ReceptionAntipacketResponse
  <1>6. CASE ContactDown \/ RecvFromApp \/ UNCHANGED swVars
    BY <1>6 DEF ContactDown, RecvFromApp, swVars, vars, dmVars
  <1>7. CASE Environment
    BY <1>7 DEF Environment, Tick, BeginContact, EndContact, TouchContact, Generate, Schedule,
       dmVars
  <1> QED
    BY <1>1, <1>4, <1>5, <1>6, <1>7 DEF SWNext, SWStep, SWContactUp, Originate

\* Who keeps more to itself owes less.
LEMMA LessOwed ==
    ASSUME NEW V, NEW n \in Nodes, V[n] \cap buffer'[n] \subseteq Waiting'[n], NEW m
    PROVE  /\ Over(n, m, V)' => Over(n, m, Waiting)'
           /\ Meeting(n, m, V)' => Meeting(n, m, Waiting)'
  <1>1. \A p \in Due(n, m, Waiting)' : p \in Due(n, m, V)'
    BY DEF Due, Alive
  <1> QED
    BY <1>1 DEF Over, Meeting, Offering

LEMMA StillUnderway ==
    ASSUME NEW V, V = Waiting, WaitKept, Underway(V)'
    PROVE  Underway(Waiting)'
  <1>1. \A n, m \in Nodes : /\ Over(n, m, V)' => Over(n, m, Waiting)'
                            /\ Meeting(n, m, V)' => Meeting(n, m, Waiting)'
    BY LessOwed DEF WaitKept
  <1>2. CASE evlist' = <<>>
    BY <1>2 DEF Underway
  <1>3. CASE \E base \in Seq(Contact_)' :
                /\ Stacked(base)' /\ base # <<>> /\ base[Len(base)].ev \in {"DOWN", "APP"}
    BY <1>3 DEF Underway
  <1>4. CASE \E n, m \in Nodes :
                /\ n # m
                /\ \/ evlist' = <<ContactEvent("UP", n, m), ContactEvent("UP", m, n)>>
                   \/ Stacked(<<ContactEvent("UP", n, m)>>)' /\ Meeting(m, n, V)'
                   \/ Stacked(<<>>)' /\ Meeting(n, m, V)' /\ Over(m, n, V)'
    BY <1>1, <1>4 DEF Underway
  <1> QED
    BY <1>2, <1>3, <1>4 DEF Underway

\* The inductive invariant of these protocols, for buffers without limit.
UnaidedInv ==
    Unaided => Conversation /\ Unrecorded /\ (BufferSize = 0 => Underway(Waiting))

LEMMA UnaidedInit == SWInit => UnaidedInv
  BY ConversationInit DEF SWInit, Init, UnaidedInv, Unrecorded, Underway

LEMMA UnaidedInvNext ==
    ASSUME WithinWindow, SInv, UnaidedInv, [SWNext]_swVars
    PROVE  UnaidedInv'
  <1>1. Set' = Set /\ BufferSize' = BufferSize /\ (Unaided' <=> Unaided)
    BY DEF SWNext, swVars, vars, BufferSize, Unaided, RT
  <1> SUFFICES ASSUME Unaided PROVE UnaidedInv'
    BY <1>1 DEF UnaidedInv
  <1>2. Conversation /\ Unrecorded
    BY DEF UnaidedInv
  <1>3. Conversation' /\ Unrecorded' /\ WaitKept
    BY <1>2, UnaidedNext, UnaidedUnrecorded
  <1>4. ASSUME BufferSize = 0 PROVE Underway(Waiting)'
    <2>1. PICK V : V = Waiting
      OBVIOUS
    <2>2. Underway(V)
      BY <1>4, <2>1 DEF UnaidedInv
    <2>3. IInv /\ SetOK /\ Flooding
      BY UnaidedFloods DEF SInv
    <2>4. CASE Environment
      <3>1. CASE evlist' = <<>>
        BY <3>1 DEF Underway
      <3>2. CASE ~(evlist' = <<>>)
        BY <2>4, <3>2, EnvironmentTalks
      <3> QED
        BY <1>3, <2>1, <3>1, <3>2, StillUnderway
    <2>5. CASE ContactUp \/ ContactDown \/ RecvFromApp
      <3>1. Underway(V)'
        BY <1>1, <1>2, <2>2, <2>3, <2>5, ContactTalks
      <3> QED
        BY <1>3, <2>1, <3>1, StillUnderway
    <2>6. CASE Receive
      <3>1. PICK r : Unhindered(r) /\ recv(r, Top.id, pool[Top.id], RestAfter(r))
        BY <1>1, <1>2, <2>6, UnaidedReceives
      <3>2. Receiving(r) /\ Onto(RestAfter(r))
        BY <3>1, UnaidedOnto DEF Unhindered, Hearing
      <3>3. \A n, m \in Nodes : Meeting(n, m, V) => GoesOn(n, m, V)
        BY <1>2, <1>4, <2>1, <3>1, UnaidedMeets
      <3>4. Underway(V)'
        BY <2>2, <3>2, <3>3, ReadTalks
      <3> QED
        BY <1>3, <2>1, <3>4, StillUnderway
    <2>7. CASE UNCHANGED swVars
      <3>1. Underway(V)'
        BY <2>2, <2>7, TalkingStill DEF swVars
      <3> QED
        BY <1>3, <2>1, <3>1, StillUnderway
    <2> QED
      BY <2>4, <2>5, <2>6, <2>7 DEF SWNext, SWStep, SWContactUp, Originate
  <1> QED
    BY <1>1, <1>3, <1>4 DEF UnaidedInv

\* When nothing is left of an exchange, each of the two nodes has what the
\* other could share.
LEMMA SprayEnds ==
    ASSUME SInv, SInv', UnaidedInv, UnaidedInv', WithinWindow, [SWNext]_swVars,
           Unaided, BufferSize = 0, TopIs("TX"), evlist' = <<>>
    PROVE  /\ MeetingOver(pool[Top.id].prev, pool[Top.id].next)
           /\ MeetingOver(pool[Top.id].next, pool[Top.id].prev)
  <1>1. /\ Conversation /\ Unrecorded /\ Underway(Waiting) /\ evlist # <<>> /\ Top.ev = "TX"
        /\ IInv /\ IInv'
    BY DEF UnaidedInv, TopIs, SInv
  <1>2. Receive /\ Set' = Set
    <2>1. evlist' # evlist
      BY <1>1
    <2>2. ~Environment
      BY <1>1 DEF Environment, Tick, BeginContact, EndContact, TouchContact, Generate, Schedule,
         Quiet
    <2> QED
      BY <1>1, <2>1, <2>2 DEF SWNext, SWStep, SWContactUp, ContactUp, ContactDown, Originate,
         RecvFromApp, TopIs, swVars, vars, msgVars
  <1>3. PICK V : V = Waiting
    OBVIOUS
  <1>4. WaitKept
    BY <1>1, UnaidedNext
  <1>5. PICK r : Unhindered(r) /\ recv(r, Top.id, pool[Top.id], RestAfter(r))
    BY <1>1, <1>2, UnaidedReceives
  <1>6. Receiving(r) /\ Onto(RestAfter(r)) /\ Frame
    BY <1>5, UnaidedOnto DEF Unhindered, Hearing
  <1>7. \A n, m \in Nodes : Meeting(n, m, V) => GoesOn(n, m, V)
    BY <1>1, <1>3, <1>5, UnaidedMeets
  <1>8. PICK n \in Nodes, m \in Nodes :
           /\ Over(n, m, V)' /\ Over(m, n, V)'
           /\ \/ pool[Top.id].prev = n /\ pool[Top.id].next = m
              \/ pool[Top.id].prev = m /\ pool[Top.id].next = n
    BY <1>1, <1>3, <1>6, <1>7, ExchangeEnds
  <1>9. ASSUME NEW x \in Nodes, NEW y \in Nodes, Over(x, y, V)' PROVE MeetingOver(x, y)
    <2>1. Over(x, y, Waiting)'
      BY <1>3, <1>4, <1>9, LessOwed DEF WaitKept
    <2> QED
      BY <1>6, <2>1, FrameFacts DEF Over, Due, MeetingOver, Served, Alive, Waiting
  <1> QED
    BY <1>8, <1>9

\* With Spray and Wait, and its variant by the most seen first, the exchange
\* of two nodes whose buffers have no limit is not over before each of them
\* has all that the other could share, or has received it.
THEOREM SprayingCompletes == WithinWindow => (SWSpec => SprayCompletes)
  <1> SUFFICES ASSUME WithinWindow PROVE SWSpec => SprayCompletes
    OBVIOUS
  <1>1. SInv /\ UnaidedInv /\ [SWNext]_swVars => SInv' /\ UnaidedInv'
    BY SprayNext, UnaidedInvNext
  <1>2. SWInit => SInv /\ UnaidedInv
    BY SprayInit, UnaidedInit
  <1>3. SInv /\ UnaidedInv /\ [SWNext]_swVars
        => [(RT \in {"SPRAYANDWAIT", "MSFSPRAYANDWAIT"} /\ BufferSize = 0
                /\ TopIs("TX") /\ evlist' = <<>> /\ ~halted')
              => LET pkt == pool[Top.id]
                 IN MeetingOver(pkt.prev, pkt.next) /\ MeetingOver(pkt.next, pkt.prev)]_swVars
    BY <1>1, SprayEnds DEF Unaided
  <1> QED
    BY <1>1, <1>2, <1>3, PTL DEF SWSpec, SprayCompletes

\* What holds of Epidemic's exchange holds of theirs: no handler ends the
\* program, no destination receives a packet twice if the mechanism forbids
\* it, no vaccinated node carries the packet, what nodes believe delivered is,
\* and no packet is sent after its time to live.
THEOREM UnaidedSafe ==
    WithinWindow =>
       (SWSpec => [](Unaided => NoError /\ NoDuplicates /\ Immunity /\ Truthful /\ NothingStale))
  <1>1. WithinWindow => (SInv /\ UnaidedInv /\ [SWNext]_swVars => SInv' /\ UnaidedInv')
    BY SprayNext, UnaidedInvNext
  <1>2. SWInit => SInv /\ UnaidedInv
    BY SprayInit, UnaidedInit
  <1>3. SInv /\ UnaidedInv
        => (Unaided => NoError /\ NoDuplicates /\ Immunity /\ Truthful /\ NothingStale)
    <2>1. SInv => IInv /\ SetOK
      BY DEF SInv
    <2>2. UnaidedInv /\ Unaided => Conversation
      BY DEF UnaidedInv
    <2> QED
      BY <2>1, <2>2, ConversationImplies
  <1>4. ASSUME WithinWindow
        PROVE  SWSpec => [](Unaided => NoError /\ NoDuplicates /\ Immunity /\ Truthful /\ NothingStale)
    BY <1>1, <1>2, <1>3, <1>4, PTL DEF SWSpec
  <1> QED
    BY <1>4
=============================================================================
