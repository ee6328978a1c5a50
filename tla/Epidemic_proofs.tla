-------------------------- MODULE Epidemic_proofs ---------------------------
(***************************************************************************)
(* Proofs about Epidemic routing for every network, traffic load, buffer   *)
(* size, time to live and deletion mechanism.  First, what holds of every  *)
(* protocol with this exchange: whatever is in transmission travels on a   *)
(* link that exists, so that no message is ever discarded, and the packet  *)
(* pool holds exactly what is in transmission, with access counters that   *)
(* are right.  Then what the exchange does to packets: no handler ends the *)
(* program, no destination receives a packet twice if the mechanism        *)
(* forbids it, no vaccinated node carries the packet, what nodes believe   *)
(* delivered is, and nothing is sent after its time.  Last, that an        *)
(* exchange without limits on the buffers leaves nothing out.              *)
(***************************************************************************)
EXTENDS Epidemic, Exchange_proofs

-----------------------------------------------------------------------------
(* Steps of the protocol and the stack.                                    *)

LEMMA ReceptionRequestKept ==
    ASSUME IInv, NEW r, Receiving(r),
           ReceptionRequest(r, Top.id, pool[Top.id], RestAfter(r))
    PROVE  Kept
  <1> DEFINE ids == pool[Top.id].ids
  <1> DEFINE live == IF ids = {} THEN buffer[r] ELSE Alive(buffer[r])
  <1>1. pool[Top.id].type # "DATA"
    BY DEF ReceptionRequest
  <1>2. r \in Nodes /\ buffer[r] \in SUBSET PktIDs /\ conn' \in [Nodes -> SUBSET Nodes]
    BY TopFacts DEF IInv, DataOK
  <1>3. live \in SUBSET PktIDs
    BY <1>2, BufferParts
  <1>4. CASE ids \subseteq live
    <2>1. PICK order \in Orders(ids) :
             Send(DataFor(r, pool[Top.id].prev, order, 1), {Top.id}, RestAfter(r))
      BY <1>4 DEF ReceptionRequest
    <2>2. /\ buffer' = [buffer EXCEPT ![r] = live]
          /\ UNCHANGED <<dmVars, statVars, halted>>
      BY <1>4 DEF ReceptionRequest
    <2>3. Sendable(DataFor(r, pool[Top.id].prev, order, 1), r, conn')
      BY <1>1, <1>2, ControlFacts, TypeFacts, SendableData DEF ReceptionRequest
    <2>4. DataOK'
      BY <1>2, <1>3, <2>2, BufferData DEF IInv
    <2> QED
      BY <1>1, <1>2, <2>1, <2>3, <2>4, ControlFacts, SendStack DEF Kept
  <1>5. CASE ~(ids \subseteq live)
    BY <1>5, ExitKept DEF ReceptionRequest
  <1> QED
    BY <1>4, <1>5

LEMMA RelayKept ==
    ASSUME IInv, NEW r, Receiving(r), pool[Top.id].type = "DATA",
           NEW p \in pool[Top.id].ids,
           Relay(r, Top.id, pool[Top.id], RestAfter(r), p)
    PROVE  Kept
  <1>1. r \in Nodes /\ p \in PktIDs /\ buffer[r] \in SUBSET PktIDs
    BY TopFacts, TypeFacts DEF Message, IsPacket, IInv, DataOK
  <1>2. CASE p \in Alive(buffer[r])
    BY <1>2, ExitKept DEF Relay
  <1>3. CASE p \notin Alive(buffer[r])
    <2>1. PICK b \in Added(buffer[r], p) : buffer' = [buffer EXCEPT ![r] = b]
      BY <1>3 DEF Relay
    <2>2. Access(Top.id, RestAfter(r)) /\ UNCHANGED <<dmVars, statVars, halted>>
      BY <1>3 DEF Relay
    <2>3. b \in SUBSET PktIDs
      BY <1>1, <2>1, BufferParts
    <2>4. DataOK'
      BY <1>1, <2>1, <2>2, <2>3, BufferData DEF IInv
    <2> QED
      BY <2>2, <2>4, AccessStack DEF Kept
  <1> QED
    BY <1>2, <1>3

\* The transmission on top is received.
LEMMA ReceiveKept == IInv /\ Receive => IInv'
  <1> SUFFICES ASSUME IInv, Receive PROVE IInv'
    OBVIOUS
  <1>1. TopIs("TX") /\ UNCHANGED netVars
    BY DEF Receive
  <1>2. PICK r \in Top.rcv :
           IF r \notin conn[Top.a] THEN Discard(r)
           ELSE IF Top.id \notin DOMAIN pool THEN Exit
           ELSE recv(r, Top.id, pool[Top.id], RestAfter(r))
    BY DEF Receive
  <1>3. Receiving(r)
    BY <1>1 DEF Receiving
  <1>4. r \in conn[Top.a] /\ Top.id \in DOMAIN pool
    BY <1>3, TopFacts
  <1>5. recv(r, Top.id, pool[Top.id], RestAfter(r))
    BY <1>2, <1>4
  <1>6. Kept
    <2>1. CASE ReceptionData(r, Top.id, pool[Top.id], RestAfter(r))
      BY <1>3, <2>1, OverhearKept, DeliverKept, RelayKept DEF ReceptionData
    <2> QED
      BY <1>3, <1>5, <2>1, DirectSummaryKept, DirectRequestKept, SummaryKept,
         ReceptionRequestKept, AntipacketKept, AntipacketResponseKept DEF recv
  <1>7. NetOK'
    BY <1>1 DEF IInv, NetOK, netVars
  <1>8. AppOK'
    BY <1>6 DEF Kept, NoApp, AppOK
  <1> QED
    BY <1>6, <1>7, <1>8 DEF Kept, IInv

LEMMA InvNext == IInv /\ [Next]_vars => IInv'
  <1>1. IInv /\ Next => IInv'
    BY EnvironmentKept, ContactUpKept, ContactDownKept, RecvFromAppKept, ReceiveKept
       DEF Next, Step
  <1>2. IInv /\ UNCHANGED vars => IInv'
    BY DEF vars, netVars, msgVars, dmVars, statVars, IInv, NetOK, DataOK, AppOK,
       StackOK, InTransit
  <1> QED
    BY <1>1, <1>2

LEMMA SettingsKept == Spec => []SetOK
  <1>1. Init => SetOK
    BY DEF Init, SetOK
  <1>2. SetOK /\ [Next]_vars => SetOK'
    BY DEF SetOK, Next, vars
  <1> QED
    BY <1>1, <1>2, PTL DEF Spec

\* The invariant holds, whatever the trace, the traffic and the settings.
THEOREM Invariance == Spec => []IInv
  BY InvInit, InvNext, PTL DEF Spec

\* Whatever is in transmission is on a link that exists, so that the validity
\* check of the simulator drops no message of an exchange.
THEOREM NothingLost == Spec => []LinksLive
  <1>1. IInv /\ SetOK => LinksLive
    BY InvImplies
  <1> QED
    BY <1>1, Invariance, SettingsKept, PTL

\* The packet pool neither leaks nor misses a packet, and access counters
\* are the receptions outstanding.
THEOREM PoolNeverLeaks == Spec => []PoolExact
  <1>1. IInv /\ SetOK => PoolExact
    BY InvImplies
  <1> QED
    BY <1>1, Invariance, SettingsKept, PTL

-----------------------------------------------------------------------------
(* The handlers and what the messages say.                                 *)

LEMMA Floods == SetOK => Replicating /\ Flooding
  BY RoutingAssumption, EpidemicAssumption
     DEF SetOK, Replicating, ByUtility, Flooding, RT, CongestionControl

\* Node n sends the packets that m asked for.
LEMMA RequestHeard ==
    ASSUME IInv, Conversation, Frame, NEW r, Receiving(r),
           ReceptionRequest(r, Top.id, pool[Top.id], RestAfter(r))
    PROVE  Conversation'
  <1> DEFINE pkt == pool[Top.id]
  <1> DEFINE live == IF pkt.ids = {} THEN buffer[r] ELSE Alive(buffer[r])
  <1>1. pkt.type = "REQUEST"
    BY DEF ReceptionRequest
  <1>2. r \in Nodes /\ Top.id \in DOMAIN pool /\ pkt.type # "DATA"
    BY <1>1, TopFacts
  <1>3. PICK n \in Nodes, m \in Nodes : Exchanging(n, m)
    BY <1>2 DEF Conversation
  <1>4. ControlRight(pkt, n, m)
    BY <1>2, <1>3 DEF Exchanging, IsData
  <1>5. /\ pkt.prev = m /\ pkt.next = n /\ DirectOnly(m) /\ n # m
        /\ pkt.ids \subseteq Known
        /\ \A p \in pkt.ids : Offered(n, p) /\ origin[p].dst # m /\ Welcome(m, p)
    BY <1>1, <1>3, <1>4 DEF ControlRight, DeliveryRight, UtilityRight, Ask, Exchanging
  <1>6. r = n
    BY <1>2, <1>5, ControlStep DEF Conversation
  <1>7. DataOK /\ pkt.ids \in SUBSET PktIDs /\ buffer[n] \in SUBSET PktIDs
    BY <1>1, <1>2, ControlFacts, TypeFacts DEF IInv, DataOK
  <1>8. pkt.ids \subseteq live
    BY <1>5, <1>6 DEF Offered, Alive
  <1>9. /\ \E order \in Orders(pkt.ids) :
               Send(DataFor(r, pkt.prev, order, 1), {Top.id}, RestAfter(r))
        /\ buffer' = [buffer EXCEPT ![r] = live]
        /\ UNCHANGED <<dmVars, statVars, halted>>
    BY <1>8 DEF ReceptionRequest
  <1>10. PICK order \in Orders(pkt.ids) :
            Send(DataFor(n, m, order, 1), {Top.id}, RestAfter(r))
    BY <1>5, <1>6, <1>9
  <1>11. \A x \in Nodes : buffer'[x] \subseteq buffer[x]
    BY <1>2, <1>7, <1>9 DEF DataOK, Alive
  <1> HIDE DEF live
  <1> QED
    BY <1>2, <1>3, <1>5, <1>7, <1>9, <1>10, <1>11, PacketsSent

\* A node that stores the packet and carries it on.
LEMMA RelayHeard ==
    ASSUME IInv, Conversation, Frame, NEW r, Receiving(r), pool[Top.id].type = "DATA",
           NEW p \in pool[Top.id].ids, Relay(r, Top.id, pool[Top.id], RestAfter(r), p)
    PROVE  Conversation'
  <1>1. pool[Top.id].next = r /\ origin[p].dst # r
    BY DEF Relay
  <1>2. p \notin Alive(buffer[r])
    BY <1>1, PacketStored DEF Alive
  <1>3. /\ \E b \in Added(buffer[r], p) : buffer' = [buffer EXCEPT ![r] = b]
        /\ Access(Top.id, RestAfter(r)) /\ UNCHANGED <<dmVars, statVars, halted>>
    BY <1>2 DEF Relay
  <1> QED
    BY <1>1, <1>3, PacketStored

\* A reception keeps the conversation right; in particular no handler ends
\* the program.
LEMMA ReceiveHeard == IInv /\ SetOK /\ Conversation /\ Receive /\ UNCHANGED Set => Conversation'
  <1> SUFFICES ASSUME IInv, SetOK, Conversation, Receive, UNCHANGED Set PROVE Conversation'
    OBVIOUS
  <1>1. TopIs("TX") /\ UNCHANGED netVars
    BY DEF Receive
  <1>2. PICK r \in Top.rcv :
           IF r \notin conn[Top.a] THEN Discard(r)
           ELSE IF Top.id \notin DOMAIN pool THEN Exit
           ELSE recv(r, Top.id, pool[Top.id], RestAfter(r))
    BY DEF Receive
  <1>3. Receiving(r) /\ Frame
    BY <1>1 DEF Receiving, Frame, netVars
  <1>4. r \in conn[Top.a] /\ Top.id \in DOMAIN pool /\ Replicating
    BY <1>3, TopFacts, Floods
  <1>5. recv(r, Top.id, pool[Top.id], RestAfter(r))
    BY <1>2, <1>4
  <1>6. CASE ReceptionData(r, Top.id, pool[Top.id], RestAfter(r))
    BY <1>3, <1>4, <1>6, OverhearHeard, DeliverHeard, RelayHeard DEF ReceptionData
  <1> QED
    BY <1>3, <1>4, <1>5, <1>6, DirectSummaryHeard, DirectRequestHeard, SummaryHeard,
       RequestHeard, AntipacketHeard, AntipacketResponseHeard DEF recv

LEMMA ConversationNext == IInv /\ SetOK /\ Conversation /\ [Next]_vars => Conversation'
  <1> SUFFICES ASSUME IInv, SetOK, Conversation, [Next]_vars PROVE Conversation'
    OBVIOUS
  <1>1. IInv'
    BY InvNext
  <1>2. CASE Next
    BY <1>1, <1>2, Floods, SMTT(40), EnvironmentHeard, ContactUpHeard, ContactDownHeard, RecvFromAppHeard,
       ReceiveHeard DEF Next, Step
  <1>3. CASE UNCHANGED vars
    BY <1>3, ConversationStill
  <1> QED
    BY <1>2, <1>3

-----------------------------------------------------------------------------
(* The theorems.                                                           *)

\* Whatever is in transmission belongs to one exchange, which goes by the rules.
THEOREM OneExchange == Spec => []Conversation
  <1>1. Init => Conversation
    BY ConversationInit
  <1>2. IInv /\ SetOK /\ Conversation /\ [Next]_vars => Conversation'
    BY ConversationNext
  <1> QED
    BY <1>1, <1>2, Invariance, SettingsKept, PTL DEF Spec

\* The variables keep their types, and the pool holds packets of the exchange
\* only.
THEOREM TypeCorrect == Spec => []TypeOK
  <1>1. IInv /\ SetOK /\ Conversation => TypeOK
    <2> SUFFICES ASSUME IInv, SetOK, Conversation PROVE TypeOK
      OBVIOUS
    <2> RT = "EPIDEMIC"
      BY EpidemicAssumption DEF SetOK, RT
    <2>1. ASSUME NEW id \in DOMAIN pool PROVE pool[id].type \in Types
      <3>1. CASE IsData(id)
        BY <3>1, TypeFacts DEF IsData
      <3>2. CASE ~IsData(id)
        BY <3>2, TypeFacts DEF Conversation, Exchanging, ControlRight,
           DeliveryRight, UtilityRight, ByUtility
      <3> QED
        BY <3>1, <3>2
    <2>2. \A id \in DOMAIN pool : pool[id] \in Message
      BY <2>1 DEF IInv, StackOK, IsPacket
    <2> QED
      BY <2>2, InvImplies DEF TypeOK
  <1> QED
    BY <1>1, OneExchange, Invariance, SettingsKept, PTL

\* No handler ends the program with an error.
THEOREM NeverAborts == Spec => []NoError
  <1>1. IInv /\ SetOK /\ Conversation => NoError
    BY ConversationImplies
  <1> QED
    BY <1>1, OneExchange, Invariance, SettingsKept, PTL

\* With a mechanism against duplicates no destination receives a packet twice.
THEOREM NeverTwice == Spec => []NoDuplicates
  <1>1. IInv /\ SetOK /\ Conversation => NoDuplicates
    BY ConversationImplies
  <1> QED
    BY <1>1, OneExchange, Invariance, SettingsKept, PTL

\* A vaccinated node does not carry the packet.
THEOREM AlwaysImmune == Spec => []Immunity
  <1>1. IInv /\ SetOK /\ Conversation => Immunity
    BY ConversationImplies
  <1> QED
    BY <1>1, OneExchange, Invariance, SettingsKept, PTL

\* What nodes believe delivered is, when the instant is over.
THEOREM AlwaysTruthful == Spec => []Truthful
  <1>1. IInv /\ SetOK /\ Conversation => Truthful
    BY ConversationImplies
  <1> QED
    BY <1>1, OneExchange, Invariance, SettingsKept, PTL

\* No packet is sent after its time to live.
THEOREM NeverStale == Spec => []NothingStale
  <1>1. IInv /\ SetOK /\ Conversation => NothingStale
    BY ConversationImplies
  <1> QED
    BY <1>1, OneExchange, Invariance, SettingsKept, PTL

-----------------------------------------------------------------------------
(* An exchange leaves nothing out, and no node keeps a packet to itself.   *)

Nothing == [x \in Nodes |-> {}]

\* Node n sends all that m asked for.
LEMMA RequestMeets ==
    ASSUME NEW r, NEW n, NEW m, Hears(r, n, m, Nothing),
           ReceptionRequest(r, Top.id, pool[Top.id], RestAfter(r))
    PROVE  GoesOn(n, m, Nothing)
  <1> DEFINE pkt == pool[Top.id]
  <1> DEFINE live == IF pkt.ids = {} THEN buffer[r] ELSE Alive(buffer[r])
  <1>1. pkt.type = "REQUEST"
    BY DEF ReceptionRequest
  <1>2. /\ Top.id \in DOMAIN pool /\ pkt.type # "DATA" /\ n # m
        /\ pkt.prev = m /\ r = n /\ n \in Nodes /\ m \in Nodes
        /\ \A p \in pkt.ids : Offered(n, p) /\ origin[p].dst # m
    BY <1>1, HearsFacts DEF DeliveryRight, Ask, Hears
  <1>3. pkt.ids \in SUBSET PktIDs
    BY <1>1, <1>2, ControlFacts, TypeFacts DEF Hears
  <1>4. pkt.ids \subseteq live
    BY <1>2 DEF Offered, Alive
  <1>5. /\ \E order \in Orders(pkt.ids) :
               Send(DataFor(r, pkt.prev, order, 1), {Top.id}, RestAfter(r))
        /\ buffer' = [buffer EXCEPT ![r] = live]
        /\ UNCHANGED <<dmVars, statVars, halted>>
    BY <1>4 DEF ReceptionRequest
  <1>6. PICK order \in Orders(pkt.ids) : Send(DataFor(n, m, order, 1), {Top.id}, RestAfter(r))
    BY <1>2, <1>5
  <1>7. /\ live \subseteq buffer[n] /\ \A p \in buffer[n] : IsAlive(p) => p \in live
        /\ buffer' = [buffer EXCEPT ![n] = live] /\ received' = received /\ god' = god
    BY <1>2, <1>5 DEF Alive, statVars, dmVars
  <1> HIDE DEF live, pkt
  <1>8. DataSent(n, m, pkt.ids, <<>>, {Top.id}, RestAfter(r))
    <2>1. /\ m \in conn'[n] /\ conn' \in [Nodes -> SUBSET Nodes]
          /\ StackOK(RestAfter(r), [i \in DOMAIN pool \ {Top.id} |-> pool[i]],
                     conn', variousIDs)
          /\ OnlyData(RestAfter(r), pool) /\ SetOK /\ Frame
      BY <1>2, HearsFacts, TopFacts, ControlFacts, ControlStep DEF Hears, Flooding, pkt
    <2>2. 1 \in Nat
      OBVIOUS
    <2> QED
      BY <1>2, <1>3, <1>6, <2>1, <2>2, DataAlone
  <1>9. \E out : out = pool[Top.id].ids
    OBVIOUS
  <1> QED
    BY <1>1, <1>2, <1>7, <1>8, <1>9, SentMeets DEF pkt

\* A node that stores the packet and carries it on.
LEMMA RelayMeets ==
    ASSUME NEW r, NEW n, NEW m, Hears(r, n, m, Nothing), pool[Top.id].type = "DATA",
           BufferSize = 0, ~halted',
           NEW p \in pool[Top.id].ids, Relay(r, Top.id, pool[Top.id], RestAfter(r), p)
    PROVE  GoesOn(n, m, Nothing)
  <1>1. /\ pool[Top.id].next = r /\ origin[p].dst # r
        /\ \E b \in Added(buffer[r], p) : buffer' = [buffer EXCEPT ![r] = b]
        /\ Access(Top.id, RestAfter(r))
        /\ UNCHANGED <<dmVars, statVars, halted>>
    BY DEF Relay, Exit
  <1> QED
    BY <1>1, StoredMeets

\* No reception breaks off the exchange.
LEMMA ReceiveMeets ==
    ASSUME IInv, SetOK, Conversation, Conversation', Receive, UNCHANGED Set, BufferSize = 0, Unrecorded,
           NEW n \in Nodes, NEW m \in Nodes, Meeting(n, m, Nothing)
    PROVE  GoesOn(n, m, Nothing)
  <1>1. TopIs("TX") /\ UNCHANGED netVars
    BY DEF Receive
  <1>2. PICK r \in Top.rcv :
           IF r \notin conn[Top.a] THEN Discard(r)
           ELSE IF Top.id \notin DOMAIN pool THEN Exit
           ELSE recv(r, Top.id, pool[Top.id], RestAfter(r))
    BY DEF Receive
  <1>3. Receiving(r) /\ Frame
    BY <1>1 DEF Receiving, Frame, netVars
  <1>4. recv(r, Top.id, pool[Top.id], RestAfter(r))
    BY <1>2, <1>3, TopFacts
  <1>5. Hears(r, n, m, Nothing)
    BY <1>3, Floods DEF Hears
  <1>6. ~halted'
    BY DEF Conversation, StoredOK
  <1>7. CASE ReceptionData(r, Top.id, pool[Top.id], RestAfter(r))
    <2>1. pool[Top.id].type = "DATA"
      BY <1>7 DEF ReceptionData
    <2>2. CASE Overhear(r, Top.id, pool[Top.id], RestAfter(r))
      BY <1>5, <2>1, <2>2, OverhearMeets
    <2>3. CASE \E p \in pool[Top.id].ids : Deliver(r, Top.id, pool[Top.id], RestAfter(r), p)
      BY <1>5, <1>6, <2>1, <2>3, DeliverMeets
    <2>4. CASE \E p \in pool[Top.id].ids : Relay(r, Top.id, pool[Top.id], RestAfter(r), p)
      BY <1>5, <1>6, <2>1, <2>4, RelayMeets
    <2> QED
      BY <1>7, <2>2, <2>3, <2>4 DEF ReceptionData
  <1> QED
    BY <1>4, <1>5, <1>7, DirectSummaryMeets, DirectRequestMeets, SummaryMeets, RequestMeets,
       AntipacketMeets, AntipacketResponseMeets DEF recv

\* The mechanism that spreads what it knows at once goes on without records.
LEMMA UnrecordedNext ==
    ASSUME IInv, SetOK, Conversation, [Next]_vars, Unrecorded
    PROVE  Unrecorded'
  <1>1. Set' = Set /\ DelMech' = DelMech
    BY DEF Next, vars, DelMech
  <1> SUFFICES ASSUME DelMech = "CATACLYSM" PROVE delivered' = delivered
    BY <1>1 DEF Unrecorded
  <1>2. ~KeepsDelivered
    BY DEF KeepsDelivered
  <1>3. \A x, ps : SetAsDelivered(x, ps) => delivered' = delivered
    BY <1>2 DEF SetAsDelivered
  <1>4. CASE ContactUp
    BY <1>3, <1>4 DEF ContactUp, Contact, SendDirectSummary, SendDirectPackets, dmVars
  <1>5. CASE Receive
    <2>1. TopIs("TX") /\ UNCHANGED netVars
      BY <1>5 DEF Receive
    <2>2. PICK r \in Top.rcv :
             IF r \notin conn[Top.a] THEN Discard(r)
             ELSE IF Top.id \notin DOMAIN pool THEN Exit
             ELSE recv(r, Top.id, pool[Top.id], RestAfter(r))
      BY <1>5 DEF Receive
    <2>3. Receiving(r)
      BY <2>1 DEF Receiving
    <2>4. recv(r, Top.id, pool[Top.id], RestAfter(r)) /\ Top.id \in DOMAIN pool
      BY <2>2, <2>3, TopFacts
    <2>5. pool[Top.id].type \notin {"ANTIPACKET", "ANTIPACKET_RESPONSE"}
      <3>1. PICK n, m : Exchanging(n, m)
        BY <2>4 DEF Conversation
      <3>2. ~ByUtility
        BY EpidemicAssumption DEF SetOK, ByUtility, RT
      <3>3. ~IsData(Top.id) => DeliveryRight(pool[Top.id], n, m)
        BY <2>4, <3>1, <3>2 DEF Exchanging, ControlRight, UtilityRight
      <3> QED
        BY <3>3 DEF DeliveryRight, IsData
    <2>6. Exit => delivered' = delivered
      BY DEF Exit, dmVars
    <2> QED
      BY <1>3, <2>4, <2>5, <2>6 DEF recv, ReceptionData, Overhear, Deliver, Relay,
         ReceptionDirectSummary, ReceptionDirectRequest, ReceptionSummary, ReceptionRequest,
         ReceptionAntipacket, ReceptionAntipacketResponse, dmVars
  <1>6. CASE ContactDown \/ RecvFromApp \/ UNCHANGED vars
    BY <1>6 DEF ContactDown, RecvFromApp, vars, dmVars
  <1>7. CASE Environment
    BY <1>7 DEF Environment, Tick, BeginContact, EndContact, TouchContact, Generate, Schedule,
       dmVars
  <1> QED
    BY <1>4, <1>5, <1>6, <1>7 DEF Next, Step

\* A reception puts transmissions on top.
LEMMA ReceiveOnto ==
    ASSUME IInv, SetOK, Conversation', Receive
    PROVE  \E r : Receiving(r) /\ Onto(RestAfter(r))
  <1>1. TopIs("TX") /\ UNCHANGED netVars
    BY DEF Receive
  <1>2. PICK r \in Top.rcv :
           IF r \notin conn[Top.a] THEN Discard(r)
           ELSE IF Top.id \notin DOMAIN pool THEN Exit
           ELSE recv(r, Top.id, pool[Top.id], RestAfter(r))
    BY DEF Receive
  <1>3. Receiving(r)
    BY <1>1 DEF Receiving
  <1>4. recv(r, Top.id, pool[Top.id], RestAfter(r)) /\ r \in Nodes /\ Top.id \in DOMAIN pool
    BY <1>2, <1>3, TopFacts
  <1>5. ~halted'
    BY DEF Conversation, StoredOK
  <1> Flooding
    BY Floods
  <1> DEFINE rest == RestAfter(r)
  <1> DEFINE pkt == pool[Top.id]
  <1>6. pkt.type \in Types \ {"DATA"} => pkt.ids \in SUBSET PktIDs
    BY <1>3, ControlFacts
  <1>7. buffer[r] \in SUBSET PktIDs
    BY <1>4 DEF IInv, DataOK
  <1>8. \E S : rest \in Seq(S)
    <2>1. evlist \in Seq(Event) /\ evlist # <<>>
      BY <1>1 DEF TopIs, IInv, StackOK
    <2>2. PICK e : e = [Top EXCEPT !.rcv = @ \ {r}]
      OBVIOUS
    <2>3. PICK S : S = Event \cup {e}
      OBVIOUS
    <2>4. Tail(evlist) \in Seq(S) /\ <<e>> \in Seq(S)
      BY <2>1, <2>3
    <2>5. <<e>> \o Tail(evlist) \in Seq(S)
      BY <2>4, ConcatProperties
    <2>6. rest = Tail(evlist) \/ rest = <<e>> \o Tail(evlist)
      BY <2>2 DEF RestAfter
    <2> QED
      BY <2>4, <2>5, <2>6
  <1> HIDE DEF rest, pkt
  <1>9. recv(r, Top.id, pkt, rest)
    BY <1>4 DEF rest, pkt
  <1>10. ASSUME Access(Top.id, rest) PROVE Onto(rest)
    <2>1. evlist' = <<>> \o rest
      BY <1>8, <1>10, ConcatEmptySeq DEF Access
    <2>2. OnAir(<<>>)
      <3>1. PICK S : S = {e \in Event : e.ev = "TX"}
        OBVIOUS
      <3>2. <<>> \in Seq(S) /\ \A e \in S : e.ev = "TX"
        BY <3>1
      <3> QED
        BY <3>2 DEF OnAir
    <2> QED
      BY <2>1, <2>2 DEF Onto
  <1>11. Onto(rest)
    <2>1. CASE ReceptionData(r, Top.id, pkt, rest)
      BY <1>5, <1>10, <2>1 DEF ReceptionData, Overhear, Deliver, Relay, Exit
    <2>2. CASE \/ ReceptionDirectSummary(r, Top.id, pkt, rest)
                \/ ReceptionSummary(r, Top.id, pkt, rest)
                \/ ReceptionAntipacket(r, Top.id, pkt, rest)
      BY <2>2, ControlOnto DEF ReceptionDirectSummary, ReceptionSummary, ReceptionAntipacket
    <2>3. CASE ReceptionAntipacketResponse(r, Top.id, pkt, rest)
      <3>1. Cleaned(buffer[r], delivered[r] \cup pkt.ids) \in SUBSET PktIDs
        BY <1>7 DEF Cleaned
      <3> QED
        BY <2>3, <3>1, DirectOnto DEF ReceptionAntipacketResponse
    <2>4. CASE ReceptionDirectRequest(r, Top.id, pkt, rest)
      <3>1. pkt.ids \in SUBSET PktIDs
        BY <1>6, <2>4, TypeFacts DEF ReceptionDirectRequest
      <3>2. \E order \in Orders(pkt.ids) : \E left :
               Send(DataFor(r, pkt.prev, order, 1) \o Proceed(r, pkt.prev, left), {Top.id}, rest)
        BY <1>5, <2>4 DEF ReceptionDirectRequest, Exit
      <3> QED
        BY <3>1, <3>2, ProceedOnto
    <2>5. CASE ReceptionRequest(r, Top.id, pkt, rest)
      <3>1. pkt.ids \in SUBSET PktIDs
        BY <1>6, <2>5, TypeFacts DEF ReceptionRequest
      <3>2. PICK order \in Orders(pkt.ids) : Send(DataFor(r, pkt.prev, order, 1), {Top.id}, rest)
        BY <1>5, <2>5 DEF ReceptionRequest, Exit
      <3>3. PICK U : DataFor(r, pkt.prev, order, 1) \in Seq(U)
        BY <3>1, DataOnto
      <3> QED
        BY <3>2, <3>3, SentOnto
    <2> QED
      BY <1>9, <2>1, <2>2, <2>3, <2>4, <2>5 DEF recv
  <1> QED
    BY <1>3, <1>11 DEF rest

LEMMA ReceiveTalks ==
    ASSUME IInv, SetOK, Conversation, Conversation', Receive, UNCHANGED Set, BufferSize = 0,
           Unrecorded, Underway(Nothing)
    PROVE  Underway(Nothing)'
  <1>1. PICK r : Receiving(r) /\ Onto(RestAfter(r))
    BY ReceiveOnto
  <1>2. \A n, m \in Nodes : Meeting(n, m, Nothing) => GoesOn(n, m, Nothing)
    BY ReceiveMeets
  <1> HIDE DEF Nothing
  <1> QED
    BY <1>1, <1>2, ReadTalks

\* The inductive invariant, for buffers without limit.
MeetInv == Unrecorded /\ (BufferSize = 0 => Underway(Nothing))

LEMMA MeetInit == Init => MeetInv
  BY DEF Init, MeetInv, Unrecorded, Underway

LEMMA MeetNext == IInv /\ SetOK /\ Conversation /\ MeetInv /\ [Next]_vars => MeetInv'
  <1> SUFFICES ASSUME IInv, SetOK, Conversation, MeetInv, [Next]_vars PROVE MeetInv'
    OBVIOUS
  <1>1. Unrecorded'
    BY UnrecordedNext DEF MeetInv
  <1>2. Conversation'
    BY ConversationNext
  <1>3. Set' = Set /\ BufferSize' = BufferSize
    BY DEF Next, vars, BufferSize
  <1>4. ASSUME BufferSize = 0 PROVE Underway(Nothing)'
    <2>1. Underway(Nothing) /\ Unrecorded
      BY <1>4 DEF MeetInv
    <2>2. CASE Environment
      <3>1. CASE evlist' = <<>>
        BY <3>1 DEF Underway
      <3> QED
        BY <2>2, <3>1, EnvironmentTalks
    <2>3. CASE ContactUp \/ ContactDown \/ RecvFromApp
      BY <1>3, <2>1, <2>3, Floods, ContactTalks
    <2>4. CASE Receive
      BY <1>2, <1>3, <1>4, <2>1, <2>4, ReceiveTalks
    <2>5. CASE UNCHANGED vars
      BY <2>1, <2>5, TalkingStill
    <2> QED
      BY <2>2, <2>3, <2>4, <2>5 DEF Next, Step
  <1> QED
    BY <1>1, <1>3, <1>4 DEF MeetInv

\* When nothing is left of an exchange, each of the two nodes has what the
\* other has.
LEMMA MeetingEnds ==
    ASSUME IInv, SetOK, Conversation, MeetInv, [Next]_vars,
           BufferSize = 0, TopIs("TX"), evlist' = <<>>
    PROVE  /\ MeetingOver(pool[Top.id].prev, pool[Top.id].next)
           /\ MeetingOver(pool[Top.id].next, pool[Top.id].prev)
  <1>1. Underway(Nothing) /\ Unrecorded /\ evlist # <<>> /\ Top.ev = "TX"
    BY DEF MeetInv, TopIs
  <1>2. Receive /\ Set' = Set
    <2>1. evlist' # evlist
      BY <1>1
    <2>2. ~Environment
      BY <1>1 DEF Environment, Tick, BeginContact, EndContact, TouchContact, Generate, Schedule,
         Quiet
    <2> QED
      BY <1>1, <2>1, <2>2 DEF Next, Step, ContactUp, ContactDown, RecvFromApp, TopIs, vars, msgVars
  <1>3. IInv' /\ Conversation'
    BY InvNext, ConversationNext
  <1>4. PICK r : Receiving(r) /\ Onto(RestAfter(r))
    BY <1>2, <1>3, ReceiveOnto
  <1>5. \A n, m \in Nodes : Meeting(n, m, Nothing) => GoesOn(n, m, Nothing)
    BY <1>1, <1>2, <1>3, ReceiveMeets
  <1>6. PICK n \in Nodes, m \in Nodes :
           /\ Over(n, m, Nothing)' /\ Over(m, n, Nothing)'
           /\ \/ pool[Top.id].prev = n /\ pool[Top.id].next = m
              \/ pool[Top.id].prev = m /\ pool[Top.id].next = n
    BY <1>1, <1>3, <1>4, <1>5, ExchangeEnds
  <1>7. Frame
    BY <1>2, <1>4 DEF Frame, Receive, Receiving, netVars
  <1>8. ASSUME NEW x \in Nodes, NEW y \in Nodes, Over(x, y, Nothing)' PROVE MeetingOver(x, y)
    BY <1>7, <1>8, FrameFacts DEF Over, Due, MeetingOver, Served, Alive, Nothing
  <1> QED
    BY <1>6, <1>8

\* The exchange of two nodes whose buffers have no limit is not over before
\* each of them has all that the other has, or has received it.
THEOREM MeetingsComplete == Spec => MeetingCompletes
  <1>1. IInv /\ SetOK /\ Conversation /\ MeetInv /\ [Next]_vars
        => [(BufferSize = 0 /\ TopIs("TX") /\ evlist' = <<>> /\ ~halted')
              => LET pkt == pool[Top.id]
                 IN MeetingOver(pkt.prev, pkt.next) /\ MeetingOver(pkt.next, pkt.prev)]_vars
    BY MeetingEnds
  <1>2. Spec => []MeetInv
    BY MeetInit, MeetNext, Invariance, SettingsKept, OneExchange, PTL DEF Spec
  <1> QED
    BY <1>1, <1>2, Invariance, SettingsKept, OneExchange, PTL DEF Spec, MeetingCompletes
=============================================================================
